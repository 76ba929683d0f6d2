CONSTANTS
  p1 = p1
  p2 = p2
  Proposals = {p1, p2}
  proposal_type <- TwoTypes
  CustomDelays = {3}
  Tasks = {t1, t2}
  None = None
  min_delay = 1
  max_delay = 2
  grace_period = 1
  EmergencyPart = 2
  MaxLag = 1
  MaxClock = 4
  MaxPending = 2
  MaxCount = 2
  Trades = {g1, g2}
  Amounts = {0, 1, 2}
  ProfitCaps = {0, 3}
  LossLimits = {2, 3}
  MaxConsecutive = 1
  Specialists = {s1}
  MaxDays = 1
  NotOpen = NotOpen
  Callers = {c1, c2}
  Hashes = {h1, h2}
  Runners = {r1}
  Metrics = {"win", "risk"}
  Readings = {0, 1}
  Default = 0
  MaxCalls = 3
  Nothing = Nothing
  Clones = {e1, e2}
  Offenders = {o1}
  Terms = {1, 2}
  AppealPeriod = 1
  MaxBlock = 2
  MaxOffences = 3
  Relays = {x1, x2}
  SyncedProposals = {p1}
  Delays = {1, 2}
  MaxDrift = 1
  MaxNow = 2
  MaxSent = 2
  MaxApplied = 4
  Clients = {k1, k2}
  Directives <- SampleDirectives
  CycleGrades <- SampleGrades
  MaxRecords = 3
  NoStatus = NoStatus
SPECIFICATION OversightSpec
INVARIANTS
  GuardrailsSound
  FleetSound
  SlashingSound
  CrossChainSound
  SovereignSound
  TimelockSound
PROPERTY WithinWindow
CHECK_DEADLOCK FALSE
