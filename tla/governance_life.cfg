CONSTANTS
  v1 = v1
  v2 = v2
  Voters = {v1, v2}
  Types <- OrdinaryAndEmergency
  Powers <- TwoPowers
  ProposalThreshold = 1
  QuorumPercent = 15
  ApprovalPercent = 50
  VotingPeriod = 1
  TimelockDelay = 1
  ExecutionDelay = 1
  MaxProposals = 1
  MaxVotes = 3
  MaxTime = 5
  MaxWait = 1
  a1 = a1
  a2 = a2
  Accounts = {a1, a2}
  Proposers = {a1}
  Cancellers = {a1}
  Weights = {1, 2}
  QUORUM_THRESHOLD = 2
  VOTING_DELAY = 1
  VOTING_PERIOD = 2
  TIMELOCK_DELAY = 1
  Genesis = 10
  MaxHeight = 5
  MaxBallots = 1
  MaxCheckpoints = 2
SYMMETRY VoterSymmetry
SPECIFICATION BothSpec
INVARIANTS
  TypeOK
  ExecutedLawfully
  RecordedIsCounted
  GovernorSound
PROPERTIES
  ExecutorKeepsPromise
  StateMovesForward
  GovernorKeepsPromise
  VoteCarriesPower
CHECK_DEADLOCK FALSE
