CONSTANTS
  c1 = c1
  Timer = Timer
  Clients = {c1}
  Profits <- GainsAndLosses
  threshold_eth = 2
  max_transfer_eth = 3
  Cooldown = 2
  MaxProfit = 5
  MaxMoved = 14
SPECIFICATION FairSpec
INVARIANT SweepSound
PROPERTIES
  CooldownKept
  ProfitIsSwept
CHECK_DEADLOCK FALSE
