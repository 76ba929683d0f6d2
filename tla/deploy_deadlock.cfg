CONSTANTS
  r1 = r1
  r2 = r2
  Requests = {r1}
  NoOne = NoOne
  ChiefArchitectApproved = TRUE
  PanicAborts = TRUE
SPECIFICATION FairSpec
PROPERTY AutonomousRunEnds
CHECK_DEADLOCK FALSE
