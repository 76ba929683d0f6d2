CONSTANTS
  r1 = r1
  r2 = r2
  Requests = {r1, r2}
  NoOne = NoOne
  ChiefArchitectApproved = FALSE
  PanicAborts = TRUE
SPECIFICATION FairSpec
INVARIANTS
  DeploymentSound
  LiveIsAuthorized
PROPERTIES
  StageOrder
  WorkflowEnds
CHECK_DEADLOCK FALSE
