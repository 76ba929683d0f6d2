CONSTANTS
  v1 = v1
  v2 = v2
  Voters = {v1, v2}
  Types <- OrdinaryAndEmergency
  Powers <- OnePower
  ProposalThreshold = 1
  QuorumPercent = 15
  ApprovalPercent = 50
  VotingPeriod = 1
  TimelockDelay = 1
  ExecutionDelay = 1
  MaxProposals = 1
  MaxVotes = 3
  MaxTime = 4
  MaxWait = 1
SYMMETRY VoterSymmetry
SPECIFICATION Spec
INVARIANT CountedIsRecorded
CHECK_DEADLOCK FALSE
