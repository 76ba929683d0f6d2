------------------------ MODULE MCGovernanceExecutor ------------------------
(* Constants for model checking GovernanceExecutor.                          *)
EXTENDS GovernanceExecutor, TLC

CONSTANTS v1, v2

OrdinaryAndEmergency == {"CapitalAllocation", "EmergencyAction"}
OnePower  == {1}
TwoPowers == {1, 2}

VoterSymmetry == Permutations(Voters)

=============================================================================
