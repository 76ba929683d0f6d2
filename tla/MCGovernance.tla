---------------------------- MODULE MCGovernance ----------------------------
(***************************************************************************)
(* Constants for model checking the two implementations of ProposalLife,   *)
(* the off-chain executor and the on-chain governor.  They share no state; *)
(* a behaviour of the model is a behaviour of the one in focus.            *)
(***************************************************************************)
EXTENDS MCGovernanceExecutor, Governor

CONSTANTS a1, a2

VARIABLE focus

BothInit ==
  /\ focus \in {"executor", "governor"}
  /\ Init
  /\ GovernorInit

BothNext ==
  \/ focus = "executor" /\ Next /\ UNCHANGED <<focus, governorVars>>
  \/ focus = "governor" /\ GovernorNext /\ UNCHANGED <<focus, vars>>

BothSpec == BothInit /\ [][BothNext]_<<focus, vars, governorVars>>
=============================================================================
