---------------------------- MODULE MCOversight -----------------------------
(***************************************************************************)
(* Constants for model checking what watches over the fleet: the           *)
(* guardrails, the fleet's records, slashing, cross-chain sync, the audit  *)
(* layers and the timelock.  They share no state; a behaviour of the model *)
(* is one of the component in focus.                                       *)
(***************************************************************************)
EXTENDS Timelock, Guardrails, Fleet, Slashing, CrossChainSync, SovereignAudit, TLC

CONSTANTS p1, p2

VARIABLE focus

(* For the timelock: an emergency action and a policy update. *)
TwoTypes == (p1 :> "EmergencyAction") @@ (p2 :> "PolicyUpdate")

(* Directives: three of the engine's switches, an aligned one in small       *)
(* letters and a change of profile.                                          *)
SampleDirectives ==
  {[action |-> a, target |-> "none", exact |-> TRUE] :
     a \in {"PAUSE_AUTONOMOUS_EXECUTION", "RESUME_AUTONOMOUS_EXECUTION", "EMERGENCY_SHUTDOWN"}}
  \union {[action |-> "SWITCH_OPERATING_PROFILE", target |-> "AGGRESSIVE", exact |-> TRUE],
          [action |-> "APPROVE_RECOMMENDED", target |-> "none", exact |-> FALSE]}

(* One warning is AMBER, three are RED. *)
SampleGrades ==
  {[d \in Dimensions |-> IF d \in warned THEN "WARN" ELSE "PASS"] :
     warned \in {{"risk"}, {"risk", "capital", "liquidity"}}}

OversightInit ==
  /\ focus \in {"guardrails", "fleet", "slashing", "sync", "audit", "timelock"}
  /\ Init /\ GuardrailsInit /\ FleetInit /\ SlashingInit /\ CrossChainInit /\ SovereignInit
  /\ focus # "guardrails" =>
       /\ \A limit \in LossLimits : lossLimit <= limit
       /\ \A cap \in ProfitCaps : profitCap <= cap

OversightNext ==
  /\ UNCHANGED focus
  /\ focus # "timelock" => UNCHANGED vars
  /\ focus # "guardrails" => UNCHANGED guardVars
  /\ focus # "fleet" => UNCHANGED fleetVars
  /\ focus # "slashing" => UNCHANGED slashVars
  /\ focus # "sync" => UNCHANGED syncVars
  /\ focus # "audit" => UNCHANGED auditVars
  /\ \/ focus = "timelock" /\ Next
     \/ focus = "guardrails" /\ GuardrailsNext
     \/ focus = "fleet" /\ FleetNext
     \/ focus = "slashing" /\ SlashingNext
     \/ focus = "sync" /\ CrossChainNext
     \/ focus = "audit" /\ SovereignNext

oversightVars ==
  <<focus, vars, guardVars, fleetVars, slashVars, syncVars, auditVars>>

OversightSpec == OversightInit /\ [][OversightNext]_oversightVars

=============================================================================
