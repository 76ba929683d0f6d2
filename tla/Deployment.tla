----------------------------- MODULE Deployment -----------------------------
(***************************************************************************)
(* The Copilot deployment workflow of backend/deployment.rs together with  *)
(* the HTTP handlers of backend/main.rs that start and disturb it.         *)
(*                                                                         *)
(* All handlers share DEPLOYMENT_STATE, a tokio RwLock.  A workflow takes  *)
(* and releases the lock once per step (store the dashboard context,       *)
(* authorize, preflight, simulation, read the backend mode, go live), and  *)
(* a stage keeps the write guard from its first line to its last.  Tokio   *)
(* locks are not re-entrant.  A request is one axum task: it can be        *)
(* dropped at any await when its client disconnects.                       *)
(***************************************************************************)
EXTENDS Naturals, FiniteSets

CONSTANTS
  Requests,               \* workflow requests (each is submitted once)
  NoOne,                  \* the free value of the lock
  ChiefArchitectApproved, \* CHIEF_ARCHITECT_APPROVAL=true in the environment
  PanicAborts             \* panic = "abort" (release) or unwinding (dev)

ASSUME DeploymentAssumption ==
  /\ NoOne \notin Requests
  /\ ChiefArchitectApproved \in BOOLEAN
  /\ PanicAborts \in BOOLEAN

VARIABLES
  auth,     \* DEPLOYMENT_STATE
  lock,     \* the request that holds the write guard of DEPLOYMENT_STATE
  paused,   \* GOVERNANCE_PAUSED of m300_governance_executor.rs
  killed,   \* KILL_SWITCH_ACTIVE, set with env::set_var
  phase,    \* what each request does next
  req,      \* the parameters of each request
  seen,     \* the backend mode each request read back before going live
  disturbed \* history: what has happened to a running workflow so far

vars == <<auth, lock, paused, killed, phase, req, seen, disturbed>>

(* Another workflow was submitted, the state was reset or authorized again   *)
(* while a workflow was running.                                             *)
Disturbances == {"overlap", "reset", "authorize"}

Modes    == {"Manual", "Autonomous"}
Backends == {"paper", "live"}
Routes   == {"deploy", "run", "execute"}
Stages   == {"Preflight", "Simulation", "Live"}
Ended    == {"ok", "err", "dropped", "panicked"}
Phases   == {"new", "store", "authorize", "gate", "toggle", "readBackend",
             "diagnose"} \union Stages \union Ended

\* "healable": an auto-fixable code for which apply_fix has a fix.
ErrorCodes == {"healable", "other"}

(* DeploymentAuthorization: the fields a handler's control depends on.  The *)
(* error list is kept as the set of (code class, fixed) pairs it contains.  *)
DefaultAuthorization ==
  [authorized |-> FALSE, mode |-> "Manual", stage |-> "Idle",
   errors |-> {}, backend |-> "paper"]

InFlight == {r \in Requests : phase[r] \notin Ended \union {"new"}}

Init ==
  /\ auth = DefaultAuthorization
  /\ lock = NoOne
  /\ paused = FALSE
  /\ killed = FALSE
  /\ phase = [r \in Requests |-> "new"]
  /\ req = [r \in Requests |-> [mode |-> "Manual", backend |-> "paper"]]
  /\ seen = [r \in Requests |-> "paper"]
  /\ disturbed = {}

Disturb(what) ==
  disturbed' = IF InFlight = {} THEN disturbed ELSE disturbed \union {what}

Goto(r, p) == phase' = [phase EXCEPT ![r] = p]

-----------------------------------------------------------------------------
(* Workflow requests *)

(* POST /api/deploy takes the backend mode from the dashboard, the other two *)
(* routes always pass "paper".  Only /api/execute asks for the kill switch   *)
(* and the governance pause before it starts.                                *)
Submit(r, route, mode, backend) ==
  /\ phase[r] = "new"
  /\ route # "deploy" => backend = "paper"
  /\ req' = [req EXCEPT ![r] = [mode |-> mode, backend |-> backend]]
  /\ Goto(r, IF route = "execute" /\ (killed \/ paused) THEN "err" ELSE "store")
  /\ Disturb("overlap")
  /\ UNCHANGED <<auth, lock, paused, killed, seen>>

(* Mutant: the dashboard's backend mode is dropped. *)
StoreNoContext(r) ==
  /\ phase[r] = "store"
  /\ lock = NoOne
  /\ Goto(r, "authorize")
  /\ UNCHANGED <<auth, lock, paused, killed, req, seen, disturbed>>

StoreContext(r) ==
  /\ phase[r] = "store"
  /\ lock = NoOne
  /\ auth' = [auth EXCEPT !.backend = req[r].backend]
  /\ Goto(r, "authorize")
  /\ UNCHANGED <<lock, paused, killed, req, seen, disturbed>>

(* Mutant: the errors of the previous workflow survive its re-authorization. *)
AuthorizedKeepingErrors(mode) ==
  [auth EXCEPT !.authorized = TRUE, !.mode = mode, !.stage = "Idle"]

(* authorize_copilot_deployment leaves the stored dashboard context alone. *)
AuthorizedAs(mode) ==
  [auth EXCEPT !.authorized = TRUE, !.mode = mode, !.stage = "Idle",
               !.errors = {}]

Authorize(r) ==
  /\ phase[r] = "authorize"
  /\ lock = NoOne
  /\ auth' = AuthorizedAs(req[r].mode)
  /\ Goto(r, "gate")
  /\ UNCHANGED <<lock, paused, killed, req, seen, disturbed>>

(* The pause is read once, here.  The constitutional check that follows is   *)
(* always asked about three zero changes of a profit_growth action, which    *)
(* no law of ConstitutionGuard forbids.                                      *)
PauseGate(r) ==
  /\ phase[r] = "gate"
  /\ Goto(r, IF paused THEN "err" ELSE "Preflight")
  /\ UNCHANGED <<auth, lock, paused, killed, req, seen, disturbed>>

(* run_preflight and run_simulation: take the write guard for the stage. *)
EnterStage(r) ==
  /\ phase[r] \in {"Preflight", "Simulation"}
  /\ lock = NoOne
  /\ lock' = r
  /\ auth' = [auth EXCEPT !.stage = phase[r]]
  /\ UNCHANGED <<paused, killed, phase, req, seen, disturbed>>

ReadBackend(r) ==
  /\ phase[r] = "readBackend"
  /\ lock = NoOne
  /\ seen' = [seen EXCEPT ![r] = auth.backend]
  /\ Goto(r, "Live")
  /\ UNCHANGED <<auth, lock, paused, killed, req, disturbed>>

(* transform_to_live, up to its first check. *)
ApprovalMissing(r) == seen[r] = "live" /\ ~ChiefArchitectApproved

EnterLive(r) ==
  /\ phase[r] = "Live"
  /\ lock = NoOne
  /\ \/ /\ ApprovalMissing(r)
        /\ auth' = [auth EXCEPT !.stage = "Failed"]
        /\ Goto(r, "err")
        /\ UNCHANGED lock
     \/ /\ ~ApprovalMissing(r)
        /\ auth' = [auth EXCEPT !.stage = "Live"]
        /\ lock' = r
        /\ UNCHANGED phase
  /\ UNCHANGED <<paused, killed, req, seen, disturbed>>

(* Mutant: no simulation. *)
AfterStageSkippingSimulation(r) ==
  IF phase[r] = "Live" THEN "ok" ELSE "readBackend"

(* A failed check is only logged when the state's mode is Manual, so a stage *)
(* ends the same way whether or not its checks passed.                       *)
AfterStage(r) ==
  CASE phase[r] = "Preflight" ->
         IF req[r].mode = "Autonomous" THEN "Simulation" ELSE "toggle"
    [] phase[r] = "Simulation" ->
         IF req[r].mode = "Autonomous" THEN "readBackend" ELSE "toggle"
    [] phase[r] = "Live" -> "ok"

(* Mutant: the guard outlives its stage. *)
FinishStageKeepingGuard(r) ==
  /\ lock = r
  /\ phase[r] \in Stages
  /\ auth' = IF phase[r] = "Live" THEN [auth EXCEPT !.stage = "Completed"]
                                  ELSE auth
  /\ Goto(r, AfterStage(r))
  /\ UNCHANGED <<lock, paused, killed, req, seen, disturbed>>

FinishStage(r) ==
  /\ lock = r
  /\ phase[r] \in Stages
  /\ lock' = NoOne
  /\ auth' = IF phase[r] = "Live" THEN [auth EXCEPT !.stage = "Completed"]
                                  ELSE auth
  /\ Goto(r, AfterStage(r))
  /\ UNCHANGED <<paused, killed, req, seen, disturbed>>

(* A failed check outside Manual mode calls diagnose_and_fix, whose first    *)
(* line waits for the write guard the stage itself still holds.              *)
FailedCheck(r) ==
  /\ lock = r
  /\ phase[r] \in Stages
  /\ auth.mode # "Manual"
  /\ Goto(r, "diagnose")
  /\ UNCHANGED <<auth, lock, paused, killed, req, seen, disturbed>>

(* get_pipeline_toggle calls blocking_read on a runtime thread, which tokio  *)
(* answers with a panic.  The release profile turns it into an abort of the  *)
(* whole process, which its supervisor restarts with fresh statics and the   *)
(* environment it was first given.                                           *)
PipelineToggle(r) ==
  /\ phase[r] = "toggle"
  /\ IF PanicAborts
     THEN /\ auth' = DefaultAuthorization
          /\ lock' = NoOne
          /\ paused' = FALSE
          /\ killed' = FALSE
          /\ phase' = [q \in Requests |->
                         IF q \in InFlight THEN "panicked" ELSE phase[q]]
     ELSE /\ Goto(r, "panicked")
          /\ UNCHANGED <<auth, lock, paused, killed>>
  /\ UNCHANGED <<req, seen, disturbed>>

(* The client goes away: the task is dropped at an await and its guard with  *)
(* it.  (A task in PipelineToggle is not at an await.)                       *)
Disconnect(r) ==
  /\ r \in InFlight
  /\ phase[r] # "toggle"
  /\ Goto(r, "dropped")
  /\ lock' = IF lock = r THEN NoOne ELSE lock
  /\ UNCHANGED <<auth, paused, killed, req, seen, disturbed>>

-----------------------------------------------------------------------------
(* The other endpoints: each is one critical section. *)

AuthorizeEndpoint(mode) ==
  /\ lock = NoOne
  /\ auth' = AuthorizedAs(mode)
  /\ Disturb("authorize")
  /\ UNCHANGED <<lock, paused, killed, phase, req, seen>>

ResetEndpoint ==
  /\ lock = NoOne
  /\ auth' = DefaultAuthorization
  /\ Disturb("reset")
  /\ UNCHANGED <<lock, paused, killed, phase, req, seen>>

(* diagnose_logging_error and diagnose_and_fix differ only in what they log. *)
Diagnose(code) ==
  /\ lock = NoOne
  /\ auth' = [auth EXCEPT !.errors = @ \union
                {[code |-> code,
                  fixed |-> auth.mode = "Autonomous" /\ code = "healable"]}]
  /\ UNCHANGED <<lock, paused, killed, phase, req, seen, disturbed>>

(* emergency_pause and emergency_resume *)
SetPause(on) ==
  /\ paused # on
  /\ paused' = on
  /\ UNCHANGED <<auth, lock, killed, phase, req, seen, disturbed>>

KillSwitch ==
  /\ ~killed
  /\ killed' = TRUE
  /\ UNCHANGED <<auth, lock, paused, phase, req, seen, disturbed>>

-----------------------------------------------------------------------------
Progress(r) ==
  \/ StoreContext(r) \/ Authorize(r) \/ PauseGate(r) \/ EnterStage(r)
  \/ ReadBackend(r) \/ EnterLive(r) \/ FinishStage(r) \/ PipelineToggle(r)

Next ==
  \/ \E r \in Requests :
       \/ \E route \in Routes, mode \in Modes, backend \in Backends :
            Submit(r, route, mode, backend)
       \/ Progress(r)
       \/ FailedCheck(r)
       \/ Disconnect(r)
  \/ \E mode \in Modes : AuthorizeEndpoint(mode)
  \/ ResetEndpoint
  \/ \E code \in ErrorCodes : Diagnose(code)
  \/ \E on \in BOOLEAN : SetPause(on)
  \/ KillSwitch

Spec == Init /\ [][Next]_vars

(* The runtime keeps polling a task that can proceed.  Weak fairness is      *)
(* enough: there are finitely many requests and no endpoint keeps the lock.  *)
FairSpec == Spec /\ \A r \in Requests : WF_vars(Progress(r))

-----------------------------------------------------------------------------
(* Properties *)

Authorizations ==
  [authorized : BOOLEAN, mode : Modes,
   stage : Stages \union {"Idle", "Completed", "Failed"},
   errors : SUBSET [code : ErrorCodes, fixed : BOOLEAN],
   backend : Backends]

(* Every field and every request's next step take only values the code has.  *)
TypeOK ==
  /\ auth \in Authorizations
  /\ lock \in Requests \union {NoOne}
  /\ paused \in BOOLEAN
  /\ killed \in BOOLEAN
  /\ phase \in [Requests -> Phases]
  /\ req \in [Requests -> [mode : Modes, backend : Backends]]
  /\ seen \in [Requests -> Backends]
  /\ disturbed \subseteq Disturbances

(* The write guard is held only by a request inside a stage (or stuck in     *)
(* one), and while a stage runs the shared state names that very stage       *)
(* whatever the other requests and endpoints do: deployment.rs keeps the     *)
(* guard over the whole stage, and a dropped task gives it back.             *)
StageUnderGuard ==
  \A r \in Requests : lock = r =>
    /\ phase[r] \in Stages \union {"diagnose"}
    /\ auth.stage \in Stages
    /\ phase[r] \in Stages => auth.stage = phase[r]

(* Manual mode must not auto-fix: as long as the state is in Manual mode no  *)
(* error in it is marked fixed, although the mode can change between the     *)
(* requests that record errors (test manual_mode_does_not_auto_fix...).      *)
ManualNeverFixes ==
  auth.mode = "Manual" => \A e \in auth.errors : ~e.fixed

(* Types, and the two statements that hold however the requests overlap.     *)
DeploymentSound == TypeOK /\ StageUnderGuard /\ ManualNeverFixes

(* PILOT to LIVE requires the Chief Architect's approval: a request for the  *)
(* live backend never gets through transform_to_live without it, as long as  *)
(* no other request or reset has touched the shared state under a workflow.  *)
LiveNeedsApproval ==
  \A r \in Requests :
    phase[r] = "ok" /\ req[r].backend = "live" /\ disturbed \subseteq {"authorize"} =>
      ChiefArchitectApproved

(* "Authorization spans the entire pipeline": a completed deployment is one  *)
(* that is still authorized, whatever overlaps, while no reset hit a running *)
(* workflow.                                                                 *)
CompletedIsAuthorized ==
  auth.stage = "Completed" /\ "reset" \notin disturbed => auth.authorized

LiveIsAuthorized == LiveNeedsApproval /\ CompletedIsAuthorized

(* "Preflight -> Simulation -> Live": while nothing disturbs a running       *)
(* workflow, the stage of the shared state moves only along the workflow, or *)
(* back to Idle for a new one, through dropped requests and aborts too.      *)
Workflow ==
  {<<"Idle", "Preflight">>, <<"Preflight", "Simulation">>,
   <<"Simulation", "Live">>, <<"Simulation", "Failed">>,
   <<"Live", "Completed">>}

StageOrder ==
  [][auth'.stage # auth.stage /\ disturbed = {} =>
       \/ auth'.stage = "Idle"
       \/ <<auth.stage, auth'.stage>> \in Workflow]_vars

(* A workflow ends, unless a stage is stuck in diagnose_and_fix: disconnects *)
(* in the middle of a stage, waiting for the guard and every endpoint do not *)
(* keep it from its end.                                                     *)
Stuck == \E r \in Requests : phase[r] = "diagnose"

WorkflowEnds == \A r \in Requests : []<>(r \notin InFlight \/ Stuck)

(* The Copilot runs the full workflow autonomously: an Autonomous run does   *)
(* not stop for good inside a stage.                                         *)
AutonomousRunEnds ==
  \A r \in Requests :
    (phase[r] = "store" /\ req[r].mode = "Autonomous") ~> (phase[r] \in Ended)

=============================================================================
