-------------------------- MODULE Deployment_proofs --------------------------
(***************************************************************************)
(* Theorems about the deployment workflow, for every set of requests,      *)
(* every choice of endpoints and every build; and about the vault that the *)
(* server takes its key from, for any handles and secrets.                 *)
(***************************************************************************)
EXTENDS Deployment, EnvVault, FiniteSetTheorems, SequenceTheorems, TLAPS

(* The state a fresh process or a reset starts from is well typed.           *)
LEMMA DefaultTyped == DefaultAuthorization \in Authorizations
BY DEF DefaultAuthorization, Authorizations, Modes, Stages, Backends

(* Every state of the workflow is well typed: in particular the shared stage *)
(* and each request's next step only take the values the code defines.       *)
THEOREM TypeCorrect == Spec => []TypeOK
<1> USE DEF TypeOK, Modes, Backends, Stages, Ended, Phases, Disturb, Disturbances
<1>1. Init => TypeOK
  <2> SUFFICES ASSUME Init PROVE TypeOK
    OBVIOUS
  <2>1. phase \in [Requests -> Phases] /\ seen \in [Requests -> Backends]
    BY DEF Init
  <2>2. [mode |-> "Manual", backend |-> "paper"] \in
          [mode : Modes, backend : Backends]
    OBVIOUS
  <2>3. req \in [Requests -> [mode : Modes, backend : Backends]]
    BY <2>2 DEF Init
  <2> QED
    BY <2>1, <2>3, DefaultTyped DEF Init
<1>2. TypeOK /\ [Next]_vars => TypeOK'
  <2> SUFFICES ASSUME TypeOK, [Next]_vars
               PROVE  TypeOK'
    OBVIOUS
  <2>1. ASSUME NEW r \in Requests, NEW route \in Routes, NEW mode \in Modes,
               NEW backend \in Backends, Submit(r, route, mode, backend)
        PROVE  TypeOK'
    BY <2>1 DEF Submit, Goto, Authorizations
  <2>2. ASSUME NEW r \in Requests, StoreContext(r)
        PROVE  TypeOK'
    BY <2>2 DEF StoreContext, Goto, Authorizations
  <2>3. ASSUME NEW r \in Requests, Authorize(r)
        PROVE  TypeOK'
    BY <2>3 DEF Authorize, Goto, AuthorizedAs, Authorizations
  <2>4. ASSUME NEW r \in Requests, PauseGate(r)
        PROVE  TypeOK'
    BY <2>4 DEF PauseGate, Goto, Authorizations
  <2>5. ASSUME NEW r \in Requests, EnterStage(r)
        PROVE  TypeOK'
    BY <2>5 DEF EnterStage, Authorizations
  <2>6. ASSUME NEW r \in Requests, ReadBackend(r)
        PROVE  TypeOK'
    BY <2>6 DEF ReadBackend, Goto, Authorizations
  <2>7. ASSUME NEW r \in Requests, EnterLive(r)
        PROVE  TypeOK'
    BY <2>7 DEF EnterLive, Goto, Authorizations
  <2>8. ASSUME NEW r \in Requests, FinishStage(r)
        PROVE  TypeOK'
    BY <2>8 DEF FinishStage, Goto, AfterStage, Authorizations
  <2>9. ASSUME NEW r \in Requests, PipelineToggle(r)
        PROVE  TypeOK'
    BY <2>9, DefaultTyped DEF PipelineToggle, Goto, InFlight
  <2>10. ASSUME NEW r \in Requests, FailedCheck(r)
        PROVE  TypeOK'
    BY <2>10 DEF FailedCheck, Goto, Authorizations
  <2>11. ASSUME NEW r \in Requests, Disconnect(r)
        PROVE  TypeOK'
    BY <2>11 DEF Disconnect, Goto, Authorizations
  <2>12. ASSUME NEW mode \in Modes, AuthorizeEndpoint(mode)
         PROVE  TypeOK'
    BY <2>12 DEF AuthorizeEndpoint, AuthorizedAs, Authorizations
  <2>13. CASE ResetEndpoint
    BY <2>13, DefaultTyped DEF ResetEndpoint
  <2>14. ASSUME NEW code \in ErrorCodes, Diagnose(code)
         PROVE  TypeOK'
    <3> DEFINE e == [code |-> code,
                     fixed |-> auth.mode = "Autonomous" /\ code = "healable"]
    <3>1. e \in [code : ErrorCodes, fixed : BOOLEAN]
      OBVIOUS
    <3> HIDE DEF e
    <3>2. auth'.errors = auth.errors \union {e}
      BY <2>14 DEF Diagnose, e, Authorizations
    <3> QED
      BY <2>14, <3>1, <3>2 DEF Diagnose, Authorizations
  <2>15. ASSUME NEW on \in BOOLEAN, SetPause(on)
         PROVE  TypeOK'
    BY <2>15 DEF SetPause
  <2>16. CASE KillSwitch
    BY <2>16 DEF KillSwitch
  <2>17. CASE UNCHANGED vars
    BY <2>17 DEF vars
  <2> QED
    BY <2>1, <2>2, <2>3, <2>4, <2>5, <2>6, <2>7, <2>8,
       <2>9, <2>10, <2>11, <2>12, <2>13, <2>14, <2>15, <2>16, <2>17
       DEF Next, Progress
<1> QED
  BY <1>1, <1>2, PTL DEF Spec

(* An error that is marked fixed was recorded in Autonomous mode, and the    *)
(* mode changes only together with the error list: ManualNeverFixes is       *)
(* inductive, because authorization and reset clear the list they inherit.   *)
THEOREM ManualNeverFixesHolds == Spec => []ManualNeverFixes
<1>1. Init => ManualNeverFixes
  BY DEF Init, ManualNeverFixes, DefaultAuthorization
<1>2. TypeOK /\ ManualNeverFixes /\ [Next]_vars => ManualNeverFixes'
  <2> SUFFICES ASSUME TypeOK, ManualNeverFixes, [Next]_vars
               PROVE  ManualNeverFixes'
    OBVIOUS
  <2> USE DEF ManualNeverFixes, TypeOK, Authorizations
  <2>1. ASSUME NEW r \in Requests, NEW route \in Routes, NEW mode \in Modes,
               NEW backend \in Backends, Submit(r, route, mode, backend)
        PROVE  ManualNeverFixes'
    BY <2>1 DEF Submit
  <2>2. ASSUME NEW r \in Requests, StoreContext(r)
        PROVE  ManualNeverFixes'
    BY <2>2 DEF StoreContext
  <2>3. ASSUME NEW r \in Requests, Authorize(r)
        PROVE  ManualNeverFixes'
    BY <2>3 DEF Authorize, AuthorizedAs, Authorizations
  <2>4. ASSUME NEW r \in Requests, PauseGate(r)
        PROVE  ManualNeverFixes'
    BY <2>4 DEF PauseGate
  <2>5. ASSUME NEW r \in Requests, EnterStage(r)
        PROVE  ManualNeverFixes'
    BY <2>5 DEF EnterStage
  <2>6. ASSUME NEW r \in Requests, ReadBackend(r)
        PROVE  ManualNeverFixes'
    BY <2>6 DEF ReadBackend
  <2>7. ASSUME NEW r \in Requests, EnterLive(r)
        PROVE  ManualNeverFixes'
    BY <2>7 DEF EnterLive
  <2>8. ASSUME NEW r \in Requests, FinishStage(r)
        PROVE  ManualNeverFixes'
    BY <2>8 DEF FinishStage
  <2>9. ASSUME NEW r \in Requests, PipelineToggle(r)
        PROVE  ManualNeverFixes'
    BY <2>9 DEF PipelineToggle, DefaultAuthorization
  <2>10. ASSUME NEW r \in Requests, FailedCheck(r)
        PROVE  ManualNeverFixes'
    BY <2>10 DEF FailedCheck
  <2>11. ASSUME NEW r \in Requests, Disconnect(r)
        PROVE  ManualNeverFixes'
    BY <2>11 DEF Disconnect
  <2>12. ASSUME NEW mode \in Modes, AuthorizeEndpoint(mode)
         PROVE  ManualNeverFixes'
    BY <2>12 DEF AuthorizeEndpoint, AuthorizedAs, Authorizations
  <2>13. CASE ResetEndpoint
    BY <2>13 DEF ResetEndpoint, DefaultAuthorization
  <2>14. ASSUME NEW code \in ErrorCodes, Diagnose(code)
         PROVE  ManualNeverFixes'
    <3> DEFINE e == [code |-> code,
                     fixed |-> auth.mode = "Autonomous" /\ code = "healable"]
    <3>1. auth'.errors = auth.errors \union {e} /\ auth'.mode = auth.mode
      BY <2>14 DEF Diagnose, Authorizations
    <3>2. auth.mode = "Manual" => ~e.fixed
      BY Zenon
    <3> HIDE DEF e
    <3> QED
      BY <3>1, <3>2
  <2>15. ASSUME NEW on \in BOOLEAN, SetPause(on)
         PROVE  ManualNeverFixes'
    BY <2>15 DEF SetPause
  <2>16. CASE KillSwitch
    BY <2>16 DEF KillSwitch
  <2>17. CASE UNCHANGED vars
    BY <2>17 DEF vars
  <2> QED
    BY <2>1, <2>2, <2>3, <2>4, <2>5, <2>6, <2>7, <2>8,
       <2>9, <2>10, <2>11, <2>12, <2>13, <2>14, <2>15, <2>16, <2>17
       DEF Next, Progress
<1> QED
  BY <1>1, <1>2, TypeCorrect, PTL DEF Spec

(* The shared state names the stage whose guard is held: a request that does *)
(* not hold the guard changes the state only when nobody holds it, and a     *)
(* request gives the guard back when it leaves its stage, however it ends.   *)
THEOREM StageUnderGuardHolds == Spec => []StageUnderGuard
<1>1. Init => StageUnderGuard
  BY DeploymentAssumption DEF Init, StageUnderGuard
<1>2. TypeOK /\ StageUnderGuard /\ [Next]_vars => StageUnderGuard'
  <2> SUFFICES ASSUME TypeOK, StageUnderGuard, [Next]_vars
               PROVE  StageUnderGuard'
    OBVIOUS
  <2> USE DEF StageUnderGuard, TypeOK, Stages, Authorizations
  <2>1. ASSUME NEW r \in Requests, NEW route \in Routes, NEW mode \in Modes,
               NEW backend \in Backends, Submit(r, route, mode, backend)
        PROVE  StageUnderGuard'
    BY <2>1, DeploymentAssumption DEF Submit, Goto, Authorizations
  <2>2. ASSUME NEW r \in Requests, StoreContext(r)
        PROVE  StageUnderGuard'
    BY <2>2, DeploymentAssumption DEF StoreContext, Goto, Authorizations
  <2>3. ASSUME NEW r \in Requests, Authorize(r)
        PROVE  StageUnderGuard'
    BY <2>3, DeploymentAssumption DEF Authorize, Goto, AuthorizedAs, Authorizations
  <2>4. ASSUME NEW r \in Requests, PauseGate(r)
        PROVE  StageUnderGuard'
    BY <2>4, DeploymentAssumption DEF PauseGate, Goto, Authorizations
  <2>5. ASSUME NEW r \in Requests, EnterStage(r)
        PROVE  StageUnderGuard'
    BY <2>5, DeploymentAssumption DEF EnterStage, Authorizations
  <2>6. ASSUME NEW r \in Requests, ReadBackend(r)
        PROVE  StageUnderGuard'
    BY <2>6, DeploymentAssumption DEF ReadBackend, Goto, Authorizations
  <2>7. ASSUME NEW r \in Requests, EnterLive(r)
        PROVE  StageUnderGuard'
    BY <2>7, DeploymentAssumption DEF EnterLive, Goto, Authorizations
  <2>8. ASSUME NEW r \in Requests, FinishStage(r)
        PROVE  StageUnderGuard'
    BY <2>8, DeploymentAssumption DEF FinishStage, Goto, AfterStage, Authorizations
  <2>9. ASSUME NEW r \in Requests, PipelineToggle(r)
        PROVE  StageUnderGuard'
    BY <2>9, DeploymentAssumption DEF PipelineToggle, Goto, DefaultAuthorization, InFlight
  <2>10. ASSUME NEW r \in Requests, FailedCheck(r)
        PROVE  StageUnderGuard'
    BY <2>10, DeploymentAssumption DEF FailedCheck, Goto, Authorizations
  <2>11. ASSUME NEW r \in Requests, Disconnect(r)
        PROVE  StageUnderGuard'
    BY <2>11, DeploymentAssumption DEF Disconnect, Goto, InFlight, Ended
  <2>12. ASSUME NEW mode \in Modes, AuthorizeEndpoint(mode)
         PROVE  StageUnderGuard'
    BY <2>12, DeploymentAssumption DEF AuthorizeEndpoint, AuthorizedAs, Authorizations
  <2>13. CASE ResetEndpoint
    BY <2>13, DeploymentAssumption DEF ResetEndpoint, DefaultAuthorization
  <2>14. ASSUME NEW code \in ErrorCodes, Diagnose(code)
         PROVE  StageUnderGuard'
    BY <2>14, DeploymentAssumption DEF Diagnose, ErrorCodes
  <2>15. ASSUME NEW on \in BOOLEAN, SetPause(on)
         PROVE  StageUnderGuard'
    BY <2>15, DeploymentAssumption DEF SetPause
  <2>16. CASE KillSwitch
    BY <2>16, DeploymentAssumption DEF KillSwitch
  <2>17. CASE UNCHANGED vars
    BY <2>17, DeploymentAssumption DEF vars
  <2> QED
    BY <2>1, <2>2, <2>3, <2>4, <2>5, <2>6, <2>7, <2>8,
       <2>9, <2>10, <2>11, <2>12, <2>13, <2>14, <2>15, <2>16, <2>17
       DEF Next, Progress
<1> QED
  BY <1>1, <1>2, TypeCorrect, PTL DEF Spec

(* The three together: types, a stage that runs under its own guard and name,*)
(* and a Manual mode that fixes nothing, for any number of requests.         *)
THEOREM DeploymentSoundHolds == Spec => []DeploymentSound
<1>1. TypeOK /\ StageUnderGuard /\ ManualNeverFixes => DeploymentSound
  BY DEF DeploymentSound
<1>2. QED
  BY TypeCorrect, StageUnderGuardHolds, ManualNeverFixesHolds, <1>1, PTL

-----------------------------------------------------------------------------
(* What holds of the running workflows while nothing disturbs them.          *)

(* Without an overlap at most one request is in flight. *)
Single ==
  "overlap" \notin disturbed => \A r, s \in InFlight : r = s

(* The backend mode a request stored is the one it reads back and goes live  *)
(* with: only another request or a reset writes it.                          *)
Stored == {"authorize", "gate", "readBackend", "toggle"} \union Stages

BackendKept(r) ==
  /\ phase[r] \in Stored => auth.backend = req[r].backend
  /\ phase[r] = "Live" => seen[r] = req[r].backend
  /\ phase[r] = "Live" /\ lock = r => ~ApprovalMissing(r)
  /\ phase[r] = "ok" /\ req[r].backend = "live" => ChiefArchitectApproved

(* Only a reset takes an authorization back. *)
AuthorizationKept ==
  /\ \A r \in Requests : phase[r] \in Stored \ {"authorize"} => auth.authorized
  /\ auth.stage = "Completed" => auth.authorized

(* A request about to enter a stage finds the state in the one before it. *)
StageAwaited(r) ==
  /\ phase[r] = "gate" => auth.stage = "Idle"
  /\ phase[r] = "Preflight" /\ lock # r => auth.stage = "Idle"
  /\ phase[r] = "Simulation" /\ lock # r => auth.stage = "Preflight"
  /\ phase[r] = "readBackend" => auth.stage = "Simulation"
  /\ phase[r] = "Live" /\ lock # r => auth.stage = "Simulation"

Undisturbed ==
  /\ Single
  /\ disturbed \subseteq {"authorize"} => \A r \in Requests : BackendKept(r)
  /\ "reset" \notin disturbed => AuthorizationKept
  /\ disturbed = {} => \A r \in Requests : StageAwaited(r)

LEMMA UndisturbedStep ==
  ASSUME TypeOK, StageUnderGuard, Undisturbed, [Next]_vars
  PROVE  Undisturbed'
<1> USE DeploymentAssumption
    DEF TypeOK, StageUnderGuard, Authorizations, Undisturbed, Single,
        BackendKept, AuthorizationKept, StageAwaited, Stored, Stages, Ended,
        InFlight, Goto, ApprovalMissing
<1>1. ASSUME NEW r \in Requests, NEW route \in Routes, NEW mode \in Modes,
             NEW backend \in Backends, Submit(r, route, mode, backend) PROVE Undisturbed'
  BY <1>1 DEF Submit, Disturb
<1>2. ASSUME NEW r \in Requests, StoreContext(r) PROVE Undisturbed'
  BY <1>2 DEF StoreContext
<1>3. ASSUME NEW r \in Requests, Authorize(r) PROVE Undisturbed'
  BY <1>3 DEF Authorize, AuthorizedAs
<1>4. ASSUME NEW r \in Requests, PauseGate(r) PROVE Undisturbed'
  BY <1>4 DEF PauseGate
<1>5. ASSUME NEW r \in Requests, EnterStage(r) PROVE Undisturbed'
  BY <1>5 DEF EnterStage
<1>6. ASSUME NEW r \in Requests, ReadBackend(r) PROVE Undisturbed'
  BY <1>6 DEF ReadBackend
<1>7. ASSUME NEW r \in Requests, EnterLive(r) PROVE Undisturbed'
  BY <1>7 DEF EnterLive
<1>8. ASSUME NEW r \in Requests, FinishStage(r) PROVE Undisturbed'
  BY <1>8 DEF FinishStage, AfterStage
<1>9. ASSUME NEW r \in Requests, PipelineToggle(r) PROVE Undisturbed'
  BY <1>9 DEF PipelineToggle, DefaultAuthorization
<1>10. ASSUME NEW r \in Requests, FailedCheck(r) PROVE Undisturbed'
  BY <1>10 DEF FailedCheck
<1>11. ASSUME NEW r \in Requests, Disconnect(r) PROVE Undisturbed'
  BY <1>11 DEF Disconnect
<1>12. ASSUME NEW mode \in Modes, AuthorizeEndpoint(mode) PROVE Undisturbed'
  BY <1>12 DEF AuthorizeEndpoint, AuthorizedAs, Disturb
<1>13. CASE ResetEndpoint
  BY <1>13 DEF ResetEndpoint, DefaultAuthorization, Disturb
<1>14. ASSUME NEW code \in ErrorCodes, Diagnose(code) PROVE Undisturbed'
  BY <1>14 DEF Diagnose
<1>15. CASE \/ \E on \in BOOLEAN : SetPause(on)
          \/ KillSwitch \/ UNCHANGED vars
  BY <1>15 DEF SetPause, KillSwitch, vars
<1> QED
  BY <1>1, <1>2, <1>3, <1>4, <1>5, <1>6, <1>7, <1>8,
     <1>9, <1>10, <1>11, <1>12, <1>13, <1>14, <1>15
     DEF Next, Progress

(* Every state of an undisturbed workflow is as the workflow left it. *)
LEMMA UndisturbedHolds == Spec => []Undisturbed
<1>1. Init => Undisturbed
  BY DEF Init, Undisturbed, Single, InFlight, Ended, BackendKept,
         AuthorizationKept, StageAwaited, Stored, Stages, DefaultAuthorization
<1>2. TypeOK /\ StageUnderGuard /\ Undisturbed /\ [Next]_vars => Undisturbed'
  BY UndisturbedStep
<1>3. QED
  BY <1>1, <1>2, TypeCorrect, StageUnderGuardHolds, PTL DEF Spec

(* No request for the live backend completes without the Chief Architect's   *)
(* approval unless another request or a reset came in between, and a         *)
(* completed deployment is an authorized one: the backend mode is read back  *)
(* two critical sections after it was stored, and nothing else writes it.    *)
THEOREM LiveIsAuthorizedHolds == Spec => []LiveIsAuthorized
<1>1. Undisturbed => LiveIsAuthorized
  BY DEF Undisturbed, BackendKept, AuthorizationKept, LiveIsAuthorized,
         LiveNeedsApproval, CompletedIsAuthorized
<1>2. QED
  BY <1>1, UndisturbedHolds, PTL

(* While nothing disturbs a running workflow the shared stage moves along    *)
(* the pipeline only, or back to Idle: each stage finds the one before it,   *)
(* although the guard is released between them and requests are dropped.     *)
THEOREM StageOrderHolds == Spec => StageOrder
<1> DEFINE Ordered ==
      auth'.stage # auth.stage /\ disturbed = {} =>
        \/ auth'.stage = "Idle"
        \/ <<auth.stage, auth'.stage>> \in Workflow
<1>1. TypeOK /\ StageUnderGuard /\ Undisturbed /\ [Next]_vars => [Ordered]_vars
  <2> SUFFICES ASSUME TypeOK, StageUnderGuard, Undisturbed, [Next]_vars,
                      auth'.stage # auth.stage, disturbed = {}
               PROVE  \/ auth'.stage = "Idle"
                      \/ <<auth.stage, auth'.stage>> \in Workflow
    OBVIOUS
  <2> USE DeploymentAssumption DEF TypeOK, Authorizations, Workflow
  <2>1. ASSUME NEW r \in Requests, EnterStage(r)
        PROVE  <<auth.stage, auth'.stage>> \in Workflow
    BY <2>1 DEF EnterStage, Undisturbed, StageAwaited
  <2>2. ASSUME NEW r \in Requests, EnterLive(r)
        PROVE  <<auth.stage, auth'.stage>> \in Workflow
    BY <2>2 DEF EnterLive, Undisturbed, StageAwaited
  <2>3. ASSUME NEW r \in Requests, FinishStage(r)
        PROVE  <<auth.stage, auth'.stage>> \in Workflow
    BY <2>3 DEF FinishStage, StageUnderGuard
  <2>4. ASSUME NEW r \in Requests, Authorize(r) \/ PipelineToggle(r)
        PROVE  auth'.stage = "Idle"
    <3>1. CASE Authorize(r)
      BY <3>1 DEF Authorize, AuthorizedAs
    <3>2. CASE PipelineToggle(r)
      BY <3>2 DEF PipelineToggle, DefaultAuthorization
    <3>3. QED
      BY <2>4, <3>1, <3>2
  <2>5. CASE ResetEndpoint \/ \E mode \in Modes : AuthorizeEndpoint(mode)
    <3>1. CASE ResetEndpoint
      BY <3>1 DEF ResetEndpoint, DefaultAuthorization
    <3>2. ASSUME NEW mode \in Modes, AuthorizeEndpoint(mode)
          PROVE  auth'.stage = "Idle"
      BY <3>2 DEF AuthorizeEndpoint, AuthorizedAs
    <3>3. QED
      BY <2>5, <3>1, <3>2
  <2>6. ASSUME NEW r \in Requests,
               \/ StoreContext(r) \/ PauseGate(r) \/ ReadBackend(r)
               \/ FailedCheck(r) \/ Disconnect(r)
               \/ \E route \in Routes, mode \in Modes, backend \in Backends :
                    Submit(r, route, mode, backend)
        PROVE  FALSE
    BY <2>6 DEF StoreContext, PauseGate, ReadBackend, FailedCheck, Disconnect,
                Submit
  <2>7. CASE \/ \E code \in ErrorCodes : Diagnose(code)
             \/ \E on \in BOOLEAN : SetPause(on)
             \/ KillSwitch \/ UNCHANGED vars
    BY <2>7 DEF Diagnose, SetPause, KillSwitch, vars
  <2>8. QED
    BY <2>1, <2>2, <2>3, <2>4, <2>5, <2>6, <2>7 DEF Next, Progress
<1>2. QED
  BY <1>1, TypeCorrect, StageUnderGuardHolds, UndisturbedHolds, PTL
     DEF Spec, StageOrder

-----------------------------------------------------------------------------
(* The vault.                                                                *)

Secrets == [SecretKeys -> SecretValues \union {NoValue}]

FileTypeOK ==
  file \in [is : {"absent", "garbage"}] \union [is : {"vault"}, salt : 1..salts, secrets : Secrets]

HolderTypeOK ==
  holder \in [Holders ->
    [at : {"closed"}]
      \union [at : {"idle"}, salt : 1..salts, todo : Seq(SecretKeys)]
      \union [at : {"truncate", "fill"}, salt : 1..salts, next : Secrets,
              key : SecretKeys \union {"none"}, todo : Seq(SecretKeys)]]

VaultVarsOK ==
  /\ salts \in Nat /\ FileTypeOK /\ HolderTypeOK
  /\ env \in Secrets /\ acked \in Secrets /\ disrupted \in BOOLEAN

(* Until the first disruption a handle that has truncated the file is the    *)
(* only one that has, and what it will write is what was acknowledged but    *)
(* for its own key; an open handle has seen a vault written.                 *)
WritesAreSound ==
  \A h \in Holders :
    /\ holder[h].at \in {"idle", "fill"} => file.is # "absent"
    /\ holder[h].at = "truncate" /\ holder[h].key # "none" => file.is # "absent"
    /\ holder[h].at \in {"truncate", "fill"} /\ holder[h].key = "none" => holder[h].next = Empty
    /\ holder[h].at = "fill" /\ ~disrupted =>
         /\ file.is = "garbage"
         /\ \A x \in Holders : holder[x].at = "fill" => x = h
         /\ holder[h].key # "none" => \A k \in SecretKeys \ {holder[h].key} : holder[h].next[k] = acked[k]

FileIsStored ==
  file.is = "vault" => \A k \in SecretKeys : file.secrets[k] # NoValue => <<k, file.secrets[k]>> \in stored

VaultInv == VaultVarsOK /\ AcknowledgedIsStored /\ SignerHasSource /\ WritesAreSound /\ FileIsStored

LEMMA VaultInitially == VaultInit => VaultInv
<1> SUFFICES ASSUME VaultInit
             PROVE  VaultInv
  OBVIOUS
<1>1. /\ file.is = "absent" /\ file = [is |-> "absent"] /\ salts = 0 /\ holder = [h \in Holders |-> [at |-> "closed"]]
      /\ env = Dotenv /\ signer = NoValue /\ acked = Empty /\ disrupted = FALSE
      /\ \A h \in Holders : holder[h].at = "closed"
  BY DEF VaultInit, NoFile, Closed
<1>2. Empty \in Secrets /\ Dotenv \in Secrets
  BY VaultAssumption DEF Empty, Secrets
<1>3. VaultVarsOK
  BY <1>1, <1>2 DEF VaultVarsOK, FileTypeOK, HolderTypeOK
<1>4. WritesAreSound
  BY <1>1 DEF WritesAreSound
<1>5. AcknowledgedIsStored /\ SignerHasSource /\ FileIsStored
  BY <1>1 DEF AcknowledgedIsStored, SignerHasSource, FileIsStored
<1> QED
  BY <1>3, <1>4, <1>5 DEF VaultInv

LEMMA MigratableType == Migratable \in Seq(SecretKeys)
<1> DEFINE S == {k \in SecretKeys : Dotenv[k] # NoValue}
<1>1. IsFiniteSet(S)
  BY VaultAssumption, FS_Subset
<1>2. Cardinality(S) \in Nat /\ ExistsBijection(1..Cardinality(S), S)
  BY <1>1, FS_CardinalityType
<1>3. \E f \in [1..Cardinality(S) -> S] : IsInjective(f)
  BY <1>2 DEF ExistsBijection, Bijection, Injection
<1>4. Migratable \in [1..Cardinality(S) -> S]
  BY <1>3 DEF Migratable, SetToSeq
<1>5. Migratable \in Seq(S)
  <2> HIDE DEF S
  <2>1. PICK n \in Nat : n = Cardinality(S)
    BY <1>2
  <2>2. Migratable \in [1..n -> S]
    BY <1>4, <2>1
  <2> QED
    BY <2>2
<1>6. S \subseteq SecretKeys
  OBVIOUS
<1> HIDE DEF S
<1> QED
  BY <1>5, <1>6, SeqMonotonic

(* What does not touch the file, nor a handle that may write. *)
LEMMA CreateKeeps ==
  ASSUME VaultInv, NEW h \in Holders, NEW todo \in Seq(SecretKeys), Create(h, todo)
  PROVE  VaultInv'
<1> DEFINE r == [at |-> "truncate", salt |-> salts + 1, next |-> Empty, key |-> "none", todo |-> todo]
<1>1. /\ holder[h].at = "closed" /\ salts' = salts + 1
      /\ holder' = [holder EXCEPT ![h] = r]
      /\ disrupted' = (disrupted \/ file # NoFile)
      /\ UNCHANGED <<file, sets, acked, stored, server, env, signer>>
  BY DEF Create, Closed, serverVars
<1>2. salts \in Nat /\ 1..salts \subseteq 1..salts' /\ salts + 1 \in 1..salts'
  BY <1>1 DEF VaultInv, VaultVarsOK
<1>3. /\ r \in [at : {"truncate", "fill"}, salt : 1..salts', next : Secrets,
                key : SecretKeys \union {"none"}, todo : Seq(SecretKeys)]
      /\ r.at = "truncate" /\ r.key = "none" /\ r.next = Empty
  BY <1>2 DEF Empty, Secrets
<1> HIDE DEF r
<1>4. holder'[h] = r /\ \A x \in Holders \ {h} : holder'[x] = holder[x]
  BY <1>1 DEF VaultInv, VaultVarsOK, HolderTypeOK
<1>5. HolderTypeOK'
  <2>1. \A x \in Holders : holder[x] \in
          [at : {"closed"}]
            \union [at : {"idle"}, salt : 1..salts', todo : Seq(SecretKeys)]
            \union [at : {"truncate", "fill"}, salt : 1..salts', next : Secrets,
                    key : SecretKeys \union {"none"}, todo : Seq(SecretKeys)]
    BY <1>2 DEF VaultInv, VaultVarsOK, HolderTypeOK
  <2>2. holder' = [x \in Holders |-> IF x = h THEN r ELSE holder[x]]
    BY <1>1 DEF VaultInv, VaultVarsOK, HolderTypeOK
  <2> QED
    BY <1>3, <2>1, <2>2 DEF HolderTypeOK
<1>6. FileTypeOK'
  BY <1>1, <1>2 DEF VaultInv, VaultVarsOK, FileTypeOK
<1>7. VaultVarsOK'
  BY <1>1, <1>2, <1>5, <1>6 DEF VaultInv, VaultVarsOK
<1>8. disrupted' \/ (~disrupted /\ ~disrupted')
  BY <1>1
<1>9. WritesAreSound'
  BY <1>1, <1>3, <1>4, <1>8 DEF VaultInv, WritesAreSound
<1>10. AcknowledgedIsStored' /\ SignerHasSource' /\ FileIsStored'
  BY <1>1 DEF VaultInv, AcknowledgedIsStored, SignerHasSource, FileIsStored
<1> QED
  BY <1>7, <1>9, <1>10 DEF VaultInv

LEMMA OpenKeeps ==
  ASSUME VaultInv, NEW h \in Holders, Open(h)
  PROVE  VaultInv'
<1> DEFINE r == [at |-> "idle", salt |-> file.salt, todo |-> <<>>]
<1>1. /\ holder[h].at = "closed" /\ file.is = "vault" /\ holder' = [holder EXCEPT ![h] = r]
      /\ UNCHANGED <<file, salts, sets, acked, stored, disrupted, server, env, signer>>
  BY DEF Open, Closed, serverVars
<1>2. r \in [at : {"idle"}, salt : 1..salts, todo : Seq(SecretKeys)] /\ r.at = "idle"
  BY <1>1 DEF VaultInv, VaultVarsOK, FileTypeOK
<1> HIDE DEF r
<1>3. holder'[h] = r /\ \A x \in Holders \ {h} : holder'[x] = holder[x]
  BY <1>1 DEF VaultInv, VaultVarsOK, HolderTypeOK
<1>4. VaultVarsOK'
  BY <1>1, <1>2 DEF VaultInv, VaultVarsOK, HolderTypeOK, FileTypeOK
<1>5. WritesAreSound'
  BY <1>1, <1>2, <1>3 DEF VaultInv, WritesAreSound
<1>6. AcknowledgedIsStored' /\ SignerHasSource' /\ FileIsStored'
  BY <1>1 DEF VaultInv, AcknowledgedIsStored, SignerHasSource, FileIsStored
<1> QED
  BY <1>4, <1>5, <1>6 DEF VaultInv

LEMMA ReadForSetKeeps ==
  ASSUME VaultInv, NEW h \in Holders, NEW k \in SecretKeys, NEW v \in SecretValues \union {NoValue},
         NEW todo \in Seq(SecretKeys), ReadForSet(h, k, v, todo)
  PROVE  VaultInv'
<1> DEFINE r == [at |-> "truncate", salt |-> file.salt, next |-> [file.secrets EXCEPT ![k] = v],
                 key |-> k, todo |-> todo]
<1>1. /\ holder[h].at = "idle" /\ file.is = "vault" /\ holder' = [holder EXCEPT ![h] = r]
      /\ UNCHANGED <<file, salts, acked, stored, disrupted, server, env, signer>>
  BY DEF ReadForSet, Readable, serverVars
<1>2. file.salt \in 1..salts /\ [file.secrets EXCEPT ![k] = v] \in Secrets
  BY <1>1 DEF VaultInv, VaultVarsOK, FileTypeOK, Secrets
<1>3. /\ r \in [at : {"truncate", "fill"}, salt : 1..salts, next : Secrets,
                key : SecretKeys \union {"none"}, todo : Seq(SecretKeys)]
      /\ r.at = "truncate" /\ r.key # "none"
  BY <1>2, VaultAssumption
<1> HIDE DEF r
<1>4. holder'[h] = r /\ \A x \in Holders \ {h} : holder'[x] = holder[x]
  BY <1>1 DEF VaultInv, VaultVarsOK, HolderTypeOK
<1>5. VaultVarsOK'
  BY <1>1, <1>3 DEF VaultInv, VaultVarsOK, HolderTypeOK, FileTypeOK
<1>6. WritesAreSound'
  BY <1>1, <1>3, <1>4 DEF VaultInv, WritesAreSound
<1>7. AcknowledgedIsStored' /\ SignerHasSource' /\ FileIsStored'
  BY <1>1 DEF VaultInv, AcknowledgedIsStored, SignerHasSource, FileIsStored
<1> QED
  BY <1>5, <1>6, <1>7 DEF VaultInv

LEMMA MigrateNextKeeps ==
  ASSUME VaultInv, NEW h \in Holders, MigrateNext(h)
  PROVE  VaultInv'
<1>1. holder[h].at = "idle" /\ holder[h].todo # <<>>
  BY DEF MigrateNext
<1>2. holder[h].todo \in Seq(SecretKeys)
  BY <1>1 DEF VaultInv, VaultVarsOK, HolderTypeOK
<1>3. Head(holder[h].todo) \in SecretKeys /\ Tail(holder[h].todo) \in Seq(SecretKeys)
  BY <1>1, <1>2, HeadTailProperties
<1>4. Dotenv[Head(holder[h].todo)] \in SecretValues \union {NoValue}
  BY <1>3, VaultAssumption
<1> QED
  BY <1>3, <1>4, ReadForSetKeeps DEF MigrateNext

(* The truncation is a disruption unless the handle's read is still what was *)
(* acknowledged.                                                             *)
LEMMA TruncateKeeps ==
  ASSUME VaultInv, NEW h \in Holders, Truncate(h)
  PROVE  VaultInv'
<1>1. /\ holder[h].at = "truncate" /\ file' = Garbage
      /\ disrupted' = (disrupted \/ Overtakes(h))
      /\ holder' = [holder EXCEPT ![h] = [holder[h] EXCEPT !.at = "fill"]]
      /\ UNCHANGED <<salts, sets, acked, stored, server, env, signer>>
  BY DEF Truncate, serverVars
<1>2. holder[h] \in [at : {"truncate", "fill"}, salt : 1..salts, next : Secrets,
                     key : SecretKeys \union {"none"}, todo : Seq(SecretKeys)]
  BY <1>1 DEF VaultInv, VaultVarsOK, HolderTypeOK
<1> DEFINE r == [holder[h] EXCEPT !.at = "fill"]
<1>3. /\ r \in [at : {"truncate", "fill"}, salt : 1..salts, next : Secrets,
                key : SecretKeys \union {"none"}, todo : Seq(SecretKeys)]
      /\ r.at = "fill" /\ r.key = holder[h].key /\ r.next = holder[h].next
  BY <1>2
<1>4. holder' = [holder EXCEPT ![h] = r]
  BY <1>1
<1> HIDE DEF r
<1>5. holder'[h] = r /\ \A x \in Holders \ {h} : holder'[x] = holder[x]
  BY <1>4 DEF VaultInv, VaultVarsOK, HolderTypeOK
<1>6. /\ HolderTypeOK' /\ file'.is = "garbage" /\ FileTypeOK' /\ disrupted' \in BOOLEAN
  <2>1. HolderTypeOK'
    BY <1>1, <1>3, <1>4 DEF VaultInv, VaultVarsOK, HolderTypeOK
  <2>2. file'.is = "garbage" /\ FileTypeOK'
    BY <1>1 DEF FileTypeOK, Garbage
  <2>3. disrupted' \in BOOLEAN
    BY <1>1
  <2> QED
    BY <2>1, <2>2, <2>3
<1>7. VaultVarsOK'
  BY <1>1, <1>6 DEF VaultInv, VaultVarsOK
<1>8. ASSUME ~disrupted'
      PROVE  /\ \A x \in Holders : holder'[x].at = "fill" => x = h
             /\ holder[h].key # "none" => \A k \in SecretKeys \ {holder[h].key} : holder[h].next[k] = acked[k]
  <2>1. ~disrupted /\ file.is # "garbage"
    BY <1>1, <1>8 DEF Overtakes
  <2>2. \A x \in Holders \ {h} : holder'[x].at # "fill"
    BY <1>5, <2>1 DEF VaultInv, WritesAreSound
  <2>3. ASSUME holder[h].key # "none", NEW k \in SecretKeys \ {holder[h].key}
        PROVE  holder[h].next[k] = acked[k]
    <3>1. file.is = "vault"
      BY <1>1, <2>1, <2>3 DEF VaultInv, VaultVarsOK, FileTypeOK, WritesAreSound
    <3>2. file.secrets[k] = holder[h].next[k]
      BY <1>1, <1>8, <2>3, <3>1 DEF Overtakes
    <3> QED
      BY <2>1, <3>1, <3>2 DEF VaultInv, AcknowledgedIsStored
  <2> QED
    BY <2>2, <2>3
<1>9. WritesAreSound'
  <2>1. file'.is = "garbage" /\ acked' = acked
    BY <1>1, <1>6
  <2>2. /\ r.key = "none" => r.next = Empty
        /\ \A x \in Holders \ {h} : holder[x].at \in {"truncate", "fill"} /\ holder[x].key = "none"
             => holder[x].next = Empty
    BY <1>1, <1>3 DEF VaultInv, WritesAreSound
  <2>3. \A x \in Holders : ~disrupted' /\ holder'[x].at = "fill" =>
           /\ x = h
           /\ \A y \in Holders : holder'[y].at = "fill" => y = x
           /\ holder'[x].key # "none" => \A k \in SecretKeys \ {holder'[x].key} : holder'[x].next[k] = acked[k]
    BY <1>3, <1>5, <1>8
  <2> QED
    BY <1>3, <1>5, <2>1, <2>2, <2>3 DEF WritesAreSound
<1>10. AcknowledgedIsStored' /\ SignerHasSource' /\ FileIsStored'
  BY <1>1, <1>6 DEF VaultInv, AcknowledgedIsStored, SignerHasSource, FileIsStored
<1> QED
  BY <1>7, <1>9, <1>10 DEF VaultInv

LEMMA FillKeeps ==
  ASSUME VaultInv, NEW h \in Holders, Fill(h)
  PROVE  VaultInv'
<1> DEFINE r == [at |-> "idle", salt |-> holder[h].salt, todo |-> holder[h].todo]
           next == holder[h].next
           key == holder[h].key
<1>1. /\ holder[h].at = "fill" /\ file' = Vault(holder[h].salt, next)
      /\ acked' = IF key = "none" THEN Empty ELSE [acked EXCEPT ![key] = next[key]]
      /\ stored' = stored \union {<<k, next[k]>> : k \in {x \in SecretKeys : next[x] # NoValue}}
      /\ holder' = [holder EXCEPT ![h] = r]
      /\ UNCHANGED <<salts, sets, disrupted, server, env, signer>>
  BY DEF Fill, serverVars
<1>2. /\ holder[h].salt \in 1..salts /\ next \in Secrets /\ key \in SecretKeys \union {"none"}
      /\ holder[h].todo \in Seq(SecretKeys)
  BY <1>1 DEF VaultInv, VaultVarsOK, HolderTypeOK
<1>3. r \in [at : {"idle"}, salt : 1..salts, todo : Seq(SecretKeys)] /\ r.at = "idle"
  BY <1>2
<1>4. /\ key = "none" => next = Empty
      /\ ~disrupted => /\ \A x \in Holders : holder[x].at = "fill" => x = h
                       /\ key # "none" => \A k \in SecretKeys \ {key} : next[k] = acked[k]
  BY <1>1 DEF VaultInv, WritesAreSound
<1> HIDE DEF r, next, key
<1>5. holder'[h] = r /\ \A x \in Holders \ {h} : holder'[x] = holder[x]
  BY <1>1 DEF VaultInv, VaultVarsOK, HolderTypeOK
<1>6. file'.is = "vault" /\ file'.salt = holder[h].salt /\ file'.secrets = next /\ FileTypeOK'
  BY <1>1, <1>2 DEF Vault, FileTypeOK
<1>7. acked' \in Secrets /\ acked \in Secrets
  BY <1>1, <1>2 DEF VaultInv, VaultVarsOK, Secrets, Empty
<1>8. VaultVarsOK'
  BY <1>1, <1>3, <1>6, <1>7 DEF VaultInv, VaultVarsOK, HolderTypeOK
<1>9. WritesAreSound'
  BY <1>1, <1>3, <1>4, <1>5, <1>6 DEF VaultInv, WritesAreSound
<1>10. AcknowledgedIsStored'
  <2>1. ASSUME ~disrupted
        PROVE  next = acked'
    <3>1. CASE key = "none"
      BY <1>1, <1>4, <3>1
    <3>2. CASE key # "none"
      <4>1. key \in SecretKeys
        BY <1>2, <3>2
      <4>2. \A k \in SecretKeys : acked'[k] = next[k]
        BY <1>1, <1>4, <1>7, <2>1, <3>2, <4>1 DEF Secrets
      <4> QED
        BY <1>2, <1>7, <4>2 DEF Secrets
    <3> QED
      BY <3>1, <3>2
  <2> QED
    BY <1>1, <1>6, <2>1 DEF AcknowledgedIsStored
<1>11. SignerHasSource'
  BY <1>1 DEF VaultInv, SignerHasSource
<1>12. FileIsStored'
  <2>1. \A k \in SecretKeys : next[k] # NoValue => <<k, next[k]>> \in stored'
    BY <1>1
  <2> QED
    BY <1>6, <2>1 DEF FileIsStored
<1> QED
  BY <1>8, <1>9, <1>10, <1>11, <1>12 DEF VaultInv

LEMMA StopKeeps ==
  ASSUME VaultInv, NEW h \in Holders, Stop(h)
  PROVE  VaultInv'
<1>1. /\ disrupted' = (disrupted \/ holder[h].at = "fill")
      /\ holder' = [holder EXCEPT ![h] = [at |-> "closed"]]
      /\ UNCHANGED <<file, salts, sets, acked, stored, server, env, signer>>
  BY DEF Stop, Closed, serverVars
<1>2. holder'[h].at = "closed" /\ \A x \in Holders \ {h} : holder'[x] = holder[x]
  BY <1>1 DEF VaultInv, VaultVarsOK, HolderTypeOK
<1>3. VaultVarsOK'
  BY <1>1 DEF VaultInv, VaultVarsOK, HolderTypeOK, FileTypeOK
<1>4. WritesAreSound'
  <2>1. ~disrupted' => ~disrupted
    BY <1>1
  <2> QED
    BY <1>1, <1>2, <2>1 DEF VaultInv, WritesAreSound
<1>5. AcknowledgedIsStored' /\ SignerHasSource' /\ FileIsStored'
  BY <1>1 DEF VaultInv, AcknowledgedIsStored, SignerHasSource, FileIsStored
<1> QED
  BY <1>3, <1>4, <1>5 DEF VaultInv

LEMMA EnvMigrateKeeps ==
  ASSUME VaultInv, EnvMigrate
  PROVE  VaultInv'
<1>1. /\ file' = Garbage /\ file'.is = "garbage" /\ disrupted'
      /\ UNCHANGED <<salts, holder, sets, acked, stored, server, env, signer>>
      /\ disrupted' = TRUE
  BY DEF EnvMigrate, Garbage, serverVars
<1>2. VaultVarsOK'
  BY <1>1 DEF VaultInv, VaultVarsOK, HolderTypeOK, FileTypeOK, Garbage
<1>3. WritesAreSound' /\ AcknowledgedIsStored' /\ SignerHasSource' /\ FileIsStored'
  BY <1>1 DEF VaultInv, WritesAreSound, AcknowledgedIsStored, SignerHasSource, FileIsStored
<1> QED
  BY <1>2, <1>3 DEF VaultInv

(* The server's start reads the file and changes what it holds itself.       *)
ServerNext ==
  \/ \E password \in BOOLEAN : ServerStarts(password)
  \/ OpenEarly \/ LoadEarly \/ OpenForState \/ LoadToEnv \/ TakeKey

LEMMA ServerKeeps ==
  ASSUME VaultInv, ServerNext
  PROVE  VaultInv'
<1>1. UNCHANGED <<file, salts, holder, sets, acked, stored, disrupted>>
  BY DEF ServerNext, ServerStarts, OpenEarly, LoadEarly, OpenForState, LoadToEnv, TakeKey
<1>2. SUFFICES env' \in Secrets /\ SignerHasSource'
  <2>1. VaultVarsOK'
    BY <1>1, <1>2 DEF VaultInv, VaultVarsOK, HolderTypeOK, FileTypeOK
  <2>2. WritesAreSound' /\ AcknowledgedIsStored' /\ FileIsStored'
    BY <1>1 DEF VaultInv, WritesAreSound, AcknowledgedIsStored, FileIsStored
  <2> QED
    BY <1>2, <2>1, <2>2 DEF VaultInv
<1>3. /\ env \in Secrets /\ FileTypeOK /\ FileIsStored /\ SignerHasSource
      /\ \A k \in SecretKeys : env[k] # Dotenv[k] => <<k, env[k]>> \in stored
  BY DEF VaultInv, VaultVarsOK, SignerHasSource
<1>4. \A salt : /\ LoadedEnv(salt) \in Secrets
                /\ \A k \in SecretKeys : LoadedEnv(salt)[k] # Dotenv[k] => <<k, LoadedEnv(salt)[k]>> \in stored
  BY <1>3 DEF LoadedEnv, Readable, FileTypeOK, FileIsStored, Secrets
<1>5. ASSUME NEW password \in BOOLEAN, ServerStarts(password)
      PROVE  env' \in Secrets /\ SignerHasSource'
  BY <1>5, VaultAssumption DEF ServerStarts, SignerHasSource, Secrets
<1>6. CASE OpenEarly
  BY <1>3, <1>6 DEF OpenEarly, SignerHasSource
<1>7. CASE LoadEarly
  BY <1>3, <1>4, <1>7 DEF LoadEarly, SignerHasSource
<1>8. CASE OpenForState
  <2>1. CASE Opens
    BY <1>3, <1>8, <2>1 DEF OpenForState, SignerHasSource
  <2>2. CASE ~Opens
    BY <1>3, <1>8, <2>2, VaultAssumption DEF OpenForState, SignerHasSource
  <2> QED
    BY <2>1, <2>2
<1>9. CASE LoadToEnv
  BY <1>3, <1>4, <1>9 DEF LoadToEnv, SignerHasSource
<1>10. CASE TakeKey
  BY <1>3, <1>10, VaultAssumption DEF TakeKey, SignerHasSource, FileIsStored, Readable
<1> QED
  BY <1>5, <1>6, <1>7, <1>8, <1>9, <1>10 DEF ServerNext

LEMMA VaultStep == VaultInv /\ [VaultNext]_vaultVars => VaultInv'
<1> SUFFICES ASSUME VaultInv, [VaultNext]_vaultVars
             PROVE  VaultInv'
  OBVIOUS
<1>1. ASSUME NEW h \in Holders, NEW todo \in {<<>>, Migratable}, Create(h, todo)
      PROVE  VaultInv'
  <2>1. todo \in Seq(SecretKeys)
    <3>1. todo = <<>> \/ todo = Migratable
      BY <1>1
    <3>2. <<>> \in Seq(SecretKeys)
      OBVIOUS
    <3> QED
      BY <3>1, <3>2, MigratableType, Zenon
  <2> QED
    BY <1>1, <2>1, CreateKeeps
<1>2. ASSUME NEW h \in Holders, NEW k \in SecretKeys, NEW v \in SecretValues, SetSecret(h, k, v)
      PROVE  VaultInv'
  <2>1. <<>> \in Seq(SecretKeys)
    OBVIOUS
  <2> QED
    BY <1>2, <2>1, ReadForSetKeeps DEF SetSecret
<1>3. ASSUME NEW h \in Holders, Open(h) \/ MigrateNext(h) \/ Truncate(h) \/ Fill(h) \/ Stop(h)
      PROVE  VaultInv'
  BY <1>3, OpenKeeps, MigrateNextKeeps, TruncateKeeps, FillKeeps, StopKeeps
<1>4. CASE EnvMigrate
  BY <1>4, EnvMigrateKeeps
<1>5. CASE ServerNext
  BY <1>5, ServerKeeps
<1>6. CASE UNCHANGED vaultVars
  BY <1>6 DEF vaultVars, VaultInv, VaultVarsOK, HolderTypeOK, FileTypeOK, WritesAreSound,
              AcknowledgedIsStored, SignerHasSource, FileIsStored
<1> QED
  BY <1>1, <1>2, <1>3, <1>4, <1>5, <1>6 DEF VaultNext, ServerNext

(* As long as no write is overtaken, cut off or made over another file, the  *)
(* vault holds exactly what its callers were told; and the server signs with *)
(* a key that was in a vault, or without a vault with .env's, whatever the   *)
(* handles and the migration do while it starts (m055_env_vault.rs,          *)
(* env-migrate.rs, main.rs).                                                 *)
THEOREM VaultIsSound == VaultSpec => []VaultSound
<1>1. VaultInv => VaultSound
  BY DEF VaultInv, VaultVarsOK, FileTypeOK, HolderTypeOK, Secrets, VaultSound, VaultTypeOK
<1> QED
  BY <1>1, VaultInitially, VaultStep, PTL DEF VaultSpec
=============================================================================
