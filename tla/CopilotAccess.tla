---------------------------- MODULE CopilotAccess ----------------------------
(***************************************************************************)
(* The Copilot's probes of the system (backend/copilot_system_access.rs)   *)
(* over the module registry of HotSwap: the preflight, simulation and live *)
(* checks of a deployment, each a sequence of probes with awaits between   *)
(* them, while registry tasks and the operator go on.                      *)
(*                                                                         *)
(* An access level lasts for the object's life.  Texts, the probe log (only *)
(* ever appended to) and the number of results are left out: a report is   *)
(* the set of statuses found, by probe.  "Created" is the Fixed of a       *)
(* missing .env that the probe has created.  The agents' probe finds none: *)
(* nothing ever registers agents with this object.                         *)
(***************************************************************************)
EXTENDS HotSwap, Sequences

CONSTANTS
  RequiredVars,  \* environment variables a deployment needs
  SecretVars,    \* those that carry credentials (is_secret_env_key)
  RpcVars,       \* those that name an RPC endpoint
  CriticalPaths, \* files probe_filesystem asks for
  MaxEdits       \* bound: changes the operator makes

ASSUME CopilotAssumption ==
  /\ SecretVars \subseteq RequiredVars /\ RpcVars \subseteq RequiredVars
  /\ MaxEdits \in Nat

VARIABLES
  access,  \* AccessLevel
  disk,    \* the files: .env (its variables, and the masked ones), the
           \* critical paths, runner.yaml, and whether .env has http: URLs
  audit,   \* the running check: its stage, the probes to come, the modules
           \* still to be looked at, and the report
  edits,   \* changes so far
  quiet    \* history: since the check began nothing but the check itself has
           \* happened, and no write of it failed

copilotVars == <<access, disk, audit, edits, quiet>>

Stages == {"preflight", "simulation", "live"}

(* run_full_audit, run_real_simulation, run_real_live_check *)
Probes(stage) ==
  CASE stage = "preflight"  -> <<"modules", "env", "fs", "rpc", "fleet", "security", "config">>
    [] stage = "simulation" -> <<"modules", "rpc", "fleet">>
    [] stage = "live"       -> <<"security", "fs", "config">>

NoAudit == [stage |-> "none", todo |-> <<>>, listed |-> {}, report |-> {}]

CopilotInit ==
  /\ HotSwapInit
  /\ access \in {"ReadOnly", "Suggest", "Full"}
  /\ disk \in [env : BOOLEAN, vars : SUBSET RequiredVars, masked : {{}},
               paths : SUBSET CriticalPaths, runner : BOOLEAN, http : BOOLEAN]
  /\ ~disk.env => disk.vars = {} /\ ~disk.http
  /\ audit = NoAudit
  /\ edits = 0
  /\ quiet = TRUE

CanWrite == access = "Full"

BeginAudit(stage) ==
  /\ audit.todo = <<>> /\ audit.listed = {}
  /\ audit' = [stage |-> stage, todo |-> Probes(stage), listed |-> {}, report |-> {}]
  /\ quiet' = TRUE
  /\ UNCHANGED <<registryVars, access, disk, edits>>

(* The next probe reports one of `statuses`. *)
Reported(probe, statuses) ==
  /\ audit.todo # <<>> /\ Head(audit.todo) = probe /\ audit.listed = {}
  /\ \E s \in statuses :
       audit' = [audit EXCEPT !.todo = Tail(@), !.report = @ \union {<<probe, s>>}]

-----------------------------------------------------------------------------
(* probe_all_modules lists the registry, then asks for each module in the    *)
(* list, as it was then; probe_single_module restarts it if it may.          *)
ListModules ==
  /\ audit.todo # <<>> /\ Head(audit.todo) = "modules" /\ audit.listed = {}
  /\ audit' = [audit EXCEPT !.todo = Tail(@),
                 !.listed = {<<n, modules[n].status>> : n \in {m \in Names : Loaded(m)}}]
  /\ UNCHANGED <<registryVars, access, disk, edits, quiet>>

ModuleSeen(entry, s) ==
  audit' = [audit EXCEPT !.listed = @ \ {entry}, !.report = @ \union {<<"modules", s>>}]

ProbeModule(entry) ==
  LET n == entry[1]
  IN /\ entry \in audit.listed
     /\ \/ /\ entry[2] = "Active"
           /\ ModuleSeen(entry, "Pass")
           /\ UNCHANGED registryVars
        \/ /\ entry[2] # "Active" /\ ~CanWrite
           /\ ModuleSeen(entry, "Warn")
           /\ UNCHANGED registryVars
        \/ /\ entry[2] # "Active" /\ CanWrite
           /\ IF Loaded(n)
              THEN RestartModule(n) /\ ModuleSeen(entry, "Fixed")
              ELSE /\ ModulesWritable
                   /\ ModuleSeen(entry, "Fail")
                   /\ UNCHANGED registryVars
     /\ UNCHANGED <<access, disk, edits, quiet>>

Missing == RequiredVars \ disk.vars

(* Mutant: secrets are filled in like any other variable. *)
EnvStatusFillsSecrets ==
  IF Missing = {} /\ disk.masked = {} THEN "Pass"
  ELSE IF ~CanWrite THEN "Fail"
  ELSE IF Missing = {} THEN "Pass" ELSE "Fixed"

(* An existing .env.  With full access missing variables count as fixed      *)
(* although the file is only opened, not written; secrets are not.           *)
EnvStatus ==
  IF Missing = {} /\ disk.masked = {} THEN "Pass"
  ELSE IF ~CanWrite \/ Missing \intersect SecretVars # {} THEN "Fail"
  ELSE IF Missing = {} THEN "Pass" ELSE "Fixed"

(* A probe reports what it writes as fixed, whether or not the write works.  *)
Written(files) ==
  \/ disk' = files /\ UNCHANGED quiet
  \/ UNCHANGED disk /\ quiet' = FALSE

ProbeEnv ==
  /\ IF disk.env
     THEN Reported("env", {EnvStatus, "Fail"}) /\ UNCHANGED <<disk, quiet>>
     ELSE IF CanWrite
     THEN Reported("env", {"Created"}) /\ Written([disk EXCEPT !.env = TRUE])
     ELSE Reported("env", {"Fail"}) /\ UNCHANGED <<disk, quiet>>
  /\ UNCHANGED <<registryVars, access, edits>>

ProbeFilesystem ==
  /\ Reported("fs", {IF disk.paths = CriticalPaths THEN "Pass" ELSE "Warn"})
  /\ UNCHANGED <<registryVars, access, disk, edits, quiet>>

(* An endpoint answers, refuses or times out; with full access a refusal of  *)
(* the known one, and a lack of endpoints, count as fixed.                   *)
ProbeRpc ==
  /\ Reported("rpc",
       IF disk.vars \intersect RpcVars = {}
       THEN {IF CanWrite THEN "Fixed" ELSE "Fail"}
       ELSE {"Pass", "Fail"} \union IF CanWrite THEN {"Fixed"} ELSE {})
  /\ UNCHANGED <<registryVars, access, disk, edits, quiet>>

(* Mutant: runner.yaml is created whatever the level. *)
ProbeFleetAlways ==
  /\ Reported("fleet", {IF disk.runner THEN "Pass"
                        ELSE IF CanWrite THEN "Fixed" ELSE "Warn"})
  /\ disk' = [disk EXCEPT !.runner = TRUE]
  /\ UNCHANGED <<registryVars, access, edits, quiet>>

ProbeFleet ==
  /\ Reported("fleet", {IF disk.runner THEN "Pass"
                        ELSE IF CanWrite THEN "Fixed" ELSE "Warn"})
  /\ IF CanWrite /\ ~disk.runner
     THEN Written([disk EXCEPT !.runner = TRUE])
     ELSE UNCHANGED <<disk, quiet>>
  /\ UNCHANGED <<registryVars, access, edits>>

ProbeSecurity ==
  /\ Reported("security", {IF ~disk.http THEN "Pass"
                           ELSE IF CanWrite THEN "Fixed" ELSE "Fail"})
  /\ UNCHANGED <<registryVars, access, disk, edits, quiet>>

(* docker-compose.yml is one of the paths; Cargo.toml may be malformed. *)
ProbeConfig ==
  /\ Reported("config", {IF disk.paths = CriticalPaths THEN "Pass" ELSE "Warn", "Fail"})
  /\ UNCHANGED <<registryVars, access, disk, edits, quiet>>

Probe ==
  \/ ListModules
  \/ \E entry \in audit.listed : ProbeModule(entry)
  \/ ProbeEnv \/ ProbeFilesystem \/ ProbeRpc \/ ProbeFleet
  \/ ProbeSecurity \/ ProbeConfig

-----------------------------------------------------------------------------
(* The operator edits a file; the registry's own callers go on. *)
Edit ==
  /\ edits < MaxEdits
  /\ edits' = edits + 1
  /\ \/ \E v \in RequiredVars : disk.env /\ disk' = [disk EXCEPT !.vars = @ \union {v}]
     \/ \E v \in disk.vars : disk' = [disk EXCEPT !.vars = @ \ {v}, !.masked = @ \ {v}]
     \/ \E v \in disk.vars : disk' = [disk EXCEPT !.masked = @ \union {v}]
     \/ disk.env /\ disk' = [disk EXCEPT !.http = ~@]
     \/ \E p \in CriticalPaths : disk' = [disk EXCEPT !.paths = @ \union {p}]
     \/ disk' = [disk EXCEPT !.runner = ~@]
  /\ quiet' = FALSE
  /\ UNCHANGED <<registryVars, access, audit>>

RegistryStep ==
  /\ HotSwapNext
  /\ quiet' = FALSE
  /\ UNCHANGED <<access, disk, audit, edits>>

CopilotNext ==
  \/ \E stage \in Stages : BeginAudit(stage)
  \/ Probe
  \/ Edit
  \/ RegistryStep

CopilotSpec == CopilotInit /\ [][CopilotNext]_<<registryVars, copilotVars>>

-----------------------------------------------------------------------------
CopilotTypeOK ==
  /\ disk \in [env : BOOLEAN, vars : SUBSET RequiredVars, masked : SUBSET RequiredVars,
               paths : SUBSET CriticalPaths, runner : BOOLEAN, http : BOOLEAN]
  /\ audit.stage \in Stages \union {"none"}
  /\ \A r \in audit.report : r[2] \in {"Pass", "Warn", "Fail", "Fixed", "Created"}

Passed(stage) ==
  /\ audit.stage = stage /\ audit.todo = <<>> /\ audit.listed = {}
  /\ \A r \in audit.report : r[2] \in {"Pass", "Fixed", "Created"}

(* What a passed and undisturbed preflight guarantees, at any access level:  *)
(* every module serves, the files are there and, when there was an .env,     *)
(* every secret was put there by a person.                                   *)
PassedPreflight ==
  Passed("preflight") /\ quiet =>
    /\ \A n \in Names : Loaded(n) => modules[n].status = "Active"
    /\ disk.paths = CriticalPaths /\ disk.env /\ disk.runner
    /\ SecretVars \subseteq disk.vars \/ <<"env", "Created">> \in audit.report

CopilotSound == CopilotTypeOK /\ PassedPreflight

(* Without full access no probe changes a module or a file, whichever stage  *)
(* runs and however the world moves between the probes; and no probe ever    *)
(* writes a variable.                                                        *)
OnlyFullWrites ==
  [][audit' # audit =>
       /\ disk'.vars = disk.vars
       /\ access # "Full" => UNCHANGED <<modules, disk>>]_<<registryVars, copilotVars>>
=============================================================================
