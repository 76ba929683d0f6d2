---------------------------- MODULE SovereignAudit ----------------------------
(***************************************************************************)
(* The Sovereign and Commander audit layers                                *)
(* (backend/m133_sovereign_audit.rs, m134_commander_audit.rs) and the      *)
(* routes of main.rs that drive them.                                      *)
(*                                                                         *)
(* The Sovereign engine grades the enterprise, moves the operating profile *)
(* by itself and executes the Commander's directives, each with a signed   *)
(* record; the Commander layer reviews every directive.  Each engine is    *)
(* behind its own mutex, and a request takes one after the other.  Grades  *)
(* stand for the measured values; texts, signatures, the review's scores   *)
(* and the Commander's lessons are left out.                               *)
(***************************************************************************)
EXTENDS Naturals, Sequences, FiniteSets, SequencesExt

CONSTANTS
  Clients,      \* concurrent requests
  Directives,   \* what the Commander sends, see Directive
  CycleGrades,  \* grades of the engine's own cycles
  MaxRecords,   \* bound: records in the trail
  NoStatus      \* no reflection yet

VARIABLES
  profile,      \* current_profile
  paused,       \* autonomous_execution_paused
  shutdown,     \* emergency_shutdown
  lastStatus,   \* status of last_reflection
  trail,        \* records of the engine, in the order of their block
  reviews,      \* records of the Commander layer: the block each is about
  stats,        \* InterventionStats
  client,       \* what each request is doing
  abandoned     \* history: blocks whose request was dropped before the review

auditVars == <<profile, paused, shutdown, lastStatus, trail, reviews, stats, client, abandoned>>

Profiles   == {"AGGRESSIVE", "BALANCED", "CONSERVATIVE", "LOCKDOWN"}
Dimensions == {"strategic", "capital", "liquidity", "risk", "compliance"}

Actions ==
  {"APPROVE_RECOMMENDED", "REJECT_RECOMMENDATION", "SWITCH_OPERATING_PROFILE",
   "ACTIVATE_CONSERVATIVE_MODE", "PAUSE_AUTONOMOUS_EXECUTION",
   "RESUME_AUTONOMOUS_EXECUTION", "EMERGENCY_SHUTDOWN"}

(* The engine reads the action in any case; exact says that it was spelled   *)
(* in capitals, as every target is here.                                     *)
Directive == [action : Actions, target : Profiles \union {"none"}, exact : BOOLEAN]

ASSUME SovereignAssumption == Directives \subseteq Directive /\ MaxRecords \in Nat

Waiting == [at |-> "waiting"]

SovereignInit ==
  /\ profile = "BALANCED" /\ paused = FALSE /\ shutdown = FALSE
  /\ lastStatus = NoStatus
  /\ trail = <<>> /\ reviews = <<>>
  /\ stats = [total |-> 0, aligned |-> 0, by |-> [a \in Actions |-> 0]]
  /\ client = [c \in Clients |-> Waiting]
  /\ abandoned = {}

-----------------------------------------------------------------------------
(* evaluate: the status of the grades, the profile it recommends, and the    *)
(* profile after the autonomous shift.                                       *)

StatusOf(grades) ==
  LET graded(g) == {d \in Dimensions : grades[d] = g}
  IN CASE graded("FAIL") # {} \/ Cardinality(graded("WARN")) >= 3 -> "RED"
       [] graded("FAIL") = {} /\ Cardinality(graded("WARN")) \in 1..2 -> "AMBER"
       [] OTHER -> "GREEN"

(* An AMBER posture has no failed dimension, so the branch that would        *)
(* recommend CONSERVATIVE is never taken.                                    *)
Recommended(status, measured) == IF status = "RED" THEN "LOCKDOWN" ELSE measured

AutonomousShift(recommended) ==
  IF recommended # profile /\ ~paused /\ profile # "LOCKDOWN" THEN recommended ELSE profile

(* measured is the profile the metrics were built for. *)
Evaluate(grades, measured) ==
  /\ lastStatus' = StatusOf(grades)
  /\ profile' = AutonomousShift(Recommended(StatusOf(grades), measured))

(* GET /api/audit/sovereign reads the profile, measures without the lock and *)
(* evaluates.  Nothing measures exposure and liquidity, which stay 0: the    *)
(* one passes, the other fails.  The fleet's numbers grade the other three,  *)
(* of whose grades two are enough: the status is RED by the liquidity.       *)
FleetGrades ==
  {[d \in Dimensions |-> CASE d = "capital" -> "PASS" [] d = "liquidity" -> "FAIL" [] OTHER -> g] :
     g \in {"PASS", "FAIL"}}

ReadProfile(c) ==
  /\ client[c] = Waiting
  /\ client' = [client EXCEPT ![c] = [at |-> "measured", profile |-> profile]]
  /\ UNCHANGED <<profile, paused, shutdown, lastStatus, trail, reviews, stats, abandoned>>

Report(c) ==
  /\ client[c].at = "measured"
  /\ \E grades \in FleetGrades : Evaluate(grades, client[c].profile)
  /\ client' = [client EXCEPT ![c] = Waiting]
  /\ UNCHANGED <<paused, shutdown, trail, reviews, stats, abandoned>>

(* audit_cycle evaluates and records; no route calls it. *)
AuditCycle(c, grades) ==
  /\ client[c].at = "measured" /\ Len(trail) < MaxRecords
  /\ Evaluate(grades, client[c].profile)
  /\ trail' = Append(trail, [by |-> "cycle", status |-> lastStatus', profile |-> profile'])
  /\ client' = [client EXCEPT ![c] = Waiting]
  /\ UNCHANGED <<paused, shutdown, reviews, stats, abandoned>>

-----------------------------------------------------------------------------
(* commander_intervention; a switch without a valid target is refused. *)

ProfileAfter(d) ==
  CASE d.action = "SWITCH_OPERATING_PROFILE" -> d.target
    [] d.action = "ACTIVATE_CONSERVATIVE_MODE" -> "CONSERVATIVE"
    [] d.action = "EMERGENCY_SHUTDOWN" -> "LOCKDOWN"
    [] OTHER -> profile

PausedAfter(d) ==
  \/ d.action \in {"PAUSE_AUTONOMOUS_EXECUTION", "EMERGENCY_SHUTDOWN"}
  \/ paused /\ d.action # "RESUME_AUTONOMOUS_EXECUTION"

Intervene(c, d) ==
  /\ client[c] = Waiting /\ Len(trail) < MaxRecords
  /\ d.action = "SWITCH_OPERATING_PROFILE" => d.target # "none"
  /\ profile' = ProfileAfter(d)
  /\ paused' = PausedAfter(d)
  /\ shutdown' = (shutdown \/ d.action = "EMERGENCY_SHUTDOWN")
  /\ trail' = Append(trail, [by |-> "commander", directive |-> d, profile |-> profile',
                             status |-> IF lastStatus = NoStatus THEN "GREEN" ELSE lastStatus])
  /\ client' = [client EXCEPT ![c] = [at |-> "review", block |-> Len(trail) + 1]]
  /\ UNCHANGED <<lastStatus, reviews, stats, abandoned>>

(* action_alignment compares the request's own spelling. *)
Aligned(d, status) ==
  /\ d.exact
  /\ CASE status = "GREEN" ->
            d.action \in {"APPROVE_RECOMMENDED", "RESUME_AUTONOMOUS_EXECUTION", "REJECT_RECOMMENDATION"}
       [] status = "AMBER" ->
            \/ d.action \in {"ACTIVATE_CONSERVATIVE_MODE", "PAUSE_AUTONOMOUS_EXECUTION"}
            \/ d.action = "SWITCH_OPERATING_PROFILE" /\ d.target = "CONSERVATIVE"
       [] status = "RED" ->
            \/ d.action \in {"EMERGENCY_SHUTDOWN", "PAUSE_AUTONOMOUS_EXECUTION", "ACTIVATE_CONSERVATIVE_MODE"}
            \/ d.action = "SWITCH_OPERATING_PROFILE" /\ d.target = "LOCKDOWN"

(* record_intervention, on the record the request holds. *)
RecordIntervention(d, status) ==
  stats' = [total   |-> stats.total + 1,
            aligned |-> stats.aligned + (IF Aligned(d, status) THEN 1 ELSE 0),
            by      |-> IF d.exact THEN [stats.by EXCEPT ![d.action] = @ + 1] ELSE stats.by]

(* Mutant: the directive is judged by the posture at the time of the review. *)
ReviewByPresent(c) ==
  /\ client[c].at = "review"
  /\ RecordIntervention(trail[client[c].block].directive, IF lastStatus = NoStatus THEN "GREEN" ELSE lastStatus)
  /\ reviews' = Append(reviews, client[c].block)
  /\ client' = [client EXCEPT ![c] = Waiting]
  /\ UNCHANGED <<profile, paused, shutdown, lastStatus, trail, abandoned>>

(* The request lets go of the engine and takes the Commander layer's lock. *)
Review(c) ==
  /\ client[c].at = "review"
  /\ RecordIntervention(trail[client[c].block].directive, trail[client[c].block].status)
  /\ reviews' = Append(reviews, client[c].block)
  /\ client' = [client EXCEPT ![c] = Waiting]
  /\ UNCHANGED <<profile, paused, shutdown, lastStatus, trail, abandoned>>

(* A request dropped between the two engines. *)
DropRequest(c) ==
  /\ client[c] # Waiting
  /\ abandoned' = abandoned \union (IF client[c].at = "review" THEN {client[c].block} ELSE {})
  /\ client' = [client EXCEPT ![c] = Waiting]
  /\ UNCHANGED <<profile, paused, shutdown, lastStatus, trail, reviews, stats>>

SovereignNext ==
  \/ \E c \in Clients :
       \/ ReadProfile(c) \/ Report(c)
       \/ \E grades \in CycleGrades : AuditCycle(c, grades)
       \/ \E d \in Directives : Intervene(c, d)
       \/ Review(c) \/ DropRequest(c)

SovereignSpec == SovereignInit /\ [][SovereignNext]_auditVars

-----------------------------------------------------------------------------
SovereignTypeOK ==
  /\ profile \in Profiles
  /\ lastStatus \in {NoStatus, "GREEN", "AMBER", "RED"}
  /\ Len(trail) <= MaxRecords
  /\ stats.by \in [Actions -> Nat]

ByCommander(n) == trail[n].by = "commander"

(* The records alone tell whether block n left the engine paused. *)
PausedOnRecord(n) ==
  \E p \in 1..n :
    /\ ByCommander(p) /\ trail[p].directive.action \in {"PAUSE_AUTONOMOUS_EXECUTION", "EMERGENCY_SHUTDOWN"}
    /\ \A r \in (p + 1)..n :
         ByCommander(r) => trail[r].directive.action # "RESUME_AUTONOMOUS_EXECUTION"

ProfileOnRecord(n) == IF n = 0 THEN "BALANCED" ELSE trail[n].profile

(* The trail explains the engine's state: the pause is the one on record,    *)
(* the profile is the recorded one unless an unrecorded report locked the    *)
(* engine down, which none does while it is paused; and no cycle lifts a     *)
(* lockdown or moves the profile under a pause.                              *)
StateIsOnRecord ==
  /\ paused = PausedOnRecord(Len(trail))
  /\ profile \in {ProfileOnRecord(Len(trail))} \union (IF paused THEN {} ELSE {"LOCKDOWN"})
  /\ \A n \in 1..Len(trail) :
       trail[n].by = "cycle" /\ (PausedOnRecord(n - 1) \/ ProfileOnRecord(n - 1) = "LOCKDOWN")
         => trail[n].profile = ProfileOnRecord(n - 1)

(* Each directive is reviewed once, by the posture it was given under,       *)
(* unless its request was dropped in between; the statistics are those of    *)
(* the reviews, with directives in small letters in no category.             *)
ReviewsAreSound ==
  /\ IsInjective(reviews)
  /\ {n \in DOMAIN trail : ByCommander(n)} =
       ToSet(reviews) \union abandoned \union
       {client[c].block : c \in {x \in Clients : client[x].at = "review"}}
  /\ ToSet(reviews) \intersect abandoned = {}
  /\ stats.total = Len(reviews)
  /\ stats.aligned = Cardinality({n \in ToSet(reviews) : Aligned(trail[n].directive, trail[n].status)})
  /\ \A a \in Actions :
       stats.by[a] = Cardinality({n \in ToSet(reviews) :
                                    trail[n].directive.exact /\ trail[n].directive.action = a})

(* Both, for the routes' interleavings and dropped requests. *)
SovereignSound == SovereignTypeOK /\ StateIsOnRecord /\ ReviewsAreSound
=============================================================================
