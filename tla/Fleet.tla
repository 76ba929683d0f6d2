-------------------------------- MODULE Fleet --------------------------------
(***************************************************************************)
(* What CentralC2Server (backend/main.rs) keeps of its fleet: the trade    *)
(* ledger and its global mirror, the runners' metrics, the alert level and *)
(* the trade counters of backend/instrumentation.rs.                       *)
(*                                                                         *)
(* gRPC and REST calls run concurrently.  Each map is a DashMap, whose     *)
(* single operations are atomic; the state has a mutex.  A call of several *)
(* operations is a task with a step for each.  Money, the latency ring and *)
(* the other read-only reports are left out.                               *)
(***************************************************************************)
EXTENDS Naturals, FiniteSets

CONSTANTS
  Callers,    \* concurrent calls
  Hashes,     \* trade hashes
  Runners,
  Metrics,    \* metric names of a batch
  Readings,   \* metric values, Default among them
  Default,    \* the value a runner has before its first batch
  MaxCalls,   \* bound: calls made
  Nothing     \* a hash without a record

ASSUME FleetAssumption ==
  IsFiniteSet(Callers) /\ Default \in Readings /\ MaxCalls \in Nat /\ Nothing \notin {"success", "failed"}

VARIABLES
  trade_records,  \* the server's ledger: hash -> status of the record
  mirror,         \* TRADE_RECORDS, which the REST endpoints read
  runner_kpis,    \* runner -> metrics
  alert_level,    \* GlobalFleetState
  counters,       \* Instrumentation
  call,           \* the calls under way
  calls,          \* calls so far
  pushed,         \* history: each metric's value in the last batch that had it
  raced           \* history: hashes and runners that two calls wrote at once

fleetVars == <<trade_records, mirror, runner_kpis, alert_level, counters, call, calls, pushed, raced>>

NoCall == [at |-> "none"]

Statuses == {"success", "failed"}

Fresh == [m \in Metrics |-> Default]

FleetInit ==
  /\ trade_records = [h \in Hashes |-> Nothing]
  /\ mirror = trade_records
  /\ runner_kpis = [r \in Runners |-> Fresh]
  /\ alert_level = "GREEN"
  /\ counters = [total |-> 0, success |-> 0, failed |-> 0, streak |-> 0]
  /\ call = [c \in Callers |-> NoCall]
  /\ calls = 0
  /\ pushed = runner_kpis
  /\ raced = {}

Others(c, what) ==
  {d \in Callers \ {c} : call[d].at \in {"mirror", "insert"} /\ call[d].on = what}

Started ==
  calls < MaxCalls /\ calls' = calls + 1

-----------------------------------------------------------------------------
(* record_trade: the ledger, the mirror, then three counters. *)

RecordLocal(c, h, status) ==
  /\ call[c] = NoCall
  /\ Started
  /\ trade_records' = [trade_records EXCEPT ![h] = status]
  /\ call' = [call EXCEPT ![c] = [at |-> "mirror", on |-> h, value |-> status]]
  /\ raced' = IF Others(c, h) = {} THEN raced ELSE raced \union {h}
  /\ UNCHANGED <<mirror, runner_kpis, alert_level, counters, pushed>>

(* Mutant: only good trades reach the mirror. *)
MirrorGoodOnly(c) ==
  /\ call[c].at = "mirror"
  /\ mirror' = IF call[c].value = "success" THEN [mirror EXCEPT ![call[c].on] = "success"] ELSE mirror
  /\ call' = [call EXCEPT ![c].at = "total"]
  /\ UNCHANGED <<trade_records, runner_kpis, alert_level, counters, calls, pushed, raced>>

RecordMirror(c) ==
  /\ call[c].at = "mirror"
  /\ mirror' = [mirror EXCEPT ![call[c].on] = call[c].value]
  /\ call' = [call EXCEPT ![c].at = "total"]
  /\ UNCHANGED <<trade_records, runner_kpis, alert_level, counters, calls, pushed, raced>>

CountTotal(c) ==
  /\ call[c].at = "total"
  /\ counters' = [counters EXCEPT !.total = @ + 1]
  /\ call' = [call EXCEPT ![c].at = "verdict"]
  /\ UNCHANGED <<trade_records, mirror, runner_kpis, alert_level, calls, pushed, raced>>

CountVerdict(c) ==
  /\ call[c].at = "verdict"
  /\ counters' = IF call[c].value = "success"
                 THEN [counters EXCEPT !.success = @ + 1]
                 ELSE [counters EXCEPT !.failed = @ + 1]
  /\ call' = [call EXCEPT ![c].at = "streak"]
  /\ UNCHANGED <<trade_records, mirror, runner_kpis, alert_level, calls, pushed, raced>>

CountStreak(c) ==
  /\ call[c].at = "streak"
  /\ counters' = IF call[c].value = "success"
                 THEN [counters EXCEPT !.streak = 0]
                 ELSE [counters EXCEPT !.streak = @ + 1]
  /\ call' = [call EXCEPT ![c] = NoCall]
  /\ UNCHANGED <<trade_records, mirror, runner_kpis, alert_level, calls, pushed, raced>>

-----------------------------------------------------------------------------
(* push_metrics reads the runner's matrix, merges the batch into its copy    *)
(* and inserts the copy.                                                     *)

PushRead(c, r, batch) ==
  /\ call[c] = NoCall
  /\ Started
  /\ call' = [call EXCEPT ![c] =
       [at |-> "insert", on |-> r, batch |-> batch,
        value |-> [m \in Metrics |-> IF m \in DOMAIN batch THEN batch[m] ELSE runner_kpis[r][m]]]]
  /\ raced' = IF Others(c, r) = {} THEN raced ELSE raced \union {r}
  /\ UNCHANGED <<trade_records, mirror, runner_kpis, alert_level, counters, pushed>>

PushInsert(c) ==
  LET batch == call[c].batch
      r     == call[c].on
  IN /\ call[c].at = "insert"
     /\ runner_kpis' = [runner_kpis EXCEPT ![r] = call[c].value]
     /\ pushed' = [pushed EXCEPT ![r] = [m \in Metrics |-> IF m \in DOMAIN batch THEN batch[m] ELSE @[m]]]
     /\ call' = [call EXCEPT ![c] = NoCall]
     /\ UNCHANGED <<trade_records, mirror, alert_level, counters, calls, raced>>

-----------------------------------------------------------------------------
GlobalKillSwitch ==
  /\ alert_level' = "RED"
  /\ UNCHANGED <<trade_records, mirror, runner_kpis, counters, call, calls, pushed, raced>>

ResumeFleet ==
  /\ alert_level' = "GREEN"
  /\ UNCHANGED <<trade_records, mirror, runner_kpis, counters, call, calls, pushed, raced>>

Batches == UNION {[names -> Readings] : names \in SUBSET Metrics}

FleetNext ==
  \/ \E c \in Callers :
       \/ \E h \in Hashes, status \in Statuses : RecordLocal(c, h, status)
       \/ RecordMirror(c) \/ CountTotal(c) \/ CountVerdict(c) \/ CountStreak(c)
       \/ \E r \in Runners, batch \in Batches : PushRead(c, r, batch)
       \/ PushInsert(c)
  \/ GlobalKillSwitch
  \/ ResumeFleet

FleetSpec == FleetInit /\ [][FleetNext]_fleetVars

-----------------------------------------------------------------------------
FleetTypeOK ==
  /\ trade_records \in [Hashes -> Statuses \union {Nothing}]
  /\ mirror \in [Hashes -> Statuses \union {Nothing}]
  /\ runner_kpis \in [Runners -> [Metrics -> Readings]]
  /\ alert_level \in {"GREEN", "RED"}
  /\ counters \in [total : Nat, success : Nat, failed : Nat, streak : Nat]

At(pc, h) == {c \in Callers : call[c].at = pc /\ call[c].on = h}

(* The mirror the dashboard and the profit sweep read has the ledger's       *)
(* records, except for one being recorded, or recorded twice at once.        *)
MirrorAgrees ==
  \A h \in Hashes \ raced : At("mirror", h) = {} => mirror[h] = trade_records[h]

(* Every trade is counted once and only after it was counted in the total.   *)
CountsAddUp ==
  counters.total = counters.success + counters.failed
                     + Cardinality({c \in Callers : call[c].at = "verdict"})

(* No metric a runner sent is lost unless two batches of it overlapped.      *)
NoLostMetric ==
  \A r \in Runners \ raced : runner_kpis[r] = pushed[r]

FleetSound == FleetTypeOK /\ MirrorAgrees /\ CountsAddUp /\ NoLostMetric
=============================================================================
