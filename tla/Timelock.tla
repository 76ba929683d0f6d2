------------------------------ MODULE Timelock ------------------------------
(***************************************************************************)
(* The timelock controller of backend/m301_timelock.rs.  Any task may      *)
(* queue proposals through a clone that shares the two locks; executing    *)
(* and cancelling need the controller mutably, so one task does both.      *)
(*                                                                         *)
(* Every handler reads the system clock first and then waits for a lock,   *)
(* so it may decide on a reading that is up to MaxLag old.  queue_proposal *)
(* takes the two locks one after the other; the handlers that close an     *)
(* entry hold the first while they take the second.  The order of the      *)
(* pending list is never used, so it is modelled by its counts.  Nothing   *)
(* keeps a caller from queueing a proposal again or from executing one     *)
(* that process_pending did not return, so the model lets it.              *)
(***************************************************************************)
EXTENDS Integers, FiniteSets

CONSTANTS
  Proposals,
  proposal_type,    \* of each proposal
  CustomDelays,     \* delays a caller asks for
  Tasks,            \* tasks that queue proposals
  None,
  min_delay, max_delay, grace_period,
  EmergencyPart,    \* the minimum is divided by it for an emergency: 24
  MaxLag,           \* bound: the age of a clock reading
  MaxClock,         \* bound: the clock
  MaxPending,       \* bound: entries of one proposal in the pending list
  MaxCount          \* bound: executions, and cancellations

Types == {"EmergencyAction", "ParameterChange", "PolicyUpdate",
          "CapitalAllocation", "ModuleUpgrade"}

ASSUME TimelockAssumption ==
  /\ proposal_type \in [Proposals -> Types]
  /\ CustomDelays \subseteq Nat
  /\ None \notin Nat \union Proposals
  /\ {min_delay, max_delay, grace_period, MaxLag, MaxClock, MaxPending,
      MaxCount} \subseteq Nat
  /\ min_delay <= max_delay
  /\ EmergencyPart \in Nat \ {0}

VARIABLES
  clock,
  timelocks,        \* None where there is no entry
  pending_executions,
  queueing,         \* the proposal a task has inserted but not yet pushed
  executed_count, cancelled_count

vars == <<clock, timelocks, pending_executions, queueing,
          executed_count, cancelled_count>>

Init ==
  /\ clock = 0
  /\ timelocks = [p \in Proposals |-> None]
  /\ pending_executions = [p \in Proposals |-> 0]
  /\ queueing = [t \in Tasks |-> None]
  /\ executed_count = 0
  /\ cancelled_count = 0

Queued(p) == timelocks[p] # None

Open(p) == Queued(p) /\ ~timelocks[p].executed /\ ~timelocks[p].cancelled

RecentReadings == {reading \in 0..clock : clock <= reading + MaxLag}

Tick ==
  /\ clock < MaxClock
  /\ clock' = clock + 1
  /\ UNCHANGED <<timelocks, pending_executions, queueing,
                 executed_count, cancelled_count>>

-----------------------------------------------------------------------------
TypeDelay(type) ==
  CASE type = "EmergencyAction"   -> min_delay \div EmergencyPart
    [] type = "ParameterChange"   -> min_delay
    [] type = "PolicyUpdate"      -> min_delay * 2
    [] type = "CapitalAllocation" -> min_delay * 3
    [] type = "ModuleUpgrade"     -> max_delay \div 2

(* Mutant: the delay asked for is not raised to the minimum. *)
CappedOnly(delay) == IF delay > max_delay THEN max_delay ELSE delay

Clamped(delay) ==
  IF delay < min_delay THEN min_delay
  ELSE IF delay > max_delay THEN max_delay ELSE delay

Delay(p, custom) ==
  Clamped(IF custom = None THEN TypeDelay(proposal_type[p]) ELSE custom)

(* queue_proposal up to the insertion, which replaces an earlier entry ...   *)
Insert(t, p, custom, reading) ==
  /\ queueing[t] = None
  /\ timelocks' = [timelocks EXCEPT ![p] =
       [queued_at |-> reading, execution_at |-> reading + Delay(p, custom),
        delay |-> Delay(p, custom),
        executed |-> FALSE, cancelled |-> FALSE, tx |-> 0]]
  /\ queueing' = [queueing EXCEPT ![t] = p]
  /\ UNCHANGED <<clock, pending_executions, executed_count, cancelled_count>>

(* ... and its second half *)
Push(t) ==
  /\ queueing[t] # None
  /\ pending_executions[queueing[t]] < MaxPending
  /\ pending_executions' = [pending_executions EXCEPT ![queueing[t]] = @ + 1]
  /\ queueing' = [queueing EXCEPT ![t] = None]
  /\ UNCHANGED <<clock, timelocks, executed_count, cancelled_count>>

(* The grace period is over: the entry is cancelled, its place in the        *)
(* pending list stays.                                                       *)
Expire(p, reading) ==
  /\ Queued(p)
  /\ cancelled_count < MaxCount
  /\ ~timelocks[p].cancelled
  /\ reading > timelocks[p].execution_at + grace_period
  /\ timelocks' = [timelocks EXCEPT ![p].cancelled = TRUE]
  /\ cancelled_count' = cancelled_count + 1
  /\ UNCHANGED <<clock, pending_executions, queueing, executed_count>>

(* Mutant: the whole pending list is emptied. *)
ExecuteClearing(p, reading) ==
  /\ Queued(p)
  /\ executed_count < MaxCount
  /\ ~timelocks[p].cancelled
  /\ timelocks[p].execution_at <= reading
  /\ reading <= timelocks[p].execution_at + grace_period
  /\ timelocks' = [timelocks EXCEPT ![p].executed = TRUE,
                                    ![p].tx = executed_count + 1]
  /\ executed_count' = executed_count + 1
  /\ pending_executions' = [q \in Proposals |-> 0]
  /\ UNCHANGED <<clock, queueing, cancelled_count>>

(* execute_queued; the hash of the simulated transaction is a fresh number.  *)
Execute(p, reading) ==
  /\ Queued(p)
  /\ executed_count < MaxCount
  /\ ~timelocks[p].cancelled
  /\ timelocks[p].execution_at <= reading
  /\ reading <= timelocks[p].execution_at + grace_period
  /\ timelocks' = [timelocks EXCEPT ![p].executed = TRUE,
                                    ![p].tx = executed_count + 1]
  /\ executed_count' = executed_count + 1
  /\ pending_executions' = [pending_executions EXCEPT ![p] = 0]
  /\ UNCHANGED <<clock, queueing, cancelled_count>>

(* cancel_queued counts a cancellation each time it is called. *)
Cancel(p) ==
  /\ Queued(p)
  /\ cancelled_count < MaxCount
  /\ ~timelocks[p].executed
  /\ timelocks' = [timelocks EXCEPT ![p].cancelled = TRUE]
  /\ cancelled_count' = cancelled_count + 1
  /\ pending_executions' = [pending_executions EXCEPT ![p] = 0]
  /\ UNCHANGED <<clock, queueing, executed_count>>

Next ==
  \/ Tick
  \/ \E t \in Tasks, p \in Proposals, custom \in CustomDelays \union {None},
        reading \in RecentReadings : Insert(t, p, custom, reading)
  \/ \E t \in Tasks : Push(t)
  \/ \E p \in Proposals, reading \in RecentReadings :
       Expire(p, reading) \/ Execute(p, reading)
  \/ \E p \in Proposals : Cancel(p)

Spec == Init /\ [][Next]_vars

-----------------------------------------------------------------------------
Entry == [queued_at : Nat, execution_at : Nat, delay : min_delay..max_delay,
          executed : BOOLEAN, cancelled : BOOLEAN, tx : Nat]

TypeOK ==
  /\ clock \in Nat
  /\ timelocks \in [Proposals -> Entry \union {None}]
  /\ pending_executions \in [Proposals -> Nat]
  /\ queueing \in [Tasks -> Proposals \union {None}]
  /\ executed_count \in Nat
  /\ cancelled_count \in Nat

(* "Enforces minimum delay between approval and execution": whatever delay   *)
(* was asked for and however old the readings of the clock, an execution     *)
(* comes at least the minimum after the (last) queueing, and at most the     *)
(* grace period, and the age of a reading, after the delay.                  *)
WithinWindow ==
  [][\A p \in Proposals :
       Queued(p) /\ timelocks'[p].executed /\ timelocks'[p].tx # timelocks[p].tx =>
         /\ clock >= timelocks[p].queued_at + min_delay
         /\ clock <= timelocks[p].execution_at + grace_period + MaxLag]_vars

(* "Process pending timelocks": an entry that is neither executed nor        *)
(* cancelled is in the pending list, or its push is still to come, although  *)
(* the list and the map are guarded separately and entries are replaced.     *)
OpenIsPending ==
  \A p \in Proposals : Open(p) =>
    pending_executions[p] > 0 \/ \E t \in Tasks : queueing[t] = p

(* Types, and no open entry is lost between the two locks. *)
TimelockSound == TypeOK /\ OpenIsPending

=============================================================================
