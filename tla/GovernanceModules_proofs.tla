----------------------- MODULE GovernanceModules_proofs ----------------------
(***************************************************************************)
(* The modules around the governance executor. The timelock keeps its      *)
(* entries in the pending list and its minimum delay, for every delay,     *)
(* clock lag and number of tasks. Messages between the chains are applied  *)
(* once. The slashing module's jail, total and appeals agree. The trail of *)
(* the two audit engines explains their state.                             *)
(***************************************************************************)
EXTENDS Timelock, CrossChainSync, Slashing, SovereignAudit, SequenceTheorems, SumLemmas

-----------------------------------------------------------------------------
(* The timelock (m301).                                                      *)

MaybeEntry == Entry \union {None}

(* The delay of an entry separates its two times.  The window follows from   *)
(* it: an execution's reading of the clock is at least execution_at.         *)
DelaySeparates ==
  \A p \in Proposals : Queued(p) =>
    timelocks[p].execution_at = timelocks[p].queued_at + timelocks[p].delay

IInv == TypeOK /\ OpenIsPending /\ DelaySeparates

LEMMA ConstantTypes ==
  /\ \A p \in Proposals : proposal_type[p] \in Types
  /\ CustomDelays \subseteq Nat
  /\ None \notin Nat
  /\ None \notin Proposals
  /\ min_delay \in Nat
  /\ max_delay \in Nat
  /\ grace_period \in Nat
  /\ MaxLag \in Nat
  /\ min_delay <= max_delay
  /\ EmergencyPart \in Nat
  /\ EmergencyPart > 0
BY TimelockAssumption

(* Whatever delay is asked for, or none, an entry's delay is within bounds.  *)
LEMMA DelayInBounds ==
  ASSUME NEW p \in Proposals, NEW custom \in CustomDelays \union {None}
  PROVE  Delay(p, custom) \in min_delay..max_delay
<1>1. ASSUME NEW delay \in Int PROVE Clamped(delay) \in min_delay..max_delay
  BY ConstantTypes DEF Clamped
<1>2. min_delay \div EmergencyPart \in Int /\ max_delay \div 2 \in Int
  BY ConstantTypes
<1>3. /\ min_delay \in Int
      /\ min_delay * 2 \in Int
      /\ min_delay * 3 \in Int
  BY ConstantTypes
<1>4. TypeDelay(proposal_type[p]) \in Int
  BY <1>2, <1>3, ConstantTypes DEF TypeDelay, Types
<1>5. (IF custom = None THEN TypeDelay(proposal_type[p]) ELSE custom) \in Int
  BY <1>4, ConstantTypes
<1> QED BY <1>1, <1>5 DEF Delay

LEMMA RecentReadingsAreTimes ==
  ASSUME TypeOK, NEW reading \in RecentReadings
  PROVE  reading \in Nat /\ reading <= clock /\ clock <= reading + MaxLag
BY ConstantTypes DEF TypeOK, RecentReadings

LEMMA InitInductive == Init => IInv
<1> SUFFICES ASSUME Init PROVE IInv OBVIOUS
<1>1. TypeOK BY DEF Init, TypeOK
<1>2. \A p \in Proposals : ~Queued(p) BY DEF Init, Queued
<1>3. OpenIsPending BY <1>2 DEF OpenIsPending, Open
<1>4. DelaySeparates BY <1>2 DEF DelaySeparates
<1> QED BY <1>1, <1>3, <1>4 DEF IInv

(* A step that only closes one entry: it keeps the times of every entry,     *)
(* opens none, and leaves the list alone except for that entry.              *)
LEMMA Closing ==
  ASSUME IInv, NEW p \in Proposals, Queued(p),
         NEW entry \in Entry,
         entry.queued_at = timelocks[p].queued_at,
         entry.execution_at = timelocks[p].execution_at,
         entry.delay = timelocks[p].delay,
         entry.executed \/ entry.cancelled,
         timelocks' = [timelocks EXCEPT ![p] = entry],
         \/ UNCHANGED pending_executions
         \/ pending_executions' = [pending_executions EXCEPT ![p] = 0],
         UNCHANGED <<clock, queueing>>,
         executed_count' \in Nat, cancelled_count' \in Nat
  PROVE  IInv'
<1> USE DEF IInv
<1>1. timelocks' \in [Proposals -> MaybeEntry]
  BY DEF TypeOK, MaybeEntry
<1>2. pending_executions' \in [Proposals -> Nat]
  BY DEF TypeOK
<1>3. TypeOK' BY <1>1, <1>2 DEF TypeOK, MaybeEntry
<1>4. timelocks'[p] = entry BY DEF TypeOK
<1>5. \A q \in Proposals : q # p =>
        timelocks'[q] = timelocks[q] /\ pending_executions'[q] = pending_executions[q]
  BY DEF TypeOK
<1>6. OpenIsPending'
  <2> SUFFICES ASSUME NEW q \in Proposals, Open(q)'
               PROVE  \/ pending_executions'[q] > 0
                      \/ \E t \in Tasks : queueing'[t] = q
    BY DEF OpenIsPending
  <2>1. q # p BY <1>4 DEF Open
  <2>2. Open(q) BY <1>5, <2>1 DEF Open, Queued
  <2>3. pending_executions[q] > 0 \/ \E t \in Tasks : queueing[t] = q
    BY <2>2 DEF OpenIsPending
  <2>4. pending_executions'[q] = pending_executions[q] BY <1>5, <2>1
  <2> QED BY <2>3, <2>4
<1>7. DelaySeparates'
  <2> SUFFICES ASSUME NEW q \in Proposals, Queued(q)'
               PROVE  timelocks'[q].execution_at
                        = timelocks'[q].queued_at + timelocks'[q].delay
    BY DEF DelaySeparates
  <2>1. CASE q = p BY <1>4, <2>1 DEF DelaySeparates
  <2>2. CASE q # p BY <1>5, <2>2 DEF DelaySeparates, Queued
  <2> QED BY <2>1, <2>2
<1> QED BY <1>3, <1>6, <1>7

LEMMA QueuedIsEntry ==
  ASSUME TypeOK, NEW p \in Proposals, Queued(p)
  PROVE  timelocks[p] \in Entry
BY DEF TypeOK, Queued

(* The two ways in which an entry is closed. *)
LEMMA ExecutedEntry ==
  ASSUME NEW old \in Entry, NEW hash \in Nat
  PROVE  LET entry == [old EXCEPT !.executed = TRUE, !.tx = hash]
         IN /\ entry \in Entry
            /\ entry.executed
            /\ entry.queued_at = old.queued_at
            /\ entry.execution_at = old.execution_at
            /\ entry.delay = old.delay
BY DEF Entry

LEMMA CancelledEntry ==
  ASSUME NEW old \in Entry
  PROVE  LET entry == [old EXCEPT !.cancelled = TRUE]
         IN /\ entry \in Entry
            /\ entry.cancelled
            /\ entry.queued_at = old.queued_at
            /\ entry.execution_at = old.execution_at
            /\ entry.delay = old.delay
BY DEF Entry

LEMMA InsertInductive ==
  ASSUME IInv, NEW t \in Tasks, NEW p \in Proposals,
         NEW custom \in CustomDelays \union {None}, NEW reading \in RecentReadings,
         Insert(t, p, custom, reading)
  PROVE  IInv'
<1> USE DEF IInv
<1> DEFINE delay == Delay(p, custom)
           entry == [queued_at |-> reading, execution_at |-> reading + delay,
                     delay |-> delay,
                     executed |-> FALSE, cancelled |-> FALSE, tx |-> 0]
<1>1. delay \in min_delay..max_delay BY DelayInBounds
<1>2. reading \in Nat BY RecentReadingsAreTimes
<1>3. reading + delay \in Nat BY <1>1, <1>2, ConstantTypes
<1>4. timelocks' = [timelocks EXCEPT ![p] = entry] BY DEF Insert
<1>5. entry.execution_at = entry.queued_at + entry.delay OBVIOUS
<1> HIDE DEF delay
<1>6. entry \in Entry BY <1>1, <1>2, <1>3 DEF Entry
<1> HIDE DEF entry
<1>7. timelocks'[p] = entry BY <1>4 DEF TypeOK
<1>8. \A q \in Proposals : q # p => timelocks'[q] = timelocks[q]
  BY <1>4 DEF TypeOK
<1>9. TypeOK'
  <2>1. timelocks' \in [Proposals -> Entry \union {None}] BY <1>4, <1>6 DEF TypeOK
  <2>2. queueing' \in [Tasks -> Proposals \union {None}] BY DEF Insert, TypeOK
  <2> QED BY <2>1, <2>2 DEF TypeOK, Insert
<1>10. OpenIsPending'
  <2> SUFFICES ASSUME NEW q \in Proposals, Open(q)'
               PROVE  \/ pending_executions'[q] > 0
                      \/ \E u \in Tasks : queueing'[u] = q
    BY DEF OpenIsPending
  <2>1. CASE q = p
    <3>1. queueing'[t] = p BY DEF Insert, TypeOK
    <3> QED BY <2>1, <3>1
  <2>2. CASE q # p
    <3>1. Open(q) BY <1>8, <2>2 DEF Open, Queued
    <3>2. pending_executions[q] > 0 \/ \E u \in Tasks : queueing[u] = q
      BY <3>1 DEF OpenIsPending
    <3>3. pending_executions' = pending_executions BY DEF Insert
    <3>4. ASSUME NEW u \in Tasks, queueing[u] = q PROVE queueing'[u] = q
      <4>1. u # t BY <3>4, ConstantTypes DEF Insert
      <4> QED BY <3>4, <4>1 DEF Insert, TypeOK
    <3> QED BY <3>2, <3>3, <3>4
  <2> QED BY <2>1, <2>2
<1>11. DelaySeparates'
  <2> SUFFICES ASSUME NEW q \in Proposals, Queued(q)'
               PROVE  timelocks'[q].execution_at
                        = timelocks'[q].queued_at + timelocks'[q].delay
    BY DEF DelaySeparates
  <2>1. CASE q = p BY <1>5, <1>7, <2>1
  <2>2. CASE q # p BY <1>8, <2>2 DEF DelaySeparates, Queued
  <2> QED BY <2>1, <2>2
<1> QED BY <1>9, <1>10, <1>11

LEMMA PushInductive ==
  ASSUME IInv, NEW t \in Tasks, Push(t)
  PROVE  IInv'
<1> USE DEF IInv
<1> DEFINE p == queueing[t]
<1>1. p \in Proposals BY DEF Push, TypeOK
<1>2. /\ pending_executions' = [pending_executions EXCEPT ![p] = pending_executions[p] + 1]
      /\ queueing' = [queueing EXCEPT ![t] = None]
      /\ UNCHANGED <<clock, timelocks, executed_count, cancelled_count>>
  BY <1>1 DEF Push, TypeOK
<1> HIDE DEF p
<1>3. TypeOK'
  <2>1. pending_executions' \in [Proposals -> Nat] BY <1>1, <1>2 DEF TypeOK
  <2>2. queueing' \in [Tasks -> Proposals \union {None}] BY <1>2 DEF TypeOK
  <2> QED BY <1>2, <2>1, <2>2 DEF TypeOK
<1>4. OpenIsPending'
  <2> SUFFICES ASSUME NEW q \in Proposals, Open(q)'
               PROVE  \/ pending_executions'[q] > 0
                      \/ \E u \in Tasks : queueing'[u] = q
    BY DEF OpenIsPending
  <2>1. CASE q = p
    <3>1. pending_executions'[q] = pending_executions[q] + 1
      BY <1>2, <2>1 DEF TypeOK
    <3>2. pending_executions[q] \in Nat BY DEF TypeOK
    <3> QED BY <3>1, <3>2
  <2>2. CASE q # p
    <3>1. Open(q) BY <1>2 DEF Open, Queued
    <3>2. pending_executions[q] > 0 \/ \E u \in Tasks : queueing[u] = q
      BY <3>1 DEF OpenIsPending
    <3>3. pending_executions'[q] = pending_executions[q] BY <1>2, <2>2 DEF TypeOK
    <3>4. ASSUME NEW u \in Tasks, queueing[u] = q PROVE queueing'[u] = q
      <4>1. u # t BY <2>2, <3>4 DEF p
      <4> QED BY <1>2, <3>4, <4>1 DEF TypeOK
    <3> QED BY <3>2, <3>3, <3>4
  <2> QED BY <2>1, <2>2
<1>5. DelaySeparates' BY <1>2 DEF DelaySeparates, Queued
<1> QED BY <1>3, <1>4, <1>5

(* Steps that touch neither the entries nor the list. *)
LEMMA Unrelated ==
  ASSUME IInv, UNCHANGED <<timelocks, pending_executions, queueing,
                           executed_count, cancelled_count>>,
         clock' \in Nat
  PROVE  IInv'
BY DEF IInv, TypeOK, OpenIsPending, DelaySeparates, Open, Queued

LEMMA StepInductive == IInv /\ [Next]_vars => IInv'
<1> SUFFICES ASSUME IInv, [Next]_vars PROVE IInv' OBVIOUS
<1>0. TypeOK BY DEF IInv
<1>1. CASE Tick BY <1>0, <1>1, Unrelated DEF Tick, TypeOK
<1>2. ASSUME NEW t \in Tasks, NEW p \in Proposals,
             NEW custom \in CustomDelays \union {None}, NEW reading \in RecentReadings,
             Insert(t, p, custom, reading)
      PROVE  IInv'
  BY <1>2, InsertInductive
<1>3. ASSUME NEW t \in Tasks, Push(t) PROVE IInv'
  BY <1>3, PushInductive
<1>4. ASSUME NEW p \in Proposals, NEW reading \in RecentReadings, Expire(p, reading)
      PROVE  IInv'
  <2> DEFINE entry == [timelocks[p] EXCEPT !.cancelled = TRUE]
  <2>1. Queued(p) BY <1>4 DEF Expire
  <2>2. timelocks[p] \in Entry BY <1>0, <2>1, QueuedIsEntry
  <2>3. /\ entry \in Entry
        /\ entry.cancelled
        /\ entry.queued_at = timelocks[p].queued_at
        /\ entry.execution_at = timelocks[p].execution_at
        /\ entry.delay = timelocks[p].delay
    BY <2>2, CancelledEntry
  <2>4. timelocks' = [timelocks EXCEPT ![p] = entry] BY <1>4 DEF Expire
  <2> HIDE DEF entry
  <2>5. /\ UNCHANGED <<clock, queueing, pending_executions>>
        /\ executed_count' \in Nat
        /\ cancelled_count' \in Nat
    BY <1>0, <1>4 DEF Expire, TypeOK
  <2> QED BY <2>1, <2>3, <2>4, <2>5, Closing
<1>5. ASSUME NEW p \in Proposals, NEW reading \in RecentReadings, Execute(p, reading)
      PROVE  IInv'
  <2> DEFINE entry == [timelocks[p] EXCEPT !.executed = TRUE,
                                           !.tx = executed_count + 1]
  <2>1. Queued(p) BY <1>5 DEF Execute
  <2>2. timelocks[p] \in Entry BY <1>0, <2>1, QueuedIsEntry
  <2>3. executed_count + 1 \in Nat BY <1>0 DEF TypeOK
  <2>4. /\ entry \in Entry
        /\ entry.executed
        /\ entry.queued_at = timelocks[p].queued_at
        /\ entry.execution_at = timelocks[p].execution_at
        /\ entry.delay = timelocks[p].delay
    BY <2>2, <2>3, ExecutedEntry
  <2>5. timelocks' = [timelocks EXCEPT ![p] = entry] BY <1>5 DEF Execute
  <2> HIDE DEF entry
  <2>6. /\ UNCHANGED <<clock, queueing>>
        /\ pending_executions' = [pending_executions EXCEPT ![p] = 0]
        /\ executed_count' \in Nat
        /\ cancelled_count' \in Nat
    BY <1>0, <1>5, <2>3 DEF Execute, TypeOK
  <2> QED BY <2>1, <2>4, <2>5, <2>6, Closing
<1>6. ASSUME NEW p \in Proposals, Cancel(p)
      PROVE  IInv'
  <2> DEFINE entry == [timelocks[p] EXCEPT !.cancelled = TRUE]
  <2>1. Queued(p) BY <1>6 DEF Cancel
  <2>2. timelocks[p] \in Entry BY <1>0, <2>1, QueuedIsEntry
  <2>3. /\ entry \in Entry
        /\ entry.cancelled
        /\ entry.queued_at = timelocks[p].queued_at
        /\ entry.execution_at = timelocks[p].execution_at
        /\ entry.delay = timelocks[p].delay
    BY <2>2, CancelledEntry
  <2>4. timelocks' = [timelocks EXCEPT ![p] = entry] BY <1>6 DEF Cancel
  <2> HIDE DEF entry
  <2>5. /\ UNCHANGED <<clock, queueing>>
        /\ pending_executions' = [pending_executions EXCEPT ![p] = 0]
        /\ executed_count' \in Nat
        /\ cancelled_count' \in Nat
    BY <1>0, <1>6 DEF Cancel, TypeOK
  <2> QED BY <2>1, <2>3, <2>4, <2>5, Closing
<1>7. CASE UNCHANGED vars
  BY <1>0, <1>7, Unrelated DEF vars, TypeOK
<1> QED
  BY <1>1, <1>2, <1>3, <1>4, <1>5, <1>6, <1>7 DEF Next

(* A step that gives an executed entry a new transaction is an execution,    *)
(* whose reading of the clock lies in the window.                            *)
LEMMA StepWithinWindow ==
  ASSUME IInv, [Next]_vars, NEW p \in Proposals, Queued(p),
         timelocks'[p].executed, timelocks'[p].tx # timelocks[p].tx
  PROVE  /\ clock >= timelocks[p].queued_at + min_delay
         /\ clock <= timelocks[p].execution_at + grace_period + MaxLag
<1>0. TypeOK BY DEF IInv
<1>1. timelocks[p] \in Entry BY <1>0, QueuedIsEntry
<1>2. ASSUME UNCHANGED timelocks PROVE FALSE BY <1>2
<1>3. ASSUME NEW t \in Tasks, NEW q \in Proposals,
             NEW custom \in CustomDelays \union {None}, NEW reading \in RecentReadings,
             Insert(t, q, custom, reading)
      PROVE  FALSE
  <2>1. CASE q = p
    <3>1. timelocks'[p].executed = FALSE BY <1>0, <1>3, <2>1 DEF Insert, TypeOK
    <3> QED BY <3>1
  <2>2. CASE q # p
    <3>1. timelocks'[p] = timelocks[p] BY <1>0, <1>3, <2>2 DEF Insert, TypeOK
    <3> QED BY <3>1
  <2> QED BY <2>1, <2>2
<1>4. ASSUME NEW q \in Proposals,
             timelocks' = [timelocks EXCEPT ![q].cancelled = TRUE]
      PROVE  FALSE
  <2>1. CASE q = p
    <3>1. timelocks'[p] = [timelocks[p] EXCEPT !.cancelled = TRUE]
      BY <1>0, <1>4, <2>1 DEF TypeOK
    <3>2. timelocks'[p].tx = timelocks[p].tx BY <1>1, <3>1 DEF Entry
    <3> QED BY <3>2
  <2>2. CASE q # p
    <3>1. timelocks'[p] = timelocks[p] BY <1>0, <1>4, <2>2 DEF TypeOK
    <3> QED BY <3>1
  <2> QED BY <2>1, <2>2
<1>5. ASSUME NEW q \in Proposals, NEW reading \in RecentReadings, Execute(q, reading)
      PROVE  /\ clock >= timelocks[p].queued_at + min_delay
             /\ clock <= timelocks[p].execution_at + grace_period + MaxLag
  <2>1. q = p
    <3> SUFFICES ASSUME q # p PROVE FALSE OBVIOUS
    <3>1. timelocks'[p] = timelocks[p] BY <1>0, <1>5 DEF Execute, TypeOK
    <3> QED BY <3>1
  <2>2. /\ timelocks[p].execution_at <= reading
        /\ reading <= timelocks[p].execution_at + grace_period
    BY <1>5, <2>1 DEF Execute
  <2>3. reading \in Nat /\ reading <= clock /\ clock <= reading + MaxLag
    BY <1>0, RecentReadingsAreTimes
  <2>4. /\ timelocks[p].execution_at \in Nat
        /\ timelocks[p].queued_at \in Nat
        /\ timelocks[p].delay \in min_delay..max_delay
    BY <1>1 DEF Entry
  <2>5. timelocks[p].execution_at = timelocks[p].queued_at + timelocks[p].delay
    BY DEF IInv, DelaySeparates
  <2>6. clock \in Nat BY <1>0 DEF TypeOK
  <2> QED BY <2>2, <2>3, <2>4, <2>5, <2>6, ConstantTypes
<1>6. CASE Tick BY <1>2, <1>6 DEF Tick
<1>7. ASSUME NEW t \in Tasks, Push(t) PROVE FALSE BY <1>2, <1>7 DEF Push
<1>8. ASSUME NEW q \in Proposals, NEW reading \in RecentReadings, Expire(q, reading)
       PROVE  FALSE
  BY <1>4, <1>8 DEF Expire
<1>9. ASSUME NEW q \in Proposals, Cancel(q) PROVE FALSE
  BY <1>4, <1>9 DEF Cancel
<1>10. CASE UNCHANGED vars BY <1>2, <1>10 DEF vars
<1> QED
  BY <1>3, <1>5, <1>6, <1>7, <1>8, <1>9, <1>10 DEF Next

(* The entries, their delays included, stay well typed and in bounds.        *)
THEOREM TimelockTypeCorrect == Spec => []TypeOK
<1>1. IInv => TypeOK BY DEF IInv
<1> QED BY InitInductive, StepInductive, <1>1, PTL DEF Spec

(* queue_proposal guards the map and the list separately, and yet no entry   *)
(* that is neither executed nor cancelled is ever missing from the list.     *)
THEOREM OpenIsPendingHolds == Spec => []OpenIsPending
<1>1. IInv => OpenIsPending BY DEF IInv
<1> QED BY InitInductive, StepInductive, <1>1, PTL DEF Spec

(* The two together: entries are well typed, and none that is open is lost.  *)
THEOREM TimelockSoundHolds == Spec => []TimelockSound
<1>1. TypeOK /\ OpenIsPending => TimelockSound BY DEF TimelockSound
<1> QED BY TimelockTypeCorrect, OpenIsPendingHolds, <1>1, PTL

(* "Enforces minimum delay between approval and execution".                  *)
THEOREM WithinWindowHolds == Spec => WithinWindow
<1> DEFINE Window ==
      \A p \in Proposals :
        Queued(p) /\ timelocks'[p].executed /\ timelocks'[p].tx # timelocks[p].tx =>
          /\ clock >= timelocks[p].queued_at + min_delay
          /\ clock <= timelocks[p].execution_at + grace_period + MaxLag
<1>1. IInv /\ [Next]_vars => [Window]_vars BY StepWithinWindow
<1>2. WithinWindow <=> [][Window]_vars BY DEF WithinWindow
<1> HIDE DEF Window
<1> QED BY InitInductive, StepInductive, <1>1, <1>2, PTL DEF Spec

-----------------------------------------------------------------------------
(* Cross-chain synchronisation (m302).                                       *)

SyncMessage ==
  [kind : {"Created", "Executed"}, arg : SyncedProposals, block : Nat, seq : Nat]
    \union [kind : {"Paused", "Resumed"}, arg : {0}, block : Nat, seq : Nat]
    \union [kind : {"Timelock"}, arg : Delays, block : Nat, seq : Nat]

SentMessages == {sent[i] : i \in 1..Len(sent)}

(* Messages are numbered as they are sent, and of those about a proposal     *)
(* there is one of each kind, its creation first.                            *)
SentOK ==
  /\ now \in Nat /\ sent \in Seq(SyncMessage)
  /\ \A i \in 1..Len(sent) : sent[i].seq = i - 1 /\ sent[i].block <= now
  /\ \A i, j \in 1..Len(sent) :
       sent[i].kind = "Created" /\ sent[j].kind = "Executed" /\ sent[i].arg = sent[j].arg => i < j
  /\ \A j \in 1..Len(sent) :
       sent[j].kind = "Executed" => Sent("Created", sent[j].arg)

ChainOK ==
  /\ chain \in [active : [SyncedProposals -> Nat], pending : [SyncedProposals -> Nat],
                paused : BOOLEAN, delay : Delays \union {0}, block : Nat, stamp : Nat]
  /\ chain.block <= now /\ chain.stamp <= now

RelayOK ==
  /\ relay \in [Relays -> [at : {"idle"}] \union [at : {"apply", "mark"}, m : SentMessages]]
  /\ applied \in Seq(SentMessages)

Applied(id) == \E i \in Indices : Id(applied[i]) = id

(* What was marked or accepted was applied; what was applied is marked, or   *)
(* about to be; and an id that no two relays held at once has one holder,    *)
(* who has not applied it before.                                            *)
EffectsOK ==
  /\ \A id \in processed : Applied(id)
  /\ \A m \in accepted : Applied(Id(m))
  /\ \A r \in Relays : relay[r].at = "mark" => Applied(Id(relay[r].m))
  /\ \A i \in Indices :
       \/ Id(applied[i]) \in processed
       \/ \E r \in Relays : relay[r].at = "mark" /\ Id(relay[r].m) = Id(applied[i])
  /\ \A r, q \in Relays :
       /\ relay[r].at # "idle" /\ relay[q].at # "idle" /\ Id(relay[r].m) = Id(relay[q].m)
       /\ Id(relay[r].m) \notin racedIds
       => r = q
  /\ \A r \in Relays :
       relay[r].at = "apply" /\ Id(relay[r].m) \notin racedIds => ~Applied(Id(relay[r].m))

PendingIsApplied ==
  \A p \in SyncedProposals : chain.pending[p] # 0 =>
    \E i \in Indices : applied[i].kind = "Executed" /\ applied[i].arg = p

CrossChainInv ==
  /\ SentOK /\ ChainOK /\ RelayOK /\ EffectsOK
  /\ AppliedOnce /\ PendingIsApplied /\ OrderedIsCurrent

LEMMA CrossChainInitially == CrossChainInit => CrossChainInv
<1> SUFFICES ASSUME CrossChainInit
             PROVE  CrossChainInv
  OBVIOUS
<1>1. SentOK /\ ChainOK
  BY DEF CrossChainInit, SentOK, ChainOK
<1>2. Indices = {} /\ applied = <<>> /\ Len(applied) = 0
  BY DEF CrossChainInit, Indices
<1>3. RelayOK
  BY <1>2 DEF CrossChainInit, RelayOK, NoMessage
<1>4. EffectsOK /\ AppliedOnce
  BY <1>2 DEF CrossChainInit, EffectsOK, AppliedOnce, NoMessage
<1>5. PendingIsApplied /\ OrderedIsCurrent
  BY <1>2 DEF CrossChainInit, PendingIsApplied, OrderedIsCurrent
<1> QED
  BY <1>1, <1>3, <1>4, <1>5 DEF CrossChainInv

(* Nothing but the clock, the messages sent or the time stamp changes. *)
LEMMA SyncUntouched ==
  ASSUME CrossChainInv, SentOK', ChainOK', SentMessages \subseteq SentMessages',
         UNCHANGED <<processed, relay, applied, accepted, racedIds,
                     chain.active, chain.pending, chain.paused, chain.delay>>
  PROVE  CrossChainInv'
<1>1. RelayOK'
  <2>1. applied \in Seq(SentMessages')
    BY DEF CrossChainInv, RelayOK
  <2> QED
    BY <2>1 DEF CrossChainInv, RelayOK
<1>2. Indices' = Indices
  BY DEF Indices
<1>3. EffectsOK'
  BY <1>2 DEF CrossChainInv, EffectsOK, Applied
<1>4. AppliedOnce' /\ PendingIsApplied'
  BY <1>2 DEF CrossChainInv, AppliedOnce, PendingIsApplied
<1>5. OrderedIsCurrent'
  BY <1>2 DEF CrossChainInv, OrderedIsCurrent, InOrder
<1> QED
  BY <1>1, <1>3, <1>4, <1>5 DEF CrossChainInv

LEMMA AdvanceClockKeeps ==
  ASSUME CrossChainInv, AdvanceClock
  PROVE  CrossChainInv'
<1>1. now \in Nat /\ now' = now + 1 /\ UNCHANGED <<sent, chain>>
  BY DEF CrossChainInv, SentOK, AdvanceClock
<1>2. SentOK'
  <2>1. \A i \in 1..Len(sent) : sent[i].block \in Nat /\ sent[i].block <= now
    BY DEF CrossChainInv, SentOK, SyncMessage
  <2>2. \A i \in 1..Len(sent) : sent[i].block <= now'
    BY <1>1, <2>1
  <2>3. now' \in Nat /\ sent' = sent
    BY <1>1
  <2> QED
    BY <2>2, <2>3 DEF CrossChainInv, SentOK, Sent
<1>3. ChainOK'
  BY <1>1 DEF CrossChainInv, ChainOK
<1> QED
  BY <1>2, <1>3, SyncUntouched DEF AdvanceClock, SentMessages

LEMMA ForceSyncKeeps ==
  ASSUME CrossChainInv, ForceSyncChain
  PROVE  CrossChainInv'
<1>1. SentOK' /\ ChainOK'
  <2>1. chain' = [chain EXCEPT !.stamp = now] /\ now' = now /\ sent' = sent /\ now \in Nat
    BY DEF CrossChainInv, SentOK, ForceSyncChain
  <2>2. SentOK'
    BY <2>1 DEF CrossChainInv, SentOK, Sent
  <2>3. ChainOK'
    BY <2>1 DEF CrossChainInv, ChainOK
  <2> QED
    BY <2>2, <2>3
<1>2. UNCHANGED <<chain.active, chain.pending, chain.paused, chain.delay>>
  BY DEF CrossChainInv, ChainOK, ForceSyncChain
<1> QED
  BY <1>1, <1>2, SyncUntouched DEF ForceSyncChain, SentMessages

LEMMA CreateKeeps ==
  ASSUME CrossChainInv, NEW kind, NEW arg, CreateSyncMessage(kind, arg),
         [kind |-> kind, arg |-> arg, block |-> now, seq |-> Len(sent)] \in SyncMessage
  PROVE  CrossChainInv'
<1> DEFINE m == [kind |-> kind, arg |-> arg, block |-> now, seq |-> Len(sent)]
<1>1. /\ sent' = Append(sent, m) /\ sent \in Seq(SyncMessage) /\ m \in SyncMessage
      /\ kind \in {"Created", "Executed"} => ~Sent(kind, arg)
      /\ kind = "Executed" => Sent("Created", arg)
      /\ UNCHANGED <<now, chain, processed, relay, applied, accepted, racedIds>>
  BY DEF CrossChainInv, SentOK, CreateSyncMessage
<1>2. m.kind = kind /\ m.arg = arg /\ m.block = now /\ m.seq = Len(sent)
  OBVIOUS
<1> HIDE DEF m
<1>3. /\ sent' \in Seq(SyncMessage) /\ Len(sent') = Len(sent) + 1 /\ Len(sent) \in Nat
      /\ \A i \in 1..Len(sent) : sent'[i] = sent[i]
      /\ sent'[Len(sent) + 1] = m
  BY <1>1, AppendProperties
<1>4. SentOK'
  <2>1. now' \in Nat /\ \A i \in 1..Len(sent') : sent'[i].seq = i - 1 /\ sent'[i].block <= now'
    BY <1>1, <1>2, <1>3 DEF CrossChainInv, SentOK
  <2>2. ASSUME NEW i \in 1..Len(sent'), NEW j \in 1..Len(sent'),
               sent'[i].kind = "Created", sent'[j].kind = "Executed", sent'[i].arg = sent'[j].arg
        PROVE  i < j
    <3>1. CASE i = Len(sent) + 1
      <4>1. j \in 1..Len(sent) /\ sent[j].kind = "Executed" /\ sent[j].arg = arg /\ kind = "Created"
        BY <1>2, <1>3, <2>2, <3>1
      <4>2. PICK k \in 1..Len(sent) : sent[k].kind = "Created" /\ sent[k].arg = arg
        BY <4>1 DEF CrossChainInv, SentOK, Sent
      <4> QED
        BY <1>1, <4>1, <4>2 DEF Sent
    <3>2. CASE i # Len(sent) + 1 /\ j = Len(sent) + 1
      BY <1>3, <3>2
    <3>3. CASE i # Len(sent) + 1 /\ j # Len(sent) + 1
      <4>1. i \in 1..Len(sent) /\ j \in 1..Len(sent)
        BY <1>3, <3>3
      <4> QED
        BY <1>3, <2>2, <4>1 DEF CrossChainInv, SentOK
    <3> QED
      BY <3>1, <3>2, <3>3
  <2>3. ASSUME NEW j \in 1..Len(sent'), sent'[j].kind = "Executed"
        PROVE  Sent("Created", sent[j].arg)'
    <3>1. \E k \in 1..Len(sent) : sent[k].kind = "Created" /\ sent[k].arg = sent'[j].arg
      BY <1>1, <1>2, <1>3, <2>3 DEF CrossChainInv, SentOK, Sent
    <3> QED
      BY <1>3, <3>1 DEF Sent
  <2> QED
    BY <1>3, <2>1, <2>2, <2>3 DEF SentOK
<1>5. ChainOK'
  BY <1>1 DEF CrossChainInv, ChainOK
<1>6. SentMessages \subseteq SentMessages'
  BY <1>3 DEF SentMessages
<1> QED
  BY <1>1, <1>4, <1>5, <1>6, SyncUntouched

LEMMA SentFacts ==
  ASSUME SentOK
  PROVE  \A m \in SentMessages :
           /\ m \in SyncMessage /\ m.block \in Nat /\ m.block <= now /\ m.seq \in Nat
           /\ \A n \in SentMessages :
                /\ m.seq = n.seq => m = n
                /\ m.kind = "Created" /\ n.kind = "Executed" /\ m.arg = n.arg => m.seq < n.seq
<1>1. \A i \in 1..Len(sent) : sent[i] \in SyncMessage /\ sent[i].block <= now /\ sent[i].seq = i - 1
  BY DEF SentOK
<1>2. \A m \in SyncMessage : m.block \in Nat /\ m.seq \in Nat
  BY DEF SyncMessage
<1> SUFFICES ASSUME NEW m \in SentMessages, NEW n \in SentMessages
             PROVE  /\ m \in SyncMessage /\ m.block \in Nat /\ m.block <= now /\ m.seq \in Nat
                    /\ m.seq = n.seq => m = n
                    /\ m.kind = "Created" /\ n.kind = "Executed" /\ m.arg = n.arg => m.seq < n.seq
  OBVIOUS
<1>3. PICK i \in 1..Len(sent) : m = sent[i]
  BY DEF SentMessages
<1>4. PICK j \in 1..Len(sent) : n = sent[j]
  BY DEF SentMessages
<1>5. m.seq = i - 1 /\ n.seq = j - 1 /\ i \in Nat /\ j \in Nat
  BY <1>1, <1>3, <1>4
<1>6. m.seq = n.seq => m = n
  BY <1>3, <1>4, <1>5
<1>7. m.kind = "Created" /\ n.kind = "Executed" /\ m.arg = n.arg => m.seq < n.seq
  BY <1>3, <1>4, <1>5 DEF SentOK
<1> QED
  BY <1>1, <1>2, <1>3, <1>6, <1>7

(* A delivery takes the message in hand, and notes when another relay has    *)
(* one with the same id.                                                     *)
LEMMA DeliverKeeps ==
  ASSUME CrossChainInv, NEW r \in Relays, NEW m \in SentMessages, Deliver(r, m)
  PROVE  CrossChainInv'
<1>1. /\ relay[r] = NoMessage /\ relay[r].at = "idle"
      /\ UNCHANGED <<now, sent, chain, processed, applied>>
      /\ Indices' = Indices
  BY DEF Deliver, NoMessage, Indices
<1>2. SentOK' /\ ChainOK' /\ SentMessages' = SentMessages /\ PendingIsApplied' /\ OrderedIsCurrent'
  <2>1. SentOK'
    BY <1>1 DEF CrossChainInv, SentOK, Sent
  <2>2. ChainOK' /\ SentMessages' = SentMessages
    BY <1>1 DEF CrossChainInv, ChainOK, SentMessages
  <2>3. PendingIsApplied'
    BY <1>1 DEF CrossChainInv, PendingIsApplied
  <2>4. OrderedIsCurrent'
    BY <1>1 DEF CrossChainInv, OrderedIsCurrent, InOrder
  <2> QED
    BY <2>1, <2>2, <2>3, <2>4
<1>3. CASE Id(m) \in processed
  <2>1. accepted' = accepted \union {m} /\ UNCHANGED <<relay, racedIds>>
    BY <1>3 DEF Deliver
  <2>2. EffectsOK'
    BY <1>1, <1>3, <2>1 DEF CrossChainInv, EffectsOK, Applied
  <2>3. RelayOK' /\ AppliedOnce'
    BY <1>1, <1>2, <2>1 DEF CrossChainInv, RelayOK, AppliedOnce
  <2> QED
    BY <1>2, <2>2, <2>3 DEF CrossChainInv
<1>4. CASE Id(m) \notin processed
  <2>1. /\ relay' = [relay EXCEPT ![r] = [at |-> "apply", m |-> m]]
        /\ racedIds' = IF \E q \in Relays \ {r} : relay[q].at # "idle" /\ Id(relay[q].m) = Id(m)
                       THEN racedIds \union {Id(m)} ELSE racedIds
        /\ UNCHANGED accepted
    BY <1>4 DEF Deliver
  <2>2. /\ relay' \in [Relays -> [at : {"idle"}] \union [at : {"apply", "mark"}, m : SentMessages]]
        /\ relay'[r].at = "apply" /\ relay'[r].m = m
        /\ \A q \in Relays \ {r} : relay'[q] = relay[q]
    BY <2>1 DEF CrossChainInv, RelayOK
  <2>3. RelayOK'
    BY <1>1, <1>2, <2>2 DEF CrossChainInv, RelayOK
  <2>4. AppliedOnce'
    BY <1>1, <2>1 DEF CrossChainInv, AppliedOnce
  <2>5. \A i \in Indices : \/ Id(applied[i]) \in processed
                           \/ \E q \in Relays \ {r} :
                                relay[q].at = "mark" /\ Id(relay[q].m) = Id(applied[i])
    BY <1>1 DEF CrossChainInv, EffectsOK
  <2>6. Id(m) \notin racedIds' => ~Applied(Id(m))
    BY <1>4, <2>1, <2>5 DEF Applied
  <2>7. /\ \A id \in processed : Applied(id)
        /\ \A n \in accepted : Applied(Id(n))
        /\ \A q \in Relays : relay'[q].at = "mark" => Applied(Id(relay'[q].m))
        /\ \A i \in Indices :
             \/ Id(applied[i]) \in processed
             \/ \E q \in Relays : relay'[q].at = "mark" /\ Id(relay'[q].m) = Id(applied[i])
    BY <2>2, <2>5 DEF CrossChainInv, EffectsOK
  <2>8. \A q, p \in Relays :
          /\ relay'[q].at # "idle" /\ relay'[p].at # "idle" /\ Id(relay'[q].m) = Id(relay'[p].m)
          /\ Id(relay'[q].m) \notin racedIds'
          => q = p
    BY <2>1, <2>2 DEF CrossChainInv, EffectsOK
  <2>9. \A q \in Relays :
          relay'[q].at = "apply" /\ Id(relay'[q].m) \notin racedIds' => ~Applied(Id(relay'[q].m))
    BY <2>1, <2>2, <2>6 DEF CrossChainInv, EffectsOK
  <2>10. EffectsOK'
    BY <1>1, <2>1, <2>7, <2>8, <2>9 DEF EffectsOK, Applied
  <2> QED
    BY <1>2, <2>3, <2>4, <2>10 DEF CrossChainInv
<1> QED
  BY <1>3, <1>4

LEMMA MarkKeeps ==
  ASSUME CrossChainInv, NEW r \in Relays, MarkProcessed(r)
  PROVE  CrossChainInv'
<1> DEFINE m == relay[r].m
<1>1. /\ relay[r].at = "mark"
      /\ processed' = processed \union {Id(m)} /\ accepted' = accepted \union {m}
      /\ relay' = [relay EXCEPT ![r] = NoMessage]
      /\ UNCHANGED <<now, sent, chain, applied, racedIds>>
      /\ Indices' = Indices
  BY DEF MarkProcessed, Indices
<1>2. SentOK' /\ ChainOK' /\ SentMessages' = SentMessages /\ PendingIsApplied' /\ OrderedIsCurrent'
  <2>1. SentOK'
    BY <1>1 DEF CrossChainInv, SentOK, Sent
  <2>2. ChainOK' /\ SentMessages' = SentMessages
    BY <1>1 DEF CrossChainInv, ChainOK, SentMessages
  <2>3. PendingIsApplied'
    BY <1>1 DEF CrossChainInv, PendingIsApplied
  <2>4. OrderedIsCurrent'
    BY <1>1 DEF CrossChainInv, OrderedIsCurrent, InOrder
  <2> QED
    BY <2>1, <2>2, <2>3, <2>4
<1> HIDE DEF m
<1>3. /\ relay' \in [Relays -> [at : {"idle"}] \union [at : {"apply", "mark"}, m : SentMessages]]
      /\ relay'[r].at = "idle"
      /\ \A q \in Relays \ {r} : relay'[q] = relay[q]
  BY <1>1 DEF CrossChainInv, RelayOK, NoMessage
<1>4. RelayOK' /\ AppliedOnce'
  BY <1>1, <1>2, <1>3 DEF CrossChainInv, RelayOK, AppliedOnce
<1>5. Applied(Id(m))
  BY <1>1 DEF CrossChainInv, EffectsOK, m
<1>6. /\ \A id \in processed' : Applied(id)
      /\ \A n \in accepted' : Applied(Id(n))
      /\ \A q \in Relays : relay'[q].at = "mark" => Applied(Id(relay'[q].m))
  BY <1>1, <1>3, <1>5 DEF CrossChainInv, EffectsOK
<1>7. \A i \in Indices :
        \/ Id(applied[i]) \in processed'
        \/ \E q \in Relays : relay'[q].at = "mark" /\ Id(relay'[q].m) = Id(applied[i])
  BY <1>1, <1>3 DEF CrossChainInv, EffectsOK, m
<1>8. /\ \A q, p \in Relays :
           /\ relay'[q].at # "idle" /\ relay'[p].at # "idle" /\ Id(relay'[q].m) = Id(relay'[p].m)
           /\ Id(relay'[q].m) \notin racedIds
           => q = p
      /\ \A q \in Relays :
           relay'[q].at = "apply" /\ Id(relay'[q].m) \notin racedIds => ~Applied(Id(relay'[q].m))
  BY <1>3 DEF CrossChainInv, EffectsOK
<1>9. EffectsOK'
  BY <1>1, <1>6, <1>7, <1>8 DEF EffectsOK, Applied
<1> QED
  BY <1>2, <1>4, <1>9 DEF CrossChainInv

(* What a message makes of the chain's state. *)
LEMMA ChainAfterFacts ==
  ASSUME ChainOK, SentOK, NEW m \in SentMessages, NEW c, c = ChainAfter(m)
  PROVE  /\ c \in [active : [SyncedProposals -> Nat], pending : [SyncedProposals -> Nat],
                   paused : BOOLEAN, delay : Delays \union {0}, block : Nat, stamp : Nat]
         /\ c.block = m.block /\ c.stamp = m.block
         /\ m.kind = "Created" =>
              /\ m.arg \in SyncedProposals
              /\ c.active = [chain.active EXCEPT ![m.arg] = @ + 1]
         /\ m.kind = "Executed" =>
              /\ m.arg \in SyncedProposals
              /\ c.active = [chain.active EXCEPT ![m.arg] = 0]
              /\ c.pending = [chain.pending EXCEPT ![m.arg] = @ + 1]
         /\ m.kind \notin {"Created", "Executed"} => c.active = chain.active
         /\ m.kind # "Executed" => c.pending = chain.pending
         /\ c.paused = (m.kind = "Paused" \/ (chain.paused /\ m.kind # "Resumed"))
         /\ c.delay = IF m.kind = "Timelock" THEN m.arg ELSE chain.delay
<1> DEFINE b == [chain EXCEPT !.block = m.block, !.stamp = m.block]
           T == [active : [SyncedProposals -> Nat], pending : [SyncedProposals -> Nat],
                 paused : BOOLEAN, delay : Delays \union {0}, block : Nat, stamp : Nat]
<1>1. m \in SyncMessage /\ m.block \in Nat
  BY SentFacts
<1>2. /\ b \in T /\ b.block = m.block /\ b.stamp = m.block
      /\ b.active = chain.active /\ b.pending = chain.pending
      /\ b.paused = chain.paused /\ b.delay = chain.delay
  BY <1>1 DEF ChainOK
<1>3. c = CASE m.kind = "Created"  -> [b EXCEPT !.active = [b.active EXCEPT ![m.arg] = @ + 1]]
            [] m.kind = "Executed" -> [b EXCEPT !.active = [b.active EXCEPT ![m.arg] = 0],
                                                !.pending = [b.pending EXCEPT ![m.arg] = @ + 1]]
            [] m.kind = "Paused"   -> [b EXCEPT !.paused = TRUE]
            [] m.kind = "Resumed"  -> [b EXCEPT !.paused = FALSE]
            [] m.kind = "Timelock" -> [b EXCEPT !.delay = m.arg]
  BY DEF ChainAfter
<1> HIDE DEF b
<1>4. CASE m.kind = "Created"
  <2>1. m.arg \in SyncedProposals
    BY <1>1, <1>4 DEF SyncMessage
  <2>2. [b.active EXCEPT ![m.arg] = @ + 1] \in [SyncedProposals -> Nat]
    BY <1>2, <2>1
  <2> QED
    BY <1>2, <1>3, <1>4, <2>1, <2>2
<1>5. CASE m.kind = "Executed"
  <2>1. m.arg \in SyncedProposals
    BY <1>1, <1>5 DEF SyncMessage
  <2>2. /\ [b.active EXCEPT ![m.arg] = 0] \in [SyncedProposals -> Nat]
        /\ [b.pending EXCEPT ![m.arg] = @ + 1] \in [SyncedProposals -> Nat]
    BY <1>2, <2>1
  <2>3. c = [b EXCEPT !.active = [b.active EXCEPT ![m.arg] = 0],
                      !.pending = [b.pending EXCEPT ![m.arg] = @ + 1]]
    BY <1>3, <1>5
  <2>4. c \in T
    BY <1>2, <2>2, <2>3
  <2>5. /\ c.active = [b.active EXCEPT ![m.arg] = 0]
        /\ c.pending = [b.pending EXCEPT ![m.arg] = @ + 1]
        /\ c.block = b.block /\ c.stamp = b.stamp /\ c.paused = b.paused /\ c.delay = b.delay
    BY <1>2, <2>3
  <2> QED
    BY <1>2, <1>5, <2>1, <2>4, <2>5
<1>6. CASE m.kind = "Paused"
  BY <1>2, <1>3, <1>6
<1>7. CASE m.kind = "Resumed"
  BY <1>2, <1>3, <1>7
<1>8. CASE m.kind = "Timelock"
  <2>1. m.arg \in Delays
    BY <1>1, <1>8 DEF SyncMessage
  <2> QED
    BY <1>2, <1>3, <1>8, <2>1
<1> QED
  BY <1>1, <1>4, <1>5, <1>6, <1>7, <1>8 DEF SyncMessage

(* The messages applied in order are about a state that none of them is      *)
(* behind.                                                                   *)
LEMMA ApplyOrderedKeeps ==
  ASSUME CrossChainInv, NEW m \in SentMessages,
         chain' = ChainAfter(m), applied' = Append(applied, m), ChainOK',
         UNCHANGED <<now, sent>>
  PROVE  PendingIsApplied' /\ OrderedIsCurrent'
<1> DEFINE n == Len(applied)
<1>1. SentOK /\ ChainOK /\ applied \in Seq(SentMessages)
  BY DEF CrossChainInv, RelayOK
<1>2. /\ n \in Nat /\ Len(applied') = n + 1 /\ applied'[n + 1] = m
      /\ \A i \in 1..n : applied'[i] = applied[i] /\ applied[i] \in SentMessages
  BY <1>1, AppendProperties
<1> HIDE DEF n
<1>3. Indices = 1..n /\ Indices' = 1..(n + 1)
  BY <1>2 DEF Indices, n
<1>4. \A i \in 1..(n + 1) : i \in 1..n \/ i = n + 1
  BY <1>2
<1>5. m \in SyncMessage
  BY <1>1, SentFacts
<1>6. /\ m.kind = "Created" =>
           /\ m.arg \in SyncedProposals
           /\ chain'.active = [chain.active EXCEPT ![m.arg] = @ + 1]
      /\ m.kind = "Executed" =>
           /\ m.arg \in SyncedProposals
           /\ chain'.active = [chain.active EXCEPT ![m.arg] = 0]
           /\ chain'.pending = [chain.pending EXCEPT ![m.arg] = @ + 1]
      /\ m.kind \notin {"Created", "Executed"} => chain'.active = chain.active
      /\ m.kind # "Executed" => chain'.pending = chain.pending
      /\ chain'.paused = (m.kind = "Paused" \/ (chain.paused /\ m.kind # "Resumed"))
      /\ chain'.delay = IF m.kind = "Timelock" THEN m.arg ELSE chain.delay
  BY <1>1, ChainAfterFacts
<1>7. chain.active \in [SyncedProposals -> Nat] /\ chain.pending \in [SyncedProposals -> Nat]
  BY <1>1 DEF ChainOK
<1>8. PendingIsApplied'
  <2> SUFFICES ASSUME NEW p \in SyncedProposals, chain'.pending[p] # 0
               PROVE  \E i \in Indices' : applied'[i].kind = "Executed" /\ applied'[i].arg = p
    BY DEF PendingIsApplied
  <2>1. CASE m.kind = "Executed" /\ m.arg = p
    BY <1>2, <1>3, <2>1
  <2>2. CASE ~(m.kind = "Executed" /\ m.arg = p)
    <3>1. chain.pending[p] # 0
      BY <1>6, <1>7, <2>2
    <3>2. PICK i \in 1..n : applied[i].kind = "Executed" /\ applied[i].arg = p
      BY <1>3, <3>1 DEF CrossChainInv, PendingIsApplied
    <3> QED
      BY <1>2, <1>3, <3>2
  <2> QED
    BY <2>1, <2>2
<1>9. OrderedIsCurrent'
  <2> SUFFICES ASSUME InOrder'
               PROVE  /\ \A p \in SyncedProposals : chain'.active[p] = 0 \/ chain'.pending[p] = 0
                      /\ \A i \in Indices' :
                           /\ applied'[i].kind = "Timelock"
                              /\ (\A j \in Indices' : j > i => applied'[j].kind # "Timelock")
                                => chain'.delay = applied'[i].arg
                           /\ applied'[i].kind = "Paused" /\ ~chain'.paused
                                => \E j \in Indices' : j > i /\ applied'[j].kind = "Resumed"
                                                       /\ applied'[j].seq > applied'[i].seq
    BY DEF OrderedIsCurrent
  <2>1. InOrder
    BY <1>2, <1>3 DEF InOrder
  <2>2. \A i \in 1..n : applied[i].seq <= m.seq
    BY <1>2, <1>3 DEF InOrder
  <2>3. /\ \A p \in SyncedProposals : chain.active[p] = 0 \/ chain.pending[p] = 0
        /\ \A i \in 1..n :
             /\ applied[i].kind = "Timelock" /\ (\A j \in 1..n : j > i => applied[j].kind # "Timelock")
                  => chain.delay = applied[i].arg
             /\ applied[i].kind = "Paused" /\ ~chain.paused
                  => \E j \in 1..n : j > i /\ applied[j].kind = "Resumed" /\ applied[j].seq > applied[i].seq
    BY <1>3, <2>1 DEF CrossChainInv, OrderedIsCurrent
  <2>4. ASSUME NEW p \in SyncedProposals
        PROVE  chain'.active[p] = 0 \/ chain'.pending[p] = 0
    <3>1. CASE m.kind = "Executed" /\ m.arg = p
      BY <1>6, <1>7, <3>1
    <3>2. CASE m.kind = "Created" /\ m.arg = p
      <4>1. SUFFICES ASSUME chain.pending[p] # 0
                     PROVE  FALSE
        BY <1>6, <3>2
      <4>2. PICK i \in 1..n : applied[i].kind = "Executed" /\ applied[i].arg = p
        BY <1>3, <4>1 DEF CrossChainInv, PendingIsApplied
      <4>3. m.seq < applied[i].seq /\ m.seq \in Nat /\ applied[i].seq \in Nat
        BY <1>1, <1>2, <3>2, <4>2, SentFacts
      <4> QED
        BY <2>2, <4>3
    <3>3. CASE ~(m.kind \in {"Created", "Executed"} /\ m.arg = p)
      <4>1. chain'.active[p] = chain.active[p] /\ chain'.pending[p] = chain.pending[p]
        BY <1>6, <1>7, <3>3
      <4> QED
        BY <2>3, <4>1
    <3> QED
      BY <3>1, <3>2, <3>3
  <2>5. ASSUME NEW i \in 1..(n + 1), applied'[i].kind = "Timelock",
               \A j \in 1..(n + 1) : j > i => applied'[j].kind # "Timelock"
        PROVE  chain'.delay = applied'[i].arg
    <3>1. CASE i = n + 1
      BY <1>2, <1>6, <2>5, <3>1
    <3>2. CASE i \in 1..n
      <4>1. m.kind # "Timelock"
        BY <1>2, <2>5, <3>2
      <4>2. \A j \in 1..n : j > i => applied[j].kind # "Timelock"
        BY <1>2, <2>5
      <4>3. applied'[i] = applied[i]
        BY <1>2, <3>2
      <4> QED
        BY <1>6, <2>3, <2>5, <3>2, <4>1, <4>2, <4>3
    <3> QED
      BY <1>4, <3>1, <3>2
  <2>6. ASSUME NEW i \in 1..(n + 1), applied'[i].kind = "Paused", ~chain'.paused
        PROVE  \E j \in 1..(n + 1) : j > i /\ applied'[j].kind = "Resumed"
                                     /\ applied'[j].seq > applied'[i].seq
    <3>1. i \in 1..n /\ applied'[i] = applied[i] /\ applied[i] \in SentMessages
      BY <1>2, <1>4, <1>6, <2>6
    <3>2. CASE m.kind = "Resumed"
      <4>1. applied[i] # m /\ applied[i].seq \in Nat /\ m.seq \in Nat
        BY <1>1, <2>6, <3>1, <3>2, SentFacts
      <4>2. applied[i].seq # m.seq
        BY <1>1, <3>1, <4>1, SentFacts
      <4>3. n + 1 > i /\ m.seq > applied[i].seq
        BY <1>2, <2>2, <3>1, <4>1, <4>2
      <4> QED
        BY <1>2, <3>1, <3>2, <4>3
    <3>3. CASE m.kind # "Resumed"
      <4>1. ~chain.paused
        BY <1>6, <2>6, <3>3
      <4>2. PICK j \in 1..n : j > i /\ applied[j].kind = "Resumed" /\ applied[j].seq > applied[i].seq
        BY <2>3, <2>6, <3>1, <4>1
      <4> QED
        BY <1>2, <3>1, <4>2
    <3> QED
      BY <3>2, <3>3
  <2> QED
    BY <1>3, <2>4, <2>5, <2>6
<1> QED
  BY <1>8, <1>9

LEMMA ApplyKeeps ==
  ASSUME CrossChainInv, NEW r \in Relays, ApplySyncMessage(r)
  PROVE  CrossChainInv'
<1> DEFINE m == relay[r].m
           n == Len(applied)
<1>1. /\ relay[r].at = "apply"
      /\ chain' = ChainAfter(m) /\ applied' = Append(applied, m)
      /\ relay' = [relay EXCEPT ![r] = [relay[r] EXCEPT !.at = "mark"]]
      /\ UNCHANGED <<now, sent, processed, accepted, racedIds>>
  BY DEF ApplySyncMessage
<1>2. SentOK /\ ChainOK /\ applied \in Seq(SentMessages)
  BY DEF CrossChainInv, RelayOK
<1>3. m \in SentMessages /\ relay[r] \in [at : {"apply", "mark"}, m : SentMessages]
  BY <1>1 DEF CrossChainInv, RelayOK
<1>4. /\ relay' \in [Relays -> [at : {"idle"}] \union [at : {"apply", "mark"}, m : SentMessages]]
      /\ relay'[r].at = "mark" /\ relay'[r].m = m
      /\ \A q \in Relays \ {r} : relay'[q] = relay[q]
  <2>1. [relay[r] EXCEPT !.at = "mark"] \in [at : {"apply", "mark"}, m : SentMessages]
    BY <1>3
  <2>2. [relay[r] EXCEPT !.at = "mark"].m = m /\ [relay[r] EXCEPT !.at = "mark"].at = "mark"
    BY <1>3
  <2> QED
    BY <1>1, <2>1, <2>2 DEF CrossChainInv, RelayOK
<1> HIDE DEF m
<1>5. SentOK' /\ SentMessages' = SentMessages
  BY <1>1, <1>2 DEF SentOK, Sent, SentMessages
<1>6. ChainOK'
  <2>1. m.block <= now /\ m.block \in Nat
    BY <1>2, <1>3, SentFacts
  <2>2. /\ chain' \in [active : [SyncedProposals -> Nat], pending : [SyncedProposals -> Nat],
                        paused : BOOLEAN, delay : Delays \union {0}, block : Nat, stamp : Nat]
        /\ chain'.block = m.block /\ chain'.stamp = m.block
    BY <1>1, <1>2, <1>3, ChainAfterFacts
  <2> QED
    BY <1>1, <2>1, <2>2 DEF ChainOK
<1>7. /\ n \in Nat /\ Len(applied') = n + 1 /\ applied'[n + 1] = m
      /\ applied' \in Seq(SentMessages)
      /\ \A i \in 1..n : applied'[i] = applied[i]
  BY <1>1, <1>2, <1>3, AppendProperties
<1>8. RelayOK'
  BY <1>4, <1>5, <1>7 DEF RelayOK
<1>9. PendingIsApplied' /\ OrderedIsCurrent'
  BY <1>1, <1>3, <1>6, ApplyOrderedKeeps
<1>10. Indices = 1..n /\ Indices' = 1..(n + 1)
  BY <1>7 DEF Indices
<1> HIDE DEF n
<1>11. Id(m) \notin racedIds => \A i \in 1..n : Id(applied[i]) # Id(m)
  BY <1>1, <1>10 DEF CrossChainInv, EffectsOK, Applied, m
<1>12. AppliedOnce'
  <2> SUFFICES ASSUME NEW i \in 1..(n + 1), NEW j \in 1..(n + 1),
                      Id(applied'[i]) = Id(applied'[j]), Id(applied'[i]) \notin racedIds
               PROVE  i = j
    BY <1>1, <1>10 DEF AppliedOnce
  <2>1. CASE i \in 1..n /\ j \in 1..n
    BY <1>7, <1>10, <2>1 DEF CrossChainInv, AppliedOnce
  <2>2. CASE i \notin 1..n \/ j \notin 1..n
    BY <1>7, <1>11, <2>2
  <2> QED
    BY <2>1, <2>2
<1>13. EffectsOK'
  <2> DEFINE AppliedNow(id) == \E i \in 1..(n + 1) : Id(applied'[i]) = id
  <2>1. \A id : Applied(id) => AppliedNow(id)
    BY <1>7, <1>10 DEF Applied
  <2>2. AppliedNow(Id(m))
    BY <1>7
  <2>3. ASSUME NEW id, AppliedNow(id), id # Id(m)
        PROVE  Applied(id)
    <3>1. PICK i \in 1..(n + 1) : Id(applied'[i]) = id
      BY <2>3
    <3>2. i \in 1..n /\ Id(applied[i]) = id
      BY <1>7, <2>3, <3>1
    <3> QED
      BY <1>10, <3>2 DEF Applied
  <2> HIDE DEF AppliedNow
  <2>4. /\ \A id \in processed : AppliedNow(id)
        /\ \A a \in accepted : AppliedNow(Id(a))
    BY <2>1 DEF CrossChainInv, EffectsOK
  <2>5. \A q \in Relays : relay'[q].at = "mark" => AppliedNow(Id(relay'[q].m))
    <3> TAKE q \in Relays
    <3>1. CASE q = r
      BY <1>4, <2>2, <3>1
    <3>2. CASE q # r
      <4>1. relay'[q] = relay[q]
        BY <1>4, <3>2
      <4>2. relay[q].at = "mark" => Applied(Id(relay[q].m))
        BY DEF CrossChainInv, EffectsOK
      <4> QED
        BY <2>1, <4>1, <4>2
    <3> QED
      BY <3>1, <3>2
  <2>6. \A i \in 1..(n + 1) :
          \/ Id(applied'[i]) \in processed
          \/ \E q \in Relays : relay'[q].at = "mark" /\ Id(relay'[q].m) = Id(applied'[i])
    <3> TAKE i \in 1..(n + 1)
    <3>1. CASE i = n + 1
      BY <1>4, <1>7, <3>1
    <3>2. CASE i \in 1..n
      BY <1>1, <1>4, <1>7, <1>10, <3>2 DEF CrossChainInv, EffectsOK
    <3> QED
      BY <1>7, <3>1, <3>2
  <2>7. \A q \in Relays : relay'[q].at # "idle" => relay[q].at # "idle" /\ relay'[q].m = relay[q].m
    BY <1>1, <1>4 DEF m
  <2>8. \A q, p \in Relays :
          /\ relay'[q].at # "idle" /\ relay'[p].at # "idle" /\ Id(relay'[q].m) = Id(relay'[p].m)
          /\ Id(relay'[q].m) \notin racedIds
          => q = p
    BY <2>7 DEF CrossChainInv, EffectsOK
  <2>9. ASSUME NEW q \in Relays, relay'[q].at = "apply", Id(relay'[q].m) \notin racedIds
        PROVE  ~AppliedNow(Id(relay'[q].m))
    <3>1. q # r /\ relay'[q] = relay[q]
      BY <1>4, <2>9
    <3>2. Id(relay[q].m) # Id(m)
      BY <1>1, <2>9, <3>1 DEF CrossChainInv, EffectsOK, m
    <3>3. ~Applied(Id(relay[q].m))
      BY <2>9, <3>1 DEF CrossChainInv, EffectsOK
    <3> QED
      BY <2>3, <3>1, <3>2, <3>3
  <2>10. /\ \A id \in processed' : Applied(id)'
         /\ \A a \in accepted' : Applied(Id(a))'
         /\ \A q \in Relays : relay'[q].at = "mark" => Applied(Id(relay[q].m))'
    BY <1>1, <1>10, <2>4, <2>5 DEF AppliedNow, Applied
  <2>11. \A q \in Relays :
           relay'[q].at = "apply" /\ Id(relay'[q].m) \notin racedIds' => ~Applied(Id(relay[q].m))'
    BY <1>1, <1>10, <2>9 DEF AppliedNow, Applied
  <2> QED
    BY <1>1, <1>10, <2>6, <2>8, <2>10, <2>11 DEF EffectsOK
<1> QED
  BY <1>5, <1>6, <1>8, <1>9, <1>12, <1>13 DEF CrossChainInv

LEMMA CrossChainStep ==
  ASSUME CrossChainInv, [CrossChainNext]_syncVars
  PROVE  CrossChainInv'
<1>1. CASE UNCHANGED syncVars
  <2>1. SentOK' /\ ChainOK' /\ SentMessages' = SentMessages
    BY <1>1 DEF syncVars, CrossChainInv, SentOK, Sent, ChainOK, SentMessages
  <2> QED
    BY <1>1, <2>1, SyncUntouched DEF syncVars
<1>2. ASSUME NEW kind, NEW arg, CreateSyncMessage(kind, arg),
             \/ kind \in {"Created", "Executed"} /\ arg \in SyncedProposals
             \/ kind \in {"Paused", "Resumed"} /\ arg = 0
             \/ kind = "Timelock" /\ arg \in Delays
      PROVE  CrossChainInv'
  <2>1. now \in Nat /\ Len(sent) \in Nat
    BY DEF CrossChainInv, SentOK
  <2>2. [kind |-> kind, arg |-> arg, block |-> now, seq |-> Len(sent)] \in SyncMessage
    BY <1>2, <2>1 DEF SyncMessage
  <2> QED
    BY <1>2, <2>2, CreateKeeps
<1>3. ASSUME NEW r \in Relays, NEW i \in 1..Len(sent), Deliver(r, sent[i])
      PROVE  CrossChainInv'
  BY <1>3, DeliverKeeps DEF SentMessages
<1>4. CASE \E p \in SyncedProposals : CreateSyncMessage("Created", p) \/ CreateSyncMessage("Executed", p)
  BY <1>2, <1>4
<1>5. CASE CreateSyncMessage("Paused", 0) \/ CreateSyncMessage("Resumed", 0)
  BY <1>2, <1>5
<1>6. CASE \E d \in Delays : CreateSyncMessage("Timelock", d)
  BY <1>2, <1>6
<1>7. CASE AdvanceClock \/ ForceSyncChain
  BY <1>7, AdvanceClockKeeps, ForceSyncKeeps
<1>8. CASE \E r \in Relays : ApplySyncMessage(r) \/ MarkProcessed(r)
  BY <1>8, ApplyKeeps, MarkKeeps
<1>9. CASE \E r \in Relays : \E i \in 1..Len(sent) : Deliver(r, sent[i])
  BY <1>3, <1>9
<1> QED
  BY <1>1, <1>4, <1>5, <1>6, <1>7, <1>8, <1>9 DEF CrossChainNext

(* A message takes effect once unless two relays held it at the same time,   *)
(* what is accepted took effect or collided with a message of the same id,   *)
(* and messages applied in the order they were sent leave the last one's     *)
(* state; for any proposals, delays, relays and messages, delivered in any   *)
(* order and again (m302_cross_chain_sync.rs).                               *)
THEOREM CrossChainIsSound == CrossChainSpec => []CrossChainSound
<1>1. CrossChainInv => CrossChainSound
  <2> SUFFICES ASSUME CrossChainInv
               PROVE  CrossChainSound
    OBVIOUS
  <2>1. CrossChainTypeOK
    BY DEF CrossChainInv, SentOK, ChainOK, RelayOK, CrossChainTypeOK
  <2>2. AcceptedIsApplied
    BY DEF CrossChainInv, EffectsOK, Applied, AcceptedIsApplied
  <2> QED
    BY <2>1, <2>2 DEF CrossChainInv, CrossChainSound
<1> QED
  BY <1>1, CrossChainInitially, CrossChainStep, PTL DEF CrossChainSpec

-----------------------------------------------------------------------------
(* Slashing (m303).                                                          *)

(* What each clone holds. *)
UserTypeOK ==
  user \in [Clones -> [at : {"free"}]
                      \union [at : {"record", "jail", "sum", "count"}, id : Ids, until : Nat, amount : Nat]
                      \union [at : {"release"}, id : Ids, amount : {0}]]

SlashingVarsOK ==
  /\ SlashingTypeOK /\ UserTypeOK
  /\ height \in 0..MaxBlock /\ total \in Nat /\ rewritten \in Nat
  /\ due \in [Offenders -> Nat]
  /\ filed \in [once : SUBSET Ids, again : SUBSET Ids]

(* A record that was appealed stays so until it is replaced. *)
AppealsStand ==
  /\ queue \subseteq filed.once
  /\ \A id \in filed.once \ reopened : records[id].appealed
  /\ filed.again \subseteq reopened

SlashingInv == SlashingVarsOK /\ TermsAreServed /\ TotalIsRecorded /\ AppealsStand

LEMMA SlashingFinite ==
  /\ IsFiniteSet(Clones) /\ IsFiniteSet(Ids)
  /\ MaxBlock \in Nat /\ Terms \subseteq Nat
<1>1. MaxBlock \in Nat /\ IsFiniteSet(Clones) /\ IsFiniteSet(Offenders) /\ Terms \subseteq Nat
  BY SlashingAssumption
<1>2. IsFiniteSet(0..MaxBlock)
  BY <1>1, FS_Interval
<1>3. IsFiniteSet(Offenders \X (0..MaxBlock))
  BY <1>1, <1>2, FS_Product
<1> QED
  BY <1>1, <1>3 DEF Ids

LEMMA SlashingInitially == SlashingInit => SlashingInv
<1> SUFFICES ASSUME SlashingInit
             PROVE  SlashingInv
  OBVIOUS
<1>1. SlashingVarsOK
  BY SlashingFinite DEF SlashingInit, SlashingVarsOK, SlashingTypeOK, UserTypeOK, Free, NoRecord
<1>2. TermsAreServed /\ AppealsStand
  BY DEF SlashingInit, TermsAreServed, AppealsStand
<1>3. \A c \in Clones : AmountsToAdd[c] = 0
  BY DEF AmountsToAdd, SlashingInit, Free
<1>4. \A id \in Ids : AmountsOnRecord[id] = 0
  BY DEF AmountsOnRecord, SlashingInit, NoRecord
<1>5. SumFunctionOnSet(AmountsToAdd, Clones) = 0 /\ SumFunctionOnSet(AmountsOnRecord, Ids) = 0
  BY <1>3, <1>4, SlashingFinite, SumZero
<1>6. TotalIsRecorded
  BY <1>5 DEF TotalIsRecorded, SlashingInit
<1> QED
  BY <1>1, <1>2, <1>6 DEF SlashingInv

(* The two sums, and how a step of one clone changes the first. *)
LEMMA ToAddFacts ==
  ASSUME SlashingVarsOK
  PROVE  /\ \A c \in Clones : AmountsToAdd[c] \in Nat
         /\ \A id \in Ids : AmountsOnRecord[id] \in Nat
         /\ SumFunctionOnSet(AmountsToAdd, Clones) \in Nat
         /\ SumFunctionOnSet(AmountsOnRecord, Ids) \in Nat
<1>1. \A c \in Clones : AmountsToAdd[c] \in Nat
  BY DEF SlashingVarsOK, UserTypeOK, AmountsToAdd
<1>2. \A id \in Ids : AmountsOnRecord[id] \in Nat
  BY DEF SlashingVarsOK, SlashingTypeOK, AmountsOnRecord
<1> QED
  BY <1>1, <1>2, SumType, SlashingFinite

LEMMA ToAddStep ==
  ASSUME SlashingVarsOK, SlashingVarsOK', NEW c \in Clones,
         \A d \in Clones \ {c} : user'[d] = user[d]
  PROVE  SumFunctionOnSet(AmountsToAdd, Clones)'
           = SumFunctionOnSet(AmountsToAdd, Clones) - AmountsToAdd[c] + AmountsToAdd'[c]
<1>1. \A d \in Clones : AmountsToAdd[d] \in Nat /\ AmountsToAdd'[d] \in Nat
  BY DEF SlashingVarsOK, UserTypeOK, AmountsToAdd
<1>2. \A d \in Clones \ {c} : AmountsToAdd'[d] = AmountsToAdd[d]
  BY DEF AmountsToAdd
<1> QED
  BY <1>1, <1>2, SumUpdate, SlashingFinite

LEMMA NextBlockKeeps ==
  ASSUME SlashingInv, NextBlock
  PROVE  SlashingInv'
<1> USE DEF SlashingInv, NextBlock
<1>1. SlashingVarsOK'
  BY SlashingFinite DEF SlashingVarsOK, SlashingTypeOK, UserTypeOK
<1>2. TermsAreServed'
  BY DEF TermsAreServed, SlashingVarsOK, SlashingTypeOK
<1>3. TotalIsRecorded' /\ AppealsStand'
  BY DEF TotalIsRecorded, AmountsToAdd, AmountsOnRecord, AppealsStand
<1> QED
  BY <1>1, <1>2, <1>3

LEMMA AssessKeeps ==
  ASSUME SlashingInv, NEW c \in Clones, NEW o \in Offenders, NEW term \in Terms, Assess(c, o, term)
  PROVE  SlashingInv'
<1>1. Penalty(counts[o]) \in Nat
  <2>1. counts[o] \in Nat
    BY DEF SlashingInv, SlashingVarsOK, SlashingTypeOK
  <2>2. \/ counts[o] <= 1 \/ counts[o] = 2 \/ counts[o] = 3 \/ counts[o] = 4 \/ counts[o] >= 5
    BY <2>1
  <2> QED
    BY <2>1, <2>2 DEF Penalty
<1>2. user' = [user EXCEPT ![c] = [at |-> "record", id |-> <<o, height>>, until |-> height + term,
                                   amount |-> Penalty(counts[o])]]
  BY DEF Assess
<1>3. <<o, height>> \in Ids /\ height + term \in Nat
  BY SlashingFinite DEF SlashingInv, SlashingVarsOK, Ids
<1>4. UserTypeOK'
  BY <1>1, <1>2, <1>3 DEF SlashingInv, SlashingVarsOK, UserTypeOK
<1>5. SlashingVarsOK'
  BY <1>4 DEF SlashingInv, SlashingVarsOK, SlashingTypeOK, Assess, UserTypeOK
<1>6. TermsAreServed' /\ AppealsStand'
  BY DEF SlashingInv, TermsAreServed, AppealsStand, Assess
<1>7. AmountsToAdd[c] = 0 /\ AmountsToAdd'[c] = 0
  BY DEF SlashingInv, SlashingVarsOK, UserTypeOK, AmountsToAdd, Assess, Free
<1>8. TotalIsRecorded'
  <2>1. SumFunctionOnSet(AmountsToAdd, Clones)' = SumFunctionOnSet(AmountsToAdd, Clones)
    BY <1>2, <1>5, <1>7, ToAddStep, ToAddFacts DEF SlashingInv, SlashingVarsOK, UserTypeOK
  <2>2. UNCHANGED <<AmountsOnRecord, total, rewritten>>
    BY DEF Assess, AmountsOnRecord
  <2> QED
    BY <2>1, <2>2 DEF SlashingInv, TotalIsRecorded
<1> QED
  BY <1>5, <1>6, <1>8 DEF SlashingInv

(* A later record replaces the one of the same block, with its appeal. *)
LEMMA InsertRecordKeeps ==
  ASSUME SlashingInv, NEW c \in Clones, InsertRecord(c)
  PROVE  SlashingInv'
<1> DEFINE id == user[c].id
<1>1. user[c].at = "record" /\ id \in Ids /\ user[c].amount \in Nat
  BY DEF SlashingInv, SlashingVarsOK, UserTypeOK, InsertRecord
<1>2. /\ records' = [records EXCEPT ![id] = [amount |-> user[c].amount, appealed |-> FALSE]]
      /\ user' = [user EXCEPT ![c] = [user[c] EXCEPT !.at = "jail"]]
      /\ rewritten' = rewritten + records[id].amount
      /\ reopened' = IF records[id].appealed THEN reopened \union {id} ELSE reopened
      /\ UNCHANGED <<height, jailed, total, counts, queue, offences, due, excused, filed>>
  BY DEF InsertRecord
<1>3. /\ records \in [Ids -> [amount : Nat, appealed : BOOLEAN]]
      /\ user \in [Clones -> [at : {"free"}]
                      \union [at : {"record", "jail", "sum", "count"}, id : Ids, until : Nat, amount : Nat]
                      \union [at : {"release"}, id : Ids, amount : {0}]]
  BY DEF SlashingInv, SlashingVarsOK, SlashingTypeOK, UserTypeOK
<1> HIDE DEF id
<1>4. user[c] \in [at : {"record", "jail", "sum", "count"}, id : Ids, until : Nat, amount : Nat]
  BY <1>1, <1>3
<1>5. UserTypeOK'
  <2>1. [user[c] EXCEPT !.at = "jail"]
          \in [at : {"record", "jail", "sum", "count"}, id : Ids, until : Nat, amount : Nat]
    BY <1>4
  <2> QED
    BY <1>2, <1>3, <2>1 DEF UserTypeOK
<1>6. /\ records' \in [Ids -> [amount : Nat, appealed : BOOLEAN]]
      /\ records[id].amount \in Nat
  BY <1>1, <1>2, <1>3
<1>7. SlashingVarsOK'
  BY <1>2, <1>5, <1>6 DEF SlashingInv, SlashingVarsOK, SlashingTypeOK, UserTypeOK
<1>8. TermsAreServed'
  BY <1>2 DEF SlashingInv, TermsAreServed
<1>9. AppealsStand'
  <2>1. \A d \in Ids \ {id} : records'[d] = records[d]
    BY <1>2, <1>3
  <2>2. filed.once \subseteq Ids
    BY DEF SlashingInv, SlashingVarsOK
  <2> QED
    BY <1>1, <1>2, <2>1, <2>2 DEF SlashingInv, AppealsStand
<1>10. TotalIsRecorded'
  <2>1. SumFunctionOnSet(AmountsToAdd, Clones)'
          = SumFunctionOnSet(AmountsToAdd, Clones) - AmountsToAdd[c] + AmountsToAdd'[c]
    BY <1>2, <1>3, <1>7, ToAddStep DEF SlashingInv
  <2>2. AmountsToAdd[c] = 0 /\ AmountsToAdd'[c] = user[c].amount
    BY <1>1, <1>2, <1>3, <1>4 DEF AmountsToAdd
  <2>3. SumFunctionOnSet(AmountsOnRecord, Ids)'
          = SumFunctionOnSet(AmountsOnRecord, Ids) - AmountsOnRecord[id] + AmountsOnRecord'[id]
    <3>1. \A d \in Ids : AmountsOnRecord[d] \in Nat /\ AmountsOnRecord'[d] \in Nat
      BY <1>3, <1>6 DEF AmountsOnRecord
    <3>2. \A d \in Ids \ {id} : AmountsOnRecord'[d] = AmountsOnRecord[d]
      BY <1>2, <1>3 DEF AmountsOnRecord
    <3> QED
      BY <1>1, <3>1, <3>2, SumUpdate, SlashingFinite
  <2>4. AmountsOnRecord[id] = records[id].amount /\ AmountsOnRecord'[id] = user[c].amount
    BY <1>1, <1>2, <1>3 DEF AmountsOnRecord
  <2>5. /\ total \in Nat /\ rewritten \in Nat /\ records[id].amount \in Nat /\ user[c].amount \in Nat
        /\ SumFunctionOnSet(AmountsToAdd, Clones) \in Nat
        /\ SumFunctionOnSet(AmountsOnRecord, Ids) \in Nat
    BY <1>1, <1>6, ToAddFacts DEF SlashingInv, SlashingVarsOK
  <2> QED
    BY <1>2, <2>1, <2>2, <2>3, <2>4, <2>5 DEF SlashingInv, TotalIsRecorded
<1> QED
  BY <1>7, <1>8, <1>9, <1>10 DEF SlashingInv

(* A step of a clone that is neither about records nor about the total, with *)
(* the amount it has to add as before.                                       *)
LEMMA TotalUnmoved ==
  ASSUME SlashingInv, SlashingVarsOK', NEW c \in Clones,
         \A d \in Clones \ {c} : user'[d] = user[d],
         AmountsToAdd'[c] = AmountsToAdd[c],
         \A id \in Ids : records'[id].amount = records[id].amount,
         UNCHANGED <<total, rewritten>>
  PROVE  TotalIsRecorded'
<1>1. SumFunctionOnSet(AmountsToAdd, Clones)' = SumFunctionOnSet(AmountsToAdd, Clones)
  BY ToAddStep, ToAddFacts DEF SlashingInv
<1>2. AmountsOnRecord' = AmountsOnRecord
  BY DEF AmountsOnRecord
<1> QED
  BY <1>1, <1>2 DEF SlashingInv, TotalIsRecorded

LEMMA InsertJailKeeps ==
  ASSUME SlashingInv, NEW c \in Clones, InsertJail(c)
  PROVE  SlashingInv'
<1> DEFINE o == user[c].id[1]
<1>1. user[c].at = "jail" /\ o \in Offenders /\ user[c].until \in Nat /\ user[c].amount \in Nat
  BY DEF SlashingInv, SlashingVarsOK, UserTypeOK, InsertJail, Ids
<1>2. /\ jailed' = [jailed EXCEPT ![o] = user[c].until]
      /\ due' = [due EXCEPT ![o] = Later(due[o], user[c].until)]
      /\ excused' = IF user[c].until < due[o] THEN excused \union {o} ELSE excused
      /\ user' = [user EXCEPT ![c] = [user[c] EXCEPT !.at = "sum"]]
      /\ UNCHANGED <<height, records, total, counts, queue, offences, rewritten, filed, reopened>>
  BY DEF InsertJail
<1>3. user[c] \in [at : {"record", "jail", "sum", "count"}, id : Ids, until : Nat, amount : Nat]
  BY <1>1 DEF SlashingInv, SlashingVarsOK, UserTypeOK
<1>4. [user[c] EXCEPT !.at = "sum"]
        \in [at : {"record", "jail", "sum", "count"}, id : Ids, until : Nat, amount : Nat]
  BY <1>3
<1> HIDE DEF o
<1>5. UserTypeOK'
  BY <1>2, <1>4 DEF SlashingInv, SlashingVarsOK, UserTypeOK
<1>6. jailed \in [Offenders -> Nat] /\ due \in [Offenders -> Nat] /\ height \in Nat
  BY SlashingFinite DEF SlashingInv, SlashingVarsOK, SlashingTypeOK
<1>7. jailed' \in [Offenders -> Nat] /\ due' \in [Offenders -> Nat]
  BY <1>1, <1>2, <1>6 DEF Later
<1>8. SlashingVarsOK'
  BY <1>2, <1>5, <1>7 DEF SlashingInv, SlashingVarsOK, SlashingTypeOK, UserTypeOK
<1>9. TermsAreServed'
  <2> SUFFICES ASSUME NEW p \in Offenders \ excused', height' < due'[p]
               PROVE  jailed'[p] = due'[p]
    BY DEF TermsAreServed
  <2>1. CASE p # o
    <3>1. jailed'[p] = jailed[p] /\ due'[p] = due[p] /\ p \notin excused
      BY <1>2, <1>6, <2>1
    <3> QED
      BY <1>2, <3>1 DEF SlashingInv, TermsAreServed
  <2>2. CASE p = o
    <3>1. jailed'[o] = user[c].until /\ due'[o] = Later(due[o], user[c].until)
      BY <1>1, <1>2, <1>6
    <3>2. ~(user[c].until < due[o])
      BY <1>2, <2>2
    <3> QED
      BY <1>1, <1>6, <2>2, <3>1, <3>2 DEF Later
  <2> QED
    BY <2>1, <2>2
<1>10. AppealsStand'
  BY <1>2 DEF SlashingInv, AppealsStand
<1>11. AmountsToAdd'[c] = AmountsToAdd[c] /\ \A d \in Clones \ {c} : user'[d] = user[d]
  BY <1>1, <1>2, <1>3, <1>4 DEF AmountsToAdd, SlashingInv, SlashingVarsOK, UserTypeOK
<1>12. TotalIsRecorded'
  BY <1>2, <1>8, <1>11, TotalUnmoved
<1> QED
  BY <1>8, <1>9, <1>10, <1>12 DEF SlashingInv

LEMMA AddTotalKeeps ==
  ASSUME SlashingInv, NEW c \in Clones, AddTotal(c)
  PROVE  SlashingInv'
<1>1. user[c].at = "sum" /\ user[c].amount \in Nat
  BY DEF SlashingInv, SlashingVarsOK, UserTypeOK, AddTotal
<1>2. /\ total' = total + user[c].amount
      /\ user' = [user EXCEPT ![c] = [user[c] EXCEPT !.at = "count"]]
      /\ UNCHANGED <<height, records, jailed, counts, queue, offences, due, excused, rewritten,
                     filed, reopened>>
  BY DEF AddTotal
<1>3. user[c] \in [at : {"record", "jail", "sum", "count"}, id : Ids, until : Nat, amount : Nat]
  BY <1>1 DEF SlashingInv, SlashingVarsOK, UserTypeOK
<1>4. [user[c] EXCEPT !.at = "count"]
        \in [at : {"record", "jail", "sum", "count"}, id : Ids, until : Nat, amount : Nat]
  BY <1>3
<1>5. UserTypeOK'
  BY <1>2, <1>4 DEF SlashingInv, SlashingVarsOK, UserTypeOK
<1>6. SlashingVarsOK'
  BY <1>1, <1>2, <1>5 DEF SlashingInv, SlashingVarsOK, SlashingTypeOK, UserTypeOK
<1>7. TermsAreServed' /\ AppealsStand'
  BY <1>2 DEF SlashingInv, TermsAreServed, AppealsStand
<1>8. TotalIsRecorded'
  <2>1. AmountsToAdd[c] = user[c].amount /\ AmountsToAdd'[c] = 0
    BY <1>1, <1>2, <1>3, <1>4 DEF AmountsToAdd, SlashingInv, SlashingVarsOK, UserTypeOK
  <2>2. SumFunctionOnSet(AmountsToAdd, Clones)'
          = SumFunctionOnSet(AmountsToAdd, Clones) - AmountsToAdd[c] + AmountsToAdd'[c]
    <3>1. \A d \in Clones \ {c} : user'[d] = user[d]
      BY <1>2 DEF SlashingInv, SlashingVarsOK, UserTypeOK
    <3> QED
      BY <1>6, <3>1, ToAddStep DEF SlashingInv
  <2>3. UNCHANGED <<AmountsOnRecord, rewritten>>
    BY <1>2 DEF AmountsOnRecord
  <2>4. total \in Nat /\ SumFunctionOnSet(AmountsToAdd, Clones) \in Nat
    BY ToAddFacts DEF SlashingInv, SlashingVarsOK
  <2> QED
    BY <1>1, <1>2, <2>1, <2>2, <2>3, <2>4 DEF SlashingInv, TotalIsRecorded
<1> QED
  BY <1>6, <1>7, <1>8 DEF SlashingInv

LEMMA CountOffenceKeeps ==
  ASSUME SlashingInv, NEW c \in Clones, CountOffence(c)
  PROVE  SlashingInv'
<1> DEFINE o == user[c].id[1]
<1>1. user[c].at = "count" /\ o \in Offenders
  BY DEF SlashingInv, SlashingVarsOK, UserTypeOK, CountOffence, Ids
<1>2. /\ counts' = [counts EXCEPT ![o] = counts[o] + 1]
      /\ user' = [user EXCEPT ![c] = Free]
      /\ UNCHANGED <<height, records, jailed, total, queue, offences, due, excused, rewritten,
                     filed, reopened>>
  BY DEF CountOffence
<1> HIDE DEF o
<1>3. UserTypeOK' /\ counts' \in [Offenders -> Nat]
  BY <1>1, <1>2 DEF SlashingInv, SlashingVarsOK, SlashingTypeOK, UserTypeOK, Free
<1>4. SlashingVarsOK'
  BY <1>2, <1>3 DEF SlashingInv, SlashingVarsOK, SlashingTypeOK, UserTypeOK
<1>5. TermsAreServed' /\ AppealsStand'
  BY <1>2 DEF SlashingInv, TermsAreServed, AppealsStand
<1>6. AmountsToAdd'[c] = AmountsToAdd[c] /\ \A d \in Clones \ {c} : user'[d] = user[d]
  BY <1>1, <1>2 DEF AmountsToAdd, SlashingInv, SlashingVarsOK, UserTypeOK, Free
<1>7. TotalIsRecorded'
  BY <1>2, <1>4, <1>6, TotalUnmoved
<1> QED
  BY <1>4, <1>5, <1>7 DEF SlashingInv

LEMMA SeeServedKeeps ==
  ASSUME SlashingInv, NEW c \in Clones, NEW o \in Offenders, SeeServed(c, o)
  PROVE  SlashingInv'
<1>1. /\ user[c] = Free
      /\ user' = [user EXCEPT ![c] = [at |-> "release", id |-> <<o, height>>, amount |-> 0]]
      /\ UNCHANGED <<height, records, jailed, total, counts, queue, offences, due, excused,
                     rewritten, filed, reopened>>
  BY DEF SeeServed
<1>2. <<o, height>> \in Ids
  BY DEF SlashingInv, SlashingVarsOK, Ids
<1>3. UserTypeOK'
  BY <1>1, <1>2 DEF SlashingInv, SlashingVarsOK, UserTypeOK
<1>4. SlashingVarsOK'
  BY <1>1, <1>3 DEF SlashingInv, SlashingVarsOK, SlashingTypeOK, UserTypeOK
<1>5. TermsAreServed' /\ AppealsStand'
  BY <1>1 DEF SlashingInv, TermsAreServed, AppealsStand
<1>6. AmountsToAdd'[c] = AmountsToAdd[c] /\ \A d \in Clones \ {c} : user'[d] = user[d]
  BY <1>1 DEF AmountsToAdd, SlashingInv, SlashingVarsOK, UserTypeOK, Free
<1>7. TotalIsRecorded'
  BY <1>1, <1>4, <1>6, TotalUnmoved
<1> QED
  BY <1>4, <1>5, <1>7 DEF SlashingInv

(* A release that removes a term not yet served leaves its offender excused. *)
LEMMA ReleaseKeeps ==
  ASSUME SlashingInv, NEW c \in Clones, Release(c)
  PROVE  SlashingInv'
<1> DEFINE o == user[c].id[1]
<1>1. user[c].at = "release" /\ o \in Offenders
  BY DEF SlashingInv, SlashingVarsOK, UserTypeOK, Release, Ids
<1>2. /\ jailed' = [jailed EXCEPT ![o] = 0]
      /\ excused' = IF height < due[o] /\ jailed[o] # 0 THEN excused \union {o} ELSE excused
      /\ user' = [user EXCEPT ![c] = Free]
      /\ UNCHANGED <<height, records, total, counts, queue, offences, due, rewritten, filed, reopened>>
  BY DEF Release
<1> HIDE DEF o
<1>3. jailed \in [Offenders -> Nat] /\ due \in [Offenders -> Nat] /\ height \in Nat
  BY SlashingFinite DEF SlashingInv, SlashingVarsOK, SlashingTypeOK
<1>4. UserTypeOK' /\ jailed' \in [Offenders -> Nat]
  BY <1>1, <1>2, <1>3 DEF SlashingInv, SlashingVarsOK, UserTypeOK, Free
<1>5. SlashingVarsOK'
  BY <1>2, <1>4 DEF SlashingInv, SlashingVarsOK, SlashingTypeOK, UserTypeOK
<1>6. TermsAreServed'
  <2> SUFFICES ASSUME NEW p \in Offenders \ excused', height' < due'[p]
               PROVE  jailed'[p] = due'[p]
    BY DEF TermsAreServed
  <2>1. height < due[p] /\ p \notin excused /\ jailed[p] = due[p]
    BY <1>2 DEF SlashingInv, TermsAreServed
  <2>2. p # o
    BY <1>2, <1>3, <2>1
  <2> QED
    BY <1>2, <1>3, <2>1, <2>2
<1>7. AppealsStand'
  BY <1>2 DEF SlashingInv, AppealsStand
<1>8. AmountsToAdd'[c] = AmountsToAdd[c] /\ \A d \in Clones \ {c} : user'[d] = user[d]
  BY <1>1, <1>2 DEF AmountsToAdd, SlashingInv, SlashingVarsOK, UserTypeOK, Free
<1>9. TotalIsRecorded'
  BY <1>2, <1>5, <1>8, TotalUnmoved
<1> QED
  BY <1>5, <1>6, <1>7, <1>9 DEF SlashingInv

LEMMA ClearJailKeeps ==
  ASSUME SlashingInv, NEW o \in Offenders, ClearJail(o)
  PROVE  SlashingInv'
<1>1. /\ jailed' = [jailed EXCEPT ![o] = 0] /\ due' = [due EXCEPT ![o] = 0]
      /\ UNCHANGED <<height, records, total, counts, queue, user, offences, excused, rewritten,
                     filed, reopened>>
  BY DEF ClearJail
<1>2. jailed \in [Offenders -> Nat] /\ due \in [Offenders -> Nat] /\ height \in Nat
  BY SlashingFinite DEF SlashingInv, SlashingVarsOK, SlashingTypeOK
<1>3. SlashingVarsOK'
  BY <1>1, <1>2 DEF SlashingInv, SlashingVarsOK, SlashingTypeOK, UserTypeOK
<1>4. TermsAreServed'
  BY <1>1, <1>2 DEF SlashingInv, TermsAreServed
<1>5. AppealsStand' /\ TotalIsRecorded'
  BY <1>1 DEF SlashingInv, AppealsStand, TotalIsRecorded, AmountsToAdd, AmountsOnRecord
<1> QED
  BY <1>3, <1>4, <1>5 DEF SlashingInv

(* Only a record that is not appealed is, so its appeal is the first, or the *)
(* record has been replaced since.                                           *)
LEMMA AppealSlashingKeeps ==
  ASSUME SlashingInv, NEW id \in Ids, AppealSlashing(id)
  PROVE  SlashingInv'
<1>1. /\ ~records[id].appealed
      /\ records' = [records EXCEPT ![id] = [records[id] EXCEPT !.appealed = TRUE]]
      /\ queue' = queue \union {id}
      /\ filed' = IF id \in filed.once THEN [filed EXCEPT !.again = filed.again \union {id}]
                                       ELSE [filed EXCEPT !.once = filed.once \union {id}]
      /\ UNCHANGED <<height, jailed, total, counts, user, offences, due, excused, rewritten, reopened>>
  BY DEF AppealSlashing
<1>2. /\ records \in [Ids -> [amount : Nat, appealed : BOOLEAN]]
      /\ filed \in [once : SUBSET Ids, again : SUBSET Ids] /\ queue \subseteq Ids
  BY DEF SlashingInv, SlashingVarsOK, SlashingTypeOK
<1>3. /\ records' \in [Ids -> [amount : Nat, appealed : BOOLEAN]]
      /\ records'[id].appealed /\ records'[id].amount = records[id].amount
      /\ \A d \in Ids \ {id} : records'[d] = records[d]
  <2>1. [records[id] EXCEPT !.appealed = TRUE] \in [amount : Nat, appealed : BOOLEAN]
    BY <1>2
  <2> QED
    BY <1>1, <1>2, <2>1
<1>4. /\ filed' \in [once : SUBSET Ids, again : SUBSET Ids]
      /\ filed'.once = filed.once \union {id}
      /\ filed'.again = IF id \in filed.once THEN filed.again \union {id} ELSE filed.again
  BY <1>1, <1>2
<1>5. SlashingVarsOK'
  BY <1>1, <1>2, <1>3, <1>4 DEF SlashingInv, SlashingVarsOK, SlashingTypeOK, UserTypeOK
<1>6. TermsAreServed'
  BY <1>1 DEF SlashingInv, TermsAreServed
<1>7. AppealsStand'
  BY <1>1, <1>2, <1>3, <1>4 DEF SlashingInv, AppealsStand
<1>8. TotalIsRecorded'
  <2>1. AmountsOnRecord' = AmountsOnRecord
    BY <1>3 DEF AmountsOnRecord
  <2>2. UNCHANGED <<AmountsToAdd, total, rewritten>>
    BY <1>1 DEF AmountsToAdd
  <2> QED
    BY <2>1, <2>2 DEF SlashingInv, TotalIsRecorded
<1> QED
  BY <1>5, <1>6, <1>7, <1>8 DEF SlashingInv

LEMMA ProcessAppealsKeeps ==
  ASSUME SlashingInv, ProcessAppeals
  PROVE  SlashingInv'
BY DEF SlashingInv, ProcessAppeals, SlashingVarsOK, SlashingTypeOK, UserTypeOK, TermsAreServed,
       AppealsStand, TotalIsRecorded, AmountsToAdd, AmountsOnRecord

LEMMA SlashingStep ==
  ASSUME SlashingInv, [SlashingNext]_slashVars
  PROVE  SlashingInv'
<1>1. CASE UNCHANGED slashVars
  BY <1>1 DEF slashVars, SlashingInv, SlashingVarsOK, SlashingTypeOK, UserTypeOK, TermsAreServed,
              AppealsStand, TotalIsRecorded, AmountsToAdd, AmountsOnRecord
<1>2. CASE SlashingNext
  BY <1>2, NextBlockKeeps, AssessKeeps, InsertRecordKeeps, InsertJailKeeps, AddTotalKeeps,
     CountOffenceKeeps, SeeServedKeeps, ReleaseKeeps, ClearJailKeeps, AppealSlashingKeeps,
     ProcessAppealsKeeps DEF SlashingNext
<1> QED
  BY <1>1, <1>2

(* The jail, the total and the appeals are sound, for any number of clones,  *)
(* offenders and terms. *)
THEOREM SlashingIsSound == SlashingSpec => []SlashingSound
<1>1. SlashingInv => SlashingSound
  BY DEF SlashingInv, SlashingVarsOK, AppealsStand, SlashingSound, OneAppeal
<1> QED
  BY <1>1, SlashingInitially, SlashingStep, PTL DEF SlashingSpec

-----------------------------------------------------------------------------
(* The audit layers (m133, m134).                                            *)

Postures == {"GREEN", "AMBER", "RED"}

TrailRecord ==
  [by : {"cycle"}, status : Postures, profile : Profiles]
    \union [by : {"commander"}, directive : Directive, status : Postures, profile : Profiles]

ClientTypeOK ==
  client \in [Clients -> [at : {"waiting"}] \union [at : {"measured"}, profile : Profiles]
                         \union [at : {"review"}, block : 1..Len(trail)]]

SovereignVarsOK ==
  /\ SovereignTypeOK /\ ClientTypeOK
  /\ paused \in BOOLEAN /\ trail \in Seq(TrailRecord) /\ reviews \in Seq(1..Len(trail))
  /\ abandoned \subseteq 1..Len(trail)
  /\ stats \in [total : Nat, aligned : Nat, by : [Actions -> Nat]]

(* A block waits for its review with one request, and has none yet. *)
PendingOK ==
  \A c \in Clients : client[c].at = "review" =>
    /\ client[c].block \notin ToSet(reviews) \union abandoned
    /\ ByCommander(client[c].block)
    /\ \A x \in Clients : client[x].at = "review" /\ client[x].block = client[c].block => x = c

SovereignInv == SovereignVarsOK /\ StateIsOnRecord /\ ReviewsAreSound /\ PendingOK

Pending == {client[c].block : c \in {x \in Clients : client[x].at = "review"}}

LEMMA SovereignInitially == SovereignInit => SovereignInv
<1> SUFFICES ASSUME SovereignInit
             PROVE  SovereignInv
  OBVIOUS
<1>1. /\ trail = <<>> /\ Len(trail) = 0 /\ DOMAIN trail = {} /\ 1..Len(trail) = {}
      /\ reviews = <<>> /\ Len(reviews) = 0 /\ DOMAIN reviews = {} /\ abandoned = {}
      /\ stats = [total |-> 0, aligned |-> 0, by |-> [a \in Actions |-> 0]]
      /\ \A c \in Clients : client[c].at = "waiting"
  BY DEF SovereignInit, Waiting
<1>2. SovereignVarsOK
  <2>1. SovereignTypeOK
    BY <1>1, SovereignAssumption DEF SovereignInit, SovereignTypeOK, Profiles
  <2>2. ClientTypeOK
    BY DEF SovereignInit, ClientTypeOK, Waiting
  <2>3. stats \in [total : Nat, aligned : Nat, by : [Actions -> Nat]]
    BY <1>1
  <2>4. trail \in Seq(TrailRecord) /\ reviews \in Seq(1..Len(trail))
    BY <1>1
  <2> QED
    BY <1>1, <2>1, <2>2, <2>3, <2>4 DEF SovereignInit, SovereignVarsOK
<1>3. StateIsOnRecord
  BY <1>1 DEF SovereignInit, StateIsOnRecord, PausedOnRecord, ProfileOnRecord
<1>4. ToSet(reviews) = {}
  BY <1>1 DEF ToSet
<1>5. ReviewsAreSound
  <2>1. IsInjective(reviews)
    BY <1>1 DEF IsInjective
  <2>2. {n \in DOMAIN trail : ByCommander(n)} = ToSet(reviews) \union abandoned \union Pending
    BY <1>1, <1>4 DEF Pending
  <2>3. stats.aligned = Cardinality({n \in ToSet(reviews) : Aligned(trail[n].directive, trail[n].status)})
    BY <1>1, <1>4, FS_EmptySet
  <2>4. \A a \in Actions :
          stats.by[a] = Cardinality({n \in ToSet(reviews) :
                                       trail[n].directive.exact /\ trail[n].directive.action = a})
    BY <1>1, <1>4, FS_EmptySet
  <2>5. stats.total = Len(reviews) /\ ToSet(reviews) \intersect abandoned = {}
    BY <1>1
  <2> QED
    BY <2>1, <2>2, <2>3, <2>4, <2>5 DEF ReviewsAreSound, Pending
<1>6. PendingOK
  BY <1>1 DEF PendingOK
<1> QED
  BY <1>2, <1>3, <1>5, <1>6 DEF SovereignInv

(* What is on record of the blocks before a new one stays, and what the new  *)
(* one adds.                                                                 *)
LEMMA PausedOnRecordStep ==
  ASSUME trail \in Seq(TrailRecord), NEW rec \in TrailRecord, trail' = Append(trail, rec),
         NEW len \in Nat, len = Len(trail)
  PROVE  /\ \A n \in 0..len : PausedOnRecord(n)' <=> PausedOnRecord(n)
         /\ PausedOnRecord(len + 1)' <=>
              \/ /\ rec.by = "commander"
                 /\ rec.directive.action \in {"PAUSE_AUTONOMOUS_EXECUTION", "EMERGENCY_SHUTDOWN"}
              \/ /\ PausedOnRecord(len)
                 /\ ~(rec.by = "commander" /\ rec.directive.action = "RESUME_AUTONOMOUS_EXECUTION")
<1>2. trail'[len + 1] = rec /\ \A i \in 1..len : trail'[i] = trail[i]
  BY AppendProperties
<1> DEFINE Pauses(rc) == rc.by = "commander"
                        /\ rc.directive.action \in {"PAUSE_AUTONOMOUS_EXECUTION", "EMERGENCY_SHUTDOWN"}
           Resumes(rc) == rc.by = "commander" /\ rc.directive.action = "RESUME_AUTONOMOUS_EXECUTION"
<1>3. \A n : PausedOnRecord(n) <=> \E p \in 1..n : Pauses(trail[p]) /\ \A r \in (p + 1)..n : ~Resumes(trail[r])
  BY DEF PausedOnRecord, ByCommander
<1>4. \A n : PausedOnRecord(n)' <=>
               \E p \in 1..n : Pauses(trail'[p]) /\ \A r \in (p + 1)..n : ~Resumes(trail'[r])
  BY DEF PausedOnRecord, ByCommander
<1>5. ~(Pauses(rec) /\ Resumes(rec))
  OBVIOUS
<1> HIDE DEF Pauses, Resumes
<1>6. ASSUME NEW n \in 0..len
      PROVE  PausedOnRecord(n)' <=> PausedOnRecord(n)
  BY <1>2, <1>3, <1>4
<1>7. PausedOnRecord(len + 1)' <=> Pauses(rec) \/ (PausedOnRecord(len) /\ ~Resumes(rec))
  <2>1. ASSUME Pauses(rec)
        PROVE  \E p \in 1..(len + 1) : Pauses(trail'[p]) /\ \A r \in (p + 1)..(len + 1) : ~Resumes(trail'[r])
    BY <1>2, <2>1
  <2>2. ASSUME PausedOnRecord(len), ~Resumes(rec)
        PROVE  \E p \in 1..(len + 1) : Pauses(trail'[p]) /\ \A r \in (p + 1)..(len + 1) : ~Resumes(trail'[r])
    <3>1. PICK p \in 1..len : Pauses(trail[p]) /\ \A r \in (p + 1)..len : ~Resumes(trail[r])
      BY <1>3, <2>2
    <3>2. p \in 1..(len + 1) /\ Pauses(trail'[p])
      BY <1>2, <3>1
    <3>3. \A r \in (p + 1)..(len + 1) : r = len + 1 \/ (r \in (p + 1)..len /\ r \in 1..len)
      OBVIOUS
    <3> QED
      BY <1>2, <2>2, <3>1, <3>2, <3>3
  <2>3. ASSUME NEW p \in 1..(len + 1), Pauses(trail'[p]), \A r \in (p + 1)..(len + 1) : ~Resumes(trail'[r])
        PROVE  Pauses(rec) \/ (PausedOnRecord(len) /\ ~Resumes(rec))
    <3>1. CASE p = len + 1
      BY <1>2, <2>3, <3>1
    <3>2. CASE p # len + 1
      <4>1. p \in 1..len /\ len + 1 \in (p + 1)..(len + 1)
        BY <3>2
      <4>2. ~Resumes(rec) /\ Pauses(trail[p])
        BY <1>2, <2>3, <4>1
      <4>3. \A r \in (p + 1)..len : r \in (p + 1)..(len + 1) /\ r \in 1..len
        BY <4>1
      <4>4. \A r \in (p + 1)..len : ~Resumes(trail[r])
        BY <1>2, <2>3, <4>3
      <4> QED
        BY <1>3, <4>1, <4>2, <4>4
    <3> QED
      BY <3>1, <3>2
  <2> QED
    BY <1>4, <2>1, <2>2, <2>3
<1> QED
  BY <1>6, <1>7 DEF Pauses, Resumes

(* A new block explains the state it is recorded with. *)
LEMMA RecordedState ==
  ASSUME SovereignInv, NEW rec \in TrailRecord, trail' = Append(trail, rec),
         profile' = rec.profile, paused' \in BOOLEAN,
         rec.by = "cycle" => /\ paused' = paused
                             /\ paused \/ profile = "LOCKDOWN" => profile' = profile,
         rec.by = "commander" => (paused' <=> PausedAfter(rec.directive))
  PROVE  StateIsOnRecord'
<1>1. trail \in Seq(TrailRecord) /\ paused \in BOOLEAN /\ profile \in Profiles
  BY DEF SovereignInv, SovereignVarsOK, SovereignTypeOK
<1>2. PICK len \in Nat : len = Len(trail)
  BY <1>1, LenProperties
<1>3. /\ trail'[len + 1] = rec /\ Len(trail') = len + 1
      /\ \A i \in 1..len : trail'[i] = trail[i]
  BY <1>1, <1>2, AppendProperties
<1>4. /\ \A n \in 0..len : PausedOnRecord(n)' <=> PausedOnRecord(n)
      /\ PausedOnRecord(len + 1)' <=>
           \/ /\ rec.by = "commander"
              /\ rec.directive.action \in {"PAUSE_AUTONOMOUS_EXECUTION", "EMERGENCY_SHUTDOWN"}
           \/ /\ PausedOnRecord(len)
              /\ ~(rec.by = "commander" /\ rec.directive.action = "RESUME_AUTONOMOUS_EXECUTION")
  BY <1>1, <1>2, PausedOnRecordStep
<1>5. /\ \A n \in 0..len : ProfileOnRecord(n)' = ProfileOnRecord(n)
      /\ ProfileOnRecord(len + 1)' = rec.profile
  BY <1>2, <1>3 DEF ProfileOnRecord
<1>6. /\ paused <=> PausedOnRecord(len)
      /\ profile \in {ProfileOnRecord(len)} \union (IF paused THEN {} ELSE {"LOCKDOWN"})
      /\ \A n \in 1..len :
           trail[n].by = "cycle" /\ (PausedOnRecord(n - 1) \/ ProfileOnRecord(n - 1) = "LOCKDOWN")
             => trail[n].profile = ProfileOnRecord(n - 1)
  BY <1>2 DEF SovereignInv, StateIsOnRecord
<1>7. rec.by \in {"cycle", "commander"}
  BY DEF TrailRecord
<1>8. paused' <=> PausedOnRecord(len + 1)'
  BY <1>1, <1>4, <1>6, <1>7 DEF PausedAfter
<1>9. ASSUME NEW n \in 1..(len + 1), trail'[n].by = "cycle",
             PausedOnRecord(n - 1)' \/ ProfileOnRecord(n - 1)' = "LOCKDOWN"
      PROVE  trail'[n].profile = ProfileOnRecord(n - 1)'
  <2>1. n - 1 \in 0..len
    OBVIOUS
  <2>2. CASE n = len + 1
    <3>1. PausedOnRecord(len) \/ ProfileOnRecord(len) = "LOCKDOWN"
      BY <1>4, <1>5, <1>9, <2>1, <2>2
    <3>2. paused \/ profile = "LOCKDOWN"
      BY <1>6, <3>1
    <3>3. profile' = profile /\ profile = ProfileOnRecord(len)
      BY <1>3, <1>6, <1>9, <2>2, <3>1, <3>2
    <3>4. trail'[n] = rec
      BY <1>3, <2>2
    <3>5. ProfileOnRecord(n - 1)' = ProfileOnRecord(n - 1)
      BY <1>5, <2>1
    <3>6. ProfileOnRecord(n - 1) = ProfileOnRecord(len)
      <4>1. n - 1 = len
        BY <2>2
      <4> QED
        BY <4>1
    <3> QED
      BY <3>3, <3>4, <3>5, <3>6
  <2>3. CASE n \in 1..len
    BY <1>3, <1>4, <1>5, <1>6, <1>9, <2>1, <2>3
  <2>4. n = len + 1 \/ n \in 1..len
    OBVIOUS
  <2> QED
    BY <2>2, <2>3, <2>4
<1>10. (paused = PausedOnRecord(Len(trail)))'
  <2>1. paused' <=> PausedOnRecord(Len(trail))'
    BY <1>3, <1>8
  <2> QED
    BY <2>1 DEF PausedOnRecord
<1>11. (profile \in {ProfileOnRecord(Len(trail))} \union (IF paused THEN {} ELSE {"LOCKDOWN"}))'
  BY <1>3, <1>5
<1> QED
  BY <1>3, <1>9, <1>10, <1>11 DEF StateIsOnRecord

(* The review's sets depend on the blocks reviewed, whose records stay.      *)
LEMMA ToSetType ==
  ASSUME SovereignVarsOK
  PROVE  /\ ToSet(reviews) \subseteq 1..Len(trail) /\ IsFiniteSet(ToSet(reviews))
         /\ Len(trail) \in Nat /\ DOMAIN trail = 1..Len(trail)
         /\ \A c \in Clients : client[c].at = "review" => client[c].block \in 1..Len(trail)
<1>1. Len(trail) \in Nat /\ DOMAIN trail = 1..Len(trail)
  BY LenProperties DEF SovereignVarsOK
<1>2. ToSet(reviews) \subseteq 1..Len(trail)
  BY DEF SovereignVarsOK, ToSet
<1>3. IsFiniteSet(1..Len(trail))
  BY <1>1, FS_Interval
<1>4. \A c \in Clients : client[c].at = "review" => client[c].block \in 1..Len(trail)
  BY DEF SovereignVarsOK, ClientTypeOK
<1> QED
  BY <1>1, <1>2, <1>3, <1>4, FS_Subset

(* A step that leaves the trail, the reviews and what waits for one alone. *)
LEMMA ReviewsUntouched ==
  ASSUME SovereignInv, SovereignVarsOK', UNCHANGED <<trail, reviews, stats, abandoned>>,
         NEW c \in Clients, client[c].at # "review", client'[c].at # "review",
         \A d \in Clients \ {c} : client'[d] = client[d]
  PROVE  ReviewsAreSound' /\ PendingOK'
<1>1. Pending' = Pending
  BY DEF Pending
<1>2. ReviewsAreSound'
  BY <1>1 DEF SovereignInv, ReviewsAreSound, Pending, ByCommander
<1>3. PendingOK'
  BY DEF SovereignInv, PendingOK, ByCommander
<1> QED
  BY <1>2, <1>3

(* A step that leaves the trail and the engine alone. *)
LEMMA StateUntouched ==
  ASSUME StateIsOnRecord, UNCHANGED <<profile, paused, trail>>
  PROVE  StateIsOnRecord'
BY DEF StateIsOnRecord, PausedOnRecord, ProfileOnRecord, ByCommander

LEMMA ReadProfileKeeps ==
  ASSUME SovereignInv, NEW c \in Clients, ReadProfile(c)
  PROVE  SovereignInv'
<1>1. /\ client[c].at = "waiting"
      /\ client' = [client EXCEPT ![c] = [at |-> "measured", profile |-> profile]]
      /\ UNCHANGED <<profile, paused, shutdown, lastStatus, trail, reviews, stats, abandoned>>
  BY DEF ReadProfile, Waiting
<1>2. [at |-> "measured", profile |-> profile] \in [at : {"measured"}, profile : Profiles]
  BY DEF SovereignInv, SovereignVarsOK, SovereignTypeOK
<1>3. ClientTypeOK' /\ client'[c].at = "measured" /\ \A d \in Clients \ {c} : client'[d] = client[d]
  BY <1>1, <1>2 DEF SovereignInv, SovereignVarsOK, ClientTypeOK
<1>4. SovereignVarsOK'
  BY <1>1, <1>3 DEF SovereignInv, SovereignVarsOK, SovereignTypeOK
<1>5. StateIsOnRecord'
  BY <1>1, StateUntouched DEF SovereignInv
<1> QED
  BY <1>1, <1>3, <1>4, <1>5, ReviewsUntouched DEF SovereignInv

(* What evaluate does to the posture and the profile. *)
LEMMA EvaluateFacts ==
  ASSUME NEW grades, NEW measured \in Profiles, Evaluate(grades, measured),
         profile \in Profiles
  PROVE  /\ lastStatus' \in Postures /\ profile' \in Profiles
         /\ paused \/ profile = "LOCKDOWN" => profile' = profile
         /\ StatusOf(grades) = "RED" => profile' \in {profile, "LOCKDOWN"}
<1>1. lastStatus' = StatusOf(grades) /\ profile' = AutonomousShift(Recommended(StatusOf(grades), measured))
  BY DEF Evaluate
<1>2. StatusOf(grades) \in Postures
  BY DEF StatusOf, Postures
<1>3. Recommended(StatusOf(grades), measured) \in Profiles
  BY DEF Recommended, Profiles
<1> QED
  BY <1>1, <1>2, <1>3 DEF AutonomousShift, Recommended

LEMMA ReportKeeps ==
  ASSUME SovereignInv, NEW c \in Clients, Report(c)
  PROVE  SovereignInv'
<1>1. /\ client[c].at = "measured"
      /\ client' = [client EXCEPT ![c] = Waiting]
      /\ UNCHANGED <<paused, shutdown, trail, reviews, stats, abandoned>>
  BY DEF Report
<1>2. PICK grades \in FleetGrades : Evaluate(grades, client[c].profile)
  BY DEF Report
<1>3. StatusOf(grades) = "RED"
  <2>1. "liquidity" \in {d \in Dimensions : grades[d] = "FAIL"}
    BY DEF FleetGrades, Dimensions
  <2>2. {d \in Dimensions : grades[d] = "FAIL"} # {}
    BY <2>1
  <2> QED
    BY <2>2 DEF StatusOf
<1>4. client[c].profile \in Profiles /\ profile \in Profiles
  BY <1>1 DEF SovereignInv, SovereignVarsOK, SovereignTypeOK, ClientTypeOK
<1>5. /\ lastStatus' \in Postures /\ profile' \in Profiles
      /\ paused \/ profile = "LOCKDOWN" => profile' = profile
      /\ profile' \in {profile, "LOCKDOWN"}
  BY <1>2, <1>3, <1>4, EvaluateFacts
<1>6. ClientTypeOK' /\ client'[c].at = "waiting" /\ \A d \in Clients \ {c} : client'[d] = client[d]
  BY <1>1 DEF SovereignInv, SovereignVarsOK, ClientTypeOK, Waiting
<1>7. SovereignVarsOK'
  BY <1>1, <1>5, <1>6 DEF SovereignInv, SovereignVarsOK, SovereignTypeOK, Postures
<1>8. StateIsOnRecord'
  <2>1. \A n : (PausedOnRecord(n)' <=> PausedOnRecord(n)) /\ ProfileOnRecord(n)' = ProfileOnRecord(n)
    BY <1>1 DEF PausedOnRecord, ProfileOnRecord, ByCommander
  <2>2. (paused = PausedOnRecord(Len(trail)))'
    BY <1>1 DEF SovereignInv, StateIsOnRecord, PausedOnRecord, ByCommander
  <2>3. (profile \in {ProfileOnRecord(Len(trail))} \union (IF paused THEN {} ELSE {"LOCKDOWN"}))'
    BY <1>1, <1>5 DEF SovereignInv, StateIsOnRecord, ProfileOnRecord
  <2>4. (\A n \in 1..Len(trail) :
           trail[n].by = "cycle" /\ (PausedOnRecord(n - 1) \/ ProfileOnRecord(n - 1) = "LOCKDOWN")
             => trail[n].profile = ProfileOnRecord(n - 1))'
    BY <1>1 DEF SovereignInv, StateIsOnRecord, PausedOnRecord, ProfileOnRecord, ByCommander
  <2> QED
    BY <2>2, <2>3, <2>4 DEF StateIsOnRecord
<1> QED
  BY <1>1, <1>6, <1>7, <1>8, ReviewsUntouched DEF SovereignInv

(* A new block: what was reviewed or dropped stays, and the types do. *)
LEMMA NewBlock ==
  ASSUME SovereignInv, NEW rec \in TrailRecord, trail' = Append(trail, rec),
         NEW len \in Nat, len = Len(trail), len < MaxRecords,
         UNCHANGED <<reviews, stats, abandoned>>
  PROVE  /\ trail' \in Seq(TrailRecord) /\ Len(trail') = len + 1 /\ trail'[len + 1] = rec
         /\ Len(trail') <= MaxRecords /\ DOMAIN trail' = 1..(len + 1)
         /\ reviews' \in Seq(1..Len(trail')) /\ abandoned' \subseteq 1..Len(trail')
         /\ \A n \in 1..len : trail'[n] = trail[n]
         /\ ToSet(reviews') = ToSet(reviews) /\ ToSet(reviews) \subseteq 1..len
         /\ abandoned \subseteq 1..len
         /\ IsInjective(reviews') /\ ToSet(reviews') \intersect abandoned' = {}
         /\ stats'.total = Len(reviews')
         /\ stats'.aligned =
              Cardinality({n \in ToSet(reviews') : Aligned(trail'[n].directive, trail'[n].status)})
         /\ \A a \in Actions :
              stats'.by[a] = Cardinality({n \in ToSet(reviews') :
                                trail'[n].directive.exact /\ trail'[n].directive.action = a})
<1>1. trail \in Seq(TrailRecord) /\ reviews \in Seq(1..len) /\ MaxRecords \in Nat
  BY SovereignAssumption DEF SovereignInv, SovereignVarsOK
<1>2. /\ trail' \in Seq(TrailRecord) /\ Len(trail') = len + 1 /\ trail'[len + 1] = rec
      /\ \A n \in 1..len : trail'[n] = trail[n]
  BY <1>1, AppendProperties
<1>3. DOMAIN trail' = 1..(len + 1) /\ Len(trail') <= MaxRecords
  BY <1>1, <1>2, LenProperties
<1>4. 1..len \subseteq 1..(len + 1)
  OBVIOUS
<1>5. reviews' \in Seq(1..Len(trail'))
  BY <1>1, <1>2, <1>4, SeqMonotonic
<1>6. abandoned \subseteq 1..len /\ ToSet(reviews) \subseteq 1..len
  BY ToSetType DEF SovereignInv, SovereignVarsOK
<1>7. /\ {n \in ToSet(reviews') : Aligned(trail'[n].directive, trail'[n].status)}
           = {n \in ToSet(reviews) : Aligned(trail[n].directive, trail[n].status)}
      /\ \A a \in Actions :
           {n \in ToSet(reviews') : trail'[n].directive.exact /\ trail'[n].directive.action = a}
             = {n \in ToSet(reviews) : trail[n].directive.exact /\ trail[n].directive.action = a}
  BY <1>2, <1>6
<1> QED
  BY <1>2, <1>3, <1>4, <1>5, <1>6, <1>7 DEF SovereignInv, ReviewsAreSound

LEMMA AuditCycleKeeps ==
  ASSUME SovereignInv, NEW c \in Clients, NEW grades, AuditCycle(c, grades)
  PROVE  SovereignInv'
<1>1. /\ client[c].at = "measured" /\ Len(trail) < MaxRecords
      /\ Evaluate(grades, client[c].profile)
      /\ client' = [client EXCEPT ![c] = Waiting]
      /\ trail' = Append(trail, [by |-> "cycle", status |-> lastStatus', profile |-> profile'])
      /\ UNCHANGED <<paused, shutdown, reviews, stats, abandoned>>
  BY DEF AuditCycle
<1> DEFINE rec == [by |-> "cycle", status |-> lastStatus', profile |-> profile']
<1>2. client[c].profile \in Profiles /\ profile \in Profiles /\ paused \in BOOLEAN
  BY <1>1 DEF SovereignInv, SovereignVarsOK, SovereignTypeOK, ClientTypeOK
<1>3. /\ lastStatus' \in Postures /\ profile' \in Profiles
      /\ paused \/ profile = "LOCKDOWN" => profile' = profile
  BY <1>1, <1>2, EvaluateFacts
<1>4. rec \in TrailRecord /\ trail' = Append(trail, rec)
      /\ rec.by = "cycle" /\ rec.profile = profile'
  BY <1>1, <1>3 DEF TrailRecord
<1>5. PICK len \in Nat : len = Len(trail)
  BY ToSetType DEF SovereignInv
<1> HIDE DEF rec
<1>6. /\ trail' \in Seq(TrailRecord) /\ Len(trail') = len + 1 /\ trail'[len + 1] = rec
      /\ Len(trail') <= MaxRecords /\ DOMAIN trail' = 1..(len + 1)
      /\ reviews' \in Seq(1..Len(trail')) /\ abandoned' \subseteq 1..Len(trail')
      /\ \A n \in 1..len : trail'[n] = trail[n]
      /\ ToSet(reviews') = ToSet(reviews) /\ ToSet(reviews) \subseteq 1..len
      /\ IsInjective(reviews') /\ ToSet(reviews') \intersect abandoned' = {}
      /\ stats'.total = Len(reviews')
      /\ stats'.aligned =
           Cardinality({n \in ToSet(reviews') : Aligned(trail'[n].directive, trail'[n].status)})
      /\ \A a \in Actions :
           stats'.by[a] = Cardinality({n \in ToSet(reviews') :
                             trail'[n].directive.exact /\ trail'[n].directive.action = a})
  BY <1>1, <1>4, <1>5, NewBlock
<1>7. /\ client'[c].at = "waiting" /\ \A d \in Clients \ {c} : client'[d] = client[d]
      /\ \A d \in Clients : client[d].at = "review" => client[d].block \in 1..len
  BY <1>1, <1>5, ToSetType DEF SovereignInv, SovereignVarsOK, ClientTypeOK, Waiting
<1>8. SovereignVarsOK'
  <2>1. ClientTypeOK'
    <3>1. 1..len \subseteq 1..Len(trail')
      BY <1>6
    <3>2. \A d \in Clients : client[d] \in
             [at : {"waiting"}] \union [at : {"measured"}, profile : Profiles]
                         \union [at : {"review"}, block : 1..Len(trail')]
      BY <1>5, <3>1 DEF SovereignInv, SovereignVarsOK, ClientTypeOK
    <3>3. DOMAIN client = Clients /\ client' = [d \in Clients |-> IF d = c THEN Waiting ELSE client[d]]
      BY <1>1 DEF SovereignInv, SovereignVarsOK, ClientTypeOK
    <3> QED
      BY <3>2, <3>3 DEF ClientTypeOK, Waiting
  <2>2. SovereignTypeOK'
    BY <1>1, <1>3, <1>6 DEF SovereignInv, SovereignVarsOK, SovereignTypeOK, Postures
  <2> QED
    BY <1>1, <1>2, <1>6, <2>1, <2>2 DEF SovereignInv, SovereignVarsOK
<1>9. StateIsOnRecord'
  BY <1>1, <1>2, <1>3, <1>4, RecordedState
<1>10. Pending' = Pending
  BY <1>1, <1>7 DEF Pending
<1>11. {n \in DOMAIN trail' : trail'[n].by = "commander"} = {n \in DOMAIN trail : trail[n].by = "commander"}
  <2>1. DOMAIN trail = 1..len
    BY <1>5, ToSetType DEF SovereignInv
  <2> QED
    BY <1>4, <1>6, <2>1
<1>12. ({n \in DOMAIN trail : ByCommander(n)} = ToSet(reviews) \union abandoned \union Pending)'
  BY <1>1, <1>6, <1>10, <1>11 DEF SovereignInv, ReviewsAreSound, Pending, ByCommander
<1>13. ReviewsAreSound'
  BY <1>6, <1>12 DEF ReviewsAreSound, Pending
<1>14. PendingOK'
  BY <1>1, <1>6, <1>7 DEF SovereignInv, PendingOK, ByCommander
<1> QED
  BY <1>8, <1>9, <1>13, <1>14 DEF SovereignInv

LEMMA InterveneKeeps ==
  ASSUME SovereignInv, NEW c \in Clients, NEW d \in Directives, Intervene(c, d)
  PROVE  SovereignInv'
<1> DEFINE rec == [by |-> "commander", directive |-> d, profile |-> profile',
                   status |-> IF lastStatus = NoStatus THEN "GREEN" ELSE lastStatus]
<1>1. /\ client[c].at = "waiting" /\ Len(trail) < MaxRecords
      /\ d.action = "SWITCH_OPERATING_PROFILE" => d.target # "none"
      /\ profile' = ProfileAfter(d) /\ paused' = PausedAfter(d)
      /\ trail' = Append(trail, rec)
      /\ client' = [client EXCEPT ![c] = [at |-> "review", block |-> Len(trail) + 1]]
      /\ UNCHANGED <<lastStatus, reviews, stats, abandoned>>
  BY DEF Intervene, Waiting
<1>2. /\ d \in Directive /\ profile \in Profiles /\ paused \in BOOLEAN
      /\ lastStatus \in {NoStatus} \union Postures
  BY SovereignAssumption DEF SovereignInv, SovereignVarsOK, SovereignTypeOK, Postures
<1>3. profile' \in Profiles /\ paused' \in BOOLEAN /\ (paused' <=> PausedAfter(d))
  <2>1. profile' \in Profiles
    BY <1>1, <1>2 DEF ProfileAfter, Directive, Profiles
  <2>2. PausedAfter(d) \in BOOLEAN
    BY <1>2 DEF PausedAfter
  <2> QED
    BY <1>1, <2>1, <2>2
<1>4. rec \in TrailRecord /\ rec.by = "commander" /\ rec.profile = profile' /\ rec.directive = d
  BY <1>2, <1>3 DEF TrailRecord, Postures
<1>5. PICK len \in Nat : len = Len(trail)
  BY ToSetType DEF SovereignInv
<1> HIDE DEF rec
<1>6. /\ trail' \in Seq(TrailRecord) /\ Len(trail') = len + 1 /\ trail'[len + 1] = rec
      /\ Len(trail') <= MaxRecords /\ DOMAIN trail' = 1..(len + 1)
      /\ reviews' \in Seq(1..Len(trail')) /\ abandoned' \subseteq 1..Len(trail')
      /\ \A n \in 1..len : trail'[n] = trail[n]
      /\ ToSet(reviews') = ToSet(reviews) /\ ToSet(reviews) \subseteq 1..len /\ abandoned \subseteq 1..len
      /\ IsInjective(reviews') /\ ToSet(reviews') \intersect abandoned' = {}
      /\ stats'.total = Len(reviews')
      /\ stats'.aligned =
           Cardinality({n \in ToSet(reviews') : Aligned(trail'[n].directive, trail'[n].status)})
      /\ \A a \in Actions :
           stats'.by[a] = Cardinality({n \in ToSet(reviews') :
                             trail'[n].directive.exact /\ trail'[n].directive.action = a})
  BY <1>1, <1>4, <1>5, NewBlock
<1>7. /\ client' = [x \in Clients |-> IF x = c THEN [at |-> "review", block |-> len + 1] ELSE client[x]]
      /\ \A x \in Clients : client[x].at = "review" => client[x].block \in 1..len
  BY <1>1, <1>5, ToSetType DEF SovereignInv, SovereignVarsOK, ClientTypeOK
<1>8. SovereignVarsOK'
  <2>1. ClientTypeOK'
    <3>1. 1..len \subseteq 1..Len(trail') /\ len + 1 \in 1..Len(trail')
      BY <1>6
    <3>2. \A x \in Clients : client[x] \in
             [at : {"waiting"}] \union [at : {"measured"}, profile : Profiles]
                         \union [at : {"review"}, block : 1..Len(trail')]
      BY <1>5, <3>1 DEF SovereignInv, SovereignVarsOK, ClientTypeOK
    <3>3. [at |-> "review", block |-> len + 1] \in [at : {"review"}, block : 1..Len(trail')]
      BY <3>1
    <3> QED
      BY <1>7, <3>2, <3>3 DEF ClientTypeOK
  <2>2. SovereignTypeOK'
    BY <1>1, <1>3, <1>6 DEF SovereignInv, SovereignVarsOK, SovereignTypeOK, Postures
  <2> QED
    BY <1>1, <1>3, <1>6, <2>1, <2>2 DEF SovereignInv, SovereignVarsOK
<1>9. StateIsOnRecord'
  BY <1>1, <1>2, <1>3, <1>4, RecordedState
<1>10. Pending' = Pending \union {len + 1}
  <2>1. \A x \in Clients \ {c} : client'[x] = client[x]
    BY <1>7
  <2>2. client'[c].at = "review" /\ client'[c].block = len + 1
    BY <1>7
  <2> QED
    BY <1>1, <2>1, <2>2 DEF Pending
<1>11. {n \in DOMAIN trail' : trail'[n].by = "commander"}
         = {n \in DOMAIN trail : trail[n].by = "commander"} \union {len + 1}
  <2>1. DOMAIN trail = 1..len
    BY <1>5, ToSetType DEF SovereignInv
  <2> QED
    BY <1>4, <1>6, <2>1
<1>12. ({n \in DOMAIN trail : ByCommander(n)} = ToSet(reviews) \union abandoned \union Pending)'
  BY <1>1, <1>6, <1>10, <1>11 DEF SovereignInv, ReviewsAreSound, Pending, ByCommander
<1>13. ReviewsAreSound'
  BY <1>6, <1>12 DEF ReviewsAreSound, Pending
<1>14. PendingOK'
  <2> SUFFICES ASSUME NEW x \in Clients, client'[x].at = "review"
               PROVE  /\ client'[x].block \notin ToSet(reviews') \union abandoned'
                      /\ trail'[client'[x].block].by = "commander"
                      /\ \A y \in Clients : client'[y].at = "review" /\ client'[y].block = client'[x].block => y = x
    BY DEF PendingOK, ByCommander
  <2>1. /\ client'[c].block = len + 1 /\ \A y \in Clients \ {c} : client'[y] = client[y]
    BY <1>7
  <2>2. len + 1 \notin 1..len
    BY <1>5
  <2>3. CASE x = c
    BY <1>1, <1>4, <1>6, <1>7, <2>1, <2>2, <2>3
  <2>4. CASE x # c
    BY <1>1, <1>6, <1>7, <2>1, <2>2, <2>4 DEF SovereignInv, PendingOK, ByCommander
  <2> QED
    BY <2>3, <2>4
<1> QED
  BY <1>8, <1>9, <1>13, <1>14 DEF SovereignInv

(* A review: the block joins the reviewed ones, in the request's own words.  *)
LEMMA ReviewKeeps ==
  ASSUME SovereignInv, NEW c \in Clients, Review(c)
  PROVE  SovereignInv'
<1>1. /\ client[c].at = "review"
      /\ RecordIntervention(trail[client[c].block].directive, trail[client[c].block].status)
      /\ reviews' = Append(reviews, client[c].block)
      /\ client' = [client EXCEPT ![c] = Waiting]
      /\ UNCHANGED <<profile, paused, shutdown, lastStatus, trail, abandoned>>
  BY DEF Review
<1>2. PICK len \in Nat : len = Len(trail)
  BY ToSetType DEF SovereignInv
<1>3. PICK b \in 1..len : b = client[c].block
  BY <1>1, <1>2, ToSetType DEF SovereignInv
<1>4. PICK d \in Directive : d = trail[b].directive
  <2>1. trail[b].by = "commander" /\ trail[b] \in TrailRecord
    BY <1>1, <1>2, <1>3 DEF SovereignInv, PendingOK, ByCommander, SovereignVarsOK
  <2> QED
    BY <2>1 DEF TrailRecord
<1>5. /\ ToSet(reviews) \subseteq 1..len /\ IsFiniteSet(ToSet(reviews)) /\ DOMAIN trail = 1..len
      /\ b \notin ToSet(reviews) /\ b \notin abandoned
      /\ reviews \in Seq(1..len) /\ stats \in [total : Nat, aligned : Nat, by : [Actions -> Nat]]
  BY <1>1, <1>2, <1>3, ToSetType DEF SovereignInv, PendingOK, SovereignVarsOK
<1>6. /\ reviews' \in Seq(1..len) /\ Len(reviews') = Len(reviews) + 1 /\ reviews'[Len(reviews) + 1] = b
      /\ \A i \in 1..Len(reviews) : reviews'[i] = reviews[i]
      /\ Len(reviews) \in Nat /\ DOMAIN reviews = 1..Len(reviews) /\ DOMAIN reviews' = 1..(Len(reviews) + 1)
  BY <1>1, <1>3, <1>5, AppendProperties, LenProperties
<1>7. ToSet(reviews') = ToSet(reviews) \union {b}
  BY <1>6 DEF ToSet
<1>8. IsInjective(reviews')
  <2>1. \A i \in DOMAIN reviews : reviews[i] # b
    BY <1>5 DEF ToSet
  <2>2. IsInjective(reviews)
    BY DEF SovereignInv, ReviewsAreSound
  <2>3. DOMAIN reviews' = DOMAIN reviews \union {Len(reviews) + 1}
    BY <1>6
  <2> QED
    BY <1>6, <2>1, <2>2, <2>3 DEF IsInjective
<1>9. stats' = [total   |-> stats.total + 1,
                aligned |-> stats.aligned + (IF Aligned(d, trail[b].status) THEN 1 ELSE 0),
                by      |-> IF d.exact THEN [stats.by EXCEPT ![d.action] = stats.by[d.action] + 1]
                            ELSE stats.by]
  BY <1>1, <1>3, <1>4 DEF RecordIntervention
<1>10. /\ stats' \in [total : Nat, aligned : Nat, by : [Actions -> Nat]]
       /\ stats'.total = stats.total + 1
       /\ stats'.aligned = stats.aligned + (IF Aligned(d, trail[b].status) THEN 1 ELSE 0)
       /\ \A a \in Actions : stats'.by[a] = IF d.exact /\ d.action = a THEN stats.by[a] + 1 ELSE stats.by[a]
  <2>1. stats.total \in Nat /\ stats.aligned \in Nat /\ stats.by \in [Actions -> Nat] /\ d.action \in Actions
    BY <1>4, <1>5 DEF Directive
  <2> DEFINE by == IF d.exact THEN [stats.by EXCEPT ![d.action] = stats.by[d.action] + 1] ELSE stats.by
             aligned == stats.aligned + (IF Aligned(d, trail[b].status) THEN 1 ELSE 0)
  <2>2. /\ by \in [Actions -> Nat]
        /\ \A a \in Actions : by[a] = IF d.exact /\ d.action = a THEN stats.by[a] + 1 ELSE stats.by[a]
    BY <2>1
  <2>3. aligned \in Nat
    BY <2>1
  <2>4. stats' = [total |-> stats.total + 1, aligned |-> aligned, by |-> by]
    BY <1>9
  <2> HIDE DEF by, aligned
  <2>5. stats'.total = stats.total + 1 /\ stats'.aligned = aligned /\ stats'.by = by
    BY <2>4
  <2>6. stats' \in [total : Nat, aligned : Nat, by : [Actions -> Nat]]
    BY <2>1, <2>2, <2>3, <2>4
  <2> QED
    BY <2>2, <2>5, <2>6 DEF aligned
<1>11. \A P \in SUBSET ToSet(reviews) : IsFiniteSet(P) /\ Cardinality(P) \in Nat
                                       /\ Cardinality(P \union {b}) = Cardinality(P) + 1
  <2> TAKE P \in SUBSET ToSet(reviews)
  <2>1. IsFiniteSet(P) /\ b \notin P
    BY <1>5, FS_Subset
  <2> QED
    BY <2>1, FS_AddElement, FS_CardinalityType
<1>12. stats'.aligned = Cardinality({n \in ToSet(reviews') : Aligned(trail'[n].directive, trail'[n].status)})
  <2> DEFINE old == {n \in ToSet(reviews) : Aligned(trail[n].directive, trail[n].status)}
             new == {n \in ToSet(reviews') : Aligned(trail'[n].directive, trail'[n].status)}
  <2>1. new = IF Aligned(d, trail[b].status) THEN old \union {b} ELSE old
    <3>1. trail' = trail
      BY <1>1
    <3>2. CASE Aligned(d, trail[b].status)
      BY <1>4, <1>7, <3>1, <3>2
    <3>3. CASE ~Aligned(d, trail[b].status)
      BY <1>4, <1>7, <3>1, <3>3
    <3> QED
      BY <3>2, <3>3
  <2>2. stats.aligned = Cardinality(old) /\ old \in SUBSET ToSet(reviews)
    BY DEF SovereignInv, ReviewsAreSound
  <2> HIDE DEF old, new
  <2>3. Cardinality(old) \in Nat /\ Cardinality(old \union {b}) = Cardinality(old) + 1
    BY <1>11, <2>2
  <2>4. CASE Aligned(d, trail[b].status)
    <3>1. new = old \union {b} /\ stats'.aligned = stats.aligned + 1
      BY <1>10, <2>1, <2>4
    <3> QED
      BY <2>2, <2>3, <3>1 DEF new
  <2>5. CASE ~Aligned(d, trail[b].status)
    <3>1. new = old /\ stats'.aligned = stats.aligned + 0
      BY <1>10, <2>1, <2>5
    <3>2. stats'.aligned = Cardinality(new)
      BY <2>2, <2>3, <3>1
    <3> QED
      BY <3>2 DEF new
  <2> QED
    BY <2>4, <2>5
<1>13. ASSUME NEW a \in Actions
       PROVE  stats'.by[a] = Cardinality({n \in ToSet(reviews') :
                                            trail'[n].directive.exact /\ trail'[n].directive.action = a})
  <2> DEFINE old == {n \in ToSet(reviews) : trail[n].directive.exact /\ trail[n].directive.action = a}
             new == {n \in ToSet(reviews') : trail'[n].directive.exact /\ trail'[n].directive.action = a}
  <2>1. new = IF d.exact /\ d.action = a THEN old \union {b} ELSE old
    BY <1>1, <1>4, <1>7
  <2>2. stats.by[a] = Cardinality(old) /\ old \in SUBSET ToSet(reviews)
    BY DEF SovereignInv, ReviewsAreSound
  <2> HIDE DEF old, new
  <2>3. stats'.by[a] = Cardinality(new)
    BY <1>10, <1>11, <2>1, <2>2
  <2> QED
    BY <2>3 DEF new
<1>14. /\ client'[c].at = "waiting" /\ \A x \in Clients \ {c} : client'[x] = client[x]
       /\ ClientTypeOK'
  BY <1>1 DEF SovereignInv, SovereignVarsOK, ClientTypeOK, Waiting
<1>15. SovereignVarsOK'
  <2>1. SovereignTypeOK'
    BY <1>1, <1>10 DEF SovereignInv, SovereignVarsOK, SovereignTypeOK
  <2> QED
    BY <1>1, <1>2, <1>6, <1>10, <1>14, <2>1 DEF SovereignInv, SovereignVarsOK
<1>16. StateIsOnRecord'
  BY <1>1, StateUntouched DEF SovereignInv
<1>17. Pending = Pending' \union {b} /\ b \notin Pending'
  BY <1>1, <1>3, <1>14 DEF SovereignInv, PendingOK, Pending
<1>18. ({n \in DOMAIN trail : ByCommander(n)} = ToSet(reviews) \union abandoned \union Pending)'
  <2>1. {n \in DOMAIN trail : ByCommander(n)} = ToSet(reviews) \union abandoned \union Pending
    BY DEF SovereignInv, ReviewsAreSound, Pending
  <2>2. {n \in DOMAIN trail : ByCommander(n)}' = {n \in DOMAIN trail : ByCommander(n)}
    BY <1>1 DEF ByCommander
  <2> QED
    BY <1>1, <1>7, <1>17, <2>1, <2>2
<1>19. ToSet(reviews') \intersect abandoned' = {} /\ stats'.total = Len(reviews')
  BY <1>1, <1>5, <1>6, <1>7, <1>10 DEF SovereignInv, ReviewsAreSound
<1>20. ReviewsAreSound'
  BY <1>8, <1>12, <1>13, <1>18, <1>19 DEF ReviewsAreSound, Pending
<1>21. PendingOK'
  <2> SUFFICES ASSUME NEW x \in Clients, client'[x].at = "review"
               PROVE  /\ client'[x].block \notin ToSet(reviews') \union abandoned'
                      /\ trail'[client'[x].block].by = "commander"
                      /\ \A y \in Clients : client'[y].at = "review" /\ client'[y].block = client'[x].block => y = x
    BY DEF PendingOK, ByCommander
  <2>1. x # c /\ client'[x] = client[x]
    BY <1>14
  <2>2. client[x].block # b
    BY <1>1, <1>3, <2>1 DEF SovereignInv, PendingOK
  <2> QED
    BY <1>1, <1>7, <1>14, <2>1, <2>2 DEF SovereignInv, PendingOK, ByCommander
<1> QED
  BY <1>15, <1>16, <1>20, <1>21 DEF SovereignInv

(* A dropped request: its block, if it had one, will not be reviewed.        *)
LEMMA DropRequestKeeps ==
  ASSUME SovereignInv, NEW c \in Clients, DropRequest(c)
  PROVE  SovereignInv'
<1>1. /\ client' = [client EXCEPT ![c] = Waiting]
      /\ abandoned' = abandoned \union (IF client[c].at = "review" THEN {client[c].block} ELSE {})
      /\ UNCHANGED <<profile, paused, shutdown, lastStatus, trail, reviews, stats>>
  BY DEF DropRequest
<1>2. /\ client'[c].at = "waiting" /\ \A x \in Clients \ {c} : client'[x] = client[x]
      /\ ClientTypeOK'
  BY <1>1 DEF SovereignInv, SovereignVarsOK, ClientTypeOK, Waiting
<1>3. abandoned' \subseteq 1..Len(trail')
  BY <1>1, ToSetType DEF SovereignInv, SovereignVarsOK
<1>4. SovereignVarsOK'
  BY <1>1, <1>2, <1>3 DEF SovereignInv, SovereignVarsOK, SovereignTypeOK
<1>5. StateIsOnRecord'
  BY <1>1, StateUntouched DEF SovereignInv
<1>6. CASE client[c].at # "review"
  <2>1. UNCHANGED <<trail, reviews, stats, abandoned>> /\ client'[c].at # "review"
    BY <1>1, <1>2, <1>6
  <2> QED
    BY <1>2, <1>4, <1>5, <1>6, <2>1, ReviewsUntouched DEF SovereignInv
<1>7. CASE client[c].at = "review"
  <2>1. abandoned' = abandoned \union {client[c].block}
    BY <1>1, <1>7
  <2>2. Pending = Pending' \union {client[c].block}
    BY <1>2, <1>7 DEF Pending
  <2>3. client[c].block \notin ToSet(reviews)
    BY <1>7 DEF SovereignInv, PendingOK
  <2>4. {n \in DOMAIN trail : ByCommander(n)}' = {n \in DOMAIN trail : ByCommander(n)}
    BY <1>1 DEF ByCommander
  <2>5. ({n \in DOMAIN trail : ByCommander(n)} = ToSet(reviews) \union abandoned \union Pending)'
    <3>1. {n \in DOMAIN trail : ByCommander(n)} = ToSet(reviews) \union abandoned \union Pending
      BY DEF SovereignInv, ReviewsAreSound, Pending
    <3> QED
      BY <1>1, <2>1, <2>2, <2>4, <3>1
  <2>6. (ToSet(reviews) \intersect abandoned = {})'
    BY <1>1, <2>1, <2>3 DEF SovereignInv, ReviewsAreSound
  <2>7. ReviewsAreSound'
    BY <1>1, <2>5, <2>6 DEF SovereignInv, ReviewsAreSound, Pending
  <2>8. PendingOK'
    <3> SUFFICES ASSUME NEW x \in Clients, client'[x].at = "review"
                 PROVE  /\ client'[x].block \notin ToSet(reviews') \union abandoned'
                        /\ trail'[client'[x].block].by = "commander"
                        /\ \A y \in Clients : client'[y].at = "review" /\ client'[y].block = client'[x].block => y = x
      BY DEF PendingOK, ByCommander
    <3>1. x # c /\ client'[x] = client[x]
      BY <1>2
    <3>2. client[x].block # client[c].block
      BY <1>7, <3>1 DEF SovereignInv, PendingOK
    <3> QED
      BY <1>1, <1>2, <2>1, <3>1, <3>2 DEF SovereignInv, PendingOK, ByCommander
  <2> QED
    BY <1>4, <1>5, <2>7, <2>8 DEF SovereignInv
<1> QED
  BY <1>6, <1>7

LEMMA SovereignStep == SovereignInv /\ [SovereignNext]_auditVars => SovereignInv'
<1> SUFFICES ASSUME SovereignInv, [SovereignNext]_auditVars
             PROVE  SovereignInv'
  OBVIOUS
<1>1. CASE SovereignNext
  BY <1>1, ReadProfileKeeps, ReportKeeps, AuditCycleKeeps, InterveneKeeps, ReviewKeeps, DropRequestKeeps
     DEF SovereignNext
<1>2. CASE UNCHANGED auditVars
  <2>1. UNCHANGED <<profile, paused, shutdown, lastStatus, trail, reviews, stats, client, abandoned>>
    BY <1>2 DEF auditVars
  <2>2. SovereignVarsOK'
    BY <2>1 DEF SovereignInv, SovereignVarsOK, SovereignTypeOK, ClientTypeOK
  <2>3. StateIsOnRecord'
    BY <2>1, StateUntouched DEF SovereignInv
  <2>4. ReviewsAreSound' /\ PendingOK'
    BY <2>1 DEF SovereignInv, ReviewsAreSound, PendingOK, ByCommander
  <2> QED
    BY <2>2, <2>3, <2>4 DEF SovereignInv
<1> QED
  BY <1>1, <1>2

(* The trail always explains the Sovereign engine's pause and profile, and   *)
(* every directive of it is reviewed once, under its own posture, or was     *)
(* dropped or waits for its review; however the requests of the two engines  *)
(* interleave or are dropped (m133_sovereign_audit.rs, m134_commander_audit.rs). *)
THEOREM SovereignIsSound == SovereignSpec => []SovereignSound
<1>1. SovereignInv => SovereignSound
  BY DEF SovereignInv, SovereignVarsOK, SovereignSound
<1> QED
  BY <1>1, SovereignInitially, SovereignStep, PTL DEF SovereignSpec
=============================================================================
