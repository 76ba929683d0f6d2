---------------------------- MODULE LockFreeQueue ----------------------------
(***************************************************************************)
(* The array queue of backend/submicron/lock_free_queue.rs, one action per *)
(* access to shared memory: LockFreeQueue with several producers and one   *)
(* consumer, and SpscQueue (the same algorithm) with one producer.         *)
(*                                                                         *)
(* A producer claims an index before it knows that there is room, and      *)
(* gives it back when there is none; the consumer looks at the two indices *)
(* only.  Acquire/release accesses are modelled as sequentially            *)
(* consistent, which is what the two atomics give on x86; the slots are    *)
(* plain memory.                                                           *)
(***************************************************************************)
EXTENDS Integers, Sequences, FiniteSets

CONSTANTS
  Producers,
  Items,
  Uninit,     \* the content of a slot nobody has written
  CAPACITY,   \* 65536 in the code
  IndexWord,       \* indices are unsigned words; 2^64 in the code
  MaxPushes,  \* bound: calls of push
  Phased      \* are pushes and pops kept apart, as by all callers but the tests?

ASSUME QueueAssumption ==
  /\ Uninit \notin Items
  /\ IsFiniteSet(Producers)
  /\ CAPACITY \in Nat \ {0}
  /\ IndexWord \in Nat
  /\ IndexWord > 2 * CAPACITY
  /\ MaxPushes \in Nat /\ MaxPushes < IndexWord
  /\ Phased \in BOOLEAN

VARIABLES
  queueHead,  \* the next index to claim
  queueTail,  \* the next index to read
  slots,      \* buffer
  push,       \* each producer: where it is in push, its item and its index
  pop,        \* the consumer: where it is in pop, its index and its item
  delivered,  \* what pop has returned so far
  pushes      \* calls of push so far

queueVars == <<queueHead, queueTail, slots, push, pop, delivered, pushes>>

Slot(index) == index % CAPACITY

(* `head - tail` on unsigned words (release builds wrap). *)
Occupancy(h, t) == (h - t) % IndexWord

QueueInit ==
  /\ queueHead = 0
  /\ queueTail = 0
  /\ slots = [k \in 0..(CAPACITY - 1) |-> Uninit]
  /\ push = [p \in Producers |-> [pc |-> "idle", item |-> Uninit, index |-> 0]]
  /\ pop = [pc |-> "idle", index |-> 0, item |-> Uninit]
  /\ delivered = <<>>
  /\ pushes = 0

NoPush == \A p \in Producers : push[p].pc = "idle"

-----------------------------------------------------------------------------
(* push: head.fetch_add(1) *)
Claim(p, item) ==
  /\ push[p].pc = "idle"
  /\ pushes < MaxPushes
  /\ Phased => pop.pc = "idle"
  /\ push' = [push EXCEPT ![p] = [pc |-> "check", item |-> item, index |-> queueHead]]
  /\ queueHead' = queueHead + 1
  /\ pushes' = pushes + 1
  /\ UNCHANGED <<queueTail, slots, pop, delivered>>

(* Mutants: an off-by-one in the test for a full queue, either way. *)
CheckRoomForOneMore(p) ==
  /\ push[p].pc = "check"
  /\ push' = [push EXCEPT ![p].pc =
       IF Occupancy(push[p].index, queueTail) > CAPACITY THEN "retract" ELSE "write"]
  /\ UNCHANGED <<queueHead, queueTail, slots, pop, delivered, pushes>>

CheckRoomForOneLess(p) ==
  /\ push[p].pc = "check"
  /\ push' = [push EXCEPT ![p].pc =
       IF Occupancy(push[p].index, queueTail) >= CAPACITY - 1
       THEN "retract" ELSE "write"]
  /\ UNCHANGED <<queueHead, queueTail, slots, pop, delivered, pushes>>

(* tail.load and the test for a full queue *)
CheckRoom(p) ==
  /\ push[p].pc = "check"
  /\ push' = [push EXCEPT ![p].pc =
       IF Occupancy(push[p].index, queueTail) >= CAPACITY THEN "retract" ELSE "write"]
  /\ UNCHANGED <<queueHead, queueTail, slots, pop, delivered, pushes>>

(* head.fetch_sub(1); push returns false *)
Retract(p) ==
  /\ push[p].pc = "retract"
  /\ queueHead' = queueHead - 1
  /\ push' = [push EXCEPT ![p].pc = "idle"]
  /\ UNCHANGED <<queueTail, slots, pop, delivered, pushes>>

(* the slot is written; push returns true *)
Write(p) ==
  /\ push[p].pc = "write"
  /\ slots' = [slots EXCEPT ![Slot(push[p].index)] = push[p].item]
  /\ push' = [push EXCEPT ![p].pc = "idle"]
  /\ UNCHANGED <<queueHead, queueTail, pop, delivered, pushes>>

-----------------------------------------------------------------------------
(* pop: tail.load *)
ReadTail ==
  /\ pop.pc = "idle"
  /\ Phased => NoPush
  /\ pop' = [pop EXCEPT !.pc = "check", !.index = queueTail]
  /\ UNCHANGED <<queueHead, queueTail, slots, push, delivered, pushes>>

(* head.load and the test for an empty queue *)
CheckItem ==
  /\ pop.pc = "check"
  /\ pop' = [pop EXCEPT !.pc = IF pop.index >= queueHead THEN "idle" ELSE "read"]
  /\ UNCHANGED <<queueHead, queueTail, slots, push, delivered, pushes>>

ReadSlot ==
  /\ pop.pc = "read"
  /\ pop' = [pop EXCEPT !.pc = "advance", !.item = slots[Slot(pop.index)]]
  /\ UNCHANGED <<queueHead, queueTail, slots, push, delivered, pushes>>

(* tail.fetch_add(1); pop returns the item *)
Advance ==
  /\ pop.pc = "advance"
  /\ queueTail' = queueTail + 1
  /\ delivered' = Append(delivered, pop.item)
  /\ pop' = [pop EXCEPT !.pc = "idle"]
  /\ UNCHANGED <<queueHead, slots, push, pushes>>

QueueNext ==
  \/ \E p \in Producers, item \in Items : Claim(p, item)
  \/ \E p \in Producers : CheckRoom(p) \/ Retract(p) \/ Write(p)
  \/ ReadTail \/ CheckItem \/ ReadSlot \/ Advance

QueueSpec == QueueInit /\ [][QueueNext]_queueVars

-----------------------------------------------------------------------------
QueueTypeOK ==
  /\ queueHead \in 0..MaxPushes
  /\ queueTail \in Nat
  /\ slots \in [0..(CAPACITY - 1) -> Items \union {Uninit}]
  /\ push \in [Producers -> [pc : {"idle", "check", "retract", "write"},
                             item : Items \union {Uninit}, index : Nat]]
  /\ pop \in [pc : {"idle", "check", "read", "advance"}, index : Nat,
              item : Items \union {Uninit}]
  /\ delivered \in Seq(Items \union {Uninit})
  /\ pushes \in 0..MaxPushes

(* The item an index stands for: a producer that has claimed it may still    *)
(* have to write it.                                                         *)
ItemAt(index) ==
  LET writers == {p \in Producers : /\ push[p].pc \in {"check", "write"}
                                    /\ push[p].index = index}
  IN IF writers = {} THEN slots[Slot(index)]
     ELSE push[CHOOSE p \in writers : TRUE].item

(* The queue the two indices represent; claims beyond the capacity are about *)
(* to be retracted.                                                          *)
Contents ==
  LET claims == queueHead - queueTail
  IN [k \in 1..(IF claims < CAPACITY THEN claims ELSE CAPACITY) |-> ItemAt(queueTail + k - 1)]

Fifo == INSTANCE BoundedFifo
          WITH queue <- Contents, delivered <- delivered, Capacity <- CAPACITY

(* The array with its two indices is a bounded FIFO: concurrent producers    *)
(* never take each other's slot, and pop hands every accepted item out once, *)
(* in the order in which the indices were claimed.                           *)
ImplementsFifo == Fifo!Spec

(* "Returns true if successful, false if queue is full": however many other  *)
(* producers have claimed an index, or have yet to give theirs back,         *)
(* CAPACITY items wait when a push returns false.                            *)
RefusedOnlyWhenFull ==
  [][\A p \in Producers :
       push[p].pc = "retract" /\ push'[p].pc = "idle" =>
         Len(Contents') = CAPACITY]_queueVars

(* "Returns Some(item) if available": pop returns items that were pushed.    *)
PopsAreItems == \A k \in DOMAIN delivered : delivered[k] # Uninit

=============================================================================
