------------------------------ MODULE SpscRing ------------------------------
(***************************************************************************)
(* The single-producer single-consumer ring of crates/micropath: two       *)
(* cursors that count up and wrap with the machine word, and an array of   *)
(* ticks they index modulo its size.  One action per atomic access or slot *)
(* access; a cursor's owner reads it without a step of its own, since      *)
(* nobody else writes it.  A slot that is read while it is written gives a *)
(* torn tick.                                                              *)
(***************************************************************************)
EXTENDS Integers, Sequences

CONSTANTS
  N,         \* slots of the ring
  Word,      \* the number of values of a cursor, 2^64 in the program
  Ticks,     \* what the producer pushes
  Zero,      \* a tick of zeros, what a new ring is filled with
  Torn,      \* what a slot read while it is written returns
  MaxOffers  \* bound on the ticks accepted

(* The sizes in use (1024, bench.rs:36) are powers of two.                   *)
ASSUME RingAssumption ==
  /\ N \in Nat \ {0} /\ Word \in Nat /\ Word > N
  /\ Word % N = 0
  /\ MaxOffers \in Nat

VARIABLES
  head,      \* the producer's cursor
  tail,      \* the consumer's cursor
  buf,       \* the slots
  producer,  \* what try_push has decided
  consumer,  \* what pop_busy has read
  received,  \* history: the ticks returned by pop_busy, in order
  offers     \* the number of ticks accepted

ringVars == <<head, tail, buf, producer, consumer, received, offers>>

SlotOf(cursor) == cursor % N
Advanced(cursor) == (cursor + 1) % Word
Outstanding == (head - tail) % Word

RingInit ==
  /\ head = 0 /\ tail = 0
  /\ buf = [s \in 0..(N - 1) |-> Zero]
  /\ producer = [pc |-> "idle", tick |-> Zero]
  /\ consumer = [pc |-> "idle", tick |-> Zero]
  /\ received = <<>>
  /\ offers = 0

-----------------------------------------------------------------------------
(* Mutant: the test for room is off by one. *)
FindRoomOffByOne(tick) ==
  /\ producer.pc = "idle"
  /\ offers < MaxOffers
  /\ Outstanding <= N
  /\ producer' = [pc |-> "write", tick |-> tick]
  /\ offers' = offers + 1
  /\ UNCHANGED <<head, tail, buf, consumer, received>>

(* try_push: the tail is read once; a full ring refuses, which changes       *)
(* nothing.                                                                  *)
FindRoom(tick) ==
  /\ producer.pc = "idle"
  /\ offers < MaxOffers
  /\ Outstanding < N
  /\ producer' = [pc |-> "write", tick |-> tick]
  /\ offers' = offers + 1
  /\ UNCHANGED <<head, tail, buf, consumer, received>>

(* the slot is written *)
WriteTick ==
  /\ producer.pc = "write"
  /\ buf' = [buf EXCEPT ![SlotOf(head)] = producer.tick]
  /\ producer' = [producer EXCEPT !.pc = "announce"]
  /\ UNCHANGED <<head, tail, consumer, received, offers>>

(* head.store: the consumer may see it *)
Announce ==
  /\ producer.pc = "announce"
  /\ head' = Advanced(head)
  /\ producer' = [producer EXCEPT !.pc = "idle"]
  /\ UNCHANGED <<tail, buf, consumer, received, offers>>

-----------------------------------------------------------------------------
(* pop_busy: the loop spins until the head has moved past the tail. *)
SeeTick ==
  /\ consumer.pc = "idle"
  /\ Outstanding > 0
  /\ consumer' = [consumer EXCEPT !.pc = "read"]
  /\ UNCHANGED <<head, tail, buf, producer, received, offers>>

(* the slot is copied out *)
BeingWritten(slot) == producer.pc = "write" /\ SlotOf(head) = slot

ReadTick ==
  /\ consumer.pc = "read"
  /\ consumer' = [pc |-> "release",
                  tick |-> IF BeingWritten(SlotOf(tail)) THEN Torn ELSE buf[SlotOf(tail)]]
  /\ UNCHANGED <<head, tail, buf, producer, received, offers>>

(* tail.store, and the tick is returned *)
ReleaseSlot ==
  /\ consumer.pc = "release"
  /\ tail' = Advanced(tail)
  /\ received' = Append(received, consumer.tick)
  /\ consumer' = [consumer EXCEPT !.pc = "idle"]
  /\ UNCHANGED <<head, buf, producer, offers>>

RingNext ==
  \/ \E tick \in Ticks : FindRoom(tick)
  \/ WriteTick \/ Announce
  \/ SeeTick \/ ReadTick \/ ReleaseSlot

RingSpec == RingInit /\ [][RingNext]_ringVars

-----------------------------------------------------------------------------
RingTypeOK ==
  /\ head \in 0..(Word - 1) /\ tail \in 0..(Word - 1)
  /\ buf \in [0..(N - 1) -> Ticks \union {Zero}]
  /\ producer \in [pc : {"idle", "write", "announce"}, tick : Ticks \union {Zero}]
  /\ consumer \in [pc : {"idle", "read", "release"}, tick : Ticks \union {Zero, Torn}]
  /\ received \in Seq(Ticks \union {Zero, Torn})
  /\ offers \in 0..MaxOffers

(* The ticks between the cursors, oldest first. *)
Waiting == [k \in 1..Outstanding |-> buf[(tail + k - 1) % N]]

Ring == INSTANCE BoundedFifo
          WITH Items <- Ticks, Capacity <- N, queue <- Waiting, delivered <- received

(* The ring is a bounded FIFO: every accepted tick is received once, whole   *)
(* and in order, also when the cursors wrap around the machine word, though  *)
(* the two threads share nothing but the cursors and the slots.              *)
RingImplementsFifo == Ring!Spec

=============================================================================
