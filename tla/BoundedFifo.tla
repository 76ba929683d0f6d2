----------------------------- MODULE BoundedFifo -----------------------------
(* What a bounded queue promises its users: items leave in the order in      *)
(* which they were accepted, each of them once, and at most Capacity wait.   *)
EXTENDS Naturals, Sequences

CONSTANTS Items, Capacity

VARIABLES
  queue,     \* the items that wait
  delivered  \* the items handed out so far, oldest first

Init == queue = <<>> /\ delivered = <<>>

Enqueue(item) ==
  /\ Len(queue) < Capacity
  /\ queue' = Append(queue, item)
  /\ UNCHANGED delivered

Dequeue ==
  /\ queue # <<>>
  /\ queue' = Tail(queue)
  /\ delivered' = Append(delivered, Head(queue))

Next == (\E item \in Items : Enqueue(item)) \/ Dequeue

Spec == Init /\ [][Next]_<<queue, delivered>>

=============================================================================
