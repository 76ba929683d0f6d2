-------------------------- MODULE MCLockFreeQueue ---------------------------
(* Constants for model checking LockFreeQueue.                               *)
EXTENDS LockFreeQueue, TLC

CONSTANTS p1, p2, p3, a, b

ProducerSymmetry == Permutations(Producers)

=============================================================================
