---------------------------- MODULE MCLowLatency ----------------------------
(* Constants for model checking the low-latency structures: the memory pool, *)
(* the lock-free queue, the ring of micropath and the fixed-point pipeline,  *)
(* which share nothing.  A behaviour is one of the structure in focus.       *)
EXTENDS MemoryPool, LockFreeQueue, SpscRing, MCCriticalPath, TLC

CONSTANTS t1, t2, t3, p1, p2, p3, a, b

VARIABLE focus

LowLatencySymmetry == Permutations(Threads) \union Permutations(Producers)

LowLatencyInit ==
  /\ focus \in {"pool", "queue", "ring", "path"}
  /\ Init /\ QueueInit /\ RingInit /\ PathInit
  /\ focus # "path" => \A r \in Baselines : baseline <= r \/ r = 0
  /\ focus # "path" => \A f \in Fees : baseFee <= f

LowLatencyNext ==
  /\ UNCHANGED focus
  /\ focus # "pool" => UNCHANGED vars
  /\ focus # "queue" => UNCHANGED queueVars
  /\ focus # "ring" => UNCHANGED ringVars
  /\ focus # "path" => UNCHANGED pathVars
  /\ \/ focus = "pool" /\ Next
     \/ focus = "queue" /\ QueueNext
     \/ focus = "ring" /\ RingNext
     \/ focus = "path" /\ PathNext

LowLatencySpec ==
  LowLatencyInit /\ [][LowLatencyNext]_<<focus, vars, queueVars, ringVars, pathVars>>

=============================================================================
