----------------------------- MODULE MemoryPool -----------------------------
(***************************************************************************)
(* The bump allocator of backend/submicron/memory_pool.rs: threads         *)
(* allocate and reset concurrently, one action per access to the two       *)
(* atomics.  Addresses are offsets into the buffer, which is aligned to    *)
(* 64 bytes.                                                               *)
(***************************************************************************)
EXTENDS Integers, Sequences

CONSTANTS
  Threads,
  Sizes,        \* sizes requested
  Aligns,       \* alignments requested: powers of two
  capacity,
  MaxAllocs     \* bound: allocations since the start

ASSUME PoolAssumption ==
  /\ Sizes \subseteq Nat
  /\ Aligns \subseteq Nat \ {0}
  /\ capacity \in Nat \ {0}
  /\ MaxAllocs \in Nat

VARIABLES
  current,    \* offset of the first free byte
  watermark,  \* the peak of `current`, for reporting
  thread,     \* where each thread is in allocate
  blocks,     \* history: the blocks reserved since the last reset
  peak,       \* history: the highest end of a block reserved so far
  allocs      \* reservations so far

vars == <<current, watermark, thread, blocks, peak, allocs>>

Idle == [pc |-> "idle", size |-> 0, align |-> 1, cur |-> 0, mark |-> 0]

Init ==
  /\ current = 0
  /\ watermark = 0
  /\ thread = [t \in Threads |-> Idle]
  /\ blocks = <<>>
  /\ peak = 0
  /\ allocs = 0

(* (position + align - 1) & !(align - 1), for a power of two *)
Aligned(position, align) == position + ((align - (position % align)) % align)

Start(th) == Aligned(th.cur, th.align)
End(th)   == Start(th) + th.size

-----------------------------------------------------------------------------
(* current.load and the assertion that the block fits; a failed assertion    *)
(* panics.                                                                   *)
Load(t, size, align, cur) ==
  LET th == [pc |-> "reserve", size |-> size, align |-> align, cur |-> cur,
             mark |-> 0]
  IN thread' = [thread EXCEPT ![t] =
       IF End(th) <= capacity THEN th ELSE [th EXCEPT !.pc = "panicked"]]

Allocate(t, size, align) ==
  /\ thread[t].pc = "idle"
  /\ Load(t, size, align, current)
  /\ UNCHANGED <<current, watermark, blocks, peak, allocs>>

(* Mutant: a store in place of the compare-and-exchange. *)
ReserveBlindly(t) ==
  /\ thread[t].pc = "reserve"
  /\ allocs < MaxAllocs
  /\ current' = End(thread[t])
  /\ blocks' = Append(blocks, [start |-> Start(thread[t]), end |-> End(thread[t]),
                               align |-> thread[t].align])
  /\ peak' = IF End(thread[t]) > peak THEN End(thread[t]) ELSE peak
  /\ allocs' = allocs + 1
  /\ thread' = [thread EXCEPT ![t].pc = "loadMark"]
  /\ UNCHANGED watermark

(* compare_exchange_weak on `current`, when it succeeds *)
Reserve(t) ==
  /\ thread[t].pc = "reserve"
  /\ thread[t].cur = current
  /\ allocs < MaxAllocs
  /\ current' = End(thread[t])
  /\ blocks' = Append(blocks, [start |-> Start(thread[t]), end |-> End(thread[t]),
                               align |-> thread[t].align])
  /\ peak' = IF End(thread[t]) > peak THEN End(thread[t]) ELSE peak
  /\ allocs' = allocs + 1
  /\ thread' = [thread EXCEPT ![t].pc = "loadMark"]
  /\ UNCHANGED watermark

(* The weak exchange may fail although the values agree: allocate starts     *)
(* over with a fresh load.                                                   *)
Retry(t) ==
  /\ thread[t].pc = "reserve"
  /\ Load(t, thread[t].size, thread[t].align, current)
  /\ UNCHANGED <<current, watermark, blocks, peak, allocs>>

LoadMark(t) ==
  /\ thread[t].pc = "loadMark"
  /\ thread' = [thread EXCEPT ![t].pc = "mark", ![t].mark = watermark]
  /\ UNCHANGED <<current, watermark, blocks, peak, allocs>>

(* The loop around the watermark: nothing to raise, raised, or another       *)
(* thread was faster and its value is looked at next.                        *)
RaiseMark(t) ==
  /\ thread[t].pc = "mark"
  /\ \/ /\ End(thread[t]) <= thread[t].mark
        /\ thread' = [thread EXCEPT ![t] = Idle]
        /\ UNCHANGED watermark
     \/ /\ End(thread[t]) > thread[t].mark
        /\ watermark = thread[t].mark
        /\ watermark' = End(thread[t])
        /\ thread' = [thread EXCEPT ![t] = Idle]
     \/ /\ End(thread[t]) > thread[t].mark
        /\ thread' = [thread EXCEPT ![t].mark = watermark]
        /\ UNCHANGED watermark
  /\ UNCHANGED <<current, blocks, peak, allocs>>

(* reset invalidates every block and may come at any time. *)
Reset ==
  /\ current' = 0
  /\ blocks' = <<>>
  /\ UNCHANGED <<watermark, thread, peak, allocs>>

Next ==
  \/ \E t \in Threads, size \in Sizes, align \in Aligns : Allocate(t, size, align)
  \/ \E t \in Threads : Reserve(t) \/ Retry(t) \/ LoadMark(t) \/ RaiseMark(t)
  \/ Reset

Spec == Init /\ [][Next]_vars

-----------------------------------------------------------------------------
Thread == [pc : {"idle", "reserve", "loadMark", "mark", "panicked"},
           size : Sizes \union {0}, align : Aligns \union {1},
           cur : Nat, mark : Nat]

Block == [start : Nat, end : Nat, align : Aligns \union {1}]

TypeOK ==
  /\ current \in Nat
  /\ watermark \in Nat
  /\ thread \in [Threads -> Thread]
  /\ blocks \in Seq(Block)
  /\ peak \in Nat
  /\ allocs \in Nat

(* No two blocks reserved since the last reset share a byte, and all of them *)
(* lie within the pool: a thread that computed its block from an old value   *)
(* of `current`, even one from before a reset, never reserves a wrong one.   *)
BlocksDisjoint ==
  /\ \A i \in DOMAIN blocks : /\ blocks[i].start <= blocks[i].end
                              /\ blocks[i].end <= capacity
  /\ \A i, j \in DOMAIN blocks : i < j => blocks[i].end <= blocks[j].start

(* "Get peak usage (watermark)": when no allocation is under way the         *)
(* watermark is the peak, whatever the order in which threads raised it, and *)
(* a reset does not lower it.                                                *)
WatermarkIsPeak ==
  (\A t \in Threads : thread[t].pc \notin {"loadMark", "mark"}) =>
    watermark = peak

(* All three, for interleaved loads, exchanges and resets.                   *)
PoolSound == TypeOK /\ BlocksDisjoint /\ WatermarkIsPeak

=============================================================================
