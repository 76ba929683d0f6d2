-------------------------- MODULE LowLatency_proofs --------------------------
(***************************************************************************)
(* TLAPS proofs about the memory pool, for any threads, sizes, alignments  *)
(* and capacity; about the ring of micropath, which implements a bounded   *)
(* FIFO for any size that divides the machine word; about the array queue, *)
(* which implements one for any producers and capacity as long as pushes   *)
(* and pops are kept apart; and about the fixed-point pipeline, whose      *)
(* shifts and tables compute roots and logarithms in words of any width.   *)
(***************************************************************************)
EXTENDS MemoryPool, SpscRing, LockFreeQueue, CriticalPath, SumLemmas,
        SequenceTheorems, FiniteSetTheorems, TLAPS

(* Rounding up never moves a position down. *)
LEMMA AlignedAbove ==
  ASSUME NEW position \in Nat, NEW align \in Nat \ {0}
  PROVE  Aligned(position, align) \in Nat /\ Aligned(position, align) >= position
<1> DEFINE pad == (align - (position % align)) % align
<1>1. position % align \in Nat
  OBVIOUS
<1>2. align - (position % align) \in Int
  BY <1>1
<1>3. pad \in Nat
  BY <1>2
<1> HIDE DEF pad
<1>4. position + pad \in Nat /\ position + pad >= position
  BY <1>3
<1>5. QED
  BY <1>4 DEF Aligned, pad

LEMMA BlockBounds ==
  ASSUME NEW th \in Thread
  PROVE  /\ Start(th) \in Nat /\ End(th) \in Nat
         /\ th.cur <= Start(th) /\ Start(th) <= End(th)
<1>1. th.cur \in Nat /\ th.align \in Nat \ {0} /\ th.size \in Nat
  <2>1. th.cur \in Nat /\ th.align \in Aligns \union {1} /\ th.size \in Sizes \union {0}
    BY DEF Thread
  <2>2. (\A a \in Aligns \union {1} : a \in Nat \ {0}) /\ \A n \in Sizes \union {0} : n \in Nat
    BY PoolAssumption
  <2>3. th.align \in Nat \ {0}
    BY <2>1, <2>2, Zenon
  <2>4. th.size \in Nat
    BY <2>1, <2>2, Zenon
  <2>5. QED
    BY <2>1, <2>3, <2>4
<1>2. Start(th) \in Nat /\ Start(th) >= th.cur
  BY <1>1, AlignedAbove DEF Start
<1>3. QED
  BY <1>1, <1>2 DEF End

(* What a load leaves behind: a thread whose block fits, or a panicked one.  *)
LEMMA Loaded ==
  ASSUME NEW t \in Threads, NEW size \in Sizes \union {0},
         NEW align \in Aligns \union {1}, NEW cur \in Nat,
         thread \in [Threads -> Thread], Load(t, size, align, cur)
  PROVE  \E th \in Thread :
           /\ thread' = [thread EXCEPT ![t] = th]
           /\ th.pc \in {"reserve", "panicked"}
           /\ th.pc = "reserve" => End(th) <= capacity
<1> DEFINE th == [pc |-> "reserve", size |-> size, align |-> align, cur |-> cur,
                  mark |-> 0]
           failed == [th EXCEPT !.pc = "panicked"]
<1>1. th \in Thread /\ failed \in Thread
  BY DEF Thread
<1>2. th.pc = "reserve" /\ failed.pc = "panicked"
  OBVIOUS
<1>3. thread' = [thread EXCEPT ![t] = IF End(th) <= capacity THEN th ELSE failed]
  BY DEF Load
<1> HIDE DEF th, failed
<1>4. CASE End(th) <= capacity
  <2>1. thread' = [thread EXCEPT ![t] = th]
    BY <1>3, <1>4
  <2>2. QED
    BY <1>1, <1>2, <1>4, <2>1
<1>5. CASE ~(End(th) <= capacity)
  <2>1. thread' = [thread EXCEPT ![t] = failed]
    BY <1>3, <1>5
  <2>2. QED
    BY <1>1, <1>2, <2>1
<1>6. QED
  BY <1>4, <1>5

-----------------------------------------------------------------------------
(* The inductive invariant.  A thread about to reserve knows that its block  *)
(* fits; the blocks are ordered and end below `current`; and the peak is on  *)
(* the watermark or on its way there.                                        *)
Fits == \A t \in Threads : thread[t].pc = "reserve" => End(thread[t]) <= capacity

Below ==
  /\ current <= capacity
  /\ \A i \in DOMAIN blocks : blocks[i].end <= current

Marking(t) == thread[t].pc \in {"loadMark", "mark"}

MarkOnItsWay ==
  /\ watermark <= peak
  /\ watermark = peak \/ \E t \in Threads : Marking(t) /\ End(thread[t]) = peak
  /\ \A t \in Threads : /\ Marking(t) => End(thread[t]) <= peak
                        /\ thread[t].pc = "mark" => thread[t].mark <= watermark

IInv == TypeOK /\ Fits /\ Below /\ BlocksDisjoint /\ MarkOnItsWay

LEMMA InitIInv == Init => IInv
<1> SUFFICES ASSUME Init PROVE IInv
  OBVIOUS
<1>1. Idle \in Thread /\ Idle.pc = "idle"
  BY DEF Idle, Thread
<1>2. thread \in [Threads -> Thread] /\ \A t \in Threads : thread[t].pc = "idle"
  BY <1>1 DEF Init
<1>3. DOMAIN blocks = {} /\ blocks \in Seq(Block)
  BY DEF Init
<1>4. QED
  BY <1>2, <1>3, PoolAssumption
     DEF Init, IInv, TypeOK, Fits, Below, BlocksDisjoint, MarkOnItsWay, Marking

(* A thread that only moves between the atomics disturbs nothing. *)
LEMMA ThreadMoves ==
  ASSUME IInv, NEW t \in Threads, NEW th \in Thread,
         thread' = [thread EXCEPT ![t] = th],
         UNCHANGED <<current, watermark, blocks, peak, allocs>>,
         th.pc = "reserve" => End(th) <= capacity,
         th.pc \in {"loadMark", "mark"} =>
           Marking(t) /\ End(th) = End(thread[t]),
         th.pc = "mark" => th.mark <= watermark,
         Marking(t) /\ End(thread[t]) > watermark => th.pc \in {"loadMark", "mark"}
  PROVE  IInv'
<1>1. thread' \in [Threads -> Thread]
  BY DEF IInv, TypeOK
<1>2. \A u \in Threads : thread'[u] = IF u = t THEN th ELSE thread[u]
  BY DEF IInv, TypeOK
<1>3. TypeOK'
  BY <1>1 DEF IInv, TypeOK
<1>4. Fits'
  BY <1>2 DEF IInv, Fits
<1>5. Below' /\ BlocksDisjoint'
  BY DEF IInv, Below, BlocksDisjoint
<1>6. MarkOnItsWay'
  <2>1. watermark' = peak' \/ \E u \in Threads : Marking(u)' /\ End(thread'[u]) = peak'
    <3>1. CASE watermark = peak
      BY <3>1
    <3>2. ASSUME watermark # peak
          PROVE  \E u \in Threads : Marking(u)' /\ End(thread'[u]) = peak'
      <4>1. PICK u \in Threads : Marking(u) /\ End(thread[u]) = peak
        BY <3>2 DEF IInv, MarkOnItsWay
      <4>2. watermark < peak
        BY <3>2 DEF IInv, MarkOnItsWay, TypeOK
      <4>3. CASE u = t
        BY <4>1, <4>2, <4>3, <1>2 DEF Marking, IInv, TypeOK
      <4>4. CASE u # t
        BY <4>1, <4>4, <1>2 DEF Marking
      <4>5. QED
        BY <4>3, <4>4
    <3>3. QED
      BY <3>1, <3>2
  <2>2. \A u \in Threads : /\ Marking(u)' => End(thread'[u]) <= peak'
                           /\ thread'[u].pc = "mark" => thread'[u].mark <= watermark'
    BY <1>2 DEF IInv, MarkOnItsWay, Marking
  <2>3. QED
    BY <2>1, <2>2 DEF MarkOnItsWay, IInv
<1>7. QED
  BY <1>3, <1>4, <1>5, <1>6 DEF IInv

(* Only an exchange on an unchanged `current` reserves a block, so the block *)
(* starts at or above the end of every block there is.                       *)
LEMMA ReserveStep ==
  ASSUME IInv, NEW t \in Threads, Reserve(t)
  PROVE  IInv'
<1> DEFINE th == thread[t]
           blk == [start |-> Start(th), end |-> End(th), align |-> th.align]
           moved == [th EXCEPT !.pc = "loadMark"]
<1>1. th \in Thread /\ th.pc = "reserve" /\ th.cur = current
  BY DEF IInv, TypeOK, Reserve
<1>2. /\ Start(th) \in Nat /\ End(th) \in Nat
      /\ current <= Start(th) /\ Start(th) <= End(th) /\ End(th) <= capacity
  BY <1>1, BlockBounds DEF IInv, Fits
<1>3. moved \in Thread /\ moved.pc = "loadMark" /\ End(moved) = End(th)
  BY <1>1 DEF Thread, End, Start
<1>4. /\ thread' = [thread EXCEPT ![t] = moved] /\ blocks' = Append(blocks, blk)
      /\ current' = End(th) /\ UNCHANGED watermark /\ allocs' = allocs + 1
      /\ peak' = IF End(th) > peak THEN End(th) ELSE peak
  BY DEF Reserve
<1>5. th.align \in Aligns \union {1}
  BY <1>1 DEF Thread
<1>6. blk.start = Start(th) /\ blk.end = End(th)
  OBVIOUS
<1>7. blk \in Block
  BY <1>2, <1>5 DEF Block
<1> HIDE DEF th, blk, moved
<1>8. TypeOK'
  BY <1>2, <1>3, <1>4, <1>7 DEF IInv, TypeOK
<1>9. \A u \in Threads : thread'[u] = IF u = t THEN moved ELSE thread[u]
  BY <1>4 DEF IInv, TypeOK
<1>10. Fits'
  BY <1>3, <1>9 DEF IInv, Fits
<1>11. /\ DOMAIN blocks = 1..Len(blocks) /\ Len(blocks) \in Nat
       /\ DOMAIN blocks' = 1..(Len(blocks) + 1)
       /\ blocks'[Len(blocks) + 1] = blk
       /\ \A i \in DOMAIN blocks : blocks'[i] = blocks[i]
       /\ \A i \in DOMAIN blocks : blocks[i] \in Block
  BY <1>4 DEF IInv, TypeOK
<1>12. \A i \in DOMAIN blocks : blocks[i].end \in Nat /\ blocks[i].end <= current
  BY <1>11 DEF IInv, Below, Block
<1>13. current \in Nat
  BY DEF IInv, TypeOK
<1>14. Below'
  BY <1>2, <1>4, <1>6, <1>11, <1>12, <1>13 DEF Below
<1>15. BlocksDisjoint'
  <2>1. \A i \in DOMAIN blocks' : blocks'[i].start <= blocks'[i].end /\ blocks'[i].end <= capacity
    BY <1>2, <1>6, <1>11 DEF IInv, BlocksDisjoint
  <2>2. ASSUME NEW i \in DOMAIN blocks', NEW j \in DOMAIN blocks', i < j
        PROVE  blocks'[i].end <= blocks'[j].start
    <3>1. CASE j = Len(blocks) + 1
      BY <3>1, <2>2, <1>2, <1>6, <1>11, <1>12, <1>13
    <3>2. CASE j # Len(blocks) + 1
      BY <3>2, <2>2, <1>11 DEF IInv, BlocksDisjoint
    <3>3. QED
      BY <3>1, <3>2
  <2>3. QED
    BY <2>1, <2>2 DEF BlocksDisjoint
<1>16. peak' \in Nat /\ peak <= peak' /\ End(th) <= peak' /\ (peak' = End(th) \/ peak' = peak)
  BY <1>2, <1>4 DEF IInv, TypeOK
<1>17. /\ watermark <= peak' /\ watermark <= peak
       /\ \A u \in Threads : Marking(u) => End(thread[u]) \in Nat
       /\ watermark \in Nat /\ peak \in Nat
  BY <1>16, BlockBounds DEF IInv, MarkOnItsWay, TypeOK
<1>18. \A u \in Threads : /\ Marking(u)' => End(thread'[u]) <= peak'
                          /\ thread'[u].pc = "mark" => thread'[u].mark <= watermark'
  BY <1>3, <1>4, <1>9, <1>16, <1>17 DEF IInv, MarkOnItsWay, Marking
<1>19. watermark' = peak' \/ \E u \in Threads : Marking(u)' /\ End(thread'[u]) = peak'
  <2>1. CASE peak' = End(th)
    BY <2>1, <1>3, <1>9 DEF Marking
  <2>2. CASE peak' = peak /\ watermark # peak
    <3>1. PICK u \in Threads : Marking(u) /\ End(thread[u]) = peak
      BY <2>2 DEF IInv, MarkOnItsWay
    <3>2. u # t
      BY <3>1, <1>1 DEF Marking, th
    <3>3. QED
      BY <2>2, <3>1, <3>2, <1>9 DEF Marking
  <2>3. CASE peak' = peak /\ watermark = peak
    BY <2>3, <1>4
  <2>4. QED
    BY <2>1, <2>2, <2>3, <1>16
<1>20. QED
  BY <1>4, <1>8, <1>10, <1>14, <1>15, <1>17, <1>18, <1>19 DEF IInv, MarkOnItsWay

(* The exchange on the watermark succeeds on the value compared with. *)
LEMMA RaiseMarkStep ==
  ASSUME IInv, NEW t \in Threads, RaiseMark(t)
  PROVE  IInv'
<1>1. /\ thread[t] \in Thread /\ thread[t].pc = "mark" /\ Marking(t)
      /\ thread[t].mark \in Nat /\ thread[t].mark <= watermark
      /\ End(thread[t]) \in Nat /\ End(thread[t]) <= peak
      /\ watermark \in Nat /\ peak \in Nat
  BY BlockBounds DEF RaiseMark, IInv, TypeOK, Marking, MarkOnItsWay, Thread
<1>2. Idle \in Thread /\ Idle.pc = "idle"
  BY DEF Idle, Thread
<1>3. CASE /\ End(thread[t]) <= thread[t].mark
           /\ thread' = [thread EXCEPT ![t] = Idle]
           /\ UNCHANGED <<current, watermark, blocks, peak, allocs>>
  <2>1. ~(End(thread[t]) > watermark)
    BY <1>1, <1>3
  <2> HIDE DEF Idle
  <2>2. QED
    BY <1>1, <1>2, <1>3, <2>1, ThreadMoves
<1>4. CASE /\ End(thread[t]) > thread[t].mark
           /\ watermark = thread[t].mark
           /\ watermark' = End(thread[t])
           /\ thread' = [thread EXCEPT ![t] = Idle]
           /\ UNCHANGED <<current, blocks, peak, allocs>>
  <2>1. \A u \in Threads : thread'[u] = IF u = t THEN Idle ELSE thread[u]
    BY <1>4 DEF IInv, TypeOK
  <2>2. thread' \in [Threads -> Thread]
    BY <1>2, <1>4 DEF IInv, TypeOK
  <2>3. TypeOK' /\ Fits' /\ Below' /\ BlocksDisjoint'
    BY <1>1, <1>2, <1>4, <2>1, <2>2
       DEF IInv, TypeOK, Fits, Below, BlocksDisjoint
  <2>4. watermark' <= peak' /\ watermark < watermark' /\ watermark' \in Nat
    BY <1>1, <1>4
  <2>5. watermark' = peak' \/ \E u \in Threads : Marking(u)' /\ End(thread'[u]) = peak'
    <3>1. CASE End(thread[t]) = peak
      BY <3>1, <1>4
    <3>2. CASE End(thread[t]) # peak
      <4>1. PICK u \in Threads : Marking(u) /\ End(thread[u]) = peak
        BY <1>1, <1>4, <2>4 DEF IInv, MarkOnItsWay
      <4>2. QED
        BY <4>1, <3>2, <2>1, <1>4 DEF Marking
    <3>3. QED
      BY <3>1, <3>2
  <2>6. \A u \in Threads : thread[u].pc = "mark" => thread[u].mark \in Nat
    BY DEF IInv, TypeOK, Thread
  <2>7. \A u \in Threads : /\ Marking(u)' => End(thread'[u]) <= peak'
                           /\ thread'[u].pc = "mark" => thread'[u].mark <= watermark'
    BY <1>1, <1>2, <1>4, <2>1, <2>4, <2>6 DEF IInv, MarkOnItsWay, Marking
  <2>8. QED
    BY <2>3, <2>4, <2>5, <2>7 DEF IInv, MarkOnItsWay
<1>5. CASE /\ End(thread[t]) > thread[t].mark
           /\ thread' = [thread EXCEPT ![t].mark = watermark]
           /\ UNCHANGED <<current, watermark, blocks, peak, allocs>>
  <2> DEFINE th == [thread[t] EXCEPT !.mark = watermark]
  <2>1. /\ th \in Thread /\ th.pc = "mark" /\ th.mark = watermark
        /\ End(th) = End(thread[t])
    BY <1>1 DEF Thread, End, Start
  <2>2. thread' = [thread EXCEPT ![t] = th]
    BY <1>5
  <2> HIDE DEF th
  <2>3. /\ th.pc # "reserve" /\ th.mark <= watermark
        /\ th.pc \in {"loadMark", "mark"}
    BY <1>1, <2>1
  <2>4. QED
    BY <1>1, <1>5, <2>1, <2>2, <2>3, ThreadMoves
<1>6. QED
  BY <1>3, <1>4, <1>5 DEF RaiseMark

LEMMA NextIInv == IInv /\ [Next]_vars => IInv'
<1> SUFFICES ASSUME IInv, [Next]_vars PROVE IInv'
  OBVIOUS
<1>0. current \in Nat /\ thread \in [Threads -> Thread] /\ watermark \in Nat
  BY DEF IInv, TypeOK
<1>1. ASSUME NEW t \in Threads, NEW size \in Sizes, NEW align \in Aligns,
             Allocate(t, size, align)
      PROVE  IInv'
  <2>1. PICK th \in Thread : /\ thread' = [thread EXCEPT ![t] = th]
                             /\ th.pc \in {"reserve", "panicked"}
                             /\ th.pc = "reserve" => End(th) <= capacity
    BY <1>0, <1>1, Loaded DEF Allocate
  <2>2. ~Marking(t)
    BY <1>1 DEF Allocate, Marking
  <2>3. QED
    BY <1>1, <2>1, <2>2, ThreadMoves DEF Allocate
<1>2. ASSUME NEW t \in Threads, Retry(t)
      PROVE  IInv'
  <2>1. thread[t].size \in Sizes \union {0} /\ thread[t].align \in Aligns \union {1}
    BY <1>0 DEF Thread
  <2>2. PICK th \in Thread : /\ thread' = [thread EXCEPT ![t] = th]
                             /\ th.pc \in {"reserve", "panicked"}
                             /\ th.pc = "reserve" => End(th) <= capacity
    BY <1>0, <1>2, <2>1, Loaded DEF Retry
  <2>3. ~Marking(t)
    BY <1>2 DEF Retry, Marking
  <2>4. QED
    BY <1>2, <2>2, <2>3, ThreadMoves DEF Retry
<1>3. ASSUME NEW t \in Threads, LoadMark(t)
      PROVE  IInv'
  <2> DEFINE th == [thread[t] EXCEPT !.pc = "mark", !.mark = watermark]
  <2>1. thread[t] \in Thread /\ Marking(t)
    BY <1>0, <1>3 DEF LoadMark, Marking
  <2>2. /\ th \in Thread /\ th.pc = "mark" /\ th.mark = watermark
        /\ End(th) = End(thread[t])
    BY <1>0, <2>1 DEF Thread, End, Start
  <2>3. thread' = [thread EXCEPT ![t] = th]
    BY <1>3 DEF LoadMark
  <2> HIDE DEF th
  <2>4. /\ th.pc # "reserve" /\ th.mark <= watermark
        /\ th.pc \in {"loadMark", "mark"}
    BY <1>0, <2>2
  <2>5. QED
    BY <1>3, <2>1, <2>2, <2>3, <2>4, ThreadMoves DEF LoadMark
<1>4. CASE Reset
  <2>1. /\ blocks' = <<>> /\ current' = 0
        /\ UNCHANGED <<watermark, thread, peak, allocs>>
    BY <1>4 DEF Reset
  <2>2. blocks' \in Seq(Block) /\ DOMAIN blocks' = {}
    BY <2>1
  <2>3. QED
    BY <2>1, <2>2, PoolAssumption
       DEF IInv, TypeOK, Fits, Below, BlocksDisjoint, MarkOnItsWay, Marking
<1>5. CASE UNCHANGED vars
  BY <1>5 DEF vars, IInv, TypeOK, Fits, Below, BlocksDisjoint, MarkOnItsWay, Marking
<1>6. QED
  BY <1>1, <1>2, <1>3, <1>4, <1>5, ReserveStep, RaiseMarkStep DEF Next

-----------------------------------------------------------------------------
LEMMA Inductive == Spec => []IInv
BY InitIInv, NextIInv, PTL DEF Spec

(* The type invariant of the pool. *)
THEOREM PoolTypeCorrect == Spec => []TypeOK
<1>1. IInv => TypeOK
  BY DEF IInv
<1>2. QED
  BY <1>1, Inductive, PTL

(* No two blocks handed out since the last reset share a byte, and none      *)
(* leaves the pool, however loads, exchanges and resets interleave.          *)
THEOREM BlocksDisjointHolds == Spec => []BlocksDisjoint
<1>1. IInv => BlocksDisjoint
  BY DEF IInv
<1>2. QED
  BY <1>1, Inductive, PTL

(* With no allocation under way the watermark is the peak usage, whatever    *)
(* the order in which threads raised it.                                     *)
THEOREM WatermarkIsPeakHolds == Spec => []WatermarkIsPeak
<1>1. IInv => WatermarkIsPeak
  BY DEF IInv, MarkOnItsWay, Marking, WatermarkIsPeak
<1>2. QED
  BY <1>1, Inductive, PTL

(* The pool's whole promise: disjoint blocks inside it, and a true peak.     *)
THEOREM PoolSoundHolds == Spec => []PoolSound
<1>1. TypeOK /\ BlocksDisjoint /\ WatermarkIsPeak => PoolSound
  BY DEF PoolSound
<1>2. QED
  BY <1>1, PoolTypeCorrect, BlocksDisjointHolds, WatermarkIsPeakHolds, PTL

-----------------------------------------------------------------------------
LEMMA ModUnique ==
  ASSUME NEW n \in Nat \ {0}, NEW q \in Int, NEW r \in 0..(n - 1)
  PROVE  (n * q + r) % n = r
  OBVIOUS

LEMMA ModDef ==
  ASSUME NEW n \in Nat \ {0}, NEW a \in Int
  PROVE  /\ a % n \in 0..(n - 1)
         /\ a \div n \in Int
         /\ a = n * (a \div n) + (a % n)
  OBVIOUS

LEMMA ModShift ==
  ASSUME NEW n \in Nat \ {0}, NEW a \in Int, NEW w \in Int, w % n = 0
  PROVE  (a + w) % n = a % n
<1>1. PICK q \in Int : w = n * q
  <2>1. w = n * (w \div n) + 0
    BY ModDef
  <2>2. QED
    BY <2>1, ModDef
<1>2. a + w = n * ((a \div n) + q) + (a % n)
  BY <1>1, ModDef
<1> DEFINE s == (a \div n) + q
           r == a % n
<1>3. s \in Int /\ r \in 0..(n - 1)
  BY <1>1, ModDef
<1>4. a + w = n * s + r
  BY <1>2
<1> HIDE DEF s
<1>5. (n * s + r) % n = r
  <2> HIDE DEF r
  <2>1. QED
    BY <1>3, ModUnique
<1>6. QED
  BY <1>4, <1>5

LEMMA ModApart ==
  ASSUME NEW n \in Nat \ {0}, NEW a \in Int, NEW d \in 1..(n - 1)
  PROVE  (a + d) % n # a % n
<1>1. SUFFICES ASSUME (a + d) % n = a % n PROVE FALSE
  OBVIOUS
<1> DEFINE p == a \div n
           q == (a + d) \div n
<1>2. p \in Int /\ q \in Int
  BY ModDef
<1>3. n * q = n * p + d
  BY <1>1, ModDef
<1> HIDE DEF p, q
<1>4. n * (q - p) = d
  BY <1>2, <1>3
<1>5. CASE q - p <= 0
  BY <1>2, <1>4, <1>5
<1>6. CASE q - p >= 1
  <2>1. n * (q - p) >= n
    BY <1>2, <1>6
  <2>2. QED
    BY <1>4, <2>1
<1>7. QED
  BY <1>2, <1>5, <1>6

-----------------------------------------------------------------------------
LEMMA OutstandingIs ==
  ASSUME NEW h \in 0..(Word - 1), NEW t \in 0..(Word - 1)
  PROVE  (h - t) % Word = IF h >= t THEN h - t ELSE h - t + Word
<1>1. Word \in Nat \ {0}
  BY RingAssumption
<1>2. CASE h >= t
  <2>1. h - t = Word * 0 + (h - t) /\ h - t \in 0..(Word - 1)
    BY <1>1, <1>2
  <2>2. QED
    BY <1>1, <1>2, <2>1, ModUnique
<1>3. CASE h < t
  <2>1. h - t = Word * (-1) + (h - t + Word) /\ h - t + Word \in 0..(Word - 1)
    BY <1>1, <1>3
  <2> DEFINE r == h - t + Word
  <2>2. (Word * (-1) + r) % Word = r
    <3>1. r \in 0..(Word - 1) /\ -1 \in Int
      BY <2>1
    <3> HIDE DEF r
    <3>2. QED
      BY <1>1, <3>1, ModUnique
  <2>3. QED
    BY <1>1, <1>3, <2>1, <2>2
<1>4. QED
  BY <1>1, <1>2, <1>3

LEMMA AdvancedIs ==
  ASSUME NEW c \in 0..(Word - 1)
  PROVE  /\ Advanced(c) \in 0..(Word - 1)
         /\ Advanced(c) = IF c + 1 = Word THEN 0 ELSE c + 1
<1>1. Word \in Nat \ {0}
  BY RingAssumption
<1>2. CASE c + 1 = Word
  <2>1. (Word * 1 + 0) % Word = 0
    BY <1>1, ModUnique
  <2>2. QED
    BY <1>1, <1>2, <2>1 DEF Advanced
<1>3. CASE c + 1 # Word
  <2>1. c + 1 \in 0..(Word - 1)
    BY <1>1, <1>3
  <2>2. (Word * 0 + (c + 1)) % Word = c + 1
    BY <1>1, <2>1, ModUnique
  <2>3. QED
    BY <1>1, <1>3, <2>1, <2>2 DEF Advanced
<1>4. QED
  BY <1>2, <1>3

(* Moving a cursor by a whole word, or by none, leaves its slot alone. *)
LEMMA SameSlot ==
  ASSUME NEW a \in Int
  PROVE  (a + Word) % N = a % N /\ (a - Word) % N = a % N
<1>1. N \in Nat \ {0} /\ Word \in Int /\ Word % N = 0
  BY RingAssumption
<1>2. \A b \in Int : (b + Word) % N = b % N
  BY <1>1, ModShift
<1>3. (a - Word) + Word = a /\ a - Word \in Int
  BY <1>1
<1>4. QED
  BY <1>2, <1>3

(* How the cursors' steps move what lies between them. *)
LEMMA AfterAnnounce ==
  ASSUME NEW h \in 0..(Word - 1), NEW t \in 0..(Word - 1), (h - t) % Word < N
  PROVE  /\ (Advanced(h) - t) % Word = ((h - t) % Word) + 1
         /\ (t + ((h - t) % Word)) % N = h % N
<1>1. Word \in Nat /\ N \in Nat /\ Word > N
  BY RingAssumption
<1> DEFINE d == (h - t) % Word
<1>2. d = IF h >= t THEN h - t ELSE h - t + Word
  BY OutstandingIs
<1>3. /\ Advanced(h) \in 0..(Word - 1)
      /\ Advanced(h) = IF h + 1 = Word THEN 0 ELSE h + 1
  BY AdvancedIs
<1>4. (Advanced(h) - t) % Word =
        IF Advanced(h) >= t THEN Advanced(h) - t ELSE Advanced(h) - t + Word
  BY <1>3, OutstandingIs
<1>5. d < N
  OBVIOUS
<1> HIDE DEF d
<1>6. (Advanced(h) - t) % Word = d + 1
  BY <1>1, <1>2, <1>3, <1>4, <1>5
<1>7. t + d = h \/ t + d = h + Word
  BY <1>1, <1>2
<1>8. (t + d) % N = h % N
  BY <1>7, SameSlot
<1>9. QED
  BY <1>6, <1>8 DEF d

LEMMA AfterRelease ==
  ASSUME NEW h \in 0..(Word - 1), NEW t \in 0..(Word - 1), (h - t) % Word > 0
  PROVE  /\ (h - Advanced(t)) % Word = ((h - t) % Word) - 1
         /\ \A k \in Nat : (Advanced(t) + k - 1) % N = (t + k) % N
<1>1. Word \in Nat /\ N \in Nat /\ Word > N
  BY RingAssumption
<1> DEFINE d == (h - t) % Word
<1>2. d = IF h >= t THEN h - t ELSE h - t + Word
  BY OutstandingIs
<1>3. /\ Advanced(t) \in 0..(Word - 1)
      /\ Advanced(t) = IF t + 1 = Word THEN 0 ELSE t + 1
  BY AdvancedIs
<1>4. (h - Advanced(t)) % Word =
        IF h >= Advanced(t) THEN h - Advanced(t) ELSE h - Advanced(t) + Word
  BY <1>3, OutstandingIs
<1>5. d > 0
  OBVIOUS
<1> HIDE DEF d
<1>6. (h - Advanced(t)) % Word = d - 1
  BY <1>1, <1>2, <1>3, <1>4, <1>5
<1>7. ASSUME NEW k \in Nat PROVE (Advanced(t) + k - 1) % N = (t + k) % N
  <2>1. Advanced(t) + k - 1 = t + k \/ Advanced(t) + k - 1 = (t + k) - Word
    BY <1>1, <1>3
  <2>2. t + k \in Int
    OBVIOUS
  <2>3. QED
    BY <2>1, <2>2, SameSlot
<1>8. QED
  BY <1>6, <1>7 DEF d

(* The slot the producer writes is none of those that wait. *)
LEMMA WrittenApart ==
  ASSUME NEW h \in 0..(Word - 1), NEW t \in 0..(Word - 1), (h - t) % Word < N,
         NEW k \in 1..((h - t) % Word)
  PROVE  (t + k - 1) % N # h % N
<1> DEFINE d == (h - t) % Word
<1>1. Word \in Nat /\ N \in Nat \ {0} /\ Word > N
  BY RingAssumption
<1>2. d \in Int /\ k \in 1..d /\ d < N
  <2>1. d = IF h >= t THEN h - t ELSE h - t + Word
    BY OutstandingIs
  <2> HIDE DEF d
  <2>2. d \in Int
    BY <1>1, <2>1
  <2>3. QED
    BY <2>2 DEF d
<1>3. (t + d) % N = h % N
  BY AfterAnnounce
<1> HIDE DEF d
<1>4. d - k + 1 \in 1..(N - 1) /\ t + k - 1 \in Int
  BY <1>1, <1>2
<1>5. ((t + k - 1) + (d - k + 1)) % N # (t + k - 1) % N
  BY <1>1, <1>4, ModApart
<1>6. (t + k - 1) + (d - k + 1) = t + d
  BY <1>2
<1>7. QED
  BY <1>3, <1>5, <1>6

-----------------------------------------------------------------------------
(* What each thread knows between its steps: the producer that its slot is   *)
(* free and, once written, holds its tick; the consumer that a tick waits    *)
(* and that what it has copied is that tick.                                 *)
Handover ==
  /\ Outstanding <= N
  /\ producer.pc # "idle" => Outstanding < N /\ producer.tick \in Ticks
  /\ producer.pc = "announce" => buf[SlotOf(head)] = producer.tick
  /\ consumer.pc # "idle" => Outstanding > 0
  /\ consumer.pc = "release" => consumer.tick = buf[SlotOf(tail)]

RingInv == RingTypeOK /\ Handover

LEMMA OutstandingType ==
  ASSUME RingTypeOK
  PROVE  Outstanding \in 0..(Word - 1)
<1>1. Outstanding = IF head >= tail THEN head - tail ELSE head - tail + Word
  BY OutstandingIs DEF RingTypeOK, Outstanding
<1>2. QED
  BY <1>1, RingAssumption DEF RingTypeOK

LEMMA SlotType == \A c \in Int : c % N \in 0..(N - 1)
  BY ModDef, RingAssumption

LEMMA TailApart ==
  ASSUME RingTypeOK, Outstanding < N, Outstanding > 0
  PROVE  SlotOf(tail) # SlotOf(head)
<1>1. 1 \in 1..Outstanding
  BY OutstandingType
<1>2. (tail + 1 - 1) % N # head % N
  BY <1>1, WrittenApart DEF RingTypeOK, Outstanding
<1>3. tail + 1 - 1 = tail
  BY RingAssumption DEF RingTypeOK
<1>4. QED
  BY <1>2, <1>3 DEF SlotOf

LEMMA RingInit_Inv ==
  ASSUME RingInit
  PROVE  RingInv
<1>1. Outstanding = 0
  <2>1. 0 \in 0..(Word - 1)
    BY RingAssumption
  <2>2. Outstanding = 0 - 0
    BY <2>1, OutstandingIs DEF RingInit, Outstanding
  <2>3. QED
    BY <2>2
<1>2. RingTypeOK
  BY RingAssumption DEF RingInit, RingTypeOK
<1>3. QED
  BY <1>1, <1>2, RingAssumption DEF RingInit, RingInv, Handover

LEMMA RingType_Step ==
  ASSUME RingTypeOK, RingNext
  PROVE  RingTypeOK'
<1>1. SlotOf(head) \in 0..(N - 1) /\ SlotOf(tail) \in 0..(N - 1)
  BY SlotType DEF RingTypeOK, SlotOf
<1>2. Advanced(head) \in 0..(Word - 1) /\ Advanced(tail) \in 0..(Word - 1)
  BY AdvancedIs DEF RingTypeOK
<1>3. ASSUME NEW tick \in Ticks, FindRoom(tick) PROVE RingTypeOK'
  BY <1>3, RingAssumption DEF RingTypeOK, FindRoom
<1>4. CASE WriteTick
  <2>1. producer.tick \in Ticks \union {Zero}
    BY DEF RingTypeOK
  <2>2. buf' \in [0..(N - 1) -> Ticks \union {Zero}]
    BY <1>1, <1>4, <2>1 DEF RingTypeOK, WriteTick
  <2>3. QED
    BY <1>4, <2>2 DEF RingTypeOK, WriteTick
<1>5. CASE Announce
  BY <1>2, <1>5 DEF RingTypeOK, Announce
<1>6. CASE SeeTick
  BY <1>6 DEF RingTypeOK, SeeTick
<1>7. CASE ReadTick
  BY <1>1, <1>7 DEF RingTypeOK, ReadTick
<1>8. CASE ReleaseSlot
  <2>1. consumer.tick \in Ticks \union {Zero, Torn}
    BY DEF RingTypeOK
  <2>2. received' \in Seq(Ticks \union {Zero, Torn})
    BY <1>8, <2>1 DEF RingTypeOK, ReleaseSlot
  <2>3. QED
    BY <1>2, <1>8, <2>2 DEF RingTypeOK, ReleaseSlot
<1>9. QED
  BY <1>3, <1>4, <1>5, <1>6, <1>7, <1>8 DEF RingNext

(* How many ticks wait after each thread's last step. *)
LEMMA OutstandingAfterAnnounce ==
  ASSUME RingInv, Announce
  PROVE  Outstanding' = Outstanding + 1 /\ Outstanding < N
<1>1. (head - tail) % Word < N
  BY DEF RingInv, Handover, Announce, Outstanding
<1>2. (Advanced(head) - tail) % Word = ((head - tail) % Word) + 1
  BY <1>1, AfterAnnounce DEF RingInv, RingTypeOK
<1>3. QED
  BY <1>1, <1>2 DEF Announce, Outstanding

LEMMA OutstandingAfterRelease ==
  ASSUME RingInv, ReleaseSlot
  PROVE  Outstanding' = Outstanding - 1 /\ Outstanding > 0
<1>1. (head - tail) % Word > 0
  BY DEF RingInv, Handover, ReleaseSlot, Outstanding
<1>2. (head - Advanced(tail)) % Word = ((head - tail) % Word) - 1
  BY <1>1, AfterRelease DEF RingInv, RingTypeOK
<1>3. QED
  BY <1>1, <1>2 DEF ReleaseSlot, Outstanding

LEMMA Handover_Step ==
  ASSUME RingInv, RingNext
  PROVE  Handover'
<1>1. Outstanding \in 0..(Word - 1) /\ N \in Nat
  BY OutstandingType, RingAssumption DEF RingInv
<1>2. SlotOf(head) \in 0..(N - 1) /\ SlotOf(tail) \in 0..(N - 1)
  BY SlotType DEF RingInv, RingTypeOK, SlotOf
<1>3. ASSUME NEW tick \in Ticks, FindRoom(tick) PROVE Handover'
  <2>1. Outstanding' = Outstanding /\ SlotOf(tail)' = SlotOf(tail)
    BY <1>3 DEF FindRoom, Outstanding, SlotOf
  <2>2. QED
    BY <1>3, <2>1 DEF RingInv, Handover, FindRoom
<1>4. CASE WriteTick
  <2>1. /\ Outstanding' = Outstanding
        /\ SlotOf(tail)' = SlotOf(tail) /\ SlotOf(head)' = SlotOf(head)
    BY <1>4 DEF WriteTick, Outstanding, SlotOf
  <2>2. buf'[SlotOf(head)] = producer.tick
    BY <1>2, <1>4 DEF RingInv, RingTypeOK, WriteTick
  <2>3. Outstanding < N
    BY <1>4 DEF RingInv, Handover, WriteTick
  <2>4. consumer.pc = "release" => buf'[SlotOf(tail)] = buf[SlotOf(tail)]
    <3>1. Outstanding > 0 => SlotOf(tail) # SlotOf(head)
      BY <2>3, TailApart DEF RingInv
    <3>2. QED
      BY <1>2, <1>4, <3>1 DEF RingInv, Handover, RingTypeOK, WriteTick
  <2>5. producer'.pc = "announce" /\ producer'.tick = producer.tick /\ producer.tick \in Ticks
    BY <1>4 DEF RingInv, Handover, RingTypeOK, WriteTick
  <2>6. QED
    BY <1>4, <2>1, <2>2, <2>3, <2>4, <2>5 DEF RingInv, Handover, WriteTick
<1>5. CASE Announce
  <2>1. Outstanding' = Outstanding + 1 /\ Outstanding < N
    BY <1>5, OutstandingAfterAnnounce
  <2>2. producer'.pc = "idle" /\ SlotOf(tail)' = SlotOf(tail)
    BY <1>5 DEF RingInv, RingTypeOK, Announce, SlotOf
  <2>3. QED
    BY <1>1, <1>5, <2>1, <2>2 DEF RingInv, Handover, Announce
<1>6. CASE SeeTick
  <2>1. /\ Outstanding' = Outstanding
        /\ SlotOf(tail)' = SlotOf(tail) /\ SlotOf(head)' = SlotOf(head)
    BY <1>6 DEF SeeTick, Outstanding, SlotOf
  <2>2. consumer'.pc = "read"
    BY <1>6 DEF RingInv, RingTypeOK, SeeTick
  <2>3. QED
    BY <1>6, <2>1, <2>2 DEF RingInv, Handover, SeeTick
<1>7. CASE ReadTick
  <2>1. /\ Outstanding' = Outstanding
        /\ SlotOf(tail)' = SlotOf(tail) /\ SlotOf(head)' = SlotOf(head)
    BY <1>7 DEF ReadTick, Outstanding, SlotOf
  <2>2. Outstanding > 0
    BY <1>7 DEF RingInv, Handover, ReadTick
  <2>3. ~ BeingWritten(SlotOf(tail))
    BY <2>2, TailApart DEF RingInv, Handover, BeingWritten
  <2>4. consumer'.tick = buf[SlotOf(tail)]
    BY <1>7, <2>3 DEF ReadTick
  <2>5. QED
    BY <1>7, <2>1, <2>2, <2>4 DEF RingInv, Handover, ReadTick
<1>8. CASE ReleaseSlot
  <2>1. Outstanding' = Outstanding - 1 /\ Outstanding > 0
    BY <1>8, OutstandingAfterRelease
  <2>2. consumer'.pc = "idle" /\ SlotOf(head)' = SlotOf(head)
    BY <1>8 DEF RingInv, RingTypeOK, ReleaseSlot, SlotOf
  <2>3. QED
    BY <1>1, <1>8, <2>1, <2>2 DEF RingInv, Handover, ReleaseSlot
<1>9. QED
  BY <1>3, <1>4, <1>5, <1>6, <1>7, <1>8 DEF RingNext

LEMMA RingInvariant == RingSpec => []RingInv
<1>1. RingInit => RingInv
  BY RingInit_Inv
<1>2. RingInv /\ [RingNext]_ringVars => RingInv'
  <2>1. RingInv /\ RingNext => RingInv'
    BY RingType_Step, Handover_Step DEF RingInv
  <2>2. RingInv /\ UNCHANGED ringVars => RingInv'
    BY DEF RingInv, RingTypeOK, Handover, Outstanding, SlotOf, ringVars
  <2>3. QED
    BY <2>1, <2>2
<1>3. QED
  BY <1>1, <1>2, PTL DEF RingSpec

-----------------------------------------------------------------------------
(* The refinement: an announcement is an Enqueue, a release is a Dequeue,    *)
(* and every other step leaves the queue and what was delivered alone.       *)
Tick == Ticks \union {Zero}

LEMMA WaitingSeq ==
  ASSUME RingInv
  PROVE  /\ Waiting \in Seq(Tick)
         /\ Len(Waiting) = Outstanding
         /\ \A k \in 1..Outstanding : Waiting[k] = buf[(tail + k - 1) % N]
<1>1. Outstanding \in Nat
  BY OutstandingType DEF RingInv
<1>2. ASSUME NEW k \in 1..Outstanding PROVE buf[(tail + k - 1) % N] \in Tick
  <2>1. tail + k - 1 \in Int
    BY <1>1 DEF RingInv, RingTypeOK
  <2>2. (tail + k - 1) % N \in 0..(N - 1)
    BY <2>1, SlotType
  <2>3. QED
    BY <2>2 DEF RingInv, RingTypeOK, Tick
<1>3. Waiting \in [1..Outstanding -> Tick]
  BY <1>2 DEF Waiting
<1>4. QED
  BY <1>1, <1>3 DEF Waiting

LEMMA WaitingAfterWrite ==
  ASSUME RingInv, WriteTick
  PROVE  Waiting' = Waiting
<1>1. Outstanding' = Outstanding /\ tail' = tail /\ Outstanding \in Nat
  BY OutstandingType DEF WriteTick, Outstanding, RingInv
<1>2. ASSUME NEW k \in 1..Outstanding
      PROVE  buf'[(tail + k - 1) % N] = buf[(tail + k - 1) % N]
  <2>1. (tail + k - 1) % N # SlotOf(head)
    BY WrittenApart DEF RingInv, RingTypeOK, Handover, WriteTick, Outstanding, SlotOf
  <2>2. tail + k - 1 \in Int
    BY <1>1 DEF RingInv, RingTypeOK
  <2>3. (tail + k - 1) % N \in 0..(N - 1)
    BY <2>2, SlotType
  <2>4. QED
    BY <2>1, <2>3 DEF RingInv, RingTypeOK, WriteTick
<1>3. QED
  BY <1>1, <1>2 DEF Waiting

LEMMA AnnounceEnqueues ==
  ASSUME RingInv, Announce
  PROVE  Ring!Enqueue(producer.tick) /\ producer.tick \in Ticks
<1>1. Outstanding' = Outstanding + 1 /\ Outstanding < N /\ Outstanding \in Nat
  BY OutstandingAfterAnnounce, OutstandingType DEF RingInv
<1>2. buf' = buf /\ tail' = tail /\ received' = received
  BY DEF Announce
<1>3. producer.tick \in Ticks /\ buf[head % N] = producer.tick
  BY DEF RingInv, Handover, Announce, SlotOf
<1>4. (tail + Outstanding) % N = head % N
  BY <1>1, AfterAnnounce DEF RingInv, RingTypeOK, Outstanding
<1>5. Waiting' = [k \in 1..(Outstanding + 1) |-> buf[(tail + k - 1) % N]]
  BY <1>1, <1>2 DEF Waiting
<1>6. Waiting' = Append(Waiting, producer.tick)
  <2> DEFINE more == [k \in 1..(Outstanding + 1) |-> buf[(tail + k - 1) % N]]
  <2>1. more = Append(Waiting, producer.tick)
    <3>1. more[Outstanding + 1] = producer.tick
      <4>1. tail + (Outstanding + 1) - 1 = tail + Outstanding
        BY <1>1 DEF RingInv, RingTypeOK
      <4>2. Outstanding + 1 \in 1..(Outstanding + 1)
        BY <1>1
      <4>3. QED
        BY <1>3, <1>4, <4>1, <4>2
    <3>2. \A k \in 1..Outstanding : more[k] = Waiting[k]
      BY <1>1, WaitingSeq
    <3>3. Append(Waiting, producer.tick) =
            [k \in 1..(Outstanding + 1) |-> IF k = Outstanding + 1 THEN producer.tick
                                                                   ELSE Waiting[k]]
      BY <1>1, WaitingSeq
    <3> DEFINE app == [k \in 1..(Outstanding + 1) |-> IF k = Outstanding + 1
                                                        THEN producer.tick ELSE Waiting[k]]
    <3>4. ASSUME NEW k \in 1..(Outstanding + 1) PROVE more[k] = app[k]
      <4>1. CASE k = Outstanding + 1
        BY <3>1, <4>1
      <4>2. CASE k # Outstanding + 1
        <5>1. k \in 1..Outstanding
          BY <1>1, <4>2
        <5>2. more[k] = Waiting[k]
          BY <3>2, <5>1
        <5> HIDE DEF more
        <5>3. QED
          BY <4>2, <5>2
      <4>3. QED
        BY <4>1, <4>2
    <3>5. more = app
      BY <3>4
    <3>6. QED
      BY <3>3, <3>5
  <2>2. QED
    BY <1>5, <2>1
<1>7. Len(Waiting) < N
  BY <1>1, WaitingSeq
<1>8. QED
  BY <1>2, <1>3, <1>6, <1>7 DEF Ring!Enqueue

LEMMA ReleaseDequeues ==
  ASSUME RingInv, ReleaseSlot
  PROVE  Ring!Dequeue
<1>1. Outstanding' = Outstanding - 1 /\ Outstanding > 0 /\ Outstanding \in Nat
  BY OutstandingAfterRelease, OutstandingType DEF RingInv
<1>2. buf' = buf /\ tail' = Advanced(tail)
  BY DEF ReleaseSlot
<1>3. Waiting[1] = consumer.tick
  <2>1. Waiting[1] = buf[(tail + 1 - 1) % N]
    BY <1>1, WaitingSeq
  <2>2. tail + 1 - 1 = tail
    BY RingAssumption DEF RingInv, RingTypeOK
  <2>3. QED
    BY <2>1, <2>2 DEF RingInv, Handover, ReleaseSlot, SlotOf
<1>4. Waiting' = [k \in 1..(Outstanding - 1) |-> buf[(Advanced(tail) + k - 1) % N]]
  BY <1>1, <1>2 DEF Waiting
<1>5. ASSUME NEW k \in 1..(Outstanding - 1)
      PROVE  buf[(Advanced(tail) + k - 1) % N] = Waiting[k + 1]
  <2>1. (Advanced(tail) + k - 1) % N = (tail + k) % N
    BY <1>1, AfterRelease DEF RingInv, RingTypeOK, Outstanding
  <2>2. Waiting[k + 1] = buf[(tail + (k + 1) - 1) % N]
    BY <1>1, WaitingSeq
  <2>3. tail + (k + 1) - 1 = tail + k
    BY <1>1 DEF RingInv, RingTypeOK
  <2>4. QED
    BY <2>1, <2>2, <2>3
<1>6. Waiting' = [k \in 1..(Outstanding - 1) |-> Waiting[k + 1]]
  BY <1>4, <1>5
<1>7. Tail(Waiting) = [k \in 1..(Outstanding - 1) |-> Waiting[k + 1]]
  <2>1. Waiting \in Seq(Tick) /\ Len(Waiting) = Outstanding /\ Waiting # <<>>
    BY <1>1, WaitingSeq
  <2>2. /\ Tail(Waiting) \in Seq(Tick)
        /\ Len(Tail(Waiting)) = Outstanding - 1
        /\ \A k \in 1..Len(Tail(Waiting)) : Tail(Waiting)[k] = Waiting[k + 1]
    BY <2>1, HeadTailProperties
  <2>3. Tail(Waiting) \in [1..(Outstanding - 1) -> Tick]
    BY <2>2, LenProperties
  <2>4. QED
    BY <2>2, <2>3
<1>8. Waiting # <<>> /\ Head(Waiting) = consumer.tick
  <2>1. Len(Waiting) # 0
    BY <1>1, WaitingSeq
  <2>2. Waiting # <<>>
    BY <2>1, WaitingSeq
  <2>3. Head(Waiting) = Waiting[1]
    BY <2>1, WaitingSeq
  <2>4. QED
    BY <1>3, <2>2, <2>3
<1>9. received' = Append(received, consumer.tick)
  BY DEF ReleaseSlot
<1>10. QED
  BY <1>6, <1>7, <1>8, <1>9 DEF Ring!Dequeue

(* The ring implements the bounded FIFO: whatever the two threads do, what   *)
(* pop_busy returns is what try_push accepted, whole, once and in order.     *)
THEOREM RingRefinesFifo == RingSpec => RingImplementsFifo
<1>1. RingInit => Ring!Init
  <2>1. SUFFICES ASSUME RingInit PROVE Ring!Init
    OBVIOUS
  <2>2. RingInv
    BY <2>1, RingInit_Inv
  <2>3. Outstanding = 0
    <3>1. 0 \in 0..(Word - 1)
      BY RingAssumption
    <3>2. QED
      BY <2>1, <3>1, OutstandingIs DEF RingInit, Outstanding
  <2>4. Waiting = <<>>
    BY <2>2, <2>3, WaitingSeq
  <2>5. QED
    BY <2>1, <2>4 DEF RingInit, Ring!Init
<1>2. RingInv /\ [RingNext]_ringVars => [Ring!Next]_<<Waiting, received>>
  <2>1. SUFFICES ASSUME RingInv, [RingNext]_ringVars
                 PROVE  [Ring!Next]_<<Waiting, received>>
    OBVIOUS
  <2>2. ASSUME NEW tick \in Ticks, FindRoom(tick) PROVE UNCHANGED <<Waiting, received>>
    BY <2>2 DEF FindRoom, Waiting, Outstanding
  <2>3. CASE WriteTick
    BY <2>1, <2>3, WaitingAfterWrite DEF WriteTick
  <2>4. CASE Announce
    BY <2>1, <2>4, AnnounceEnqueues DEF Ring!Next
  <2>5. CASE SeeTick
    BY <2>5 DEF SeeTick, Waiting, Outstanding
  <2>6. CASE ReadTick
    BY <2>6 DEF ReadTick, Waiting, Outstanding
  <2>7. CASE ReleaseSlot
    BY <2>1, <2>7, ReleaseDequeues DEF Ring!Next
  <2>8. CASE UNCHANGED ringVars
    BY <2>8 DEF ringVars, Waiting, Outstanding
  <2>9. QED
    BY <2>1, <2>2, <2>3, <2>4, <2>5, <2>6, <2>7, <2>8 DEF RingNext
<1>3. QED
  BY RingInvariant, <1>1, <1>2, PTL DEF RingSpec, RingImplementsFifo, Ring!Spec

-----------------------------------------------------------------------------
(* The array queue: its claims, its surplus and its consumer.                *)

(* The producers that have claimed an index beyond the capacity: all of them *)
(* will give it back.                                                        *)
Surplus ==
  {p \in Producers : push[p].pc \in {"check", "retract"} /\ push[p].index >= queueTail + CAPACITY}

Busy(p) == push[p].pc # "idle"

(* Claims are at or after the tail; those within the capacity are below the  *)
(* head, and no two producers hold the same one.                             *)
Claims ==
  /\ \A p \in Producers : Busy(p) => push[p].index \in queueTail..MaxPushes /\ push[p].item \in Items
  /\ \A p \in Producers : push[p].pc = "write" => push[p].index < queueTail + CAPACITY
  /\ \A p \in Producers : push[p].pc = "retract" => push[p].index >= queueTail + CAPACITY
  /\ \A p \in Producers : Busy(p) /\ push[p].index < queueTail + CAPACITY => push[p].index < queueHead
  /\ \A p, q \in Producers :
       Busy(p) /\ Busy(q) /\ p # q /\ push[p].index < queueTail + CAPACITY =>
         push[p].index # push[q].index

Counted ==
  Cardinality(Surplus)
    = IF queueHead > queueTail + CAPACITY THEN queueHead - (queueTail + CAPACITY) ELSE 0

(* The consumer runs alone, on the index it has read. *)
Consuming ==
  /\ pop.pc # "idle" => NoPush /\ pop.index = queueTail
  /\ pop.pc \in {"read", "advance"} => queueTail < queueHead
  /\ pop.pc = "advance" => pop.item = slots[Slot(queueTail)]

QueueInv ==
  /\ QueueTypeOK /\ queueTail <= queueHead /\ queueHead <= pushes
  /\ Claims /\ Counted /\ Consuming

LEMMA QueueConstants ==
  /\ CAPACITY \in Nat \ {0} /\ IndexWord \in Nat /\ MaxPushes \in Nat /\ MaxPushes < IndexWord
  /\ IsFiniteSet(Producers) /\ Uninit \notin Items
BY QueueAssumption

LEMMA SlotInRange == \A index \in Nat : Slot(index) \in 0..(CAPACITY - 1)
BY QueueConstants, ModDef DEF Slot

LEMMA SurplusFinite ==
  ASSUME QueueTypeOK
  PROVE  IsFiniteSet(Surplus) /\ Cardinality(Surplus) \in Nat
<1>1. Surplus \in SUBSET Producers
  BY DEF Surplus
<1> QED
  BY <1>1, QueueConstants, FS_Subset, FS_CardinalityType

(* The occupancy of a claim is exact. *)
LEMMA OccupancyIs ==
  ASSUME QueueInv, NEW p \in Producers, Busy(p)
  PROVE  Occupancy(push[p].index, queueTail) = push[p].index - queueTail
<1>1. push[p].index \in queueTail..MaxPushes /\ queueTail \in Nat
  BY DEF QueueInv, Claims, QueueTypeOK
<1>2. push[p].index - queueTail \in 0..(IndexWord - 1)
  BY <1>1, QueueConstants
<1>3. \A a \in 0..(IndexWord - 1) : a % IndexWord = a
  BY QueueConstants
<1> QED
  BY <1>2, <1>3 DEF Occupancy

LEMMA QueueInitially == QueueInit => QueueInv
<1> SUFFICES ASSUME QueueInit
             PROVE  QueueInv
  OBVIOUS
<1>1. QueueTypeOK
  <2>1. slots \in [0..(CAPACITY - 1) -> Items \union {Uninit}] /\ delivered \in Seq(Items \union {Uninit})
    BY DEF QueueInit
  <2> QED
    BY <2>1, QueueConstants DEF QueueInit, QueueTypeOK
<1>2. \A p \in Producers : push[p].pc = "idle"
  BY DEF QueueInit
<1>3. Surplus = {}
  BY <1>2 DEF Surplus
<1>4. Cardinality(Surplus) = 0
  BY <1>3, FS_EmptySet
<1>5. Counted
  BY <1>4, QueueConstants DEF QueueInit, Counted
<1>6. Claims
  BY <1>2 DEF Claims, Busy
<1>7. Consuming /\ queueTail <= queueHead /\ queueHead <= pushes
  BY DEF QueueInit, Consuming
<1> QED
  BY <1>1, <1>5, <1>6, <1>7 DEF QueueInv

-----------------------------------------------------------------------------
(* What one producer's step does to its record. *)
LEMMA ClaimKeeps ==
  ASSUME QueueInv, Phased, NEW p \in Producers, NEW item \in Items, Claim(p, item)
  PROVE  QueueInv'
<1>0. /\ queueHead \in Nat /\ queueTail \in Nat /\ pushes \in Nat /\ queueHead <= pushes
      /\ queueTail <= queueHead /\ pushes < MaxPushes
      /\ push[p].pc = "idle" /\ pop.pc = "idle"
      /\ queueHead' = queueHead + 1 /\ queueTail' = queueTail /\ pushes' = pushes + 1
      /\ UNCHANGED <<slots, pop, delivered>>
  BY DEF Claim, QueueInv, QueueTypeOK
<1>1. /\ push'[p] = [pc |-> "check", item |-> item, index |-> queueHead]
      /\ \A q \in Producers : q # p => push'[q] = push[q]
      /\ push' \in [Producers -> [pc : {"idle", "check", "retract", "write"},
                                  item : Items \union {Uninit}, index : Nat]]
  BY <1>0 DEF Claim, QueueInv, QueueTypeOK
<1>2. push'[p].pc = "check" /\ push'[p].item = item /\ push'[p].index = queueHead
  BY <1>1
<1>3. QueueTypeOK'
  BY <1>0, <1>1, QueueConstants DEF QueueInv, QueueTypeOK
<1>4. Claims'
  <2>1. ASSUME NEW q \in Producers, Busy(q)'
        PROVE  push'[q].index \in queueTail..MaxPushes /\ push'[q].item \in Items
    BY <1>0, <1>1, <1>2, <2>1, QueueConstants DEF QueueInv, Claims, Busy
  <2>2. ASSUME NEW q \in Producers
        PROVE  /\ push'[q].pc = "write" => push'[q].index < queueTail + CAPACITY
               /\ push'[q].pc = "retract" => push'[q].index >= queueTail + CAPACITY
    BY <1>1, <1>2 DEF QueueInv, Claims
  <2>3. ASSUME NEW q \in Producers, Busy(q)', push'[q].index < queueTail + CAPACITY
        PROVE  push'[q].index < queueHead + 1
    <3>1. CASE q = p
      BY <1>0, <1>2, <3>1
    <3>2. CASE q # p
      <4>1. push[q].index < queueHead /\ push[q].index \in Nat
        BY <1>1, <2>3, <3>2 DEF QueueInv, QueueTypeOK, Claims, Busy
      <4> QED
        BY <1>0, <1>1, <3>2, <4>1
    <3> QED
      BY <3>1, <3>2
  <2>4. ASSUME NEW q \in Producers, NEW r \in Producers, Busy(q)', Busy(r)', q # r,
               push'[q].index < queueTail + CAPACITY
        PROVE  push'[q].index # push'[r].index
    <3>1. \A u \in Producers : u # p /\ Busy(u) /\ push[u].index < queueTail + CAPACITY =>
            push[u].index < queueHead /\ push[u].index \in Nat
      BY DEF QueueInv, QueueTypeOK, Claims
    <3>2. CASE q = p
      <4>1. queueHead < queueTail + CAPACITY /\ r # p /\ Busy(r) /\ push'[r] = push[r]
        BY <1>1, <1>2, <2>4, <3>2 DEF Busy
      <4>2. push[r].index # queueHead
        BY <1>0, <3>1, <4>1
      <4> QED
        BY <1>2, <3>2, <4>1, <4>2
    <3>3. CASE r = p
      <4>1. q # p /\ Busy(q) /\ push'[q] = push[q]
        BY <1>1, <2>4, <3>3 DEF Busy
      <4>2. push[q].index # queueHead
        BY <1>0, <2>4, <3>1, <4>1
      <4> QED
        BY <1>2, <3>3, <4>1, <4>2
    <3>4. CASE q # p /\ r # p
      BY <1>1, <2>4, <3>4 DEF QueueInv, Claims, Busy
    <3> QED
      BY <3>2, <3>3, <3>4
  <2> QED
    BY <1>0, <2>1, <2>2, <2>3, <2>4 DEF Claims
<1>5. Counted'
  <2>1. p \notin Surplus
    BY <1>0 DEF Surplus
  <2>2. \A q \in Producers : q # p => (q \in Surplus' <=> q \in Surplus)
    BY <1>0, <1>1 DEF Surplus
  <2>3. CASE queueHead < queueTail + CAPACITY
    <3>1. p \notin Surplus'
      BY <1>0, <1>2, <2>3, QueueConstants DEF Surplus
    <3>2. Surplus' = Surplus
      BY <2>1, <2>2, <3>1 DEF Surplus
    <3>3. Cardinality(Surplus) = 0
      BY <1>0, <2>3, QueueConstants DEF QueueInv, Counted
    <3>4. ~ (queueHead' > queueTail' + CAPACITY)
      BY <1>0, <2>3, QueueConstants
    <3> QED
      BY <3>2, <3>3, <3>4 DEF Counted
  <2>4. CASE queueHead >= queueTail + CAPACITY
    <3>1. p \in Surplus'
      BY <1>0, <1>2, <2>4, QueueConstants DEF Surplus
    <3>2. Surplus' = Surplus \union {p}
      BY <2>1, <2>2, <3>1 DEF Surplus
    <3>3. Cardinality(Surplus') = Cardinality(Surplus) + 1
      BY <2>1, <3>2, SurplusFinite, FS_AddElement DEF QueueInv
    <3>4. Cardinality(Surplus) = queueHead - (queueTail + CAPACITY)
      BY <1>0, <2>4, QueueConstants DEF QueueInv, Counted
    <3>5. queueHead' > queueTail' + CAPACITY
      BY <1>0, <2>4, QueueConstants
    <3>6. Cardinality(Surplus') = queueHead' - (queueTail' + CAPACITY)
      BY <1>0, <3>3, <3>4, QueueConstants
    <3> QED
      BY <3>5, <3>6 DEF Counted
  <2> QED
    BY <1>0, <2>3, <2>4, QueueConstants
<1>6. Consuming'
  BY <1>0 DEF Consuming
<1>7. queueTail' <= queueHead' /\ queueHead' <= pushes'
  BY <1>0
<1> QED
  BY <1>3, <1>4, <1>5, <1>6, <1>7 DEF QueueInv

LEMMA CheckRoomKeeps ==
  ASSUME QueueInv, NEW p \in Producers, CheckRoom(p)
  PROVE  QueueInv' /\ push'[p].pc = IF push[p].index >= queueTail + CAPACITY THEN "retract" ELSE "write"
<1> DEFINE next == IF push[p].index >= queueTail + CAPACITY THEN "retract" ELSE "write"
<1>0. /\ push[p].pc = "check" /\ push[p].index \in Nat /\ queueTail \in Nat /\ queueHead \in Nat
      /\ UNCHANGED <<queueHead, queueTail, slots, pop, delivered, pushes>>
  BY DEF CheckRoom, QueueInv, QueueTypeOK
<1>1. Occupancy(push[p].index, queueTail) >= CAPACITY <=> push[p].index >= queueTail + CAPACITY
  <2>1. Occupancy(push[p].index, queueTail) = push[p].index - queueTail
    BY <1>0, OccupancyIs DEF Busy
  <2> QED
    BY <1>0, <2>1, QueueConstants
<1>2. push' = [push EXCEPT ![p].pc = next]
  BY <1>1 DEF CheckRoom
<1>3. next \in {"retract", "write"} /\ (next = "retract" <=> push[p].index >= queueTail + CAPACITY)
  OBVIOUS
<1> HIDE DEF next
<1>4. /\ push'[p].pc = next /\ push'[p].item = push[p].item /\ push'[p].index = push[p].index
      /\ \A q \in Producers : q # p => push'[q] = push[q]
      /\ push' \in [Producers -> [pc : {"idle", "check", "retract", "write"},
                                  item : Items \union {Uninit}, index : Nat]]
  BY <1>2, <1>3 DEF QueueInv, QueueTypeOK
<1>5. QueueTypeOK'
  BY <1>0, <1>4 DEF QueueInv, QueueTypeOK
<1>6. /\ \A q \in Producers : push'[q].index = push[q].index /\ push'[q].item = push[q].item
      /\ \A q \in Producers : Busy(q)' <=> Busy(q)
  BY <1>0, <1>3, <1>4 DEF Busy
<1>7. Claims'
  <2>1. \A q \in Producers :
          /\ push'[q].pc = "write" => push'[q].index < queueTail + CAPACITY
          /\ push'[q].pc = "retract" => push'[q].index >= queueTail + CAPACITY
    <3>1. push'[p].pc = "write" => push'[p].index < queueTail + CAPACITY
      BY <1>0, <1>3, <1>4, QueueConstants
    <3> QED
      BY <1>3, <1>4, <3>1 DEF QueueInv, Claims
  <2> QED
    BY <1>0, <1>6, <2>1 DEF QueueInv, Claims
<1>8. Counted'
  <2>1. \A q \in Producers : q \in Surplus' <=> q \in Surplus
    BY <1>0, <1>3, <1>4 DEF Surplus
  <2>2. Surplus' = Surplus
    BY <2>1 DEF Surplus
  <2> QED
    BY <1>0, <2>2 DEF QueueInv, Counted
<1>9. Consuming'
  <2>1. pop.pc = "idle"
    BY <1>0 DEF QueueInv, Consuming, NoPush
  <2> QED
    BY <1>0, <2>1 DEF Consuming
<1> QED
  BY <1>0, <1>4, <1>5, <1>7, <1>8, <1>9 DEF QueueInv, next

(* A refused producer is one of the surplus, and gives back one of the       *)
(* indices beyond the capacity.                                              *)
LEMMA RetractKeeps ==
  ASSUME QueueInv, NEW p \in Producers, Retract(p)
  PROVE  QueueInv' /\ queueHead > queueTail + CAPACITY
<1>0. /\ push[p].pc = "retract" /\ push[p].index \in Nat /\ queueTail \in Nat /\ queueHead \in Nat
      /\ queueHead' = queueHead - 1 /\ UNCHANGED <<queueTail, slots, pop, delivered, pushes>>
      /\ pushes \in Nat /\ queueHead <= pushes
  BY DEF Retract, QueueInv, QueueTypeOK
<1>1. /\ push'[p].pc = "idle"
      /\ \A q \in Producers : q # p => push'[q] = push[q]
      /\ push' \in [Producers -> [pc : {"idle", "check", "retract", "write"},
                                  item : Items \union {Uninit}, index : Nat]]
  BY DEF Retract, QueueInv, QueueTypeOK
<1>2. p \in Surplus /\ IsFiniteSet(Surplus) /\ Cardinality(Surplus) \in Nat
  BY <1>0, SurplusFinite DEF Surplus, QueueInv, Claims
<1>3. Cardinality(Surplus) # 0
  BY <1>2, FS_EmptySet
<1>4. queueHead > queueTail + CAPACITY /\ Cardinality(Surplus) = queueHead - (queueTail + CAPACITY)
  BY <1>3 DEF QueueInv, Counted
<1>5. QueueTypeOK' /\ queueTail' <= queueHead' /\ queueHead' <= pushes'
  <2>1. queueHead' \in 0..MaxPushes
    BY <1>0, <1>4, QueueConstants DEF QueueInv, QueueTypeOK
  <2>2. queueTail' <= queueHead' /\ queueHead' <= pushes'
    BY <1>0, <1>4, QueueConstants
  <2> QED
    BY <1>0, <1>1, <2>1, <2>2 DEF QueueInv, QueueTypeOK
<1>6. \A q \in Producers : Busy(q)' => Busy(q) /\ push'[q] = push[q]
  BY <1>1 DEF Busy
<1>7. Claims'
  <2>1. ASSUME NEW q \in Producers, Busy(q)', push'[q].index < queueTail + CAPACITY
        PROVE  push'[q].index < queueHead - 1
    BY <1>0, <1>4, <1>6, <2>1, QueueConstants DEF QueueInv, QueueTypeOK
  <2>2. \A q \in Producers :
          /\ push'[q].pc = "write" => push'[q].index < queueTail + CAPACITY
          /\ push'[q].pc = "retract" => push'[q].index >= queueTail + CAPACITY
    BY <1>1 DEF QueueInv, Claims
  <2> QED
    BY <1>0, <1>6, <2>1, <2>2 DEF QueueInv, Claims
<1>8. Counted'
  <2>1. p \notin Surplus' /\ \A q \in Producers : q # p => (q \in Surplus' <=> q \in Surplus)
    BY <1>0, <1>1 DEF Surplus
  <2>2. Surplus' = Surplus \ {p}
    BY <1>2, <2>1 DEF Surplus
  <2>3. Cardinality(Surplus') = Cardinality(Surplus) - 1
    BY <1>2, <2>2, FS_RemoveElement
  <2>4. CASE queueHead' > queueTail' + CAPACITY
    BY <1>0, <1>4, <2>3, <2>4, QueueConstants DEF Counted
  <2>5. CASE ~ (queueHead' > queueTail' + CAPACITY)
    <3>1. Cardinality(Surplus') = 0
      BY <1>0, <1>4, <2>3, <2>5, QueueConstants
    <3> QED
      BY <2>5, <3>1 DEF Counted
  <2> QED
    BY <2>4, <2>5
<1>9. Consuming'
  <2>1. pop.pc = "idle"
    BY <1>0 DEF QueueInv, Consuming, NoPush
  <2> QED
    BY <1>0, <2>1 DEF Consuming
<1> QED
  BY <1>4, <1>5, <1>7, <1>8, <1>9 DEF QueueInv

LEMMA WriteKeeps ==
  ASSUME QueueInv, NEW p \in Producers, Write(p)
  PROVE  QueueInv'
<1>0. /\ push[p].pc = "write" /\ push[p].index \in Nat /\ queueTail \in Nat /\ push[p].item \in Items
      /\ slots' = [slots EXCEPT ![Slot(push[p].index)] = push[p].item]
      /\ UNCHANGED <<queueHead, queueTail, pop, delivered, pushes>>
  BY DEF Write, QueueInv, QueueTypeOK, Claims, Busy
<1>1. /\ push'[p].pc = "idle"
      /\ \A q \in Producers : q # p => push'[q] = push[q]
      /\ push' \in [Producers -> [pc : {"idle", "check", "retract", "write"},
                                  item : Items \union {Uninit}, index : Nat]]
  BY DEF Write, QueueInv, QueueTypeOK
<1>2. slots' \in [0..(CAPACITY - 1) -> Items \union {Uninit}]
  BY <1>0 DEF QueueInv, QueueTypeOK
<1>3. QueueTypeOK'
  BY <1>0, <1>1, <1>2 DEF QueueInv, QueueTypeOK
<1>4. \A q \in Producers : Busy(q)' => Busy(q) /\ push'[q] = push[q]
  BY <1>1 DEF Busy
<1>5. Claims'
  <2>1. \A q \in Producers :
          /\ push'[q].pc = "write" => push'[q].index < queueTail + CAPACITY
          /\ push'[q].pc = "retract" => push'[q].index >= queueTail + CAPACITY
    BY <1>1 DEF QueueInv, Claims
  <2> QED
    BY <1>0, <1>4, <2>1 DEF QueueInv, Claims
<1>6. Counted'
  <2>1. \A q \in Producers : q \in Surplus' <=> q \in Surplus
    BY <1>0, <1>1 DEF Surplus
  <2>2. Surplus' = Surplus
    BY <2>1 DEF Surplus
  <2> QED
    BY <1>0, <2>2 DEF QueueInv, Counted
<1>7. Consuming'
  <2>1. pop.pc = "idle"
    BY <1>0 DEF QueueInv, Consuming, NoPush
  <2> QED
    BY <1>0, <2>1 DEF Consuming
<1> QED
  BY <1>0, <1>3, <1>5, <1>6, <1>7 DEF QueueInv

-----------------------------------------------------------------------------
(* With no push under way the head is at most a capacity ahead of the tail.  *)
LEMMA Settled ==
  ASSUME QueueInv, NoPush
  PROVE  queueHead <= queueTail + CAPACITY
<1>1. Surplus = {}
  BY DEF Surplus, NoPush
<1>2. Cardinality(Surplus) = 0
  BY <1>1, FS_EmptySet
<1> QED
  BY <1>2, QueueConstants DEF QueueInv, Counted, QueueTypeOK

LEMMA PopKeeps ==
  ASSUME QueueInv, Phased, ReadTail \/ CheckItem \/ ReadSlot
  PROVE  QueueInv'
<1>0. UNCHANGED <<queueHead, queueTail, slots, push, delivered, pushes>>
  BY DEF ReadTail, CheckItem, ReadSlot
<1>1. queueTail \in Nat /\ queueHead \in Nat /\ slots[Slot(queueTail)] \in Items \union {Uninit}
  <2>1. queueTail \in Nat /\ queueHead \in Nat
        /\ slots \in [0..(CAPACITY - 1) -> Items \union {Uninit}]
    BY DEF QueueInv, QueueTypeOK
  <2>2. Slot(queueTail) \in 0..(CAPACITY - 1)
    BY <2>1, SlotInRange
  <2> QED
    BY <2>1, <2>2
<1>2. pop' \in [pc : {"idle", "check", "read", "advance"}, index : Nat, item : Items \union {Uninit}]
      /\ Consuming'
  <2>1. CASE ReadTail
    <3>1. /\ pop' \in [pc : {"idle", "check", "read", "advance"}, index : Nat,
                       item : Items \union {Uninit}]
          /\ pop'.pc = "check" /\ pop'.index = queueTail /\ NoPush
      BY <1>1, <2>1 DEF ReadTail, QueueInv, QueueTypeOK
    <3> QED
      BY <1>0, <3>1 DEF Consuming, NoPush
  <2>2. CASE CheckItem
    <3>1. /\ pop' \in [pc : {"idle", "check", "read", "advance"}, index : Nat,
                       item : Items \union {Uninit}]
          /\ pop'.pc = (IF pop.index >= queueHead THEN "idle" ELSE "read") /\ pop'.index = pop.index
          /\ pop.pc = "check"
      BY <2>2 DEF CheckItem, QueueInv, QueueTypeOK
    <3>2. NoPush /\ pop.index = queueTail
      BY <3>1 DEF QueueInv, Consuming
    <3>3. pop'.pc = "read" => queueTail < queueHead
      BY <1>1, <3>1, <3>2
    <3> QED
      BY <1>0, <3>1, <3>2, <3>3 DEF Consuming, NoPush
  <2>3. CASE ReadSlot
    <3>1. pop.pc = "read"
      BY <2>3 DEF ReadSlot
    <3>2. NoPush /\ pop.index = queueTail /\ queueTail < queueHead
      BY <3>1 DEF QueueInv, Consuming
    <3>3. /\ pop' \in [pc : {"idle", "check", "read", "advance"}, index : Nat,
                       item : Items \union {Uninit}]
          /\ pop'.pc = "advance" /\ pop'.index = pop.index /\ pop'.item = slots[Slot(pop.index)]
      BY <1>1, <2>3, <3>2 DEF ReadSlot, QueueInv, QueueTypeOK
    <3> QED
      BY <1>0, <3>2, <3>3 DEF Consuming, NoPush
  <2> QED
    BY <2>1, <2>2, <2>3
<1>3. QueueTypeOK'
  BY <1>0, <1>2 DEF QueueInv, QueueTypeOK
<1>4. Surplus' = Surplus
  BY <1>0 DEF Surplus
<1>5. Claims' /\ Counted'
  BY <1>0, <1>4 DEF QueueInv, Claims, Counted, Busy
<1> QED
  BY <1>0, <1>2, <1>3, <1>5 DEF QueueInv

LEMMA AdvanceKeeps ==
  ASSUME QueueInv, Advance
  PROVE  QueueInv'
<1>0. /\ pop.pc = "advance" /\ NoPush /\ queueTail < queueHead
      /\ queueTail \in Nat /\ queueHead \in Nat /\ queueTail' = queueTail + 1
      /\ delivered' = Append(delivered, pop.item)
      /\ UNCHANGED <<queueHead, slots, push, pushes>>
  BY DEF Advance, QueueInv, QueueTypeOK, Consuming
<1>1. /\ pop' \in [pc : {"idle", "check", "read", "advance"}, index : Nat,
                   item : Items \union {Uninit}]
      /\ pop'.pc = "idle"
  BY DEF Advance, QueueInv, QueueTypeOK
<1>2. delivered' \in Seq(Items \union {Uninit})
  <2>1. delivered \in Seq(Items \union {Uninit}) /\ pop.item \in Items \union {Uninit}
    BY DEF QueueInv, QueueTypeOK
  <2> QED
    BY <1>0, <2>1, AppendProperties
<1>3. QueueTypeOK'
  BY <1>0, <1>1, <1>2 DEF QueueInv, QueueTypeOK
<1>4. \A p \in Producers : push'[p].pc = "idle"
  BY <1>0 DEF NoPush
<1>5. Claims'
  BY <1>4 DEF Claims, Busy
<1>6. Counted'
  <2>1. Surplus' = {}
    BY <1>4 DEF Surplus
  <2>2. Cardinality(Surplus') = 0
    BY <2>1, FS_EmptySet
  <2>3. ~ (queueHead' > queueTail' + CAPACITY)
    BY <1>0, Settled, QueueConstants
  <2> QED
    BY <2>2, <2>3 DEF Counted
<1>7. Consuming' /\ queueTail' <= queueHead' /\ queueHead' <= pushes'
  BY <1>0, <1>1 DEF Consuming, QueueInv
<1> QED
  BY <1>3, <1>5, <1>6, <1>7 DEF QueueInv

LEMMA QueueStep ==
  ASSUME Phased, QueueInv, [QueueNext]_queueVars
  PROVE  QueueInv'
<1>1. CASE UNCHANGED queueVars
  <2>1. Surplus' = Surplus
    BY <1>1 DEF queueVars, Surplus
  <2> QED
    BY <1>1, <2>1 DEF queueVars, QueueInv, QueueTypeOK, Claims, Counted, Consuming, Busy, NoPush
<1> QED
  BY <1>1, ClaimKeeps, CheckRoomKeeps, RetractKeeps, WriteKeeps, PopKeeps, AdvanceKeeps
  DEF QueueNext

(* The two indices, the slots and what every producer and the consumer hold  *)
(* stay well typed: in particular the head, which refused producers move     *)
(* back, never leaves the words of the bound (lock_free_queue.rs).           *)
THEOREM QueueTypeCorrect ==
  ASSUME Phased
  PROVE  QueueSpec => []QueueTypeOK
<1>1. QueueInit => QueueInv
  BY QueueInitially
<1>2. QueueInv /\ [QueueNext]_queueVars => QueueInv'
  BY QueueStep
<1>3. QueueInv => QueueTypeOK
  BY DEF QueueInv
<1> QED
  BY <1>1, <1>2, <1>3, PTL DEF QueueSpec

-----------------------------------------------------------------------------
(* The queue that the array and its two indices represent.                   *)

(* The item of an index and the queue, for given indices, slots and          *)
(* producers.                                                                *)
Holding(ps, i) == {p \in Producers : ps[p].pc \in {"check", "write"} /\ ps[p].index = i}

Held(ps, ss, i) ==
  IF Holding(ps, i) = {} THEN ss[Slot(i)] ELSE ps[CHOOSE p \in Holding(ps, i) : TRUE].item

Size(h, t) == IF h - t < CAPACITY THEN h - t ELSE CAPACITY

Represented(h, t, ps, ss) == [k \in 1..Size(h, t) |-> Held(ps, ss, t + k - 1)]

Cell == Items \union {Uninit}

LEMMA ContentsRepresented ==
  /\ Contents = Represented(queueHead, queueTail, push, slots)
  /\ Contents' = Represented(queueHead', queueTail', push', slots')
BY DEF Contents, ItemAt, Represented, Held, Holding, Size

LEMMA HeldIs ==
  ASSUME NEW ps, NEW ss, NEW i, \A p, q \in Holding(ps, i) : p = q
  PROVE  /\ \A p \in Holding(ps, i) : Held(ps, ss, i) = ps[p].item
         /\ Holding(ps, i) = {} => Held(ps, ss, i) = ss[Slot(i)]
<1>1. ASSUME NEW p \in Holding(ps, i)
      PROVE  Held(ps, ss, i) = ps[p].item
  <2>1. (CHOOSE q \in Holding(ps, i) : TRUE) \in Holding(ps, i)
    BY <1>1
  <2>2. (CHOOSE q \in Holding(ps, i) : TRUE) = p
    BY <1>1, <2>1
  <2> QED
    BY <1>1, <2>2 DEF Held
<1> QED
  BY <1>1 DEF Held

(* Within the capacity an index has one holder at most, and holds a cell. *)
LEMMA HeldNow ==
  ASSUME QueueInv, NEW i \in queueTail..(queueTail + CAPACITY - 1)
  PROVE  /\ \A p, q \in Holding(push, i) : p = q
         /\ Held(push, slots, i) \in Cell
<1>1. queueTail \in Nat /\ i \in Nat /\ i < queueTail + CAPACITY
  BY QueueConstants DEF QueueInv, QueueTypeOK
<1>2. \A p, q \in Holding(push, i) : p = q
  BY <1>1 DEF Holding, QueueInv, Claims, Busy
<1>3. ASSUME NEW p \in Holding(push, i)
      PROVE  Held(push, slots, i) \in Cell
  <2>1. Held(push, slots, i) = push[p].item
    BY <1>2, HeldIs
  <2>2. push[p].item \in Cell
    BY DEF Holding, QueueInv, QueueTypeOK, Cell
  <2> QED
    BY <2>1, <2>2
<1>4. CASE Holding(push, i) = {}
  <2>1. Held(push, slots, i) = slots[Slot(i)]
    BY <1>4, HeldIs
  <2>2. Slot(i) \in 0..(CAPACITY - 1)
    BY <1>1, SlotInRange
  <2>3. slots \in [0..(CAPACITY - 1) -> Cell]
    BY DEF QueueInv, QueueTypeOK, Cell
  <2>4. slots[Slot(i)] \in Cell
    BY <2>2, <2>3
  <2> QED
    BY <1>2, <2>1, <2>4
<1> QED
  BY <1>2, <1>3, <1>4

LEMMA RepresentedIs ==
  ASSUME NEW h \in Nat, NEW t \in Nat, t <= h, NEW ps, NEW ss,
         \A i \in t..(t + CAPACITY - 1) : Held(ps, ss, i) \in Cell
  PROVE  /\ Size(h, t) \in Nat /\ Size(h, t) <= CAPACITY
         /\ Represented(h, t, ps, ss) \in Seq(Cell)
         /\ Len(Represented(h, t, ps, ss)) = Size(h, t)
         /\ \A k \in 1..Size(h, t) :
              /\ t + k - 1 \in t..(t + CAPACITY - 1)
              /\ Represented(h, t, ps, ss)[k] = Held(ps, ss, t + k - 1)
<1>1. PICK n \in Nat : n = Size(h, t)
  BY QueueConstants DEF Size
<1>2. n <= CAPACITY
  BY <1>1, QueueConstants DEF Size
<1>3. \A k \in 1..n : t + k - 1 \in t..(t + CAPACITY - 1)
  BY <1>2, QueueConstants
<1>4. Represented(h, t, ps, ss) = [k \in 1..n |-> Held(ps, ss, t + k - 1)]
  BY <1>1 DEF Represented
<1>5. \A k \in 1..n : Held(ps, ss, t + k - 1) \in Cell
  BY <1>3
<1>6. Represented(h, t, ps, ss) \in [1..n -> Cell]
  BY <1>4, <1>5
<1>7. Represented(h, t, ps, ss) \in Seq(Cell) /\ Len(Represented(h, t, ps, ss)) = n
  BY <1>6
<1> QED
  BY <1>1, <1>2, <1>3, <1>4, <1>7

(* Steps that leave the tail, and what every index within the capacity and   *)
(* below both heads holds, leave or extend the queue.                        *)
LEMMA ContentsNow ==
  ASSUME QueueInv
  PROVE  /\ Size(queueHead, queueTail) \in Nat /\ Size(queueHead, queueTail) <= CAPACITY
         /\ Contents \in Seq(Cell) /\ Len(Contents) = Size(queueHead, queueTail)
         /\ \A k \in 1..Size(queueHead, queueTail) :
              /\ queueTail + k - 1 \in queueTail..(queueTail + CAPACITY - 1)
              /\ Contents[k] = Held(push, slots, queueTail + k - 1)
<1>1. queueHead \in Nat /\ queueTail \in Nat /\ queueTail <= queueHead
  BY DEF QueueInv, QueueTypeOK
<1>2. \A i \in queueTail..(queueTail + CAPACITY - 1) : Held(push, slots, i) \in Cell
  BY HeldNow
<1> QED
  BY <1>1, <1>2, RepresentedIs, ContentsRepresented

LEMMA ContentsNext ==
  ASSUME QueueInv', \A i \in queueTail'..(queueTail' + CAPACITY - 1) : Held(push', slots', i) \in Cell
  PROVE  /\ Size(queueHead', queueTail') \in Nat
         /\ Contents' \in Seq(Cell) /\ Len(Contents') = Size(queueHead', queueTail')
         /\ \A k \in 1..Size(queueHead', queueTail') :
              Contents'[k] = Held(push', slots', queueTail' + k - 1)
<1>1. queueHead' \in Nat /\ queueTail' \in Nat /\ queueTail' <= queueHead'
  BY DEF QueueInv, QueueTypeOK
<1> QED
  BY <1>1, RepresentedIs, ContentsRepresented

(* The queue is the same when the indices within the capacity hold the same. *)
LEMMA ContentsUnchanged ==
  ASSUME QueueInv, QueueInv', queueTail' = queueTail,
         Size(queueHead', queueTail') = Size(queueHead, queueTail),
         \A i \in queueTail..(queueTail + CAPACITY - 1) : Held(push', slots', i) = Held(push, slots, i)
  PROVE  Contents' = Contents
<1>1. \A i \in queueTail..(queueTail + CAPACITY - 1) : Held(push', slots', i) \in Cell
  BY HeldNow
<1>2. PICK n \in Nat : n = Size(queueHead, queueTail)
  BY ContentsNow
<1>3. /\ Contents \in Seq(Cell) /\ Len(Contents) = n /\ Contents' \in Seq(Cell) /\ Len(Contents') = n
      /\ \A k \in 1..n : /\ queueTail + k - 1 \in queueTail..(queueTail + CAPACITY - 1)
                         /\ Contents[k] = Held(push, slots, queueTail + k - 1)
                         /\ Contents'[k] = Held(push', slots', queueTail + k - 1)
  BY <1>1, <1>2, ContentsNow, ContentsNext
<1>4. \A k \in 1..n : Contents'[k] = Contents[k]
  BY <1>3
<1> QED
  BY <1>3, <1>4, SeqEqual

-----------------------------------------------------------------------------
(* A claim within the capacity is an Enqueue, one beyond it changes nothing. *)
LEMMA ClaimEnqueues ==
  ASSUME QueueInv, QueueInv', NEW p \in Producers, NEW item \in Items, Claim(p, item)
  PROVE  Fifo!Enqueue(item) \/ UNCHANGED <<Contents, delivered>>
<1>0. /\ queueHead \in Nat /\ queueTail \in Nat /\ queueTail <= queueHead /\ CAPACITY \in Nat \ {0}
      /\ push[p].pc = "idle" /\ queueHead' = queueHead + 1 /\ queueTail' = queueTail
      /\ slots' = slots /\ delivered' = delivered
  BY QueueConstants DEF Claim, QueueInv, QueueTypeOK
<1>1. /\ push'[p].pc = "check" /\ push'[p].item = item /\ push'[p].index = queueHead
      /\ \A q \in Producers : q # p => push'[q] = push[q]
  BY <1>0 DEF Claim, QueueInv, QueueTypeOK
<1>2. ASSUME NEW i \in queueTail..(queueTail + CAPACITY - 1), i # queueHead
      PROVE  Held(push', slots', i) = Held(push, slots, i)
  <2>1. \A q : q \in Holding(push', i) <=> q \in Holding(push, i)
    BY <1>0, <1>1, <1>2 DEF Holding
  <2>2. Holding(push', i) = Holding(push, i)
    BY <2>1
  <2>3. \A q, r \in Holding(push, i) : q = r
    BY HeldNow
  <2>4. CASE Holding(push, i) = {}
    BY <1>0, <2>2, <2>3, <2>4, HeldIs
  <2>5. ASSUME NEW q \in Holding(push, i)
        PROVE  Held(push', slots', i) = Held(push, slots, i)
    <3>1. Held(push, slots, i) = push[q].item
      BY <2>3, HeldIs
    <3>2. Held(push', slots', i) = push'[q].item
      BY <2>2, <2>3, HeldIs
    <3>3. push'[q] = push[q]
      BY <1>0, <1>1 DEF Holding
    <3> QED
      BY <3>1, <3>2, <3>3
  <2> QED
    BY <2>4, <2>5
<1>3. CASE queueHead - queueTail >= CAPACITY
  <2>1. Size(queueHead', queueTail') = Size(queueHead, queueTail)
    BY <1>0, <1>3 DEF Size
  <2>2. \A i \in queueTail..(queueTail + CAPACITY - 1) : i # queueHead
    BY <1>0, <1>3
  <2> QED
    BY <1>0, <1>2, <2>1, <2>2, ContentsUnchanged
<1>4. CASE queueHead - queueTail < CAPACITY
  <2>1. PICK n \in Nat : n = queueHead - queueTail
    BY <1>0
  <2>2. n < CAPACITY /\ Size(queueHead, queueTail) = n /\ Size(queueHead', queueTail') = n + 1
    BY <1>0, <1>4, <2>1 DEF Size
  <2>3. queueHead \in queueTail..(queueTail + CAPACITY - 1) /\ queueTail + (n + 1) - 1 = queueHead
    BY <1>0, <2>1, <2>2
  <2>4. Held(push', slots', queueHead) = item
    <3>1. p \in Holding(push', queueHead)
      BY <1>1 DEF Holding
    <3>2. ASSUME NEW q \in Holding(push', queueHead), q # p
          PROVE  FALSE
      <4>1. push[q].pc \in {"check", "write"} /\ push[q].index = queueHead
        BY <1>1, <3>2 DEF Holding
      <4>2. push[q].index < queueHead
        BY <1>0, <1>4, <4>1 DEF Holding, QueueInv, Claims, Busy
      <4> QED
        BY <1>0, <4>1, <4>2
    <3>3. \A q, r \in Holding(push', queueHead) : q = r
      BY <3>2
    <3> QED
      BY <1>1, <3>1, <3>3, HeldIs
  <2>5. \A i \in queueTail..(queueTail + CAPACITY - 1) : Held(push', slots', i) \in Cell
    <3>1. item \in Cell
      BY DEF Cell
    <3> QED
      BY <1>2, <2>4, <3>1, HeldNow
  <2>6. /\ Contents \in Seq(Cell) /\ Len(Contents) = n
        /\ \A k \in 1..n : /\ queueTail + k - 1 \in queueTail..(queueTail + CAPACITY - 1)
                           /\ Contents[k] = Held(push, slots, queueTail + k - 1)
    BY <2>2, ContentsNow
  <2>7. /\ Contents' \in Seq(Cell) /\ Len(Contents') = n + 1
        /\ \A k \in 1..(n + 1) : Contents'[k] = Held(push', slots', queueTail + k - 1)
    BY <1>0, <2>2, <2>5, ContentsNext
  <2>8. /\ Append(Contents, item) \in Seq(Cell) /\ Len(Append(Contents, item)) = n + 1
        /\ Append(Contents, item)[n + 1] = item
        /\ \A k \in 1..n : Append(Contents, item)[k] = Contents[k]
    BY <2>6, AppendProperties DEF Cell
  <2>9. \A k \in 1..(n + 1) : Contents'[k] = Append(Contents, item)[k]
    <3> SUFFICES ASSUME NEW k \in 1..(n + 1)
                 PROVE  Contents'[k] = Append(Contents, item)[k]
      OBVIOUS
    <3>1. CASE k = n + 1
      BY <2>3, <2>4, <2>7, <2>8, <3>1
    <3>2. CASE k # n + 1
      <4>1. k \in 1..n
        BY <3>2
      <4>2. queueTail + k - 1 # queueHead
        BY <1>0, <2>1, <4>1
      <4>3. queueTail + k - 1 \in queueTail..(queueTail + CAPACITY - 1)
        BY <2>6, <4>1
      <4>4. Held(push', slots', queueTail + k - 1) = Held(push, slots, queueTail + k - 1)
        BY <1>2, <4>2, <4>3
      <4> QED
        BY <2>6, <2>7, <2>8, <4>1, <4>4
    <3> QED
      BY <3>1, <3>2
  <2>10. Contents' = Append(Contents, item)
    BY <2>7, <2>8, <2>9, SeqEqual
  <2>11. Len(Contents) < CAPACITY
    BY <2>2, <2>6
  <2> QED
    BY <1>0, <2>10, <2>11 DEF Fifo!Enqueue
<1> QED
  BY <1>0, <1>3, <1>4

(* The test for room and the way back change nothing within the capacity.    *)
LEMMA CheckRoomStutters ==
  ASSUME QueueInv, QueueInv', NEW p \in Producers, CheckRoom(p)
  PROVE  UNCHANGED <<Contents, delivered>>
<1>0. /\ push[p].pc = "check" /\ UNCHANGED <<queueHead, queueTail, slots, delivered>>
      /\ queueTail \in Nat /\ push[p].index \in Nat /\ CAPACITY \in Nat
  BY QueueConstants DEF CheckRoom, QueueInv, QueueTypeOK
<1>1. /\ push'[p].pc = IF push[p].index >= queueTail + CAPACITY THEN "retract" ELSE "write"
      /\ push'[p].index = push[p].index /\ push'[p].item = push[p].item
      /\ \A q \in Producers : q # p => push'[q] = push[q]
  <2>1. push'[p].pc = IF push[p].index >= queueTail + CAPACITY THEN "retract" ELSE "write"
    BY CheckRoomKeeps
  <2> QED
    BY <2>1 DEF CheckRoom, QueueInv, QueueTypeOK
<1>2. ASSUME NEW i \in queueTail..(queueTail + CAPACITY - 1)
      PROVE  Held(push', slots', i) = Held(push, slots, i)
  <2>1. i < queueTail + CAPACITY
    BY <1>0
  <2>2. p \in Holding(push', i) <=> p \in Holding(push, i)
    BY <1>0, <1>1, <2>1 DEF Holding
  <2>3. \A q \in Producers : q # p => (q \in Holding(push', i) <=> q \in Holding(push, i))
    BY <1>1 DEF Holding
  <2>4. Holding(push', i) = Holding(push, i)
    BY <2>2, <2>3 DEF Holding
  <2>5. \A q \in Producers : push'[q].item = push[q].item
    BY <1>1
  <2>6. \A q, r \in Holding(push, i) : q = r
    BY HeldNow
  <2>7. CASE Holding(push, i) = {}
    BY <1>0, <2>4, <2>6, <2>7, HeldIs
  <2>8. ASSUME NEW q \in Holding(push, i)
        PROVE  Held(push', slots', i) = Held(push, slots, i)
    <3>1. q \in Producers
      BY DEF Holding
    <3>2. Held(push, slots, i) = push[q].item
      BY <2>6, HeldIs
    <3>3. Held(push', slots', i) = push'[q].item
      BY <2>4, <2>6, HeldIs
    <3> QED
      BY <2>5, <3>1, <3>2, <3>3
  <2> QED
    BY <2>7, <2>8
<1> QED
  BY <1>0, <1>2, ContentsUnchanged

LEMMA RetractStutters ==
  ASSUME QueueInv, QueueInv', NEW p \in Producers, Retract(p)
  PROVE  UNCHANGED <<Contents, delivered>> /\ Len(Contents') = CAPACITY
<1>0. /\ push[p].pc = "retract" /\ UNCHANGED <<queueTail, slots, delivered>>
      /\ queueHead' = queueHead - 1 /\ queueHead > queueTail + CAPACITY
      /\ queueTail \in Nat /\ queueHead \in Nat /\ CAPACITY \in Nat
  <2>1. queueHead > queueTail + CAPACITY
    BY RetractKeeps
  <2>2. push[p].pc = "retract" /\ queueHead' = queueHead - 1
        /\ UNCHANGED <<queueTail, slots, delivered>>
    BY DEF Retract
  <2>3. queueTail \in Nat /\ queueHead \in Nat /\ CAPACITY \in Nat
    BY QueueConstants DEF QueueInv, QueueTypeOK
  <2> QED
    BY <2>1, <2>2, <2>3
<1>1. push'[p].pc = "idle" /\ \A q \in Producers : q # p => push'[q] = push[q]
  BY DEF Retract, QueueInv, QueueTypeOK
<1>2. ASSUME NEW i \in queueTail..(queueTail + CAPACITY - 1)
      PROVE  Held(push', slots', i) = Held(push, slots, i)
  <2>1. \A q : q \in Holding(push', i) <=> q \in Holding(push, i)
    BY <1>0, <1>1 DEF Holding
  <2>2. Holding(push', i) = Holding(push, i)
    BY <2>1
  <2>3. \A q, r \in Holding(push, i) : q = r
    BY HeldNow
  <2>4. CASE Holding(push, i) = {}
    BY <1>0, <2>2, <2>3, <2>4, HeldIs
  <2>5. ASSUME NEW q \in Holding(push, i)
        PROVE  Held(push', slots', i) = Held(push, slots, i)
    <3>1. push'[q] = push[q]
      BY <1>0, <1>1 DEF Holding
    <3>2. Held(push, slots, i) = push[q].item
      BY <2>3, HeldIs
    <3>3. Held(push', slots', i) = push'[q].item
      BY <2>2, <2>3, HeldIs
    <3> QED
      BY <3>1, <3>2, <3>3
  <2> QED
    BY <2>4, <2>5
<1>3. Size(queueHead', queueTail') = CAPACITY /\ Size(queueHead, queueTail) = CAPACITY
  BY <1>0 DEF Size
<1>4. Contents' = Contents
  BY <1>0, <1>2, <1>3, ContentsUnchanged
<1>5. Len(Contents) = CAPACITY
  BY <1>3, ContentsNow
<1> QED
  BY <1>0, <1>4, <1>5

(* What a producer writes is what its index stood for already. *)
LEMMA WriteStutters ==
  ASSUME QueueInv, QueueInv', NEW p \in Producers, Write(p)
  PROVE  UNCHANGED <<Contents, delivered>>
<1>0. /\ push[p].pc = "write" /\ UNCHANGED <<queueHead, queueTail, delivered>>
      /\ slots' = [slots EXCEPT ![Slot(push[p].index)] = push[p].item]
      /\ slots \in [0..(CAPACITY - 1) -> Cell]
      /\ queueTail \in Nat /\ CAPACITY \in Nat \ {0}
      /\ push[p].index \in queueTail..(queueTail + CAPACITY - 1)
  <2>1. push[p].pc = "write" /\ push[p].index \in Nat /\ queueTail \in Nat
    BY DEF Write, QueueInv, QueueTypeOK
  <2>2. push[p].index >= queueTail /\ push[p].index < queueTail + CAPACITY
    BY <2>1 DEF QueueInv, Claims, Busy
  <2> QED
    BY <2>1, <2>2, QueueConstants DEF Write, QueueInv, QueueTypeOK, Cell
<1>1. push'[p].pc = "idle" /\ \A q \in Producers : q # p => push'[q] = push[q]
  BY DEF Write, QueueInv, QueueTypeOK
<1>2. PICK w \in queueTail..(queueTail + CAPACITY - 1) : w = push[p].index
  BY <1>0
<1>3. w \in Nat /\ Slot(w) \in 0..(CAPACITY - 1)
  <2>1. w \in Nat
    BY <1>0
  <2> QED
    BY <2>1, SlotInRange
<1>4. ASSUME NEW i \in queueTail..(queueTail + CAPACITY - 1)
      PROVE  Held(push', slots', i) = Held(push, slots, i)
  <2>1. \A q, r \in Holding(push, i) : q = r
    BY HeldNow
  <2>2. CASE i = w
    <3>1. p \in Holding(push, i)
      BY <1>0, <1>2, <2>2 DEF Holding
    <3>2. Held(push, slots, i) = push[p].item
      BY <2>1, <3>1, HeldIs
    <3>3. Holding(push', i) = {}
      BY <1>1, <2>1, <3>1 DEF Holding
    <3>4. Held(push', slots', i) = slots'[Slot(i)]
      BY <3>3, HeldIs
    <3>5. slots'[Slot(i)] = push[p].item
      BY <1>0, <1>2, <1>3, <2>2
    <3> QED
      BY <3>2, <3>4, <3>5
  <2>3. CASE i # w
    <3>1. Holding(push', i) = Holding(push, i)
      BY <1>0, <1>1, <1>2, <2>3 DEF Holding
    <3>2. CASE Holding(push, i) = {}
      <4>1. i \in Nat /\ Slot(i) \in 0..(CAPACITY - 1)
        BY <1>0, SlotInRange
      <4>2. Slot(i) # Slot(w)
        <5>1. CASE i < w
          <6>1. PICK d \in 1..(CAPACITY - 1) : w = i + d
            <7>1. w - i \in 1..(CAPACITY - 1) /\ w = i + (w - i)
              BY <1>0, <1>2, <5>1
            <7> QED
              BY <7>1
          <6>2. CAPACITY \in Nat \ {0} /\ i \in Int
            BY <1>0, <4>1
          <6>3. (i + d) % CAPACITY # i % CAPACITY
            BY <6>2, ModApart
          <6> QED
            BY <6>1, <6>3 DEF Slot
        <5>2. CASE w < i
          <6>1. PICK d \in 1..(CAPACITY - 1) : i = w + d
            <7>1. i - w \in 1..(CAPACITY - 1) /\ i = w + (i - w)
              BY <1>0, <1>2, <5>2
            <7> QED
              BY <7>1
          <6>2. CAPACITY \in Nat \ {0} /\ w \in Int
            BY <1>0, <1>3
          <6>3. (w + d) % CAPACITY # w % CAPACITY
            BY <6>2, ModApart
          <6> QED
            BY <6>1, <6>3 DEF Slot
        <5> QED
          BY <1>3, <2>3, <4>1, <5>1, <5>2
      <4>3. slots'[Slot(i)] = slots[Slot(i)]
        BY <1>0, <1>2, <4>1, <4>2
      <4> QED
        BY <2>1, <3>1, <3>2, <4>3, HeldIs
    <3>3. ASSUME NEW q \in Holding(push, i)
          PROVE  Held(push', slots', i) = Held(push, slots, i)
      <4>1. push'[q] = push[q]
        BY <1>1, <1>2, <2>3 DEF Holding
      <4>2. Held(push, slots, i) = push[q].item
        BY <2>1, HeldIs
      <4>3. Held(push', slots', i) = push'[q].item
        BY <2>1, <3>1, HeldIs
      <4> QED
        BY <4>1, <4>2, <4>3
    <3> QED
      BY <3>2, <3>3
  <2> QED
    BY <2>2, <2>3
<1>5. Size(queueHead', queueTail') = Size(queueHead, queueTail)
  BY <1>0
<1> QED
  BY <1>0, <1>4, <1>5, ContentsUnchanged

(* The consumer's last step hands out the oldest item. *)
LEMMA AdvanceDequeues ==
  ASSUME QueueInv, QueueInv', Advance
  PROVE  Fifo!Dequeue
<1>0. /\ NoPush /\ queueTail < queueHead /\ queueTail \in Nat /\ queueHead \in Nat
      /\ CAPACITY \in Nat \ {0} /\ queueHead <= queueTail + CAPACITY
      /\ pop.item = slots[Slot(queueTail)] /\ queueHead' = queueHead /\ queueTail' = queueTail + 1
      /\ push' = push /\ slots' = slots /\ delivered' = Append(delivered, pop.item)
  BY QueueConstants, Settled DEF Advance, QueueInv, QueueTypeOK, Consuming
<1>1. PICK n \in Nat : n + 1 = queueHead - queueTail
  BY <1>0
<1>2. Size(queueHead, queueTail) = n + 1 /\ Size(queueHead', queueTail') = n
  BY <1>0, <1>1 DEF Size
<1>3. \A i : Holding(push, i) = {}
  BY <1>0 DEF NoPush, Holding
<1>4. \A i : Held(push, slots, i) = slots[Slot(i)]
  BY <1>3, HeldIs
<1>5. \A i \in queueTail'..(queueTail' + CAPACITY - 1) : Held(push', slots', i) \in Cell
  <2> SUFFICES ASSUME NEW i \in queueTail'..(queueTail' + CAPACITY - 1)
               PROVE  slots[Slot(i)] \in Cell
    BY <1>0, <1>4
  <2>1. i \in Nat
    BY <1>0
  <2>2. Slot(i) \in 0..(CAPACITY - 1)
    BY <2>1, SlotInRange
  <2> QED
    BY <2>2 DEF QueueInv, QueueTypeOK, Cell
<1>6. /\ Contents \in Seq(Cell) /\ Len(Contents) = n + 1
      /\ \A k \in 1..(n + 1) : Contents[k] = Held(push, slots, queueTail + k - 1)
  BY <1>2, ContentsNow
<1>7. /\ Contents' \in Seq(Cell) /\ Len(Contents') = n
      /\ \A k \in 1..n : Contents'[k] = Held(push', slots', queueTail' + k - 1)
  BY <1>2, <1>5, ContentsNext
<1>8. Contents # <<>> /\ Head(Contents) = Contents[1]
      /\ Tail(Contents) \in Seq(Cell) /\ Len(Tail(Contents)) = n
      /\ \A k \in 1..n : Tail(Contents)[k] = Contents[k + 1]
  <2>1. Contents # <<>>
    BY <1>6
  <2> QED
    BY <1>6, <2>1, HeadTailProperties
<1>9. \A k \in 1..n : Contents'[k] = Tail(Contents)[k]
  <2> SUFFICES ASSUME NEW k \in 1..n
               PROVE  Contents'[k] = Tail(Contents)[k]
    OBVIOUS
  <2>1. queueTail' + k - 1 = queueTail + (k + 1) - 1 /\ k + 1 \in 1..(n + 1)
    BY <1>0
  <2>2. Contents[k + 1] = Held(push, slots, queueTail + (k + 1) - 1)
    BY <1>6, <2>1
  <2>3. Contents'[k] = Held(push, slots, queueTail' + k - 1)
    BY <1>0, <1>7
  <2> QED
    BY <1>8, <2>1, <2>2, <2>3
<1>10. Contents' = Tail(Contents)
  BY <1>7, <1>8, <1>9, SeqEqual
<1>11. Head(Contents) = pop.item
  <2>1. 1 \in 1..(n + 1) /\ queueTail + 1 - 1 = queueTail
    BY <1>0
  <2> QED
    BY <1>0, <1>4, <1>6, <1>8, <2>1
<1> QED
  BY <1>0, <1>8, <1>10, <1>11 DEF Fifo!Dequeue

(* The consumer's looks at the indices and at the slot change nothing.       *)
LEMMA PopStutters ==
  ASSUME ReadTail \/ CheckItem \/ ReadSlot \/ UNCHANGED queueVars
  PROVE  UNCHANGED <<Contents, delivered>>
<1>1. UNCHANGED <<queueHead, queueTail, slots, push, delivered>>
  BY DEF ReadTail, CheckItem, ReadSlot, queueVars
<1> QED
  BY <1>1, ContentsRepresented

LEMMA EmptyAtFirst == QueueInit => Contents = <<>>
<1> SUFFICES ASSUME QueueInit
             PROVE  Contents = <<>>
  OBVIOUS
<1>1. Size(queueHead, queueTail) = 0
  BY QueueConstants DEF QueueInit, Size
<1>2. Contents \in Seq(Cell) /\ Len(Contents) = 0
  BY <1>1, QueueInitially, ContentsNow
<1> QED
  BY <1>2

(* The array with its two indices implements the bounded FIFO, as long as    *)
(* pushes and pops are kept apart: a claim within the capacity is the        *)
(* Enqueue, the consumer's last step the Dequeue, and no other step, a       *)
(* refused push among them, changes the queue.                               *)
THEOREM QueueRefinesFifo ==
  ASSUME Phased
  PROVE  QueueSpec => ImplementsFifo
<1>1. QueueInit => QueueInv
  BY QueueInitially
<1>2. QueueInv /\ [QueueNext]_queueVars => QueueInv'
  BY QueueStep
<1>3. QueueInit => Fifo!Init
  BY EmptyAtFirst DEF QueueInit, Fifo!Init
<1>4. QueueInv /\ QueueInv' /\ [QueueNext]_queueVars => [Fifo!Next]_<<Contents, delivered>>
  <2> SUFFICES ASSUME QueueInv, QueueInv', [QueueNext]_queueVars
               PROVE  [Fifo!Next]_<<Contents, delivered>>
    OBVIOUS
  <2>1. ASSUME NEW p \in Producers, NEW item \in Items, Claim(p, item)
        PROVE  [Fifo!Next]_<<Contents, delivered>>
    BY <2>1, ClaimEnqueues DEF Fifo!Next
  <2>2. ASSUME NEW p \in Producers, CheckRoom(p) \/ Retract(p) \/ Write(p)
        PROVE  UNCHANGED <<Contents, delivered>>
    BY <2>2, CheckRoomStutters, RetractStutters, WriteStutters
  <2>3. CASE ReadTail \/ CheckItem \/ ReadSlot \/ UNCHANGED queueVars
    BY <2>3, PopStutters
  <2>4. CASE Advance
    BY <2>4, AdvanceDequeues DEF Fifo!Next
  <2> QED
    BY <2>1, <2>2, <2>3, <2>4 DEF QueueNext
<1> QED
  BY <1>1, <1>2, <1>3, <1>4, PTL DEF QueueSpec, ImplementsFifo, Fifo!Spec

(* A push returns false only when CAPACITY items wait: the surplus claims    *)
(* are exactly what the head is ahead of a full queue by, so a producer that *)
(* retracts finds the queue full whatever the others have claimed.           *)
THEOREM RefusedOnlyWhenFullHolds ==
  ASSUME Phased
  PROVE  QueueSpec => RefusedOnlyWhenFull
<1>1. QueueInit => QueueInv
  BY QueueInitially
<1>2. QueueInv /\ [QueueNext]_queueVars => QueueInv'
  BY QueueStep
<1>3. QueueInv /\ QueueInv' /\ [QueueNext]_queueVars =>
        \A p \in Producers : push[p].pc = "retract" /\ push'[p].pc = "idle" => Len(Contents') = CAPACITY
  <2> SUFFICES ASSUME QueueInv, QueueInv', [QueueNext]_queueVars,
                      NEW p \in Producers, push[p].pc = "retract", push'[p].pc = "idle"
               PROVE  Len(Contents') = CAPACITY
    OBVIOUS
  <2>1. CASE Retract(p)
    BY <2>1, RetractStutters
  <2>2. ASSUME NEW q \in Producers, q # p,
               (\E item \in Items : Claim(q, item)) \/ CheckRoom(q) \/ Retract(q) \/ Write(q)
        PROVE  FALSE
    <3>1. push'[p] = push[p]
      BY <2>2 DEF Claim, CheckRoom, Retract, Write, QueueInv, QueueTypeOK
    <3> QED
      BY <3>1
  <2>3. ~ ((\E item \in Items : Claim(p, item)) \/ CheckRoom(p) \/ Write(p))
    BY DEF Claim, CheckRoom, Write
  <2>4. ~ (ReadTail \/ CheckItem \/ ReadSlot \/ Advance \/ UNCHANGED queueVars)
    <3>1. push' # push
      OBVIOUS
    <3> QED
      BY <3>1 DEF ReadTail, CheckItem, ReadSlot, Advance, queueVars
  <2> QED
    BY <2>1, <2>2, <2>3, <2>4 DEF QueueNext
<1> QED
  BY <1>1, <1>2, <1>3, PTL DEF QueueSpec, RefusedOnlyWhenFull

-----------------------------------------------------------------------------
(* The digits integer_sqrt tries, and the powers of four they stand for. *)
Steps == Bits \div 2
Tried == [k \in 1..Steps |-> 2 ^ (Bits - 2 * k)]

(* The loop of integer_sqrt as a recursion over the digits that were tried. *)
RootAfter(h, n, s) ==
  IF s = {} THEN [x |-> n, root |-> 0]
  ELSE RootStep(h[s \ {Max(s)}], Tried[Max(s)])

IsRoot(h, n) == h = [s \in SUBSET (1..Steps) |-> RootAfter(h, n, s)]

(* A word has two bits for each digit of a root. *)
LEMMA WidthIsEven ==
  /\ Bits \in Nat /\ Bits > 0
  /\ Steps \in Nat /\ Bits = 2 * Steps
BY CriticalPathAssumption DEF Steps

(* The fold takes the digits from the last one back. *)
LEMMA MaxIsThere ==
  ASSUME NEW s \in SUBSET (1..Steps), s # {}
  PROVE  Max(s) \in s /\ \A y \in s : y <= Max(s)
<1> DEFINE Above == {Steps - x : x \in s}
<1>1. Above \in SUBSET Nat /\ Above # {}
  <2>1. \A x \in s : Steps - x \in Nat
    <3>1. \A x \in 1..Steps : Steps - x \in Nat
      BY WidthIsEven
    <3> QED
      BY <3>1
  <2> QED
    BY <2>1
<1>2. PICK a \in Above : \A b \in Above : a <= b
  <2> HIDE DEF Above
  <2> QED
    BY <1>1, LeastNatural
<1>3. PICK x \in s : a = Steps - x
  OBVIOUS
<1>4. \A y \in s : x >= y
  <2> SUFFICES ASSUME NEW y \in s
               PROVE  x >= y
    OBVIOUS
  <2>1. Steps - x <= Steps - y
    BY <1>2, <1>3
  <2>2. x \in Int /\ y \in Int /\ Steps \in Int
    BY WidthIsEven
  <2> QED
    BY <2>1, <2>2
<1>5. Max(s) \in s /\ \A y \in s : Max(s) >= y
  BY <1>4 DEF Max
<1> QED
  BY <1>5, WidthIsEven

(* The recursion of integer_sqrt has a solution: one for the sets of up to   *)
(* c digits, for every c.                                                    *)
LEMMA RootExists ==
  ASSUME NEW n
  PROVE  \E h : IsRoot(h, n)
<1> DEFINE S == 1..Steps
           Layer(c) == {s \in SUBSET S : Cardinality(s) <= c}
           Good(c) == \E h : h = [s \in Layer(c) |-> RootAfter(h, n, s)]
           Bad == {c \in Nat : ~ Good(c)}
<1>1. IsFiniteSet(S) /\ Cardinality(S) = Steps
  BY WidthIsEven, FS_Interval
<1>2. \A s \in SUBSET S : IsFiniteSet(s) /\ Cardinality(s) \in Nat
  BY <1>1, FS_Subset, FS_CardinalityType
<1>3. \A s \in SUBSET S : s # {} =>
        /\ s \ {Max(s)} \in SUBSET S
        /\ Cardinality(s \ {Max(s)}) = Cardinality(s) - 1
  BY <1>2, MaxIsThere, FS_RemoveElement
<1>4. Good(0)
  <2> DEFINE h == [s \in Layer(0) |-> [x |-> n, root |-> 0]]
  <2>1. \A s \in Layer(0) : s = {}
    BY <1>2, FS_EmptySet
  <2>2. h = [s \in Layer(0) |-> RootAfter(h, n, s)]
    BY <2>1 DEF RootAfter
  <2> QED
    BY <2>2
<1>5. ASSUME NEW c \in Nat, Good(c)
      PROVE  Good(c + 1)
  <2>1. PICK h : h = [s \in Layer(c) |-> RootAfter(h, n, s)]
    BY <1>5
  <2> DEFINE g == [s \in Layer(c + 1) |-> RootAfter(h, n, s)]
  <2>2. \A s \in Layer(c + 1) : s # {} => s \ {Max(s)} \in Layer(c)
    BY <1>2, <1>3
  <2>3. \A s \in Layer(c) : s \in Layer(c + 1) /\ g[s] = h[s]
    <3>1. \A s \in Layer(c) : s \in Layer(c + 1)
      BY <1>2
    <3>2. \A s \in Layer(c) : h[s] = RootAfter(h, n, s)
      <4> HIDE DEF Layer
      <4> QED
        BY <2>1
    <3> HIDE DEF Layer
    <3> QED
      BY <3>1, <3>2
  <2>4. \A s \in Layer(c + 1) : RootAfter(h, n, s) = RootAfter(g, n, s)
    <3> HIDE DEF Layer, g
    <3> QED
      BY <2>2, <2>3 DEF RootAfter
  <2>5. g = [s \in Layer(c + 1) |-> RootAfter(g, n, s)]
    <3>1. [s \in Layer(c + 1) |-> RootAfter(h, n, s)]
            = [s \in Layer(c + 1) |-> RootAfter(g, n, s)]
      <4> HIDE DEF Layer, g
      <4> QED
        BY <2>4
    <3> QED
      BY <3>1
  <2> HIDE DEF g, Layer
  <2> QED
    BY <2>5
<1>6. Bad = {}
  <2> SUFFICES ASSUME Bad # {}
               PROVE  FALSE
    OBVIOUS
  <2>1. PICK c \in Bad : \A k \in Bad : c <= k
    <3> HIDE DEF Good
    <3> QED
      BY LeastNatural
  <2> HIDE DEF Good
  <2>2. c # 0
    BY <1>4
  <2>3. c - 1 \in Nat /\ c - 1 \notin Bad
    BY <2>1, <2>2
  <2>4. Good(c - 1 + 1)
    BY <2>3, <1>5
  <2> QED
    BY <2>4
<1>7. Good(Steps)
  <2> HIDE DEF Good
  <2> QED
    BY <1>6, WidthIsEven
<1>8. Layer(Steps) = SUBSET S
  BY <1>1, FS_Subset
<1> QED
  BY <1>7, <1>8 DEF IsRoot

(* What IntegerSqrt computes. *)
LEMMA RootIsRecursion ==
  ASSUME NEW n
  PROVE  \E h : IsRoot(h, n) /\ IntegerSqrt(n) = h[1..Steps].root
<1> DEFINE h == CHOOSE h : IsRoot(h, n)
<1>1. IsRoot(h, n)
  BY RootExists
<1>2. IntegerSqrt(n) = h[1..Steps].root
  BY DEF IntegerSqrt, FoldLeft, MapThenFoldSet, IsRoot, RootAfter, Tried, Steps
<1> QED
  BY <1>1, <1>2

(* With digits down to the bit b, the state is the root R of what n has      *)
(* above b, times b, and the rest, which the next root would exceed.         *)
RootSoFar(state, n, b) ==
  \E R \in Nat :
    /\ state = [x |-> n - R * R * b, root |-> R * b]
    /\ 0 <= n - R * R * b /\ n - R * R * b < (2 * R + 1) * b

(* One pass of the loop, with the bit b: the digit is one when n leaves room *)
(* for it.                                                                   *)
LEMMA OneDigit ==
  ASSUME NEW n \in Nat, NEW b \in Nat, NEW state, RootSoFar(state, n, 4 * b)
  PROVE  RootSoFar(RootStep(state, b), n, b)
<1>1. PICK R \in Nat :
        /\ state = [x |-> n - R * R * (4 * b), root |-> R * (4 * b)]
        /\ 0 <= n - R * R * (4 * b) /\ n - R * R * (4 * b) < (2 * R + 1) * (4 * b)
  BY DEF RootSoFar
<1> DEFINE x == n - R * R * (4 * b)
<1>2. x \in Int /\ R * (4 * b) \in Nat
  OBVIOUS
<1>3. ShiftRight(R * (4 * b), 1) = (2 * R) * b
  <2> DEFINE t == (2 * R) * b
  <2>1. R * (4 * b) = t * 2 /\ t \in Nat
    OBVIOUS
  <2>2. 2 ^ 1 = 2
    OBVIOUS
  <2> HIDE DEF t
  <2>3. (t * 2) \div 2 = t
    BY <2>1
  <2> QED
    BY <2>1, <2>2, <2>3 DEF ShiftRight, t
<1>4. CASE R * (4 * b) + b <= x
  <2> DEFINE Q == 2 * R + 1
  <2>1. Q \in Nat
    OBVIOUS
  <2>2. (2 * R) * b + b = Q * b
    OBVIOUS
  <2>3. x - (R * (4 * b) + b) = n - Q * Q * b
    <3>1. Q * Q * b = R * R * (4 * b) + (R * (4 * b) + b)
      OBVIOUS
    <3> QED
      BY <3>1, <1>2
  <2>4. x - (R * (4 * b) + b) < (2 * Q + 1) * b
    BY <1>1
  <2>5. RootStep(state, b) = [x |-> n - Q * Q * b, root |-> Q * b]
    <3>1. RootStep(state, b)
            = [x |-> x - (R * (4 * b) + b), root |-> ShiftRight(R * (4 * b), 1) + b]
      BY <1>1, <1>4 DEF RootStep
    <3> HIDE DEF x, Q
    <3> QED
      BY <3>1, <1>3, <2>2, <2>3
  <2>6. 0 <= x - (R * (4 * b) + b)
    <3> HIDE DEF x
    <3> QED
      BY <1>2, <1>4
  <2> HIDE DEF Q, x
  <2> QED
    BY <2>1, <2>3, <2>4, <2>5, <2>6 DEF RootSoFar
<1>5. CASE ~(R * (4 * b) + b <= x)
  <2> DEFINE Q == 2 * R
  <2>1. Q \in Nat
    OBVIOUS
  <2>3. x = n - Q * Q * b
    <3>1. Q * Q * b = R * R * (4 * b)
      OBVIOUS
    <3> QED
      BY <3>1
  <2>4. x < (2 * Q + 1) * b
    <3>1. (2 * Q + 1) * b = R * (4 * b) + b
      OBVIOUS
    <3> HIDE DEF x, Q
    <3> QED
      BY <3>1, <1>2, <1>5
  <2>5. RootStep(state, b) = [x |-> x, root |-> ShiftRight(R * (4 * b), 1)]
    BY <1>1, <1>5 DEF RootStep
  <2>6. 0 <= x
    BY <1>1
  <2> HIDE DEF x
  <2>7. RootStep(state, b) = [x |-> x, root |-> Q * b]
    BY <2>5, <1>3
  <2> HIDE DEF Q
  <2> QED
    BY <2>1, <2>3, <2>4, <2>6, <2>7 DEF RootSoFar
<1> QED
  BY <1>4, <1>5

(* After k passes the k highest digits are those of the root. *)
LEMMA RootAfterDigits ==
  ASSUME NEW n \in 0..(2 ^ Bits - 1), NEW h, IsRoot(h, n), NEW k \in 0..Steps
  PROVE  RootSoFar(h[1..k], n, 2 ^ (Bits - 2 * k))
<1> DEFINE Bad == {j \in 0..Steps : ~ RootSoFar(h[1..j], n, 2 ^ (Bits - 2 * j))}
<1>0. n \in Nat /\ 2 ^ Bits \in Nat /\ n < 2 ^ Bits
  BY PowerPositive, WidthIsEven
<1>1. SUFFICES ASSUME Bad # {}
               PROVE  FALSE
  OBVIOUS
<1>2. PICK j \in Bad : \A i \in Bad : j <= i
  <2>1. Bad \in SUBSET Nat
    BY WidthIsEven
  <2> HIDE DEF Bad
  <2> QED
    BY <1>1, <2>1, LeastNatural
<1>3. \A s \in SUBSET (1..Steps) : h[s] = RootAfter(h, n, s)
  BY DEF IsRoot
<1>4. j # 0
  <2> SUFFICES ASSUME j = 0
               PROVE  FALSE
    OBVIOUS
  <2>1. 1..j = {} /\ Bits - 2 * j = Bits
    BY WidthIsEven
  <2>2. h[1..j] = [x |-> n, root |-> 0]
    BY <1>3, <2>1 DEF RootAfter
  <2> DEFINE b == 2 ^ Bits
  <2>3. b \in Nat /\ n < b
    BY <1>0
  <2> HIDE DEF b
  <2>4. RootSoFar([x |-> n, root |-> 0], n, b)
    <3>1. n - 0 * 0 * b = n /\ 0 * b = 0 /\ (2 * 0 + 1) * b = b /\ 0 <= n
      BY <2>3, <1>0
    <3> QED
      BY <3>1, <2>3 DEF RootSoFar
  <2> QED
    BY <2>1, <2>2, <2>4 DEF b
<1> DEFINE i == j - 1
           e == Bits - 2 * j
<1>5. i \in 0..Steps /\ i \notin Bad /\ j \in 1..Steps /\ j \in Nat /\ e \in Nat
  BY <1>2, <1>4, WidthIsEven
<1>6. RootSoFar(h[1..i], n, 2 ^ (Bits - 2 * i))
  BY <1>5
<1>7. 2 ^ (Bits - 2 * i) = 4 * 2 ^ e
  <2>1. Bits - 2 * i = (e + 1) + 1
    BY WidthIsEven, <1>5
  <2>2. 2 ^ (e + 1) = 2 * 2 ^ e /\ 2 ^ ((e + 1) + 1) = 2 * 2 ^ (e + 1) /\ 2 ^ e \in Nat
    <3>1. e \in Nat /\ e + 1 \in Nat
      BY <1>5
    <3> HIDE DEF e
    <3> QED
      BY <3>1, PowerStep
  <2> HIDE DEF e
  <2> QED
    BY <2>1, <2>2
<1>8. h[1..j] = RootStep(h[1..i], 2 ^ e)
  <2>1. 1..j \in SUBSET (1..Steps) /\ 1..j # {}
    <3>1. j \in Nat /\ 1 <= j /\ j <= Steps
      BY <1>5, WidthIsEven
    <3>2. \A y \in 1..j : y \in 1..Steps
      BY <3>1, WidthIsEven
    <3>3. j \in 1..j
      BY <3>1
    <3> QED
      BY <3>2, <3>3
  <2>2. Max(1..j) = j
    <3>1. Max(1..j) \in 1..j /\ j <= Max(1..j)
      <4>1. Max(1..j) \in 1..j /\ \A y \in 1..j : y <= Max(1..j)
        BY <2>1, MaxIsThere
      <4>2. j \in 1..j
        BY <1>5
      <4> QED
        BY <4>1, <4>2
    <3> QED
      BY <3>1, <1>5
  <2>3. (1..j) \ {j} = 1..i
    BY <1>5
  <2>4. Tried[j] = 2 ^ e
    BY <1>5 DEF Tried
  <2> HIDE DEF i, e
  <2> QED
    BY <1>3, <2>1, <2>2, <2>3, <2>4 DEF RootAfter
<1>9. RootSoFar(h[1..j], n, 2 ^ e)
  <2>1. 2 ^ e \in Nat
    BY <1>5, PowerPositive
  <2> HIDE DEF i, e
  <2> QED
    BY <1>0, <1>6, <1>7, <1>8, <2>1, OneDigit
<1> QED
  BY <1>9, <1>2

(* integer_sqrt returns the root, rounded down, of every word: the digits    *)
(* tried one by one miss no root and find none too large.                    *)
LEMMA RootIsFloor ==
  ASSUME NEW n \in 0..(2 ^ Bits - 1)
  PROVE  /\ IntegerSqrt(n) \in Nat
         /\ IntegerSqrt(n) * IntegerSqrt(n) <= n
         /\ n < (IntegerSqrt(n) + 1) * (IntegerSqrt(n) + 1)
<1>1. PICK h : IsRoot(h, n) /\ IntegerSqrt(n) = h[1..Steps].root
  BY RootIsRecursion
<1>2. RootSoFar(h[1..Steps], n, 2 ^ (Bits - 2 * Steps))
  <2>1. Steps \in 0..Steps
    BY WidthIsEven
  <2> QED
    BY <1>1, <2>1, RootAfterDigits
<1>3. 2 ^ (Bits - 2 * Steps) = 1
  <2>1. Bits - 2 * Steps = 0
    BY WidthIsEven
  <2>2. 2 ^ 0 = 1
    OBVIOUS
  <2> QED
    BY <2>1, <2>2
<1>4. n \in Int
  BY PowerPositive, WidthIsEven
<1>5. PICK R \in Nat :
        /\ h[1..Steps] = [x |-> n - R * R * 1, root |-> R * 1]
        /\ 0 <= n - R * R * 1 /\ n - R * R * 1 < (2 * R + 1) * 1
  BY <1>2, <1>3 DEF RootSoFar
<1>6. IntegerSqrt(n) = R
  BY <1>1, <1>5
<1>7. R * R <= n /\ n < (R + 1) * (R + 1)
  BY <1>4, <1>5
<1> QED
  BY <1>6, <1>7

(* The values of a word. *)
WordValues == 0..(2 ^ Bits - 1)

(* The number of words. *)
LEMMA WordSize ==
  /\ 2 ^ Bits \in Nat /\ 2 ^ Bits > 0 /\ Bits < 2 ^ Bits
BY WidthIsEven, PowerPositive, PowerExceeds

(* What wraps is a word, and a word does not wrap. *)
LEMMA WrapInWord ==
  ASSUME NEW n \in Int
  PROVE  /\ Wrap(n) \in WordValues
         /\ n \in WordValues => Wrap(n) = n
<1> DEFINE w == 2 ^ Bits
<1>1. w \in Nat /\ w > 0
  BY WordSize
<1> HIDE DEF w
<1>2. n % w \in 0..(w - 1)
  BY <1>1
<1>3. n \in 0..(w - 1) => n % w = n
  BY <1>1
<1> QED
  BY <1>2, <1>3 DEF w, Wrap, WordValues

(* Division by any number, in the terms of multiplication. *)
LEMMA Quotient ==
  ASSUME NEW n \in Nat, NEW b \in Nat, b > 0
  PROVE  /\ n \div b \in Nat
         /\ b * (n \div b) <= n /\ n < b * (n \div b) + b
OBVIOUS

(* A larger divisor, a smaller quotient. *)
LEMMA QuotientFalls ==
  ASSUME NEW n \in Nat, NEW b \in Nat, NEW c \in Nat, b > 0, b <= c
  PROVE  n \div c <= n \div b
<1> DEFINE p == n \div b
           q == n \div c
<1>1. p \in Nat /\ q \in Nat /\ n < b * p + b /\ c * q <= n
  BY Quotient
<1> HIDE DEF p, q
<1>2. SUFFICES ASSUME p < q
               PROVE  FALSE
  BY <1>1 DEF p, q
<1>3. b * q <= c * q
  BY <1>1
<1>4. b * (p + 1) <= b * q
  <2>1. PICK d \in Nat : q = (p + 1) + d
    <3>1. q - (p + 1) \in Nat /\ q = (p + 1) + (q - (p + 1))
      BY <1>1, <1>2
    <3> QED
      BY <3>1
  <2>2. b * q = b * (p + 1) + b * d
    BY <1>1, <2>1
  <2>3. b * d \in Nat /\ b * (p + 1) \in Nat
    BY <1>1
  <2> QED
    BY <2>2, <2>3
<1>5. b * (p + 1) = b * p + b
  BY <1>1
<1>6. b * p \in Nat /\ b * q \in Nat /\ c * q \in Nat
  BY <1>1
<1> QED
  BY <1>1, <1>3, <1>4, <1>5, <1>6

(* A longer shift, a smaller result. *)
LEMMA ShiftFalls ==
  ASSUME NEW n \in Nat, NEW i \in Nat, NEW j \in Nat, i <= j
  PROVE  /\ ShiftRight(n, i) \in Nat /\ ShiftRight(n, j) \in Nat
         /\ ShiftRight(n, j) <= ShiftRight(n, i)
<1>1. 2 ^ i \in Nat /\ 2 ^ j \in Nat /\ 2 ^ i > 0 /\ 2 ^ j > 0 /\ 2 ^ i <= 2 ^ j
  BY PowerPositive, PowerGrows
<1> QED
  BY <1>1, Quotient, QuotientFalls DEF ShiftRight

(* The bits that are not leading zeros are as many as the number needs. *)
LEMMA Zeros ==
  ASSUME NEW d \in WordValues
  PROVE  \E k \in 0..Bits :
           /\ LeadingZeros(d) = Bits - k
           /\ d < 2 ^ k
           /\ k = 0 \/ d >= 2 ^ (k - 1)
<1> DEFINE Is(k) == d < 2 ^ k /\ (k = 0 \/ d >= 2 ^ (k - 1))
           Big == {k \in 0..Bits : d < 2 ^ k}
<1>0. d \in Nat /\ d < 2 ^ Bits /\ Bits \in Nat
  BY WordSize, WidthIsEven DEF WordValues
<1>1. \E k \in 0..Bits : Is(k)
  <2>1. Big \in SUBSET Nat /\ Bits \in Big
    BY <1>0
  <2>2. PICK k \in Big : \A i \in Big : k <= i
    <3> HIDE DEF Big
    <3> QED
      BY <2>1, LeastNatural
  <2>3. CASE k = 0
    BY <2>2, <2>3
  <2>4. CASE k # 0
    <3>1. k \in Nat /\ k - 1 \in 0..Bits /\ k - 1 < k
      BY <1>0, <2>4
    <3>2. k - 1 \notin Big
      BY <2>2, <3>1
    <3>3. ~(d < 2 ^ (k - 1))
      BY <3>1, <3>2
    <3>4. 2 ^ (k - 1) \in Nat
      <4>1. k - 1 \in Nat
        BY <3>1
      <4> QED
        BY <4>1, PowerPositive
    <3>5. d >= 2 ^ (k - 1)
      BY <1>0, <3>3, <3>4
    <3> QED
      BY <3>5
  <2> QED
    BY <2>3, <2>4
<1> DEFINE c == CHOOSE k \in 0..Bits : Is(k)
<1>2. c \in 0..Bits /\ Is(c)
  <2> HIDE DEF Is
  <2> QED
    BY <1>1
<1>3. LeadingZeros(d) = Bits - c
  BY DEF LeadingZeros
<1> HIDE DEF c
<1> QED
  BY <1>2, <1>3

(* A larger number has no more leading zeros. *)
LEMMA ZerosFall ==
  ASSUME NEW d \in WordValues, NEW e \in WordValues, d <= e
  PROVE  /\ LeadingZeros(d) \in 0..Bits /\ LeadingZeros(e) \in 0..Bits
         /\ LeadingZeros(e) <= LeadingZeros(d)
<1>0. d \in Nat /\ e \in Nat /\ Bits \in Nat
  BY WordSize, WidthIsEven DEF WordValues
<1>1. PICK k \in 0..Bits : /\ LeadingZeros(d) = Bits - k
                           /\ d < 2 ^ k
                           /\ k = 0 \/ d >= 2 ^ (k - 1)
  BY Zeros
<1>2. PICK j \in 0..Bits : /\ LeadingZeros(e) = Bits - j
                           /\ e < 2 ^ j
                           /\ j = 0 \/ e >= 2 ^ (j - 1)
  BY Zeros
<1>3. k <= j
  <2> SUFFICES ASSUME j < k
               PROVE  FALSE
    BY <1>0
  <2>1. k - 1 \in Nat /\ j \in Nat /\ j <= k - 1 /\ k # 0
    BY <1>0
  <2>2. 2 ^ j <= 2 ^ (k - 1) /\ 2 ^ j \in Nat /\ 2 ^ (k - 1) \in Nat
    BY <2>1, PowerGrows, PowerPositive
  <2>3. d >= 2 ^ (k - 1)
    BY <1>1, <2>1
  <2> QED
    BY <1>0, <1>2, <2>2, <2>3
<1> QED
  BY <1>0, <1>1, <1>2, <1>3

(* The tier of a density is its logarithm, also at the powers of two. *)
LEMMA TierLemma ==
  ASSUME NEW d \in WordValues
  PROVE  /\ Tier(d) \in 0..LastTier
         /\ d > 0 => 2 ^ Tier(d) <= d /\ d < 2 ^ (Tier(d) + 1)
<1>0. d \in Nat /\ Bits \in Nat /\ Bits > 0 /\ LastTier \in Nat /\ LastTier >= Bits
  BY WordSize, WidthIsEven DEF WordValues, LastTier
<1>1. PICK k \in 0..Bits : /\ LeadingZeros(d) = Bits - k
                           /\ d < 2 ^ k
                           /\ k = 0 \/ d >= 2 ^ (k - 1)
  BY Zeros
<1>2. (Bits - 1) - LeadingZeros(d) = k - 1 /\ k - 1 \in Int
  BY <1>0, <1>1
<1>3. Wrap(k - 1) \in Nat
  BY <1>2, WrapInWord, WordSize DEF WordValues
<1>4. Tier(d) = IF Wrap(k - 1) <= LastTier THEN Wrap(k - 1) ELSE LastTier
  BY <1>2 DEF Tier
<1>5. ASSUME d > 0
      PROVE  2 ^ Tier(d) <= d /\ d < 2 ^ (Tier(d) + 1)
  <2>1. k # 0
    <3> SUFFICES ASSUME k = 0
                 PROVE  FALSE
      OBVIOUS
    <3>1. 2 ^ k = 1
      OBVIOUS
    <3> QED
      BY <1>0, <1>1, <1>5, <3>1
  <2>2. k - 1 \in WordValues /\ k - 1 \in Nat /\ k - 1 <= LastTier /\ (k - 1) + 1 = k
    BY <1>0, <2>1, WordSize DEF WordValues
  <2>3. Tier(d) = k - 1
    BY <1>2, <1>4, <2>2, WrapInWord
  <2>4. 2 ^ (k - 1) \in Nat
    BY <2>2, PowerPositive
  <2> QED
    BY <1>0, <1>1, <2>1, <2>2, <2>3, <2>4
<1>6. Tier(d) \in 0..LastTier
  BY <1>0, <1>3, <1>4
<1> QED
  BY <1>5, <1>6

(* The shift the damping comes to. *)
Damped(d) ==
  IF Elasticity + LeadingZeros(d) < Bits THEN Elasticity + LeadingZeros(d) ELSE Bits - 1

(* The estimate is bounded and monotone as long as it fits a word. *)
LEMMA FeeLemma ==
  ASSUME NEW base \in WordValues, NEW d \in WordValues,
         base + ShiftRight(base, Elasticity) < 2 ^ Bits
  PROVE  /\ base <= NextBaseFee(base, d)
         /\ NextBaseFee(base, d) <= base + ShiftRight(base, Elasticity)
         /\ \A e \in WordValues : e >= d => NextBaseFee(base, d) <= NextBaseFee(base, e)
<1>0. /\ base \in Nat /\ Bits \in Nat /\ Bits > 0 /\ Elasticity \in Nat
      /\ Elasticity <= Bits - 1 /\ Bits - 1 \in Nat /\ 2 ^ Bits \in Nat
  BY WordSize, WidthIsEven, CriticalPathAssumption DEF WordValues
<1>1. ASSUME NEW f \in WordValues
      PROVE  /\ Damped(f) \in Nat /\ Elasticity <= Damped(f)
             /\ LeadingZeros(f) \in Nat
             /\ ShiftRight(base, Damped(f)) \in Nat
             /\ ShiftRight(base, Damped(f)) <= ShiftRight(base, Elasticity)
             /\ NextBaseFee(base, f)
                  = IF f = 0 THEN base ELSE base + ShiftRight(base, Damped(f))
  <2>1. LeadingZeros(f) \in Nat
    BY <1>0, Zeros
  <2>2. Damped(f) \in Nat /\ Elasticity <= Damped(f)
    BY <1>0, <2>1 DEF Damped
  <2>3. /\ ShiftRight(base, Damped(f)) \in Nat /\ ShiftRight(base, Elasticity) \in Nat
        /\ ShiftRight(base, Damped(f)) <= ShiftRight(base, Elasticity)
    BY <1>0, <2>2, ShiftFalls
  <2>4. base + ShiftRight(base, Damped(f)) \in WordValues
    BY <1>0, <2>3 DEF WordValues
  <2>5. NextBaseFee(base, f) = IF f = 0 THEN base
                               ELSE Wrap(base + ShiftRight(base, Damped(f)))
    BY DEF NextBaseFee, Damped
  <2>6. Wrap(base + ShiftRight(base, Damped(f))) = base + ShiftRight(base, Damped(f))
    BY <1>0, <2>3, <2>4, WrapInWord
  <2> QED
    BY <2>1, <2>2, <2>3, <2>5, <2>6
<1>2. base <= NextBaseFee(base, d) /\ NextBaseFee(base, d) <= base + ShiftRight(base, Elasticity)
  <2>1. ShiftRight(base, Elasticity) \in Nat
    BY <1>0, ShiftFalls
  <2> QED
    BY <1>0, <1>1, <2>1
<1>3. ASSUME NEW e \in WordValues, e >= d
      PROVE  NextBaseFee(base, d) <= NextBaseFee(base, e)
  <2>1. CASE d = 0
    BY <1>0, <1>1, <2>1
  <2>2. CASE d # 0
    <3>0. d \in Nat /\ e \in Nat
      BY WordSize DEF WordValues
    <3>1. e # 0
      BY <1>3, <2>2, <3>0
    <3>2. LeadingZeros(e) <= LeadingZeros(d)
      BY <1>3, <3>0, ZerosFall
    <3>3. Damped(e) <= Damped(d)
      BY <1>0, <1>1, <3>2 DEF Damped
    <3>4. ShiftRight(base, Damped(d)) <= ShiftRight(base, Damped(e))
      BY <1>0, <1>1, <3>3, ShiftFalls
    <3> QED
      BY <1>0, <1>1, <2>2, <3>1, <3>4
  <2> QED
    BY <2>1, <2>2
<1> QED
  BY <1>2, <1>3

(* An entry of the table stands for a change up to the one looked up. *)
LEMMA EntryBelow ==
  ASSUME NEW change \in WordValues
  PROVE  /\ EntryOf(change) \in Nat
         /\ EntryOf(change) * 2 ^ Granularity \in Nat
         /\ EntryOf(change) * 2 ^ Granularity <= change
<1> DEFINE g == 2 ^ Granularity
           i == change \div g
<1>1. g \in Nat /\ g > 0 /\ change \in Nat /\ Entries \in Nat \ {0}
  BY CriticalPathAssumption, PowerPositive, WordSize DEF WordValues
<1>2. i \in Nat /\ g * i <= change
  BY <1>1, Quotient
<1>3. EntryOf(change) = IF i < Entries THEN i ELSE Entries - 1
  BY DEF EntryOf, ShiftRight
<1> HIDE DEF g, i
<1>4. EntryOf(change) \in Nat /\ EntryOf(change) <= i
  BY <1>1, <1>2, <1>3
<1> DEFINE n == EntryOf(change)
<1>5. n \in Nat /\ n <= i
  BY <1>4
<1> HIDE DEF n
<1>6. n * g \in Nat /\ n * g <= g * i
  BY <1>1, <1>2, <1>5
<1>7. n * g <= change
  BY <1>1, <1>2, <1>6
<1> QED
  BY <1>5, <1>6, <1>7 DEF n, g

(* A number a word away from one that fits is that one, wrapped. *)
LEMMA WrapByOne ==
  ASSUME NEW n \in Int, NEW k \in {-1, 0, 1}, n - k * 2 ^ Bits \in WordValues
  PROVE  Wrap(n) = n - k * 2 ^ Bits
<1> DEFINE w == 2 ^ Bits
           q == n \div w
           r == n % w
<1>1. w \in Nat /\ w > 0
  BY WordSize
<1>2. n - k * w \in 0..(w - 1)
  BY DEF WordValues
<1> HIDE DEF w
<1>3. q \in Int /\ r \in 0..(w - 1) /\ n = w * q + r
  BY <1>1
<1> HIDE DEF q, r
<1> DEFINE s == q - k
<1>5. s \in Int /\ w * s \in Int /\ w * s = w * q - w * k
  BY <1>1, <1>3
<1>6. w * s < w /\ - w < w * s
  <2>1. n - k * w = w * q - w * k + r
    BY <1>1, <1>3
  <2>2. n - k * w = w * s + r
    BY <1>1, <1>3, <1>5, <2>1
  <2> HIDE DEF s
  <2> QED
    BY <1>1, <1>2, <1>3, <1>5, <2>2
<1> HIDE DEF s
<1>7. s = 0
  <2>1. ASSUME s >= 1
        PROVE  FALSE
    <3>1. w * s >= w
      BY <1>1, <1>5, <2>1
    <3> QED
      BY <1>1, <1>5, <1>6, <3>1
  <2>2. ASSUME s <= -1
        PROVE  FALSE
    <3>1. w * s <= - w
      BY <1>1, <1>5, <2>2
    <3> QED
      BY <1>1, <1>5, <1>6, <3>1
  <2> QED
    BY <1>5, <2>1, <2>2
<1>8. q = k
  BY <1>3, <1>7 DEF s
<1>9. r = n - k * w
  BY <1>1, <1>3, <1>8
<1> QED
  BY <1>9 DEF r, w, Wrap

(* What a subtraction that wraps has taken away, an addition that wraps      *)
(* brings back.                                                              *)
LEMMA WrapBack ==
  ASSUME NEW root \in WordValues, NEW r0 \in WordValues
  PROVE  Wrap(r0 + Wrap(root - r0)) = root
<1> DEFINE w == 2 ^ Bits
<1>1. w \in Nat /\ root \in 0..(w - 1) /\ r0 \in 0..(w - 1)
  BY WordSize DEF WordValues
<1>2. CASE root >= r0
  <2>1. root - r0 \in Int /\ root - r0 \in WordValues
    <3> HIDE DEF w
    <3>1. root - r0 \in 0..(w - 1)
      BY <1>1, <1>2
    <3> QED
      BY <1>1, <3>1 DEF w, WordValues
  <2>2. Wrap(root - r0) = root - r0
    BY <2>1, WrapInWord
  <2>3. r0 + (root - r0) = root /\ root \in Int
    BY <1>1
  <2> QED
    BY <2>2, <2>3, WrapInWord
<1>3. CASE root < r0
  <2> DEFINE n == root - r0
             m == root + w
  <2>1. n \in Int /\ m \in Int /\ n - (-1) * w \in 0..(w - 1) /\ m - 1 * w = root
    <3> HIDE DEF w
    <3> QED
      BY <1>1, <1>3
  <2>2. Wrap(n) = n - (-1) * w
    <3>1. n - (-1) * w \in WordValues
      BY <2>1 DEF WordValues
    <3> HIDE DEF n
    <3> QED
      BY <2>1, <3>1, WrapByOne
  <2>3. Wrap(m) = m - 1 * w
    <3>1. m - 1 * w \in WordValues
      BY <2>1
    <3> HIDE DEF m
    <3> QED
      BY <2>1, <3>1, WrapByOne
  <2>4. r0 + (n - (-1) * w) = m
    <3> HIDE DEF w
    <3> QED
      BY <1>1
  <2> QED
    BY <2>1, <2>2, <2>3, <2>4
<1>4. root >= r0 \/ root < r0
  <2> HIDE DEF w
  <2> QED
    BY <1>1
<1> QED
  BY <1>2, <1>3, <1>4

(* The entry of the step array is the root, rounded down, of the product as  *)
(* a word holds it, less the reserve; where the product fits, that is the    *)
(* best input for the change the entry stands for.                           *)
LEMMA InputLemma ==
  ASSUME NEW r0 \in WordValues, r0 > 0, NEW change \in WordValues
  PROVE  LET input == StepEntry(r0, EntryOf(change))
             covered == EntryOf(change) * 2 ^ Granularity
         IN  /\ input \in WordValues
             /\ Square(Wrap(r0 + input)) <= Product(r0, covered)
             /\ Product(r0, covered) < Square(Wrap(r0 + input) + 1)
             /\ r0 * (r0 + covered) < 2 ^ Bits =>
                  /\ Square(r0 + input) <= r0 * (r0 + change)
                  /\ Square(r0 + input + 1) > r0 * (r0 + covered)
<1> DEFINE input == StepEntry(r0, EntryOf(change))
           covered == EntryOf(change) * 2 ^ Granularity
           product == Product(r0, covered)
           root == IntegerSqrt(product)
<1>0. /\ r0 \in Nat /\ change \in Nat /\ 2 ^ Bits \in Nat
      /\ covered \in Nat /\ covered <= change
  BY WordSize, EntryBelow DEF WordValues
<1>1. Wrap(r0 + covered) \in Nat /\ product \in WordValues
  <2> HIDE DEF covered
  <2>1. Wrap(r0 + covered) \in WordValues
    BY <1>0, WrapInWord
  <2>2. r0 * Wrap(r0 + covered) \in Int /\ Wrap(r0 + covered) \in Nat
    BY <1>0, <2>1, WordSize DEF WordValues
  <2> QED
    BY <2>2, WrapInWord DEF Product
<1>2. root \in Nat /\ root * root <= product /\ product < (root + 1) * (root + 1)
  <2> HIDE DEF product
  <2> QED
    BY <1>1, RootIsFloor DEF WordValues
<1>3. input = Wrap(root - r0)
  BY DEF StepEntry
<1> HIDE DEF root, covered
<1>4. input \in WordValues
  <2>1. root - r0 \in Int
    BY <1>0, <1>2
  <2> HIDE DEF input
  <2> QED
    BY <1>3, <2>1, WrapInWord
<1>5. Square(Wrap(r0 + input)) <= product /\ product < Square(Wrap(r0 + input) + 1)
  <2> HIDE DEF product, input
  <2>1. root <= root * root /\ root * root \in Nat
    BY <1>2
  <2>2. root \in WordValues
    BY <1>0, <1>1, <1>2, <2>1 DEF WordValues
  <2>3. Wrap(r0 + input) = root
    BY <1>3, <2>2, WrapBack
  <2> QED
    BY <1>2, <2>3 DEF Square
<1>6. ASSUME r0 * (r0 + covered) < 2 ^ Bits
      PROVE  Square(r0 + input) <= r0 * (r0 + change)
             /\ Square(r0 + input + 1) > r0 * (r0 + covered)
  <2> DEFINE exact == r0 * (r0 + covered)
  <2>1. exact \in Nat /\ r0 + covered <= exact /\ r0 * r0 <= exact
    BY <1>0
  <2>2. exact <= r0 * (r0 + change)
    BY <1>0
  <2>3. r0 + covered \in WordValues /\ exact \in WordValues
    <3> HIDE DEF exact
    <3>1. exact < 2 ^ Bits
      BY <1>6 DEF exact
    <3> QED
      BY <1>0, <2>1, <3>1 DEF WordValues
  <2>4. product = exact
    <3>1. Wrap(r0 + covered) = r0 + covered /\ Wrap(exact) = exact
      <4> HIDE DEF exact
      <4>1. r0 + covered \in Int /\ exact \in Int
        BY <1>0, <2>1
      <4> QED
        BY <2>3, <4>1, WrapInWord
    <3> QED
      BY <3>1 DEF Product
  <2>5. r0 <= root
    <3> SUFFICES ASSUME root + 1 <= r0
                 PROVE  FALSE
      BY <1>0, <1>2
    <3>1. (root + 1) * (root + 1) <= r0 * r0
      BY <1>0, <1>2
    <3>2. (root + 1) * (root + 1) \in Nat /\ r0 * r0 \in Nat
      BY <1>0, <1>2
    <3> HIDE DEF exact, product
    <3> QED
      BY <1>2, <2>1, <2>4, <3>1, <3>2
  <2>6. root - r0 \in WordValues
    <3>1. root <= root * root
      BY <1>2
    <3>2. root * root \in Nat
      BY <1>2
    <3> HIDE DEF exact, product
    <3>3. exact < 2 ^ Bits
      BY <1>6 DEF exact
    <3>4. root < 2 ^ Bits
      BY <1>0, <1>2, <2>1, <2>4, <3>1, <3>2, <3>3
    <3> QED
      BY <1>0, <1>2, <2>5, <3>4 DEF WordValues
  <2>7. r0 + input = root
    <3>1. input = root - r0
      BY <1>0, <1>2, <1>3, <2>6, WrapInWord
    <3> HIDE DEF input
    <3> QED
      BY <1>0, <1>2, <3>1
  <2>8. Square(root) <= r0 * (r0 + change)
    <3>1. root * root \in Nat /\ r0 * (r0 + change) \in Nat
      BY <1>0, <1>2
    <3> HIDE DEF exact, product
    <3> QED
      BY <1>2, <2>1, <2>2, <2>4, <3>1 DEF Square
  <2>9. Square(root + 1) > exact
    <3>1. (root + 1) * (root + 1) \in Nat
      BY <1>2
    <3> HIDE DEF exact, product
    <3> QED
      BY <1>2, <2>1, <2>4, <3>1 DEF Square
  <2> HIDE DEF input
  <2> QED
    BY <2>7, <2>8, <2>9
<1> QED
  BY <1>4, <1>5, <1>6 DEF covered

(* What the pipeline makes of a packet. *)
Computed(p) ==
  [change |-> p.change, density |-> p.density, profit |-> p.profit,
   input |-> StepEntry(baseline, EntryOf(p.change)),
   size |-> Masked(Payload, p.profit),
   fee |-> NextBaseFee(baseFee, p.density), tier |-> Tier(p.density)]

(* The last packet carries what the stages compute from it, and the fees in  *)
(* a transaction are its own; a template that was never built has none.      *)
PathInv ==
  /\ baseline \in 1..(2 ^ Bits - 1)
  /\ baseFee \in Fees
  /\ template.initialized \in BOOLEAN
  /\ template = [initialized |-> template.initialized,
                 maxFee |-> template.maxFee, priority |-> template.priority]
  /\ template.maxFee # Untouched =>
       /\ template.initialized
       /\ template.maxFee = packet.fee /\ template.priority = packet.tier
  /\ packet = NoPacket \/ \E p \in Packets : packet = Computed(p)

(* The pipeline starts within its invariant. *)
LEMMA PathInvInit == PathInit => PathInv
<1> SUFFICES ASSUME PathInit
             PROVE  PathInv
  OBVIOUS
<1>1. \A b \in Baselines : (IF b = 0 THEN 1 ELSE b) \in 1..(2 ^ Bits - 1)
  <2> SUFFICES ASSUME NEW b \in Baselines
               PROVE  (IF b = 0 THEN 1 ELSE b) \in 1..(2 ^ Bits - 1)
    OBVIOUS
  <2>1. b \in 0..(2 ^ Bits - 1)
    BY CriticalPathAssumption
  <2>2. 2 ^ Bits \in Nat /\ 1 < 2 ^ Bits
    BY WordSize, WidthIsEven
  <2> QED
    BY <2>1, <2>2
<1>2. baseline \in 1..(2 ^ Bits - 1)
  BY <1>1 DEF PathInit
<1> QED
  BY <1>2 DEF PathInit, PathInv

(* A template that is built forgets the fees; a packet writes them all. *)
LEMMA PathInvStep == PathInv /\ [PathNext]_pathVars => PathInv'
<1> SUFFICES ASSUME PathInv, [PathNext]_pathVars
             PROVE  PathInv'
  OBVIOUS
<1> USE DEF PathInv
<1>1. CASE BuildTemplate
  BY <1>1 DEF BuildTemplate, Computed
<1>2. ASSUME NEW p \in Packets, ExecuteCriticalPath(p)
      PROVE  PathInv'
  <2>1. /\ packet' = Computed(p)
        /\ UNCHANGED <<baseline, baseFee>>
        /\ template' = IF template.initialized
                       THEN [template EXCEPT !.maxFee = NextBaseFee(baseFee, p.density),
                                             !.priority = Tier(p.density)]
                       ELSE template
    BY <1>2 DEF ExecuteCriticalPath, Computed
  <2>2. packet' = Computed(p)'
    BY <2>1 DEF Computed
  <2>3. packet'.fee = NextBaseFee(baseFee, p.density) /\ packet'.tier = Tier(p.density)
    BY <2>1 DEF Computed
  <2>4. packet' = NoPacket' \/ \E q \in Packets : packet' = Computed(q)'
    BY <2>2
  <2>5. baseline' \in 1..(2 ^ Bits - 1) /\ baseFee' \in Fees
    BY <2>1
  <2>6. CASE template.initialized
    <3>1. template' = [initialized |-> TRUE, maxFee |-> packet'.fee,
                       priority |-> packet'.tier]
      BY <2>1, <2>3, <2>6
    <3> QED
      BY <2>4, <2>5, <3>1
  <2>7. CASE ~ template.initialized
    <3>1. template' = template /\ template.maxFee = Untouched
      BY <2>1, <2>7
    <3>2. template'.maxFee = Untouched /\ template'.initialized \in BOOLEAN
      BY <3>1
    <3>3. template' = [initialized |-> template'.initialized,
                       maxFee |-> template'.maxFee, priority |-> template'.priority]
      BY <3>1
    <3> QED
      BY <2>4, <2>5, <3>2, <3>3
  <2> QED
    BY <2>6, <2>7
<1>3. CASE UNCHANGED pathVars
  BY <1>3 DEF pathVars, Computed
<1> QED
  BY <1>1, <1>2, <1>3 DEF PathNext

(* What a packet carries is what the lemmas say of its stages. *)
LEMMA PathInvSound == PathInv => CriticalPathSound
<1> SUFFICES ASSUME PathInv
             PROVE  CriticalPathSound
  OBVIOUS
<1>0. /\ baseline \in WordValues /\ baseline > 0 /\ baseFee \in WordValues
      /\ 2 ^ Bits \in Nat /\ 0 \in WordValues /\ LastTier \in Nat
  BY WordSize, WidthIsEven, CriticalPathAssumption DEF PathInv, WordValues, LastTier
<1>1. ASSUME packet = NoPacket
      PROVE  PathTypeOK /\ InputIsRoot /\ InputIsOptimal /\ TierIsLogarithm /\ packet.size = 0
  <2>1. EntryOf(0) * 2 ^ Granularity = 0
    <3>1. 0 \in Nat /\ EntryOf(0) * 2 ^ Granularity \in Nat /\ EntryOf(0) * 2 ^ Granularity <= 0
      BY <1>0, EntryBelow
    <3> QED
      BY <3>1
  <2>2. Covered = 0
    BY <1>1, <2>1 DEF Covered, NoPacket
  <2>3. InputIsOptimal
    <3>1. baseline \in Nat
      BY <1>0, WordSize DEF WordValues
    <3>2. Square(baseline + 0) <= baseline * (baseline + 0)
          /\ Square(baseline + 0 + 1) > baseline * (baseline + 0)
      BY <3>1 DEF Square
    <3> QED
      BY <1>1, <2>2, <3>2 DEF InputIsOptimal, Optimal, NoPacket
  <2>4. InputIsRoot
    BY <1>1 DEF InputIsRoot
  <2> QED
    BY <1>0, <1>1, <2>3, <2>4 DEF PathInv, PathTypeOK, TierIsLogarithm, NoPacket, WordValues
<1>2. ASSUME NEW p \in Packets, packet = Computed(p)
      PROVE  /\ PathTypeOK /\ InputIsRoot /\ InputIsOptimal /\ TierIsLogarithm /\ FeeIsBounded
             /\ packet.size > 0 => packet.profit >= 0
  <2>1. p.change \in WordValues /\ p.density \in WordValues /\ p.profit \in Int
    BY CriticalPathAssumption DEF WordValues
  <2>2. /\ packet.change = p.change /\ packet.density = p.density
        /\ packet.profit = p.profit /\ packet.size = Masked(Payload, p.profit)
        /\ packet.input = StepEntry(baseline, EntryOf(p.change))
        /\ packet.fee = NextBaseFee(baseFee, p.density)
        /\ packet.tier = Tier(p.density)
    BY <1>2 DEF Computed
  <2>3. packet.input \in WordValues /\ InputIsRoot /\ InputIsOptimal
    BY <1>0, <2>1, <2>2, InputLemma DEF InputIsRoot, InputIsOptimal, Optimal, Covered
  <2>4. packet.tier \in 0..LastTier /\ TierIsLogarithm
    BY <2>1, <2>2, TierLemma DEF TierIsLogarithm
  <2>5. FeeIsBounded
    <3>1. \A d \in Densities : d \in WordValues
      BY CriticalPathAssumption DEF Densities, WordValues
    <3> QED
      BY <1>0, <2>1, <2>2, <3>1, FeeLemma DEF FeeIsBounded
  <2>6. packet.size > 0 => packet.profit >= 0
    <3>1. p.profit < 0 => Masked(Payload, p.profit) = 0
      BY <1>0 DEF Masked, SignSpread
    <3> QED
      BY <2>1, <2>2, <3>1
  <2> QED
    BY <2>3, <2>4, <2>5, <2>6 DEF PathInv, PathTypeOK, WordValues
<1>3. OnlyProfitable
  BY <1>1, <1>2 DEF PathInv, OnlyProfitable
<1>4. FeeIsBounded
  BY <1>2 DEF PathInv, FeeIsBounded
<1> QED
  BY <1>1, <1>2, <1>3, <1>4 DEF PathInv, CriticalPathSound

(* For any even width of a word, any tables, reserves, fees and packets,     *)
(* whatever wraps: an input is the wrapped root, rounded down, of the        *)
(* wrapped product, a tier is a logarithm, what loses is masked and a        *)
(* transaction's fields are of one packet (execute_critical_path).  That     *)
(* root is the optimum only where the product fits a word, and the fee is    *)
(* bounded only where an eighth more fits: InputIsOptimal and FeeIsBounded.  *)
THEOREM CriticalPathIsSound == PathSpec => []CriticalPathSound
<1>1. PathSpec => []PathInv
  BY PathInvInit, PathInvStep, PTL DEF PathSpec
<1> QED
  BY <1>1, PathInvSound, PTL

=============================================================================
