------------------------------ MODULE SumLemmas ------------------------------
(***************************************************************************)
(* Sums of natural numbers over finite sets: what SumFunctionOnSet of the  *)
(* community modules, a recursion that takes the elements one by one as    *)
(* CHOOSE picks them, computes; and powers of two.  The proofs take a      *)
(* smallest set or number at which a claim fails in place of an induction. *)
(***************************************************************************)
EXTENDS Integers, FiniteSets, Functions, FiniteSetTheorems, WellFoundedInduction, TLAPS

Picked(s) == CHOOSE x \in s : TRUE

(* h is the recursion of the sum of f over the subsets of S. *)
IsSum(h, f, S) ==
  h = [s \in SUBSET S |-> IF s = {} THEN 0 ELSE f[Picked(s)] + h[s \ {Picked(s)}]]

(* A claim that fails on a finite set fails on one, and on no proper subset  *)
(* of that one.                                                              *)
LEMMA SmallestSet ==
  ASSUME NEW S, IsFiniteSet(S), NEW B \in SUBSET SUBSET S, B # {}
  PROVE  \E T \in B : \A x \in T, U \in SUBSET S : U \subseteq T \ {x} => U \notin B
<1> DEFINE R == StrictSubsetOrdering(S)
<1>1. FiniteSubsetsOf(S) = SUBSET S
  BY FS_FiniteSubsetsOfFinite
<1>2. IsWellFoundedOn(R, SUBSET S)
  BY <1>1, FS_StrictSubsetOrderingWellFounded
<1>3. PICK T \in B : \A U \in B : ~(<<U, T>> \in R)
  <2> HIDE DEF R
  <2> QED
    BY <1>2, WFMin
<1>4. ASSUME NEW x \in T, NEW U \in SUBSET S, U \subseteq T \ {x}
      PROVE  U \notin B
  <2>1. <<U, T>> \in R
    BY <1>4 DEF StrictSubsetOrdering
  <2> QED
    BY <1>3, <2>1
<1> QED
  BY <1>4

(* A nonempty set of naturals has a least member. *)
LEMMA LeastNatural ==
  ASSUME NEW N \in SUBSET Nat, N # {}
  PROVE  \E n \in N : \A k \in N : n <= k
<1> DEFINE R == {ss \in Nat \X Nat : ss[1] < ss[2]}
<1>1. IsWellFoundedOn(R, Nat)
  BY NatLessThanWellFounded DEF OpToRel
<1>2. PICK n \in N : \A k \in N : ~(<<k, n>> \in R)
  <2> HIDE DEF R
  <2> QED
    BY <1>1, WFMin
<1>3. \A k \in N : ~(k < n)
  BY <1>2
<1> QED
  BY <1>3

(* The recursion has a solution, which is made of natural numbers: one for   *)
(* the subsets of up to n elements, for every n.                             *)
LEMMA SumExists ==
  ASSUME NEW S, IsFiniteSet(S), NEW f, \A x \in S : f[x] \in Nat
  PROVE  \E h \in [SUBSET S -> Nat] : IsSum(h, f, S)
<1> DEFINE Layer(n) == {s \in SUBSET S : Cardinality(s) <= n}
           Step(h, s) == IF s = {} THEN 0 ELSE f[Picked(s)] + h[s \ {Picked(s)}]
           Good(n) == \E h \in [Layer(n) -> Nat] : \A s \in Layer(n) : h[s] = Step(h, s)
           Bad == {n \in Nat : ~ Good(n)}
<1>1. \A s \in SUBSET S : IsFiniteSet(s) /\ Cardinality(s) \in Nat
  BY FS_Subset, FS_CardinalityType
<1>2. \A s \in SUBSET S : s # {} =>
        /\ Picked(s) \in s /\ f[Picked(s)] \in Nat
        /\ s \ {Picked(s)} \in SUBSET S
        /\ Cardinality(s \ {Picked(s)}) = Cardinality(s) - 1
  <2> SUFFICES ASSUME NEW s \in SUBSET S, s # {}
               PROVE  /\ Picked(s) \in s /\ f[Picked(s)] \in Nat
                      /\ s \ {Picked(s)} \in SUBSET S
                      /\ Cardinality(s \ {Picked(s)}) = Cardinality(s) - 1
    OBVIOUS
  <2>1. Picked(s) \in s
    BY DEF Picked
  <2> QED
    BY <2>1, <1>1, FS_RemoveElement
<1>3. Good(0)
  <2> DEFINE h == [s \in Layer(0) |-> 0]
  <2>1. \A s \in Layer(0) : s = {}
    BY <1>1, FS_EmptySet
  <2>2. h \in [Layer(0) -> Nat] /\ \A s \in Layer(0) : h[s] = Step(h, s)
    BY <2>1
  <2> QED
    BY <2>2
<1>4. ASSUME NEW n \in Nat, Good(n)
      PROVE  Good(n + 1)
  <2>1. PICK h \in [Layer(n) -> Nat] : \A s \in Layer(n) : h[s] = Step(h, s)
    BY <1>4
  <2> DEFINE g == [s \in Layer(n + 1) |-> Step(h, s)]
  <2>2. \A s \in Layer(n + 1) : s # {} => s \ {Picked(s)} \in Layer(n)
    BY <1>1, <1>2
  <2>3. \A s \in Layer(n) : s \in Layer(n + 1) /\ g[s] = h[s]
    BY <1>1, <2>1
  <2>4. g \in [Layer(n + 1) -> Nat]
    <3>1. \A s \in Layer(n + 1) : Step(h, s) \in Nat
      <4> SUFFICES ASSUME NEW s \in Layer(n + 1), s # {}
                   PROVE  f[Picked(s)] + h[s \ {Picked(s)}] \in Nat
        OBVIOUS
      <4>1. f[Picked(s)] \in Nat /\ h[s \ {Picked(s)}] \in Nat
        <5> HIDE DEF Layer
        <5>1. h[s \ {Picked(s)}] \in Nat
          BY <2>1, <2>2
        <5>2. s \in SUBSET S
          BY DEF Layer
        <5> QED
          BY <5>1, <5>2, <1>2
      <4> QED
        BY <4>1
    <3> HIDE DEF Layer, Step
    <3> QED
      BY <3>1
  <2>5. \A s \in Layer(n + 1) : g[s] = Step(g, s)
    <3> SUFFICES ASSUME NEW s \in Layer(n + 1)
                 PROVE  g[s] = Step(g, s)
      OBVIOUS
    <3>1. s # {} => g[s \ {Picked(s)}] = h[s \ {Picked(s)}]
      <4> HIDE DEF g, Layer
      <4> QED
        BY <2>2, <2>3
    <3>2. g[s] = Step(h, s)
      <4> HIDE DEF Layer, Step
      <4> QED
        OBVIOUS
    <3>3. Step(h, s) = Step(g, s)
      <4> HIDE DEF g, Layer
      <4> QED
        BY <3>1
    <3> QED
      BY <3>2, <3>3
  <2> HIDE DEF g, Layer, Step
  <2> QED
    BY <2>4, <2>5
<1>5. Bad = {}
  <2> SUFFICES ASSUME Bad # {}
               PROVE  FALSE
    OBVIOUS
  <2>1. PICK n \in Bad : \A k \in Bad : n <= k
    <3> HIDE DEF Good
    <3> QED
      BY LeastNatural
  <2> HIDE DEF Good
  <2>2. n # 0
    BY <1>3
  <2>3. n - 1 \in Nat /\ n - 1 \notin Bad
    BY <2>1, <2>2
  <2>4. Good(n - 1 + 1)
    BY <2>3, <1>4
  <2> QED
    BY <2>4
<1>6. Good(Cardinality(S))
  <2> HIDE DEF Good
  <2> QED
    BY <1>1, <1>5
<1>7. Layer(Cardinality(S)) = SUBSET S
  BY FS_Subset
<1>8. PICK h \in [SUBSET S -> Nat] : \A s \in SUBSET S : h[s] = Step(h, s)
  BY <1>6, <1>7
<1>9. h = [s \in SUBSET S |-> Step(h, s)]
  <2> HIDE DEF Step
  <2> QED
    BY <1>8
<1> QED
  BY <1>8, <1>9 DEF IsSum

(* Whatever set it is computed in, the sum of a set is the same. *)
LEMMA SumUnique ==
  ASSUME NEW S, IsFiniteSet(S), NEW f, NEW T \in SUBSET S,
         NEW h, IsSum(h, f, S), NEW g, IsSum(g, f, T)
  PROVE  g[T] = h[T]
<1> DEFINE B == {s \in SUBSET T : g[s] # h[s]}
<1>1. SUFFICES ASSUME B # {}
               PROVE  FALSE
  OBVIOUS
<1>2. IsFiniteSet(T)
  BY FS_Subset
<1>3. PICK s \in B : \A x \in s, U \in SUBSET T : U \subseteq s \ {x} => U \notin B
  <2> HIDE DEF B
  <2>1. B \in SUBSET SUBSET T
    BY DEF B
  <2> QED
    BY <1>1, <1>2, <2>1, SmallestSet
<1>4. /\ g[s] = IF s = {} THEN 0 ELSE f[Picked(s)] + g[s \ {Picked(s)}]
      /\ h[s] = IF s = {} THEN 0 ELSE f[Picked(s)] + h[s \ {Picked(s)}]
  BY DEF IsSum
<1>5. s # {} => Picked(s) \in s
  BY DEF Picked
<1> QED
  BY <1>3, <1>4, <1>5

(* What SumFunctionOnSet computes. *)
LEMMA SumIsRecursion ==
  ASSUME NEW S, IsFiniteSet(S), NEW f, \A x \in S : f[x] \in Nat
  PROVE  \E h \in [SUBSET S -> Nat] :
           /\ IsSum(h, f, S)
           /\ SumFunctionOnSet(f, S) = h[S]
<1> DEFINE h == CHOOSE h : IsSum(h, f, S)
<1>1. IsSum(h, f, S)
  BY SumExists
<1>2. SumFunctionOnSet(f, S) = h[S]
  BY DEF SumFunctionOnSet, FoldFunctionOnSet, MapThenFoldSet, IsSum, Picked
<1>3. PICK g \in [SUBSET S -> Nat] : IsSum(g, f, S)
  BY SumExists
<1>4. h \in [SUBSET S -> Nat]
  <2>1. \A T \in SUBSET S : h[T] = g[T]
    <3> SUFFICES ASSUME NEW T \in SUBSET S
                 PROVE  h[T] = g[T]
      OBVIOUS
    <3> HIDE DEF h
    <3>1. IsSum([s \in SUBSET T |-> h[s]], f, T)
      BY <1>1 DEF IsSum, Picked
    <3>2. [s \in SUBSET T |-> h[s]][T] = g[T]
      BY <3>1, <1>3, SumUnique
    <3> QED
      BY <3>2
  <2>2. h = [s \in SUBSET S |-> h[s]]
    <3> HIDE DEF h
    <3> QED
      BY <1>1 DEF IsSum
  <2> HIDE DEF h
  <2> QED
    BY <2>1, <2>2
<1> QED
  BY <1>1, <1>2, <1>4

(* The same as equations of the sums themselves. *)
LEMMA SumStep ==
  ASSUME NEW S, IsFiniteSet(S), NEW f, \A x \in S : f[x] \in Nat
  PROVE  /\ SumFunctionOnSet(f, S) \in Nat
         /\ S = {} => SumFunctionOnSet(f, S) = 0
         /\ S # {} => /\ Picked(S) \in S
                      /\ SumFunctionOnSet(f, S)
                           = f[Picked(S)] + SumFunctionOnSet(f, S \ {Picked(S)})
<1>1. PICK h \in [SUBSET S -> Nat] : IsSum(h, f, S) /\ SumFunctionOnSet(f, S) = h[S]
  BY SumIsRecursion
<1>2. S # {} => Picked(S) \in S
  BY DEF Picked
<1>3. h[S] = IF S = {} THEN 0 ELSE f[Picked(S)] + h[S \ {Picked(S)}]
  BY <1>1 DEF IsSum
<1> DEFINE T == S \ {Picked(S)}
<1>4. T \in SUBSET S /\ IsFiniteSet(T)
  BY FS_RemoveElement
<1>5. SumFunctionOnSet(f, T) = h[T]
  <2> HIDE DEF T
  <2>1. \A x \in T : f[x] \in Nat
    BY <1>4
  <2>2. PICK g \in [SUBSET T -> Nat] : IsSum(g, f, T) /\ SumFunctionOnSet(f, T) = g[T]
    BY <1>4, <2>1, SumIsRecursion
  <2> QED
    BY <1>1, <1>4, <2>2, SumUnique
<1> QED
  BY <1>1, <1>2, <1>3, <1>5

LEMMA SumType ==
  ASSUME NEW S, IsFiniteSet(S), NEW f, \A x \in S : f[x] \in Nat
  PROVE  SumFunctionOnSet(f, S) \in Nat
BY SumStep

LEMMA SumEmpty ==
  ASSUME NEW f
  PROVE  SumFunctionOnSet(f, {}) = 0
BY SumStep, FS_EmptySet

(* Sums of functions that agree on the set are equal. *)
LEMMA SumSame ==
  ASSUME NEW S, IsFiniteSet(S), NEW f, \A x \in S : f[x] \in Nat,
         NEW g, \A x \in S : g[x] = f[x]
  PROVE  SumFunctionOnSet(g, S) = SumFunctionOnSet(f, S)
<1> DEFINE B == {s \in SUBSET S : SumFunctionOnSet(g, s) # SumFunctionOnSet(f, s)}
<1>1. SUFFICES ASSUME B # {}
               PROVE  FALSE
  OBVIOUS
<1>2. PICK s \in B : \A x \in s, U \in SUBSET S : U \subseteq s \ {x} => U \notin B
  <2>1. B \in SUBSET SUBSET S
    OBVIOUS
  <2> HIDE DEF B
  <2> QED
    BY <1>1, <2>1, SmallestSet
<1>3. s \in SUBSET S /\ IsFiniteSet(s)
  BY FS_Subset
<1>4. \A x \in s : f[x] \in Nat /\ g[x] = f[x] /\ g[x] \in Nat
  BY <1>3
<1>5. /\ s = {} => SumFunctionOnSet(f, s) = 0
      /\ s # {} => /\ Picked(s) \in s
                   /\ SumFunctionOnSet(f, s) = f[Picked(s)] + SumFunctionOnSet(f, s \ {Picked(s)})
  BY <1>3, <1>4, SumStep
<1>6. /\ s = {} => SumFunctionOnSet(g, s) = 0
      /\ s # {} => /\ Picked(s) \in s
                   /\ SumFunctionOnSet(g, s) = g[Picked(s)] + SumFunctionOnSet(g, s \ {Picked(s)})
  BY <1>3, <1>4, SumStep
<1>7. s # {} => SumFunctionOnSet(g, s \ {Picked(s)}) = SumFunctionOnSet(f, s \ {Picked(s)})
  BY <1>2, <1>3, <1>5
<1> QED
  BY <1>4, <1>5, <1>6, <1>7

(* A sum of zeroes. *)
LEMMA SumZero ==
  ASSUME NEW S, IsFiniteSet(S), NEW f, \A x \in S : f[x] = 0
  PROVE  SumFunctionOnSet(f, S) = 0
<1> DEFINE B == {s \in SUBSET S : SumFunctionOnSet(f, s) # 0}
<1>1. SUFFICES ASSUME B # {}
               PROVE  FALSE
  OBVIOUS
<1>2. PICK s \in B : \A x \in s, U \in SUBSET S : U \subseteq s \ {x} => U \notin B
  <2>1. B \in SUBSET SUBSET S
    OBVIOUS
  <2> HIDE DEF B
  <2> QED
    BY <1>1, <2>1, SmallestSet
<1>3. s \in SUBSET S /\ IsFiniteSet(s)
  BY FS_Subset
<1>4. /\ s = {} => SumFunctionOnSet(f, s) = 0
      /\ s # {} => /\ Picked(s) \in s
                   /\ SumFunctionOnSet(f, s) = f[Picked(s)] + SumFunctionOnSet(f, s \ {Picked(s)})
  <2>1. \A x \in s : f[x] \in Nat
    BY <1>3
  <2> QED
    BY <1>3, <2>1, SumStep
<1>5. s # {} => SumFunctionOnSet(f, s \ {Picked(s)}) = 0
  BY <1>2, <1>3, <1>4
<1> QED
  BY <1>3, <1>4, <1>5

(* Any element may be taken first. *)
LEMMA SumRemove ==
  ASSUME NEW S, IsFiniteSet(S), NEW f, \A y \in S : f[y] \in Nat, NEW x \in S
  PROVE  SumFunctionOnSet(f, S) = f[x] + SumFunctionOnSet(f, S \ {x})
<1> DEFINE Fails(s) == \E y \in s : SumFunctionOnSet(f, s) # f[y] + SumFunctionOnSet(f, s \ {y})
           B == {s \in SUBSET S : Fails(s)}
<1>1. SUFFICES ASSUME B # {}
               PROVE  FALSE
  OBVIOUS
<1>2. PICK s \in B : \A y \in s, U \in SUBSET S : U \subseteq s \ {y} => U \notin B
  <2>1. B \in SUBSET SUBSET S
    OBVIOUS
  <2> HIDE DEF B
  <2> QED
    BY <1>1, <2>1, SmallestSet
<1>3. PICK y \in s : SumFunctionOnSet(f, s) # f[y] + SumFunctionOnSet(f, s \ {y})
  OBVIOUS
<1> DEFINE p == Picked(s)
<1>4. /\ s \in SUBSET S /\ IsFiniteSet(s)
      /\ \A z \in s : f[z] \in Nat
  BY FS_Subset
<1>5. p \in s /\ SumFunctionOnSet(f, s) = f[p] + SumFunctionOnSet(f, s \ {p})
  BY <1>4, SumStep
<1>6. y # p
  BY <1>3, <1>5
<1> DEFINE py == s \ {p, y}
<1>7. SumFunctionOnSet(f, s \ {p}) = f[y] + SumFunctionOnSet(f, py)
  <2>1. s \ {p} \in SUBSET S /\ s \ {p} \notin B
    BY <1>2, <1>4, <1>5
  <2>2. y \in s \ {p} /\ (s \ {p}) \ {y} = py
    BY <1>6
  <2> HIDE DEF p, py
  <2> QED
    BY <2>1, <2>2
<1>8. SumFunctionOnSet(f, s \ {y}) = f[p] + SumFunctionOnSet(f, py)
  <2>1. s \ {y} \in SUBSET S /\ s \ {y} \notin B
    BY <1>2, <1>4
  <2>2. p \in s \ {y} /\ (s \ {y}) \ {p} = py
    BY <1>5, <1>6
  <2> HIDE DEF p, py
  <2> QED
    BY <2>1, <2>2
<1>9. SumFunctionOnSet(f, py) \in Nat /\ f[p] \in Nat /\ f[y] \in Nat
  <2>1. IsFiniteSet(py) /\ py \subseteq s
    BY <1>4, FS_Difference
  <2> HIDE DEF p, py
  <2> QED
    BY <1>4, <1>5, <2>1, SumType
<1> HIDE DEF p, py
<1> QED
  BY <1>3, <1>5, <1>7, <1>8, <1>9

(* One more element. *)
LEMMA SumAdd ==
  ASSUME NEW S, IsFiniteSet(S), NEW x, x \notin S,
         NEW f, \A y \in S \union {x} : f[y] \in Nat
  PROVE  SumFunctionOnSet(f, S \union {x}) = f[x] + SumFunctionOnSet(f, S)
<1>1. IsFiniteSet(S \union {x})
  BY FS_AddElement
<1>2. (S \union {x}) \ {x} = S
  OBVIOUS
<1> QED
  BY <1>1, <1>2, SumRemove

(* A function changed at one element. *)
LEMMA SumUpdate ==
  ASSUME NEW S, IsFiniteSet(S), NEW x \in S,
         NEW f, \A y \in S : f[y] \in Nat,
         NEW g, \A y \in S : g[y] \in Nat, \A y \in S \ {x} : g[y] = f[y]
  PROVE  /\ f[x] <= SumFunctionOnSet(f, S)
         /\ SumFunctionOnSet(g, S) = SumFunctionOnSet(f, S) - f[x] + g[x]
<1> DEFINE T == S \ {x}
<1>1. IsFiniteSet(T) /\ T \subseteq S
  BY FS_RemoveElement
<1>2. SumFunctionOnSet(f, S) = f[x] + SumFunctionOnSet(f, T)
  BY SumRemove
<1>3. SumFunctionOnSet(g, S) = g[x] + SumFunctionOnSet(g, T)
  BY SumRemove
<1>4. SumFunctionOnSet(f, T) \in Nat /\ SumFunctionOnSet(g, T) = SumFunctionOnSet(f, T)
  <2>1. \A y \in T : f[y] \in Nat /\ g[y] = f[y]
    BY <1>1
  <2> HIDE DEF T
  <2> QED
    BY <1>1, <2>1, SumType, SumSame
<1> HIDE DEF T
<1> QED
  BY <1>2, <1>3, <1>4
(* A sum over fewer elements is no larger. *)
LEMMA SumSubset ==
  ASSUME NEW S, IsFiniteSet(S), NEW f, \A y \in S : f[y] \in Nat, NEW T \in SUBSET S
  PROVE  SumFunctionOnSet(f, T) <= SumFunctionOnSet(f, S)
<1> DEFINE Fails(s) == T \subseteq s /\ ~ (SumFunctionOnSet(f, T) <= SumFunctionOnSet(f, s))
           B == {s \in SUBSET S : Fails(s)}
<1> SUFFICES ASSUME B # {}
             PROVE  FALSE
  OBVIOUS
<1>1. PICK U \in B : \A x \in U, s \in SUBSET S : s \subseteq U \ {x} => s \notin B
  <2>1. B \in SUBSET SUBSET S
    OBVIOUS
  <2> HIDE DEF B
  <2> QED
    BY <2>1, SmallestSet
<1>2. U \in SUBSET S /\ IsFiniteSet(U) /\ T \subseteq U /\ IsFiniteSet(T)
  BY <1>1, FS_Subset
<1>3. SumFunctionOnSet(f, T) \in Nat /\ SumFunctionOnSet(f, U) \in Nat
  BY <1>2, SumType
<1>4. PICK x \in U : x \notin T
  <2>1. T # U
    BY <1>1, <1>3
  <2> QED
    BY <1>2, <2>1
<1>5. U \ {x} \in SUBSET S /\ T \subseteq U \ {x} /\ IsFiniteSet(U \ {x})
  BY <1>2, <1>4, FS_Subset
<1>6. U \ {x} \notin B
  BY <1>1, <1>5
<1>7. SumFunctionOnSet(f, T) <= SumFunctionOnSet(f, U \ {x})
  BY <1>5, <1>6
<1>8. SumFunctionOnSet(f, U) = f[x] + SumFunctionOnSet(f, U \ {x}) /\ f[x] \in Nat
  BY <1>2, SumRemove
<1>9. SumFunctionOnSet(f, U \ {x}) \in Nat
  BY <1>2, <1>5, SumType
<1>10. ~ (SumFunctionOnSet(f, T) <= SumFunctionOnSet(f, U))
  BY <1>1
<1> HIDE DEF B, Fails
<1> QED
  BY <1>3, <1>7, <1>8, <1>9, <1>10

-----------------------------------------------------------------------------
(* A power of two counts the subsets of that many elements. *)
LEMMA PowerIsSubsets ==
  ASSUME NEW n \in Nat
  PROVE  2 ^ n = Cardinality(SUBSET (1..n)) /\ IsFiniteSet(SUBSET (1..n))
<1>1. IsFiniteSet(1..n) /\ Cardinality(1..n) = n
  BY FS_Interval
<1> QED
  BY <1>1, FS_SUBSET

(* Half of the subsets of n + 1 elements leave the last one out. *)
LEMMA PowerStep ==
  ASSUME NEW n \in Nat
  PROVE  2 ^ n \in Nat \ {0} /\ 2 ^ (n + 1) = 2 * 2 ^ n
<1> DEFINE A == SUBSET (1..n)
           B == {s \cup {n + 1} : s \in A}
           join == [s \in A |-> s \cup {n + 1}]
<1>1. IsFiniteSet(A) /\ Cardinality(A) = 2 ^ n /\ Cardinality(A) \in Nat
  BY PowerIsSubsets, FS_CardinalityType
<1>2. SUBSET (1..(n + 1)) = A \cup B
  <2>1. 1..(n + 1) = (1..n) \cup {n + 1}
    OBVIOUS
  <2>2. ASSUME NEW s \in SUBSET (1..(n + 1))
        PROVE  s \in A \cup B
    <3>1. s \ {n + 1} \in A
      BY <2>1
    <3>2. CASE n + 1 \in s
      <4>1. s = (s \ {n + 1}) \cup {n + 1}
        BY <3>2
      <4> QED
        BY <3>1, <4>1
    <3>3. CASE n + 1 \notin s
      BY <3>1, <3>3
    <3> QED
      BY <3>2, <3>3
  <2>3. ASSUME NEW s \in A \cup B
        PROVE  s \in SUBSET (1..(n + 1))
    BY <2>1
  <2> QED
    <3> HIDE DEF A, B
    <3> QED
      BY <2>2, <2>3
<1>3. A \cap B = {}
  <2>1. n + 1 \notin 1..n
    OBVIOUS
  <2> QED
    BY <2>1
<1>4. join \in Bijection(A, B)
  <2>1. join \in Injection(A, B)
    <3>1. \A s \in A : s = (s \cup {n + 1}) \ {n + 1}
      <4>1. n + 1 \notin 1..n
        OBVIOUS
      <4> QED
        BY <4>1
    <3>2. join \in [A -> B]
      OBVIOUS
    <3>3. \A s, t \in A : join[s] = join[t] => s = t
      <4>1. \A s \in A : s = join[s] \ {n + 1}
        BY <3>1
      <4> HIDE DEF join
      <4> QED
        BY <4>1
    <3> QED
      BY <3>2, <3>3 DEF Injection, IsInjective
  <2>2. join \in Surjection(A, B)
    BY DEF Surjection
  <2> QED
    BY <2>1, <2>2 DEF Bijection
<1>5. IsFiniteSet(B) /\ Cardinality(B) = 2 ^ n
  BY <1>1, <1>4, FS_Bijection DEF ExistsBijection
<1>6. Cardinality(A \cup B) = 2 ^ n + 2 ^ n
  <2> HIDE DEF A, B
  <2>1. Cardinality(A \cup B) = Cardinality(A) + Cardinality(B) - Cardinality(A \cap B)
    BY <1>1, <1>5, FS_Union
  <2> QED
    BY <2>1, <1>1, <1>5, <1>3, FS_EmptySet
<1>7. 2 ^ (n + 1) = Cardinality(SUBSET (1..(n + 1)))
  BY PowerIsSubsets
<1>8. 2 ^ n # 0
  <2>1. {} \in A
    OBVIOUS
  <2> HIDE DEF A
  <2> QED
    BY <1>1, <2>1, FS_EmptySet
<1> HIDE DEF A, B
<1>9. 2 ^ (n + 1) = 2 ^ n + 2 ^ n
  BY <1>2, <1>6, <1>7
<1>10. 2 ^ n \in Nat
  BY <1>1
<1> QED
  BY <1>8, <1>9, <1>10

(* The same without the step. *)
LEMMA PowerPositive ==
  ASSUME NEW n \in Nat
  PROVE  2 ^ n \in Nat /\ 2 ^ n > 0
<1>1. 2 ^ n \in Nat \ {0}
  BY PowerStep
<1> QED
  BY <1>1

(* Powers of two grow with the exponent. *)
LEMMA PowerGrows ==
  ASSUME NEW m \in Nat, NEW n \in Nat, m <= n
  PROVE  2 ^ m <= 2 ^ n
<1> DEFINE Bad == {k \in Nat : ~(2 ^ m <= 2 ^ (m + k))}
<1>1. Bad = {}
  <2> SUFFICES ASSUME Bad # {}
               PROVE  FALSE
    OBVIOUS
  <2>1. PICK k \in Bad : \A j \in Bad : k <= j
    BY LeastNatural
  <2>2. k # 0
    BY PowerPositive
  <2> DEFINE j == k - 1
  <2>3. j \in Nat /\ m + j \in Nat /\ m + k = (m + j) + 1 /\ j \notin Bad
    BY <2>1, <2>2
  <2>4. 2 ^ (m + k) = 2 * 2 ^ (m + j)
    BY <2>3, PowerStep
  <2>5. 2 ^ m <= 2 ^ (m + j)
    BY <2>3
  <2>6. 2 ^ (m + j) \in Nat /\ 2 ^ m \in Nat /\ m + j \in Nat
    BY <2>3, PowerPositive
  <2>7. 2 ^ m <= 2 ^ (m + k)
    BY <2>4, <2>5, <2>6
  <2> QED
    BY <2>7
<1>2. n - m \in Nat /\ m + (n - m) = n
  OBVIOUS
<1> QED
  BY <1>1, <1>2

(* An exponent is below its power. *)
LEMMA PowerExceeds ==
  ASSUME NEW n \in Nat
  PROVE  n < 2 ^ n
<1> DEFINE Bad == {k \in Nat : ~(k < 2 ^ k)}
<1>1. Bad = {}
  <2> SUFFICES ASSUME Bad # {}
               PROVE  FALSE
    OBVIOUS
  <2>1. PICK k \in Bad : \A j \in Bad : k <= j
    BY LeastNatural
  <2>2. k # 0
    BY PowerPositive
  <2> DEFINE j == k - 1
  <2>3. j \in Nat /\ k = j + 1 /\ j \notin Bad
    BY <2>1, <2>2
  <2>4. 2 ^ k = 2 * 2 ^ j /\ 2 ^ j \in Nat
    BY <2>3, PowerStep
  <2>5. j < 2 ^ j
    BY <2>3
  <2>6. k < 2 ^ k
    BY <2>3, <2>4, <2>5
  <2> QED
    BY <2>6
<1> QED
  BY <1>1

=============================================================================
