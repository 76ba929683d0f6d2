-------------------------- MODULE AuditTrail_proofs --------------------------
(***************************************************************************)
(* What a card shows was verified by another actor and has no flaw, the    *)
(* log in memory only grows, and log, numbers, verdicts and cards agree,   *)
(* for any number of threads and under every fault of the log.             *)
(***************************************************************************)
EXTENDS AuditTrail, SequenceTheorems, SumLemmas

Fields == {"pc", "obs", "verifier", "decision", "seq", "audit"}

(* What a worker carries: an observation, and the decision made about it;    *)
(* only an approved one reaches the publication.                             *)
Carries(w) ==
  /\ DOMAIN work[w] = Fields
  /\ work[w].pc # "idle" =>
       /\ work[w].obs \in Observations
       /\ work[w].decision = Decision(work[w].obs, work[w].verifier)
  /\ work[w].pc = "publish" => work[w].decision = "approved"

IInv ==
  /\ DOMAIN work = Workers
  /\ \A w \in Workers : Carries(w)
  /\ DOMAIN cards = Cards
  /\ PublishedIsVerified

(* An approval means that no criterion failed, the independence of the       *)
(* verifier included.                                                        *)
LEMMA ApprovedMeansVerified ==
  ASSUME NEW obs, NEW verifier, Decision(obs, verifier) = "approved"
  PROVE  obs.flaws = {} /\ verifier \notin {None, obs.author}
<1>1. Failed(obs, verifier) = {} BY DEF Decision
<1> QED BY <1>1 DEF Failed

(* A step of one worker that only moves its program counter, and perhaps     *)
(* stores the number of its entry.                                           *)
LEMMA Moving ==
  ASSUME IInv, NEW w \in Workers, work[w].pc # "idle",
         NEW pc \in {"newline", "verdict"}, NEW audit,
         \/ work' = [work EXCEPT ![w].pc = pc]
         \/ work' = [work EXCEPT ![w].pc = pc, ![w].audit = audit],
         UNCHANGED cards
  PROVE  IInv'
<1>1. DOMAIN work' = Workers BY DEF IInv
<1>2. ASSUME NEW v \in Workers PROVE Carries(v)'
  <2>1. Carries(v) BY DEF IInv
  <2>2. CASE v # w
    <3>1. work'[v] = work[v] BY <2>2 DEF IInv
    <3> QED BY <2>1, <3>1 DEF Carries
  <2>3. CASE v = w
    <3>1. DOMAIN work[w] = Fields BY <2>1, <2>3 DEF Carries
    <3>2. /\ DOMAIN work'[w] = Fields
          /\ work'[w].pc = pc
          /\ work'[w].obs = work[w].obs
          /\ work'[w].verifier = work[w].verifier
          /\ work'[w].decision = work[w].decision
      BY <3>1 DEF IInv, Fields
    <3> QED BY <2>1, <2>3, <3>2 DEF Carries
  <2> QED BY <2>2, <2>3
<1>3. PublishedIsVerified' BY DEF IInv, PublishedIsVerified
<1> QED BY <1>1, <1>2, <1>3 DEF IInv

(* A worker that ends its call, while the cards stay as they are.            *)
LEMMA Leaving ==
  ASSUME IInv, NEW w \in Workers, work' = [work EXCEPT ![w] = Idle]
  PROVE  DOMAIN work' = Workers /\ \A v \in Workers : Carries(v)'
<1>1. DOMAIN work' = Workers BY DEF IInv
<1>2. ASSUME NEW v \in Workers PROVE Carries(v)'
  <2>1. CASE v # w
    <3>1. work'[v] = work[v] BY <2>1 DEF IInv
    <3> QED BY <3>1 DEF IInv, Carries
  <2>2. CASE v = w
    <3>1. work'[v] = Idle BY <2>2 DEF IInv
    <3> QED BY <3>1 DEF Carries, Idle, Fields
  <2> QED BY <2>1, <2>2
<1> QED BY <1>1, <1>2

LEMMA InitInductive == Init => IInv
<1> SUFFICES ASSUME Init PROVE IInv OBVIOUS
<1>1. DOMAIN work = Workers /\ DOMAIN cards = Cards BY DEF Init
<1>2. \A w \in Workers : Carries(w)
  BY DEF Init, Carries, Idle, Fields
<1>3. PublishedIsVerified BY DEF Init, PublishedIsVerified
<1> QED BY <1>1, <1>2, <1>3 DEF IInv

LEMMA StepInductive == IInv /\ [Next]_vars => IInv'
<1> SUFFICES ASSUME IInv, [Next]_vars PROVE IInv' OBVIOUS
<1>1. ASSUME NEW w \in Workers, NEW obs \in Observations, NEW verifier,
             Evaluate(w, obs, verifier)
      PROVE  IInv'
  <2>1. DOMAIN work' = Workers BY <1>1 DEF IInv, Evaluate
  <2>2. ASSUME NEW v \in Workers PROVE Carries(v)'
    <3>1. CASE v # w
      <4>1. work'[v] = work[v] BY <1>1, <3>1 DEF IInv, Evaluate
      <4> QED BY <4>1 DEF IInv, Carries
    <3>2. CASE v = w
      <4>1. work'[v] = [pc |-> "open", obs |-> obs, verifier |-> verifier,
                        decision |-> Decision(obs, verifier), seq |-> seq,
                        audit |-> None]
        BY <1>1, <3>2 DEF IInv, Evaluate
      <4> QED BY <4>1 DEF Carries, Fields
    <3> QED BY <3>1, <3>2
  <2>3. PublishedIsVerified' /\ DOMAIN cards' = Cards
    BY <1>1 DEF IInv, Evaluate, PublishedIsVerified
  <2> QED BY <2>1, <2>2, <2>3 DEF IInv
<1>2. ASSUME NEW w \in Workers, OpenFails(w) \/ WriteTorn(w) \/ LineFeedFails(w)
      PROVE  IInv'
  BY <1>2, Moving DEF OpenFails, WriteTorn, LineFeedFails
<1>3. ASSUME NEW w \in Workers, WriteEntry(w)
      PROVE  IInv'
  BY <1>3, Moving DEF WriteEntry
<1>4. ASSUME NEW w \in Workers, WriteLineFeed(w)
      PROVE  IInv'
  BY <1>4, Moving DEF WriteLineFeed
<1>5. ASSUME NEW w \in Workers, Verdict(w)
      PROVE  IInv'
  <2>1. PublishedIsVerified' /\ DOMAIN cards' = Cards
    BY <1>5 DEF IInv, Verdict, PublishedIsVerified
  <2>2. CASE work[w].decision = "approved"
    <3>1. work' = [work EXCEPT ![w] = [work[w] EXCEPT !.pc = "publish"]]
      BY <1>5, <2>2 DEF Verdict, IInv
    <3>2. DOMAIN work' = Workers BY <3>1 DEF IInv
    <3>3. ASSUME NEW v \in Workers PROVE Carries(v)'
      <4>1. CASE v # w
        <5>1. work'[v] = work[v] BY <3>1, <4>1 DEF IInv
        <5> QED BY <5>1 DEF IInv, Carries
      <4>2. CASE v = w
        <5>1. DOMAIN work[w] = Fields BY DEF IInv, Carries
        <5>2. /\ DOMAIN work'[w] = Fields
              /\ work'[w].pc = "publish"
              /\ work'[w].obs = work[w].obs
              /\ work'[w].verifier = work[w].verifier
              /\ work'[w].decision = work[w].decision
          BY <3>1, <5>1 DEF IInv, Fields
        <5>3. work[w].pc # "idle" BY <1>5 DEF Verdict
        <5> QED BY <2>2, <4>2, <5>2, <5>3 DEF IInv, Carries
      <4> QED BY <4>1, <4>2
    <3> QED BY <2>1, <3>2, <3>3 DEF IInv
  <2>3. CASE work[w].decision # "approved"
    <3>1. work' = [work EXCEPT ![w] = Idle] BY <1>5, <2>3 DEF Verdict, IInv
    <3> QED BY <2>1, <3>1, Leaving DEF IInv
  <2> QED BY <2>2, <2>3
<1>6. ASSUME NEW w \in Workers, Publish(w)
      PROVE  IInv'
  <2>1. /\ work[w].obs \in Observations
        /\ Decision(work[w].obs, work[w].verifier) = "approved"
    BY <1>6 DEF Publish, IInv, Carries
  <2>2. /\ work[w].obs.flaws = {}
        /\ work[w].verifier \notin {None, work[w].obs.author}
    BY <2>1, ApprovedMeansVerified
  <2>3. cards' = [cards EXCEPT ![work[w].obs.card] = Shown(w)]
    BY <1>6 DEF Publish
  <2>4. DOMAIN cards' = Cards BY <2>3 DEF IInv
  <2>5. ASSUME NEW c \in Cards, cards'[c] # None
        PROVE  /\ cards'[c].obs.card = c
               /\ cards'[c].obs.flaws = {}
               /\ cards'[c].verifier \notin {None, cards'[c].obs.author}
    <3>1. CASE c # work[w].obs.card
      <4>1. cards'[c] = cards[c] BY <2>3, <3>1 DEF IInv
      <4> QED BY <2>5, <4>1 DEF IInv, PublishedIsVerified
    <3>2. CASE c = work[w].obs.card
      <4>1. cards'[c] = Shown(w) BY <2>3, <3>2 DEF IInv
      <4>2. cards'[c].obs = work[w].obs /\ cards'[c].verifier = work[w].verifier
        BY <4>1 DEF Shown
      <4> QED BY <2>2, <3>2, <4>2
    <3> QED BY <3>1, <3>2
  <2>6. PublishedIsVerified' BY <2>5 DEF PublishedIsVerified
  <2>7. work' = [work EXCEPT ![w] = Idle] BY <1>6 DEF Publish
  <2> QED BY <2>4, <2>6, <2>7, Leaving DEF IInv
<1>7. CASE Restart
  <2>1. DOMAIN work' = Workers /\ DOMAIN cards' = Cards BY <1>7 DEF Restart
  <2>2. \A w \in Workers : Carries(w)'
    BY <1>7 DEF Restart, Carries, Idle, Fields
  <2>3. PublishedIsVerified' BY <1>7 DEF Restart, PublishedIsVerified
  <2> QED BY <2>1, <2>2, <2>3 DEF IInv
<1>8. CASE UNCHANGED vars
  BY <1>8 DEF vars, IInv, Carries, PublishedIsVerified
<1> QED BY <1>1, <1>2, <1>3, <1>4, <1>5, <1>6, <1>7, <1>8 DEF Next

(* "only publishes a card update when the Gatekeeper returns Approved"; a    *)
(* verifier is "never its own author".                                       *)
THEOREM PublishedIsVerifiedHolds == Spec => []PublishedIsVerified
<1>1. IInv => PublishedIsVerified BY DEF IInv
<1> QED BY InitInductive, StepInductive, <1>1, PTL DEF Spec

-----------------------------------------------------------------------------
(* The log and its replay: what one more part does to the lines, and that an *)
(* ended entry is replayed.                                                  *)

Part == Entries \union {Torn, LineFeed}

(* Numbers have a largest one in every finite set.                           *)
LEMMA LargestExists ==
  ASSUME NEW S \in SUBSET Nat, IsFiniteSet(S), S # {}
  PROVE  \E n \in S : \A m \in S : n >= m
<1> DEFINE B == {U \in SUBSET S : U # {} /\ \A n \in U : \E m \in U : ~ (n >= m)}
<1> SUFFICES ASSUME B # {}
             PROVE  FALSE
  OBVIOUS
<1>1. PICK U \in B : \A x \in U, s \in SUBSET S : s \subseteq U \ {x} => s \notin B
  <2>1. B \in SUBSET SUBSET S
    OBVIOUS
  <2> HIDE DEF B
  <2> QED
    BY <2>1, SmallestSet
<1>2. U \in SUBSET S /\ U # {} /\ \A n \in U : \E m \in U : ~ (n >= m)
  BY <1>1
<1>3. PICK x \in U : TRUE
  BY <1>2
<1>4. U \ {x} \in SUBSET S /\ U \ {x} \notin B
  BY <1>1, <1>2
<1>5. CASE U \ {x} = {}
  BY <1>2, <1>5
<1>6. CASE U \ {x} # {}
  <2>1. PICK n \in U \ {x} : \A m \in U \ {x} : n >= m
    BY <1>4, <1>6
  <2>2. n \in Nat /\ x \in Nat /\ U \subseteq Nat
    BY <1>2, <2>1
  <2>3. CASE n >= x
    BY <1>2, <2>1, <2>2, <2>3
  <2>4. CASE x >= n
    BY <1>2, <2>1, <2>2, <2>4
  <2> QED
    BY <2>2, <2>3, <2>4
<1> QED
  BY <1>5, <1>6

-----------------------------------------------------------------------------
(* What AuditStore::open finds. *)
LEMMA ParsedType ==
  ASSUME NEW log \in Seq(Part)
  PROVE  /\ Len(log) \in Nat /\ DOMAIN log = 1..Len(log)
         /\ Parsed(log) \in SUBSET (1..Len(log)) /\ IsFiniteSet(Parsed(log))
         /\ Cardinality(Parsed(log)) \in Nat
         /\ \A i \in Parsed(log) : log[i] \in Entries
         /\ \A i \in 1..Len(log) : log[i] \in Part
<1>1. Len(log) \in Nat /\ DOMAIN log = 1..Len(log)
  BY LenProperties
<1>2. Parsed(log) \in SUBSET (1..Len(log))
  BY <1>1 DEF Parsed
<1>3. IsFiniteSet(Parsed(log)) /\ Cardinality(Parsed(log)) \in Nat
  <2>1. IsFiniteSet(1..Len(log))
    BY <1>1, FS_Interval
  <2>2. IsFiniteSet(Parsed(log))
    BY <1>2, <2>1, FS_Subset
  <2> QED
    BY <2>2, FS_CardinalityType
<1>4. \A i \in 1..Len(log) : log[i] \in Part
  BY ElementOfSeq
<1>5. \A i \in Parsed(log) : log[i] \in Entries
  BY <1>2, <1>4 DEF Parsed, Part
<1> QED
  BY <1>1, <1>2, <1>3, <1>4, <1>5

LEMMA BeforeType ==
  ASSUME NEW log \in Seq(Part), NEW i \in Parsed(log)
  PROVE  /\ Before(log, i) \subseteq Parsed(log) /\ IsFiniteSet(Before(log, i))
         /\ Cardinality(Before(log, i)) \in 1..Cardinality(Parsed(log))
<1>1. /\ Parsed(log) \in SUBSET (1..Len(log)) /\ IsFiniteSet(Parsed(log))
      /\ Cardinality(Parsed(log)) \in Nat /\ Len(log) \in Nat
  BY ParsedType
<1>2. Before(log, i) \in SUBSET Parsed(log)
  BY DEF Before
<1>3. /\ IsFiniteSet(Before(log, i))
      /\ Cardinality(Before(log, i)) <= Cardinality(Parsed(log))
      /\ Cardinality(Before(log, i)) \in Nat
  BY <1>1, <1>2, FS_Subset, FS_CardinalityType
<1>4. i \in Before(log, i)
  BY <1>1 DEF Before
<1>5. Cardinality(Before(log, i)) # 0
  BY <1>3, <1>4, FS_EmptySet
<1> QED
  BY <1>1, <1>2, <1>3, <1>5

(* A later line has more lines before it. *)
LEMMA BeforeGrows ==
  ASSUME NEW log \in Seq(Part), NEW i \in Parsed(log), NEW j \in Parsed(log), i < j
  PROVE  Cardinality(Before(log, i)) < Cardinality(Before(log, j))
<1>1. Parsed(log) \in SUBSET (1..Len(log)) /\ Len(log) \in Nat
  BY ParsedType
<1>2. /\ IsFiniteSet(Before(log, i)) /\ IsFiniteSet(Before(log, j))
      /\ Cardinality(Before(log, i)) \in Nat /\ Cardinality(Before(log, j)) \in Nat
  BY BeforeType
<1>3. Before(log, i) \subseteq Before(log, j)
  <2>1. ASSUME NEW k \in Parsed(log), k <= i
        PROVE  k <= j
    BY <1>1, <2>1
  <2> QED
    BY <2>1 DEF Before
<1>4. j \in Before(log, j) /\ j \notin Before(log, i)
  BY <1>1 DEF Before
<1>5. /\ Cardinality(Before(log, i)) <= Cardinality(Before(log, j))
      /\ Cardinality(Before(log, i)) # Cardinality(Before(log, j))
  BY <1>2, <1>3, <1>4, FS_Subset
<1> QED
  BY <1>2, <1>5

(* Every number up to the count is the number of one line, and of no other.  *)
LEMMA KthLineIs ==
  ASSUME NEW log \in Seq(Part), NEW k \in 1..Cardinality(Parsed(log))
  PROVE  KthLine(log, k) \in Parsed(log) /\ Cardinality(Before(log, KthLine(log, k))) = k
<1> DEFINE P == Parsed(log)
           n == Cardinality(P)
           rank == [i \in P |-> Cardinality(Before(log, i))]
<1>1. P \in SUBSET (1..Len(log)) /\ IsFiniteSet(P) /\ n \in Nat /\ Len(log) \in Nat
  BY ParsedType
<1>2. rank \in [P -> 1..n]
  BY BeforeType
<1>3. \A i, j \in P : i < j => rank[i] < rank[j]
  BY BeforeGrows
<1> HIDE DEF rank
<1>4. \A i, j \in P : rank[i] = rank[j] => i = j
  <2> SUFFICES ASSUME NEW i \in P, NEW j \in P, rank[i] = rank[j], i # j
               PROVE  FALSE
    OBVIOUS
  <2>1. i \in Nat /\ j \in Nat /\ rank[i] \in Nat
    BY <1>1, <1>2
  <2>2. i < j \/ j < i
    BY <2>1
  <2> QED
    BY <1>3, <2>1, <2>2
<1>5. rank \in Injection(P, 1..n)
  BY <1>2, <1>4 DEF Injection, IsInjective
<1>6. IsFiniteSet(1..n) /\ Cardinality(1..n) = n
  BY <1>1, FS_Interval
<1> HIDE DEF P
<1>7. rank \in Surjection(P, 1..n)
  BY <1>5, <1>6, FS_Injection
<1>8. \E i \in P : rank[i] = k
  BY <1>7 DEF Surjection, P
<1>9. \E i \in Parsed(log) : Cardinality(Before(log, i)) = k
  BY <1>8 DEF rank, P
<1> QED
  BY <1>9 DEF KthLine

LEMMA KthLineUnique ==
  ASSUME NEW log \in Seq(Part), NEW i \in Parsed(log)
  PROVE  /\ Cardinality(Before(log, i)) \in 1..Cardinality(Parsed(log))
         /\ KthLine(log, Cardinality(Before(log, i))) = i
<1>1. PICK k \in 1..Cardinality(Parsed(log)) : k = Cardinality(Before(log, i))
  BY BeforeType
<1>2. PICK j \in Parsed(log) : j = KthLine(log, k) /\ Cardinality(Before(log, j)) = k
  BY KthLineIs
<1>3. i \in Nat /\ j \in Nat /\ k \in Nat
  BY <1>1, ParsedType
<1>4. ~ (i < j) /\ ~ (j < i)
  BY <1>1, <1>2, <1>3, BeforeGrows
<1> QED
  BY <1>1, <1>2, <1>3, <1>4

(* The replayed trail holds the parsed lines and nothing else. *)
LEMMA ReplayType ==
  ASSUME NEW log \in Seq(Part)
  PROVE  /\ Replay(log) \in Seq(Entries)
         /\ Len(Replay(log)) = Cardinality(Parsed(log))
         /\ \A k \in 1..Cardinality(Parsed(log)) : Replay(log)[k] = log[KthLine(log, k)]
<1>1. PICK n \in Nat : n = Cardinality(Parsed(log))
  BY ParsedType
<1>2. \A k \in 1..n : log[KthLine(log, k)] \in Entries
  BY <1>1, KthLineIs, ParsedType
<1>3. Replay(log) = [k \in 1..n |-> log[KthLine(log, k)]]
  BY <1>1 DEF Replay
<1>4. Replay(log) \in [1..n -> Entries]
  BY <1>2, <1>3
<1>5. Replay(log) \in Seq(Entries) /\ Len(Replay(log)) = n
  BY <1>4
<1> QED
  BY <1>1, <1>3, <1>5

LEMMA ReplayHas ==
  ASSUME NEW log \in Seq(Part), NEW i \in Parsed(log)
  PROVE  \E k \in 1..Len(Replay(log)) : Replay(log)[k] = log[i]
BY KthLineUnique, ReplayType

(* Two logs with the same parsed lines replay the same. *)
LEMMA ReplaySame ==
  ASSUME NEW log \in Seq(Part), NEW new \in Seq(Part), Parsed(new) = Parsed(log),
         \A i \in Parsed(log) : new[i] = log[i]
  PROVE  Replay(new) = Replay(log)
<1>1. \A i : Before(new, i) = Before(log, i)
  BY DEF Before
<1>2. \A k : KthLine(new, k) = KthLine(log, k)
  BY <1>1 DEF KthLine
<1>3. PICK n \in Nat : n = Cardinality(Parsed(log)) /\ n = Cardinality(Parsed(new))
  BY ParsedType
<1>4. \A k \in 1..n : new[KthLine(new, k)] = log[KthLine(log, k)]
  BY <1>2, <1>3, KthLineIs
<1>5. /\ Replay(new) \in Seq(Entries) /\ Len(Replay(new)) = n
      /\ Replay(log) \in Seq(Entries) /\ Len(Replay(log)) = n
      /\ \A k \in 1..n : Replay(new)[k] = Replay(log)[k]
  BY <1>3, <1>4, ReplayType
<1> QED
  BY <1>5, SeqEqual

(* One more parsed line, after the others, is one more entry. *)
LEMMA ReplayMore ==
  ASSUME NEW log \in Seq(Part), NEW new \in Seq(Part),
         NEW last \in Nat, last > Len(log), Parsed(new) = Parsed(log) \union {last},
         \A i \in Parsed(log) : new[i] = log[i]
  PROVE  /\ Len(Replay(new)) = Len(Replay(log)) + 1
         /\ \A k \in 1..Len(Replay(log)) : Replay(new)[k] = Replay(log)[k]
<1>1. /\ Parsed(log) \in SUBSET (1..Len(log)) /\ Len(log) \in Nat /\ IsFiniteSet(Parsed(log))
      /\ last \notin Parsed(log)
  BY ParsedType
<1>2. PICK n \in Nat : n = Cardinality(Parsed(log)) /\ Cardinality(Parsed(new)) = n + 1
  BY <1>1, ParsedType, FS_AddElement
<1>3. \A i \in Parsed(log) : Before(new, i) = Before(log, i)
  <2>1. ASSUME NEW i \in Parsed(log)
        PROVE  ~ (last <= i)
    BY <1>1, <2>1
  <2> QED
    BY <2>1 DEF Before
<1>4. \A k \in 1..n : KthLine(new, k) = KthLine(log, k) /\ KthLine(log, k) \in Parsed(log)
  <2> SUFFICES ASSUME NEW k \in 1..n
               PROVE  KthLine(new, k) = KthLine(log, k) /\ KthLine(log, k) \in Parsed(log)
    OBVIOUS
  <2>1. PICK i \in Parsed(log) : i = KthLine(log, k) /\ Cardinality(Before(log, i)) = k
    BY <1>2, KthLineIs
  <2>2. i \in Parsed(new) /\ Cardinality(Before(new, i)) = k
    BY <1>3, <2>1
  <2>3. KthLine(new, k) = i
    BY <2>2, KthLineUnique
  <2> QED
    BY <2>1, <2>3
<1>5. \A k \in 1..n : k \in 1..(n + 1)
  BY <1>2
<1>6. /\ Len(Replay(new)) = n + 1 /\ Len(Replay(log)) = n
      /\ \A k \in 1..n : Replay(new)[k] = new[KthLine(new, k)] /\ Replay(log)[k] = log[KthLine(log, k)]
  BY <1>2, <1>5, ReplayType
<1> QED
  BY <1>4, <1>6

-----------------------------------------------------------------------------
(* What one more part does to the log. *)

LEMMA LogAppended ==
  ASSUME NEW log \in Seq(Part), NEW part \in Part
  PROVE  LET new == Append(log, part)
         IN /\ new \in Seq(Part) /\ Len(new) = Len(log) + 1 /\ new[Len(log) + 1] = part
            /\ \A i \in 1..Len(log) : new[i] = log[i]
            /\ Len(log) \in Nat
BY AppendProperties, LenProperties

LEMMA JoinedGrows ==
  ASSUME NEW log \in Seq(Part), NEW part \in Part
  PROVE  LET new == Append(log, part)
         IN /\ Joined(log) \subseteq Joined(new)
            /\ Intact(new) => /\ Intact(log)
                              /\ Len(log) = 0 \/ part = LineFeed \/ log[Len(log)] = LineFeed
<1> DEFINE new == Append(log, part)
           n == Len(log)
<1>1. /\ n \in Nat /\ Len(new) = n + 1 /\ new[n + 1] = part
      /\ \A i \in 1..n : new[i] = log[i]
  BY LogAppended
<1> HIDE DEF new, n
<1>2. ASSUME NEW i \in 2..n
      PROVE  i \in 2..(n + 1) /\ new[i] = log[i] /\ new[i - 1] = log[i - 1]
  <2>1. i \in 1..n /\ i - 1 \in 1..n /\ i \in 2..(n + 1)
    BY <1>1
  <2> QED
    BY <1>1, <2>1
<1>3. Joined(log) \subseteq Joined(new)
  BY <1>1, <1>2 DEF Joined, n
<1>4. ASSUME n # 0, part # LineFeed, log[n] # LineFeed
      PROVE  n + 1 \in Joined(new)
  <2>1. n + 1 \in 2..(n + 1) /\ n \in 1..n /\ (n + 1) - 1 = n
    BY <1>1, <1>4
  <2>2. new[n + 1] = part /\ new[n] = log[n]
    BY <1>1, <2>1
  <2> QED
    BY <1>1, <1>4, <2>1, <2>2 DEF Joined
<1> QED
  BY <1>3, <1>4 DEF Intact, n, new

(* Appended to a log whose last line is finished, a part changes the replay  *)
(* only by what it adds.                                                     *)
LEMMA ParsedAppended ==
  ASSUME NEW log \in Seq(Part), NEW part \in Part,
         Len(log) = 0 \/ part = LineFeed \/ log[Len(log)] = LineFeed
  PROVE  Parsed(Append(log, part)) =
           IF part \in Entries THEN Parsed(log) \union {Len(log) + 1} ELSE Parsed(log)
<1> DEFINE new == Append(log, part)
           n == Len(log)
<1>1. /\ n \in Nat /\ Len(new) = n + 1 /\ new[n + 1] = part /\ new \in Seq(Part)
      /\ \A i \in 1..n : new[i] = log[i]
      /\ n = 0 \/ part = LineFeed \/ log[n] = LineFeed
  BY LogAppended
<1>2. DOMAIN new = 1..(n + 1) /\ DOMAIN log = 1..n
  BY <1>1, ParsedType
<1>3. Parsed(log) \subseteq 1..n /\ Parsed(new) \subseteq 1..(n + 1)
  BY <1>1, ParsedType
<1>4. part \in Entries <=> part \notin {Torn, LineFeed}
  BY LogAssumption DEF Part
<1> HIDE DEF new, n
<1>5. ASSUME NEW i \in 1..n
      PROVE  i \in Parsed(new) <=> i \in Parsed(log)
  <2>1. i \in 1..(n + 1) /\ new[i] = log[i] /\ i # n + 1
    BY <1>1
  <2>2. i = 1 \/ new[i - 1] = log[i - 1]
    <3>1. i = 1 \/ i - 1 \in 1..n
      BY <1>1
    <3> QED
      BY <1>1, <3>1
  <2>3. i \notin Parsed(log) => i \notin Parsed(new)
    <3>1. CASE i = n
      BY <1>1, <1>2, <2>1, <2>2, <3>1 DEF Parsed, n
    <3>2. CASE i # n
      <4>1. i + 1 \in 1..n
        BY <1>1, <3>2
      <4>2. new[i + 1] = log[i + 1]
        BY <1>1, <4>1
      <4> QED
        BY <1>1, <1>2, <2>1, <2>2, <3>2, <4>2 DEF Parsed, n
    <3> QED
      BY <3>1, <3>2
  <2>4. i \in Parsed(log) => i \in Parsed(new)
    <3>1. CASE i = n
      <4>1. i \in Parsed(log) => log[n] # LineFeed
        BY <3>1 DEF Parsed
      <4>2. i \in Parsed(log) => part = LineFeed
        BY <1>1, <3>1, <4>1
      <4>3. new[i + 1] = part
        BY <1>1, <3>1
      <4> QED
        BY <1>1, <1>2, <2>1, <2>2, <4>2, <4>3 DEF Parsed
    <3>2. CASE i # n
      <4>1. i + 1 \in 1..n
        BY <1>1, <3>2
      <4>2. new[i + 1] = log[i + 1]
        BY <1>1, <4>1
      <4> QED
        BY <1>1, <1>2, <2>1, <2>2, <3>2, <4>2 DEF Parsed, n
    <3> QED
      BY <3>1, <3>2
  <2> QED
    BY <2>3, <2>4
<1>6. n + 1 \in Parsed(new) <=> part \in Entries
  <2>1. n + 1 \in 1..(n + 1) /\ (n + 1) - 1 = n
    BY <1>1
  <2>2. n + 1 \in Parsed(new) => part \in Entries
    BY <1>1, <1>4 DEF Parsed
  <2>3. part \in Entries => n + 1 = 1 \/ new[n] = LineFeed
    <3>1. n # 0 => new[n] = log[n]
      BY <1>1
    <3> QED
      BY <1>1, <1>4, <3>1
  <2>4. part \in Entries => n + 1 \in Parsed(new)
    BY <1>1, <1>2, <1>4, <2>1, <2>3 DEF Parsed
  <2> QED
    BY <2>2, <2>4
<1>7. \A i \in 1..(n + 1) : i \in 1..n \/ i = n + 1
  BY <1>1
<1>8. n + 1 \notin Parsed(log)
  BY <1>1, <1>3
<1>9. Parsed(new) = IF part \in Entries THEN Parsed(log) \union {n + 1} ELSE Parsed(log)
  <2>1. CASE part \in Entries
    BY <1>3, <1>5, <1>6, <1>7, <2>1
  <2>2. CASE part \notin Entries
    <3>1. n + 1 \notin Parsed(new)
      BY <1>6, <2>2
    <3>2. \A i \in Parsed(new) : i \in Parsed(log)
      BY <1>3, <1>5, <1>7, <3>1
    <3>3. \A i \in Parsed(log) : i \in Parsed(new)
      BY <1>3, <1>5
    <3> QED
      BY <2>2, <3>2, <3>3
  <2> QED
    BY <2>1, <2>2
<1> QED
  BY <1>9 DEF new, n

(* So the replay of a longer intact log continues the replay of the shorter. *)
LEMMA ReplayContinues ==
  ASSUME NEW log \in Seq(Part), NEW part \in Part, Intact(Append(log, part))
  PROVE  IsPrefix(Replay(log), Replay(Append(log, part)))
<1> DEFINE new == Append(log, part)
<1>1. new \in Seq(Part) /\ Len(log) \in Nat /\ \A i \in 1..Len(log) : new[i] = log[i]
  BY LogAppended
<1>2. Parsed(new) = IF part \in Entries THEN Parsed(log) \union {Len(log) + 1} ELSE Parsed(log)
  BY JoinedGrows, ParsedAppended
<1>3. \A i \in Parsed(log) : new[i] = log[i]
  BY <1>1, ParsedType
<1> HIDE DEF new
<1>4. /\ Len(Replay(log)) \in Nat /\ Len(Replay(new)) \in Nat
      /\ Len(Replay(log)) <= Len(Replay(new))
      /\ \A k \in 1..Len(Replay(log)) : Replay(new)[k] = Replay(log)[k]
  <2>1. Len(Replay(log)) \in Nat
    BY ReplayType, LenProperties
  <2>2. CASE part \in Entries
    <3>1. Parsed(new) = Parsed(log) \union {Len(log) + 1} /\ Len(log) + 1 \in Nat /\ Len(log) + 1 > Len(log)
      BY <1>1, <1>2, <2>2
    <3>2. /\ Len(Replay(new)) = Len(Replay(log)) + 1
          /\ \A k \in 1..Len(Replay(log)) : Replay(new)[k] = Replay(log)[k]
      BY <1>1, <1>3, <3>1, ReplayMore
    <3> QED
      BY <2>1, <3>2
  <2>3. CASE part \notin Entries
    <3>1. Replay(new) = Replay(log)
      BY <1>1, <1>2, <1>3, <2>3, ReplaySame
    <3> QED
      BY <2>1, <3>1
  <2> QED
    BY <2>2, <2>3
<1>5. SubSeq(Replay(log), 1, Len(Replay(log))) = SubSeq(Replay(new), 1, Len(Replay(log)))
  <2>1. PICK n \in Nat : n = Len(Replay(log))
    BY <1>4
  <2>2. /\ SubSeq(Replay(log), 1, n) = [k \in 1..n |-> Replay(log)[k]]
        /\ SubSeq(Replay(new), 1, n) = [k \in 1..n |-> Replay(new)[k]]
    BY <2>1
  <2>3. [k \in 1..n |-> Replay(log)[k]] = [k \in 1..n |-> Replay(new)[k]]
    BY <1>4, <2>1
  <2> QED
    BY <2>1, <2>2, <2>3
<1> QED
  BY <1>4, <1>5 DEF IsPrefix, new

-----------------------------------------------------------------------------
(* An entry with its line feed after it. *)
Ended(log, i) == i \in 1..Len(log) /\ i + 1 \in 1..Len(log) /\ log[i] \in Entries /\ log[i + 1] = LineFeed

LEMMA EndedKept ==
  ASSUME NEW log \in Seq(Part), NEW part \in Part, NEW i, Ended(log, i)
  PROVE  Ended(Append(log, part), i) /\ Append(log, part)[i] = log[i]
<1> DEFINE new == Append(log, part)
<1>1. /\ Len(log) \in Nat /\ Len(new) = Len(log) + 1
      /\ \A j \in 1..Len(log) : new[j] = log[j] /\ j \in 1..(Len(log) + 1)
  BY LogAppended
<1> HIDE DEF new
<1>2. Ended(new, i) /\ new[i] = log[i]
  BY <1>1 DEF Ended
<1> QED
  BY <1>2 DEF new

(* It is replayed, unless it continues an unfinished line. *)
LEMMA EndedReplayed ==
  ASSUME NEW log \in Seq(Part), NEW i, Ended(log, i)
  PROVE  i \in Joined(log) \/ \E k \in 1..Len(Replay(log)) : Replay(log)[k] = log[i]
<1>1. DOMAIN log = 1..Len(log) /\ Len(log) \in Nat /\ i \in 1..Len(log) /\ i # Len(log)
  BY ParsedType DEF Ended
<1>2. log[i] \notin {Torn, LineFeed}
  BY LogAssumption DEF Ended
<1>3. CASE i = 1 \/ log[i - 1] = LineFeed
  <2>1. i \in Parsed(log)
    BY <1>1, <1>2, <1>3 DEF Parsed, Ended
  <2> QED
    BY <2>1, ReplayHas
<1>4. CASE i # 1 /\ log[i - 1] # LineFeed
  <2>1. i # 1
    BY <1>4
  <2>2. PICK n \in Nat : n = Len(log)
    BY <1>1
  <2>3. i \in 1..n
    BY <1>1, <2>2
  <2>4. i \in 2..n
    BY <2>1, <2>3
  <2> QED
    BY <1>2, <1>4, <2>2, <2>4 DEF Joined
<1> QED
  BY <1>3, <1>4

(* The next number is larger than every replayed one. *)
LEMMA NextSeqLarger ==
  ASSUME NEW entries \in Seq(Entries)
  PROVE  /\ NextSeq(entries) \in Nat \ {0}
         /\ \A k \in 1..Len(entries) : entries[k].seq < NextSeq(entries)
<1> DEFINE T == {entries[k].seq : k \in DOMAIN entries}
           S == {0} \union T
<1>1. DOMAIN entries = 1..Len(entries) /\ Len(entries) \in Nat
  BY LenProperties
<1>2. \A k \in 1..Len(entries) : entries[k] \in Entries /\ entries[k].seq \in Nat
  <2>1. \A k \in 1..Len(entries) : entries[k] \in Entries
    BY ElementOfSeq
  <2> QED
    BY <2>1 DEF Entries
<1>3. T \in SUBSET Nat
  BY <1>1, <1>2
<1>4. IsFiniteSet(T)
  <2> DEFINE f == [k \in 1..Len(entries) |-> entries[k].seq]
  <2>1. f \in Surjection(1..Len(entries), T)
    BY <1>1 DEF Surjection
  <2>2. IsFiniteSet(1..Len(entries))
    BY <1>1, FS_Interval
  <2> HIDE DEF f, T
  <2> QED
    BY <2>1, <2>2, FS_Surjection
<1>5. IsFiniteSet(S) /\ S \in SUBSET Nat /\ S # {}
  <2>1. S = T \union {0}
    OBVIOUS
  <2> HIDE DEF T
  <2> QED
    BY <1>3, <1>4, <2>1, FS_AddElement
<1>6. \A k \in 1..Len(entries) : entries[k].seq \in S
  BY <1>1
<1> HIDE DEF S
<1>7. Max(S) \in S /\ \A m \in S : Max(S) >= m
  BY <1>5, LargestExists DEF Max
<1>8. NextSeq(entries) = 1 + Max(S)
  BY DEF NextSeq, S
<1>9. Max(S) \in Nat
  BY <1>5, <1>7
<1>10. ASSUME NEW k \in 1..Len(entries)
       PROVE  entries[k].seq < NextSeq(entries)
  <2>1. Max(S) >= entries[k].seq /\ entries[k].seq \in Nat
    BY <1>2, <1>6, <1>7
  <2> QED
    BY <1>8, <1>9, <2>1
<1>11. NextSeq(entries) \in Nat \ {0}
  BY <1>8, <1>9
<1> QED
  BY <1>10, <1>11

-----------------------------------------------------------------------------
(* A worker that is not idle has an observation and a decision on it, of     *)
(* which the entry is made.                                                  *)
LEMMA BusyWorker ==
  ASSUME TypeOK, NEW w \in Workers
  PROVE  /\ work \in [Workers -> Busy \union {Idle}]
         /\ work[w].pc # "idle" => work[w] \in Busy /\ Entry(w) \in Entries
         /\ work[w].pc # "idle" => work[w].obs \in Observations /\ work[w].obs.card \in Cards
         /\ work[w].pc = "idle" => work[w] = Idle
<1>1. work \in [Workers -> Busy \union {Idle}] /\ work[w] \in Busy \union {Idle}
  BY DEF TypeOK
<1>2. work[w].pc = "idle" => work[w] = Idle
  BY <1>1 DEF Busy
<1>3. work[w].pc # "idle" => work[w] \in Busy
  BY <1>1 DEF Idle
<1>4. ASSUME work[w] \in Busy
      PROVE  /\ Entry(w) \in Entries
             /\ work[w].obs \in Observations /\ work[w].obs.card \in Cards
  <2>1. /\ work[w].obs \in Observations /\ work[w].verifier \in Actors \union {None}
        /\ work[w].decision \in Decisions /\ work[w].seq \in Nat
    BY <1>4 DEF Busy
  <2>2. work[w].obs \in Observation
    BY <2>1, ObservationsAssumption
  <2>3. work[w].obs.card \in Cards /\ work[w].obs.evidence \in Nat
    BY <2>2 DEF Observation
  <2> QED
    BY <2>1, <2>3 DEF Entry, Entries
<1> QED
  BY <1>1, <1>2, <1>3, <1>4

(* A step that moves a worker on, and perhaps gives it the number of its     *)
(* entry, leaves its observation and its entry as they were.                 *)
LEMMA MovedOn ==
  ASSUME TypeOK, NEW w \in Workers, work[w].pc # "idle",
         NEW pc \in {"newline", "verdict", "publish"}, NEW audit \in Numbers,
         \/ audit = work[w].audit /\ work' = [work EXCEPT ![w].pc = pc]
         \/ work' = [work EXCEPT ![w].pc = pc, ![w].audit = audit]
  PROVE  /\ work' \in [Workers -> Busy \union {Idle}]
         /\ work'[w].pc = pc /\ work'[w].audit = audit
         /\ work'[w].obs = work[w].obs /\ work'[w].verifier = work[w].verifier
         /\ work'[w].decision = work[w].decision /\ work'[w].seq = work[w].seq
         /\ \A v \in Workers : v # w => work'[v] = work[v]
<1> DEFINE new == [pc |-> pc, obs |-> work[w].obs, verifier |-> work[w].verifier,
                   decision |-> work[w].decision, seq |-> work[w].seq, audit |-> audit]
<1>1. work \in [Workers -> Busy \union {Idle}] /\ work[w] \in Busy
  BY BusyWorker
<1>2. new \in Busy
  BY <1>1 DEF Busy
<1>3. [work[w] EXCEPT !.pc = pc, !.audit = audit] = new
  <2>1. PICK x : x = [work[w] EXCEPT !.pc = pc]
    OBVIOUS
  <2>3. /\ x.pc = pc /\ x.obs = work[w].obs /\ x.verifier = work[w].verifier
        /\ x.decision = work[w].decision /\ x.seq = work[w].seq
    BY <1>1, <2>1 DEF Busy
  <2>4. x \in Busy
    BY <1>1, <2>1 DEF Busy
  <2>5. [x EXCEPT !.audit = audit] = new
    BY <2>3, <2>4 DEF Busy
  <2> QED
    BY <2>1, <2>5
<1>4. audit = work[w].audit => [work[w] EXCEPT !.pc = pc] = new
  BY <1>1 DEF Busy
<1>5. \/ audit = work[w].audit /\ work' = [work EXCEPT ![w] = [work[w] EXCEPT !.pc = pc]]
      \/ work' = [work EXCEPT ![w] = [work[w] EXCEPT !.pc = pc, !.audit = audit]]
  BY <1>1
<1>6. work' = [work EXCEPT ![w] = new]
  BY <1>3, <1>4, <1>5
<1>7. new.pc = pc /\ new.audit = audit /\ new.obs = work[w].obs /\ new.verifier = work[w].verifier
      /\ new.decision = work[w].decision /\ new.seq = work[w].seq
  OBVIOUS
<1> HIDE DEF new
<1>8. work' \in [Workers -> Busy \union {Idle}] /\ work'[w] = new
      /\ \A v \in Workers : v # w => work'[v] = work[v]
  BY <1>1, <1>2, <1>6
<1> QED
  BY <1>7, <1>8

LEMMA DecisionMade ==
  ASSUME NEW obs, NEW verifier
  PROVE  Decision(obs, verifier) \in Decisions
BY DEF Decision, Decisions

LEMMA TrailTypeInit == Init => TypeOK
<1> SUFFICES ASSUME Init
             PROVE  TypeOK
  OBVIOUS
<1>1. <<>> \in Seq(Part) /\ <<>> \in Seq(Entries)
  OBVIOUS
<1>2. work \in [Workers -> Busy \union {Idle}]
  BY DEF Init
<1>3. /\ verdicts \in [Cards -> [decision : Decisions, audit : Numbers] \union {None}]
      /\ cards \in [Cards -> [obs : Observations, verifier : Actors \union {None},
                              audit : Numbers] \union {None}]
  BY DEF Init
<1> QED
  BY <1>1, <1>2, <1>3 DEF Init, TypeOK, Part

LEMMA TrailTypeStep == TypeOK /\ [Next]_vars => TypeOK'
<1> SUFFICES ASSUME TypeOK, [Next]_vars
             PROVE  TypeOK'
  OBVIOUS
<1>0. /\ gate \in Workers \union {NoOne} /\ work \in [Workers -> Busy \union {Idle}]
      /\ seq \in Nat \ {0} /\ file \in Seq(Part) /\ memory \in Seq(Entries)
      /\ verdicts \in [Cards -> [decision : Decisions, audit : Numbers] \union {None}]
      /\ cards \in [Cards -> [obs : Observations, verifier : Actors \union {None},
                              audit : Numbers] \union {None}]
      /\ acked \in Seq(Entries) /\ submissions \in Nat
  BY DEF TypeOK, Part
<1>1. ASSUME NEW w \in Workers, NEW obs \in Observations, NEW verifier \in Actors \union {None},
             Evaluate(w, obs, verifier)
      PROVE  TypeOK'
  <2>1. [pc |-> "open", obs |-> obs, verifier |-> verifier,
         decision |-> Decision(obs, verifier), seq |-> seq, audit |-> None] \in Busy
    BY <1>0, DecisionMade DEF Busy, Numbers
  <2>2. work' \in [Workers -> Busy \union {Idle}]
    BY <1>0, <1>1, <2>1 DEF Evaluate
  <2> QED
    BY <1>0, <1>1, <2>2 DEF Evaluate, TypeOK, Part
<1>2. ASSUME NEW w \in Workers, OpenFails(w) \/ WriteTorn(w) \/ WriteEntry(w) \/ LineFeedFails(w)
      PROVE  TypeOK'
  <2>1. work[w].pc # "idle"
    BY <1>2 DEF OpenFails, WriteTorn, WriteEntry, LineFeedFails
  <2>2. work[w] \in Busy /\ Entry(w) \in Entries
    BY <2>1, BusyWorker
  <2>3. work[w].audit \in Numbers
    BY <2>2 DEF Busy
  <2>4. \E pc \in {"newline", "verdict"} : work' = [work EXCEPT ![w].pc = pc]
    BY <1>2 DEF OpenFails, WriteTorn, WriteEntry, LineFeedFails
  <2>5. work' \in [Workers -> Busy \union {Idle}]
    BY <2>1, <2>3, <2>4, MovedOn
  <2>6. file' = file \/ file' = Append(file, Torn) \/ file' = Append(file, Entry(w))
    BY <1>2 DEF OpenFails, WriteTorn, WriteEntry, LineFeedFails
  <2>7. Torn \in Part /\ Entry(w) \in Part
    BY <2>2 DEF Part
  <2>8. file' \in Seq(Part)
    BY <1>0, <2>6, <2>7, LogAppended
  <2> QED
    BY <1>0, <1>2, <2>5, <2>8 DEF OpenFails, WriteTorn, WriteEntry, LineFeedFails, TypeOK, Part
<1>3. ASSUME NEW w \in Workers, WriteLineFeed(w)
      PROVE  TypeOK'
  <2>1. work[w].pc # "idle"
    BY <1>3 DEF WriteLineFeed
  <2>2. work[w] \in Busy /\ Entry(w) \in Entries
    BY <2>1, BusyWorker
  <2>3. work[w].seq \in Numbers
    BY <2>2 DEF Busy, Numbers
  <2>4. work' = [work EXCEPT ![w].pc = "verdict", ![w].audit = work[w].seq]
    BY <1>3 DEF WriteLineFeed
  <2>5. work' \in [Workers -> Busy \union {Idle}]
    BY <2>1, <2>3, <2>4, MovedOn
  <2>6. LineFeed \in Part
    BY DEF Part
  <2>7. file' \in Seq(Part)
    BY <1>0, <1>3, <2>6, LogAppended DEF WriteLineFeed
  <2>8. memory' \in Seq(Entries) /\ acked' \in Seq(Entries)
    BY <1>0, <1>3, <2>2, AppendProperties DEF WriteLineFeed
  <2> QED
    BY <1>0, <1>3, <2>5, <2>7, <2>8 DEF WriteLineFeed, TypeOK, Part
<1>4. ASSUME NEW w \in Workers, Verdict(w)
      PROVE  TypeOK'
  <2>1. work[w].pc # "idle"
    BY <1>4 DEF Verdict
  <2>2. work[w] \in Busy /\ work[w].obs.card \in Cards
    BY <2>1, BusyWorker
  <2>3. [decision |-> work[w].decision, audit |-> work[w].audit] \in [decision : Decisions, audit : Numbers]
    BY <2>2 DEF Busy
  <2>4. verdicts' \in [Cards -> [decision : Decisions, audit : Numbers] \union {None}]
    BY <1>0, <1>4, <2>2, <2>3 DEF Verdict
  <2>5. \/ work' = [work EXCEPT ![w].pc = "publish"] \/ work' = [work EXCEPT ![w] = Idle]
    BY <1>0, <1>4 DEF Verdict
  <2>6. work[w].audit \in Numbers
    BY <2>2 DEF Busy
  <2>7. work' \in [Workers -> Busy \union {Idle}]
    <3>1. CASE work' = [work EXCEPT ![w].pc = "publish"]
      BY <2>1, <2>6, <3>1, MovedOn
    <3>2. CASE work' = [work EXCEPT ![w] = Idle]
      BY <1>0, <3>2
    <3> QED
      BY <2>5, <3>1, <3>2
  <2> QED
    BY <1>0, <1>4, <2>4, <2>7 DEF Verdict, TypeOK, Part
<1>5. ASSUME NEW w \in Workers, Publish(w)
      PROVE  TypeOK'
  <2>1. work[w].pc # "idle"
    BY <1>5 DEF Publish
  <2>2. work[w] \in Busy /\ work[w].obs.card \in Cards
    BY <2>1, BusyWorker
  <2>3. Shown(w) \in [obs : Observations, verifier : Actors \union {None}, audit : Numbers]
    BY <2>2 DEF Busy, Shown
  <2>4. cards' \in [Cards -> [obs : Observations, verifier : Actors \union {None},
                              audit : Numbers] \union {None}]
    BY <1>0, <1>5, <2>2, <2>3 DEF Publish
  <2>5. work' \in [Workers -> Busy \union {Idle}]
    BY <1>0, <1>5 DEF Publish
  <2> QED
    BY <1>0, <1>5, <2>4, <2>5 DEF Publish, TypeOK, Part
<1>6. CASE Restart
  <2>1. file' \in Seq(Part)
    <3>1. Torn \in Part
      BY DEF Part
    <3>2. file' = file \/ file' = Append(file, Torn)
      BY <1>6 DEF Restart
    <3> QED
      BY <1>0, <3>1, <3>2, LogAppended
  <2>2. memory' = Replay(file') /\ seq' = NextSeq(Replay(file'))
    BY <1>6 DEF Restart
  <2>3. Replay(file') \in Seq(Entries)
    BY <2>1, ReplayType
  <2>4. NextSeq(Replay(file')) \in Nat \ {0}
    BY <2>3, NextSeqLarger
  <2>5. /\ gate' = NoOne /\ work' = [w \in Workers |-> Idle]
        /\ verdicts' = [c \in Cards |-> None] /\ cards' = [c \in Cards |-> None]
        /\ acked' = acked /\ submissions' = submissions
    BY <1>6 DEF Restart
  <2>6. /\ work' \in [Workers -> Busy \union {Idle}]
        /\ verdicts' \in [Cards -> [decision : Decisions, audit : Numbers] \union {None}]
        /\ cards' \in [Cards -> [obs : Observations, verifier : Actors \union {None},
                                 audit : Numbers] \union {None}]
    BY <2>5
  <2>7. memory' \in Seq(Entries) /\ seq' \in Nat \ {0}
    BY <2>2, <2>3, <2>4
  <2> QED
    BY <1>0, <2>1, <2>5, <2>6, <2>7 DEF TypeOK, Part
<1>7. CASE UNCHANGED vars
  BY <1>7 DEF vars, TypeOK
<1> QED
  BY <1>1, <1>2, <1>3, <1>4, <1>5, <1>6, <1>7 DEF Next

-----------------------------------------------------------------------------
(* The file is only ever appended to, by the worker that holds the gate or   *)
(* by a part torn off when the process dies.                                 *)
LEMMA FileAppended ==
  ASSUME TypeOK, [Next]_vars
  PROVE  file' = file \/ \E part \in Part : file' = Append(file, part)
<1>1. ASSUME NEW w \in Workers, WriteEntry(w)
      PROVE  file' = Append(file, Entry(w)) /\ Entry(w) \in Part
  BY <1>1, BusyWorker DEF WriteEntry, Part
<1>2. Torn \in Part /\ LineFeed \in Part
  BY DEF Part
<1> QED
  BY <1>1, <1>2 DEF Next, vars, Evaluate, OpenFails, WriteTorn, WriteLineFeed, LineFeedFails,
     Verdict, Publish, Restart

(* "Append-only": a log in which no line was left unfinished replays what it *)
(* replayed before, and more.                                                *)
THEOREM TrailOnlyGrows == Spec => TrailAppendOnly
<1>1. Init => TypeOK
  BY TrailTypeInit
<1>2. TypeOK /\ [Next]_vars => TypeOK'
  BY TrailTypeStep
<1>3. TypeOK /\ [Next]_vars => [Intact(file') => IsPrefix(Replay(file), Replay(file'))]_vars
  <2> SUFFICES ASSUME TypeOK, [Next]_vars, Intact(file')
               PROVE  IsPrefix(Replay(file), Replay(file'))
    OBVIOUS
  <2>1. file \in Seq(Part)
    BY DEF TypeOK, Part
  <2>2. CASE file' = file
    <3>1. Replay(file) \in Seq(Entries)
      BY <2>1, ReplayType
    <3>2. Len(Replay(file)) \in Nat
      BY <3>1, LenProperties
    <3> QED
      BY <2>2, <3>2 DEF IsPrefix
  <2>3. ASSUME NEW part \in Part, file' = Append(file, part)
        PROVE  IsPrefix(Replay(file), Replay(file'))
    BY <2>1, <2>3, ReplayContinues
  <2> QED
    BY <2>2, <2>3, FileAppended
<1> QED
  BY <1>1, <1>2, <1>3, PTL DEF Spec, TrailAppendOnly

-----------------------------------------------------------------------------
(* The parts of the invariant of the trail, and what each action does to     *)
(* them.                                                                     *)

OnFile(log, e) == \E i \in 1..Len(log) : Ended(log, i) /\ log[i] = e

(* The mutex covers everything between the decision and the verdict.         *)
GateHeld == \A w \in Workers : work[w].pc \in {"open", "newline", "verdict"} => gate = w

Numbered ==
  \A w \in Workers : work[w].pc \in {"open", "newline"} =>
    work[w].seq < seq /\ work[w].audit = None

(* The entry whose line feed is still to come is the end of the log.         *)
Written ==
  \A w \in Workers : work[w].pc = "newline" => Len(file) # 0 /\ file[Len(file)] = Entry(w)

(* What is answered, carried to a card or shown with a number is on file.    *)
Answered ==
  \A w \in Workers : work[w].pc \in {"verdict", "publish"} /\ work[w].audit # None =>
    work[w].audit = work[w].seq /\ OnFile(file, Entry(w))

AckedOnFile == \A k \in 1..Len(acked) : OnFile(file, acked[k])

Approval(log, c, card) ==
  \E i \in 1..Len(log) :
    /\ Ended(log, i) /\ log[i].seq = card.audit /\ log[i].target = c
    /\ log[i].outcome = "approved" /\ log[i].evidence = card.obs.evidence

CardsOnFile ==
  \A c \in Cards : cards[c] # None /\ cards[c].audit # None => Approval(file, c, cards[c])

(* While no line was left unfinished, numbers are never drawn again.         *)
Rising ==
  Intact(file) =>
    /\ \A k \in 1..Len(acked) : acked[k].seq < seq
    /\ \A w \in Workers, k \in 1..Len(acked) :
         work[w].pc \in {"open", "newline"} => acked[k].seq < work[w].seq
    /\ \A i, j \in 1..Len(acked) : i < j => acked[i].seq < acked[j].seq

LastAbout(entries, c, verdict) ==
  \E k \in 1..Len(entries) :
    /\ entries[k].seq = verdict.audit
    /\ entries[k].outcome = verdict.decision
    /\ \A l \in 1..Len(entries) : entries[l].target = c => l <= k

Superseding(c) ==
  \E w \in Workers : work[w].pc = "verdict" /\ work[w].audit # None /\ work[w].obs.card = c

-----------------------------------------------------------------------------
(* What an action does to the worker that takes it. *)
Moved(w, pc, audit) ==
  /\ work'[w].pc = pc /\ work'[w].audit = audit /\ work'[w].seq = work[w].seq
  /\ work'[w].obs = work[w].obs /\ work'[w].decision = work[w].decision
  /\ Entry(w)' = Entry(w)
  /\ \A v \in Workers : v # w => work'[v] = work[v]

Returned(w) == work'[w] = Idle /\ \A v \in Workers : v # w => work'[v] = work[v]

LEMMA EvaluateDoes ==
  ASSUME TypeOK, NEW w \in Workers, NEW obs \in Observations,
         NEW verifier \in Actors \union {None}, Evaluate(w, obs, verifier)
  PROVE  /\ work'[w].pc = "open" /\ work'[w].seq = seq /\ work'[w].audit = None
         /\ \A v \in Workers : v # w => work'[v] = work[v]
         /\ gate = NoOne /\ gate' = w /\ seq' = seq + 1 /\ seq \in Nat
         /\ UNCHANGED <<file, memory, verdicts, cards, acked>>
BY DEF Evaluate, TypeOK

LEMMA GivingUpDoes ==
  ASSUME TypeOK, NEW w \in Workers, OpenFails(w) \/ WriteTorn(w) \/ LineFeedFails(w)
  PROVE  /\ work[w].pc \in {"open", "newline"} /\ Moved(w, "verdict", work[w].audit)
         /\ file' = file \/ file' = Append(file, Torn)
         /\ UNCHANGED <<gate, seq, memory, verdicts, cards, acked>>
<1>1. work[w].pc \in {"open", "newline"} /\ work' = [work EXCEPT ![w].pc = "verdict"]
  BY DEF OpenFails, WriteTorn, LineFeedFails
<1>2. work[w] \in Busy
  BY <1>1, BusyWorker
<1>3. work[w].audit \in Numbers
  BY <1>2 DEF Busy
<1>4. Moved(w, "verdict", work[w].audit)
  BY <1>1, <1>3, MovedOn DEF Moved, Entry
<1> QED
  BY <1>1, <1>4 DEF OpenFails, WriteTorn, LineFeedFails

LEMMA WriteEntryDoes ==
  ASSUME TypeOK, NEW w \in Workers, WriteEntry(w)
  PROVE  /\ work[w].pc = "open" /\ Moved(w, "newline", work[w].audit)
         /\ Entry(w) \in Entries /\ file' = Append(file, Entry(w))
         /\ UNCHANGED <<gate, seq, memory, verdicts, cards, acked>>
<1>1. work[w].pc = "open" /\ work' = [work EXCEPT ![w].pc = "newline"]
  BY DEF WriteEntry
<1>2. work[w] \in Busy /\ Entry(w) \in Entries
  BY <1>1, BusyWorker
<1>3. work[w].audit \in Numbers
  BY <1>2 DEF Busy
<1>4. Moved(w, "newline", work[w].audit)
  BY <1>1, <1>3, MovedOn DEF Moved, Entry
<1> QED
  BY <1>1, <1>2, <1>4 DEF WriteEntry

LEMMA WriteLineFeedDoes ==
  ASSUME TypeOK, NEW w \in Workers, WriteLineFeed(w)
  PROVE  /\ work[w].pc = "newline" /\ Moved(w, "verdict", work[w].seq)
         /\ Entry(w) \in Entries /\ file' = Append(file, LineFeed)
         /\ memory' = Append(memory, Entry(w)) /\ acked' = Append(acked, Entry(w))
         /\ UNCHANGED <<gate, seq, verdicts, cards>>
<1>1. /\ work[w].pc = "newline"
      /\ work' = [work EXCEPT ![w].pc = "verdict", ![w].audit = work[w].seq]
  BY DEF WriteLineFeed
<1>2. work[w] \in Busy /\ Entry(w) \in Entries
  BY <1>1, BusyWorker
<1>3. work[w].seq \in Numbers
  BY <1>2 DEF Busy, Numbers
<1>4. Moved(w, "verdict", work[w].seq)
  BY <1>1, <1>3, MovedOn DEF Moved, Entry
<1> QED
  BY <1>1, <1>2, <1>4 DEF WriteLineFeed

LEMMA VerdictDoes ==
  ASSUME TypeOK, NEW w \in Workers, Verdict(w)
  PROVE  /\ work[w].pc = "verdict" /\ work[w].obs.card \in Cards
         /\ \/ work[w].decision = "approved" /\ Moved(w, "publish", work[w].audit)
            \/ Returned(w)
         /\ verdicts'[work[w].obs.card] = [decision |-> work[w].decision, audit |-> work[w].audit]
         /\ \A c \in Cards : c # work[w].obs.card => verdicts'[c] = verdicts[c]
         /\ UNCHANGED <<seq, file, memory, cards, acked>>
<1>1. work[w].pc = "verdict" /\ work \in [Workers -> Busy \union {Idle}]
  BY DEF Verdict, TypeOK
<1>2. work[w] \in Busy /\ work[w].obs.card \in Cards
  BY <1>1, BusyWorker
<1>3. work[w].audit \in Numbers
  BY <1>2 DEF Busy
<1>4. CASE work[w].decision = "approved"
  <2>1. work' = [work EXCEPT ![w].pc = "publish"]
    BY <1>1, <1>4 DEF Verdict
  <2>2. Moved(w, "publish", work[w].audit)
    BY <1>1, <1>3, <2>1, MovedOn DEF Moved, Entry
  <2> QED
    BY <1>1, <1>2, <1>4, <2>2 DEF Verdict, TypeOK
<1>5. CASE work[w].decision # "approved"
  <2>1. work' = [work EXCEPT ![w] = Idle]
    BY <1>1, <1>5 DEF Verdict
  <2>2. Returned(w)
    BY <1>1, <2>1 DEF Returned
  <2> QED
    BY <1>1, <1>2, <2>2 DEF Verdict, TypeOK
<1> QED
  BY <1>4, <1>5

LEMMA PublishDoes ==
  ASSUME TypeOK, NEW w \in Workers, Publish(w)
  PROVE  /\ work[w].pc = "publish" /\ work[w].obs.card \in Cards /\ Returned(w)
         /\ cards'[work[w].obs.card] = Shown(w)
         /\ \A c \in Cards : c # work[w].obs.card => cards'[c] = cards[c]
         /\ UNCHANGED <<gate, seq, file, memory, verdicts, acked>>
<1>1. work[w].pc = "publish" /\ work \in [Workers -> Busy \union {Idle}]
  BY DEF Publish, TypeOK
<1>2. work[w].obs.card \in Cards
  BY <1>1, BusyWorker
<1> QED
  BY <1>1, <1>2 DEF Publish, TypeOK, Returned

LEMMA RestartDoes ==
  ASSUME TypeOK, Restart
  PROVE  /\ \A w \in Workers : work'[w] = Idle
         /\ \A c \in Cards : verdicts'[c] = None /\ cards'[c] = None
         /\ file' \in Seq(Part) /\ memory' = Replay(file') /\ seq' = NextSeq(Replay(file'))
         /\ acked' = acked
<1>1. Torn \in Part /\ file \in Seq(Part)
  BY DEF Part, TypeOK
<1>2. file' = file \/ file' = Append(file, Torn)
  BY DEF Restart
<1>3. file' \in Seq(Part)
  BY <1>1, <1>2, LogAppended
<1> QED
  BY <1>3 DEF Restart

-----------------------------------------------------------------------------
(* Nobody still writes after a verdict, and no other worker is disturbed. *)
LEMMA VerdictEnds ==
  ASSUME TypeOK, NEW w \in Workers, Verdict(w)
  PROVE  /\ work'[w].pc \in {"publish", "idle"} /\ work[w].pc = "verdict"
         /\ \A v \in Workers : v # w => work'[v] = work[v] /\ Entry(v)' = Entry(v)
<1>1. CASE Moved(w, "publish", work[w].audit)
  BY <1>1 DEF Moved, Verdict, Entry
<1>2. CASE Returned(w)
  BY <1>2 DEF Returned, Idle, Verdict, Entry
<1> QED
  BY <1>1, <1>2, VerdictDoes

LEMMA GateHeldStep ==
  ASSUME TypeOK, GateHeld, [Next]_vars
  PROVE  GateHeld'
<1>1. ASSUME NEW w \in Workers, NEW obs \in Observations, NEW verifier \in Actors \union {None},
             Evaluate(w, obs, verifier)
      PROVE  GateHeld'
  BY <1>1, EvaluateDoes, AuditAssumption DEF GateHeld
<1>2. ASSUME NEW w \in Workers, OpenFails(w) \/ WriteTorn(w) \/ LineFeedFails(w)
      PROVE  GateHeld'
  BY <1>2, GivingUpDoes DEF GateHeld, Moved
<1>3. ASSUME NEW w \in Workers, WriteEntry(w)
      PROVE  GateHeld'
  BY <1>3, WriteEntryDoes DEF GateHeld, Moved
<1>4. ASSUME NEW w \in Workers, WriteLineFeed(w)
      PROVE  GateHeld'
  BY <1>4, WriteLineFeedDoes DEF GateHeld, Moved
<1>5. ASSUME NEW w \in Workers, Verdict(w)
      PROVE  GateHeld'
  BY <1>5, VerdictEnds DEF GateHeld
<1>6. ASSUME NEW w \in Workers, Publish(w)
      PROVE  GateHeld'
  BY <1>6, PublishDoes DEF GateHeld, Returned, Idle
<1>7. CASE Restart
  BY <1>7, RestartDoes DEF GateHeld, Idle
<1>8. CASE UNCHANGED vars
  BY <1>8 DEF vars, GateHeld
<1> QED
  BY <1>1, <1>2, <1>3, <1>4, <1>5, <1>6, <1>7, <1>8 DEF Next

LEMMA NumberedStep ==
  ASSUME TypeOK, Numbered, [Next]_vars
  PROVE  Numbered'
<1>1. ASSUME NEW w \in Workers, NEW obs \in Observations, NEW verifier \in Actors \union {None},
             Evaluate(w, obs, verifier)
      PROVE  Numbered'
  <2>1. ASSUME NEW v \in Workers, v # w, work[v].pc \in {"open", "newline"}
        PROVE  work[v].seq \in Nat
    BY <2>1, BusyWorker DEF Busy
  <2> QED
    BY <1>1, <2>1, EvaluateDoes DEF Numbered
<1>2. ASSUME NEW w \in Workers, OpenFails(w) \/ WriteTorn(w) \/ LineFeedFails(w)
      PROVE  Numbered'
  BY <1>2, GivingUpDoes DEF Numbered, Moved
<1>3. ASSUME NEW w \in Workers, WriteEntry(w)
      PROVE  Numbered'
  BY <1>3, WriteEntryDoes DEF Numbered, Moved
<1>4. ASSUME NEW w \in Workers, WriteLineFeed(w)
      PROVE  Numbered'
  BY <1>4, WriteLineFeedDoes DEF Numbered, Moved
<1>5. ASSUME NEW w \in Workers, Verdict(w)
      PROVE  Numbered'
  BY <1>5, VerdictEnds, VerdictDoes DEF Numbered
<1>6. ASSUME NEW w \in Workers, Publish(w)
      PROVE  Numbered'
  BY <1>6, PublishDoes DEF Numbered, Returned, Idle
<1>7. CASE Restart
  BY <1>7, RestartDoes DEF Numbered, Idle
<1>8. CASE UNCHANGED vars
  BY <1>8 DEF vars, Numbered
<1> QED
  BY <1>1, <1>2, <1>3, <1>4, <1>5, <1>6, <1>7, <1>8 DEF Next

LEMMA WrittenStep ==
  ASSUME TypeOK, GateHeld, Written, [Next]_vars
  PROVE  Written'
<1>0. file \in Seq(Part)
  BY DEF TypeOK, Part
<1>1. ASSUME NEW w \in Workers, NEW obs \in Observations, NEW verifier \in Actors \union {None},
             Evaluate(w, obs, verifier)
      PROVE  Written'
  BY <1>1, EvaluateDoes DEF Written, Entry
<1>2. ASSUME NEW w \in Workers, OpenFails(w) \/ WriteTorn(w) \/ LineFeedFails(w)
      PROVE  Written'
  BY <1>2, GivingUpDoes DEF Written, GateHeld, Moved
<1>3. ASSUME NEW w \in Workers, WriteEntry(w)
      PROVE  Written'
  <2>1. Len(file') # 0 /\ file'[Len(file')] = Entry(w)
    BY <1>0, <1>3, WriteEntryDoes, LogAppended DEF Part
  <2> QED
    BY <1>3, <2>1, WriteEntryDoes DEF Written, GateHeld, Moved
<1>4. ASSUME NEW w \in Workers, WriteLineFeed(w)
      PROVE  Written'
  BY <1>4, WriteLineFeedDoes DEF Written, GateHeld, Moved
<1>5. ASSUME NEW w \in Workers, Verdict(w)
      PROVE  Written'
  BY <1>5, VerdictEnds, VerdictDoes DEF Written
<1>6. ASSUME NEW w \in Workers, Publish(w)
      PROVE  Written'
  BY <1>6, PublishDoes DEF Written, Returned, Idle, Entry
<1>7. CASE Restart
  BY <1>7, RestartDoes DEF Written, Idle
<1>8. CASE UNCHANGED vars
  BY <1>8 DEF vars, Written, Entry
<1> QED
  BY <1>1, <1>2, <1>3, <1>4, <1>5, <1>6, <1>7, <1>8 DEF Next

-----------------------------------------------------------------------------
LEMMA OnFileKept ==
  ASSUME TypeOK, [Next]_vars
  PROVE  \A e : OnFile(file, e) => OnFile(file', e)
<1>1. file \in Seq(Part)
  BY DEF TypeOK, Part
<1>2. ASSUME NEW e, NEW part \in Part, file' = Append(file, part), OnFile(file, e)
      PROVE  OnFile(file', e)
  <2>1. PICK i \in 1..Len(file) : Ended(file, i) /\ file[i] = e
    BY <1>2 DEF OnFile
  <2>2. Ended(file', i) /\ file'[i] = e
    BY <1>1, <1>2, <2>1, EndedKept
  <2> QED
    BY <2>2 DEF OnFile, Ended
<1>3. file' = file \/ \E part \in Part : file' = Append(file, part)
  BY FileAppended
<1> QED
  BY <1>2, <1>3

LEMMA ApprovalKept ==
  ASSUME TypeOK, [Next]_vars
  PROVE  \A c, card : Approval(file, c, card) => Approval(file', c, card)
<1> SUFFICES ASSUME NEW c, NEW card, Approval(file, c, card)
             PROVE  Approval(file', c, card)
  OBVIOUS
<1>1. PICK i \in 1..Len(file) :
        /\ Ended(file, i) /\ file[i].seq = card.audit /\ file[i].target = c
        /\ file[i].outcome = "approved" /\ file[i].evidence = card.obs.evidence
  BY DEF Approval
<1>2. file' = file \/ \E part \in Part : file' = Append(file, part)
  BY FileAppended
<1>3. Ended(file', i) /\ file'[i] = file[i]
  <2>1. file \in Seq(Part)
    BY DEF TypeOK, Part
  <2>2. ASSUME NEW part \in Part, file' = Append(file, part)
        PROVE  Ended(file', i) /\ file'[i] = file[i]
    BY <1>1, <2>1, <2>2, EndedKept
  <2> QED
    BY <1>1, <1>2, <2>2
<1> QED
  BY <1>1, <1>3 DEF Approval, Ended

(* The line feed makes the entry before it one of the file. *)
LEMMA LineFeedEnds ==
  ASSUME TypeOK, Written, NEW w \in Workers, WriteLineFeed(w)
  PROVE  OnFile(file', Entry(w))
<1>1. PICK n \in Nat : n = Len(file)
  BY LenProperties DEF TypeOK
<1>2. n # 0 /\ file[n] = Entry(w) /\ Entry(w) \in Entries /\ file' = Append(file, LineFeed)
  BY <1>1, WriteLineFeedDoes DEF Written
<1>3. file \in Seq(Part) /\ LineFeed \in Part
  BY DEF TypeOK, Part
<1>4. Len(file') = n + 1 /\ file'[n + 1] = LineFeed /\ \A i \in 1..n : file'[i] = file[i]
  BY <1>1, <1>2, <1>3, LogAppended
<1>5. n \in 1..n /\ n \in 1..(n + 1) /\ n + 1 \in 1..(n + 1)
  BY <1>2
<1>6. Ended(file', n) /\ file'[n] = Entry(w)
  BY <1>2, <1>4, <1>5 DEF Ended
<1> QED
  BY <1>4, <1>5, <1>6 DEF OnFile

LEMMA AnsweredStep ==
  ASSUME TypeOK, GateHeld, Numbered, Written, Answered, [Next]_vars
  PROVE  Answered'
<1>0. \A e : OnFile(file, e) => OnFile(file', e)
  BY OnFileKept
<1>1. ASSUME NEW v \in Workers, work'[v] = work[v]
      PROVE  work'[v].pc \in {"verdict", "publish"} /\ work'[v].audit # None =>
               work'[v].audit = work'[v].seq /\ OnFile(file', Entry(v)')
  <2>1. Entry(v)' = Entry(v)
    BY <1>1 DEF Entry
  <2> QED
    BY <1>0, <1>1, <2>1 DEF Answered
<1>2. ASSUME NEW w \in Workers, \A v \in Workers : v # w => work'[v] = work[v],
             work'[w].pc \in {"verdict", "publish"} /\ work'[w].audit # None =>
               work'[w].audit = work'[w].seq /\ OnFile(file', Entry(w)')
      PROVE  Answered'
  BY <1>1, <1>2 DEF Answered
<1>3. ASSUME NEW w \in Workers, NEW obs \in Observations, NEW verifier \in Actors \union {None},
             Evaluate(w, obs, verifier)
      PROVE  Answered'
  BY <1>2, <1>3, EvaluateDoes
<1>4. ASSUME NEW w \in Workers, OpenFails(w) \/ WriteTorn(w) \/ LineFeedFails(w)
      PROVE  Answered'
  <2>1. work'[w].audit = None
    BY <1>4, GivingUpDoes DEF Moved, Numbered
  <2> QED
    BY <1>2, <1>4, <2>1, GivingUpDoes DEF Moved
<1>5. ASSUME NEW w \in Workers, WriteEntry(w)
      PROVE  Answered'
  BY <1>2, <1>5, WriteEntryDoes DEF Moved
<1>6. ASSUME NEW w \in Workers, WriteLineFeed(w)
      PROVE  Answered'
  <2>1. work'[w].audit = work'[w].seq /\ Entry(w)' = Entry(w)
    BY <1>6, WriteLineFeedDoes DEF Moved
  <2>2. OnFile(file', Entry(w)')
    BY <1>6, <2>1, LineFeedEnds
  <2> QED
    BY <1>2, <1>6, <2>1, <2>2, WriteLineFeedDoes DEF Moved
<1>7. ASSUME NEW w \in Workers, Verdict(w)
      PROVE  Answered'
  <2>1. CASE Moved(w, "publish", work[w].audit)
    <3>1. /\ work'[w].audit = work[w].audit /\ work'[w].seq = work[w].seq
          /\ Entry(w)' = Entry(w) /\ work[w].pc = "verdict"
      BY <1>7, <2>1, VerdictDoes DEF Moved
    <3>2. work[w].audit # None => work[w].audit = work[w].seq /\ OnFile(file', Entry(w))
      BY <1>0, <3>1 DEF Answered
    <3> QED
      BY <1>2, <2>1, <3>1, <3>2 DEF Moved
  <2>2. CASE Returned(w)
    BY <1>2, <2>2 DEF Returned, Idle
  <2> QED
    BY <1>7, <2>1, <2>2, VerdictDoes
<1>8. ASSUME NEW w \in Workers, Publish(w)
      PROVE  Answered'
  BY <1>2, <1>8, PublishDoes DEF Returned, Idle
<1>9. CASE Restart
  BY <1>9, RestartDoes DEF Answered, Idle
<1>10. CASE UNCHANGED vars
  BY <1>1, <1>10 DEF vars, Answered
<1> QED
  BY <1>3, <1>4, <1>5, <1>6, <1>7, <1>8, <1>9, <1>10 DEF Next

LEMMA AckedStep ==
  ASSUME TypeOK, Written, AckedOnFile, [Next]_vars
  PROVE  AckedOnFile'
<1>0. \A e : OnFile(file, e) => OnFile(file', e)
  BY OnFileKept
<1>1. CASE acked' = acked
  BY <1>0, <1>1 DEF AckedOnFile
<1>2. ASSUME NEW w \in Workers, WriteLineFeed(w)
      PROVE  AckedOnFile'
  <2>1. OnFile(file', Entry(w)) /\ acked' = Append(acked, Entry(w)) /\ Entry(w) \in Entries
    BY <1>2, LineFeedEnds, WriteLineFeedDoes
  <2>2. PICK n \in Nat : n = Len(acked)
    BY LenProperties DEF TypeOK
  <2>3. /\ Len(acked') = n + 1 /\ acked'[n + 1] = Entry(w)
        /\ \A i \in 1..n : acked'[i] = acked[i]
    BY <2>1, <2>2, AppendProperties DEF TypeOK
  <2>4. ASSUME NEW k \in 1..(n + 1)
        PROVE  OnFile(file', acked'[k])
    <3>1. CASE k \in 1..n
      BY <1>0, <2>2, <2>3, <3>1 DEF AckedOnFile
    <3>2. CASE k = n + 1
      BY <2>1, <2>3, <3>2
    <3> QED
      BY <3>1, <3>2
  <2> QED
    BY <2>3, <2>4 DEF AckedOnFile
<1>3. acked' = acked \/ \E w \in Workers : WriteLineFeed(w)
  BY DEF Next, vars, Evaluate, OpenFails, WriteTorn, WriteEntry, LineFeedFails, Verdict,
     Publish, Restart
<1> QED
  BY <1>1, <1>2, <1>3

LEMMA CardsStep ==
  ASSUME TypeOK, IInv, Answered, CardsOnFile, [Next]_vars
  PROVE  CardsOnFile'
<1>0. \A c, card : Approval(file, c, card) => Approval(file', c, card)
  BY ApprovalKept
<1>1. CASE cards' = cards
  BY <1>0, <1>1 DEF CardsOnFile
<1>2. ASSUME NEW w \in Workers, Publish(w)
      PROVE  CardsOnFile'
  <2>1. PICK c \in Cards : c = work[w].obs.card
    BY <1>2, PublishDoes
  <2>2. PICK card : card = Shown(w)
    OBVIOUS
  <2>3. cards'[c] = card /\ file' = file /\ \A d \in Cards : d # c => cards'[d] = cards[d]
    BY <1>2, <2>1, <2>2, PublishDoes
  <2>4. card.audit = work[w].audit /\ card.obs = work[w].obs
    BY <2>2 DEF Shown
  <2>5. work[w].pc = "publish" /\ work[w].decision = "approved"
    BY <1>2 DEF Publish, IInv, Carries
  <2>6. ASSUME card.audit # None
        PROVE  Approval(file, c, card)
    <3>1. work[w].audit = work[w].seq /\ OnFile(file, Entry(w))
      BY <2>4, <2>5, <2>6 DEF Answered
    <3>2. PICK i \in 1..Len(file) : Ended(file, i) /\ file[i] = Entry(w)
      BY <3>1 DEF OnFile
    <3>3. /\ file[i].seq = card.audit /\ file[i].target = c
          /\ file[i].outcome = "approved" /\ file[i].evidence = card.obs.evidence
      BY <2>1, <2>4, <2>5, <3>1, <3>2 DEF Entry
    <3> QED
      BY <3>2, <3>3 DEF Approval
  <2>7. ASSUME NEW d \in Cards, cards'[d] # None, cards'[d].audit # None
        PROVE  Approval(file', d, cards'[d])
    BY <2>3, <2>6, <2>7 DEF CardsOnFile
  <2> QED
    BY <2>7 DEF CardsOnFile
<1>3. CASE Restart
  BY <1>3, RestartDoes DEF CardsOnFile
<1>4. cards' = cards \/ Restart \/ \E w \in Workers : Publish(w)
  BY DEF Next, vars, Evaluate, OpenFails, WriteTorn, WriteEntry, WriteLineFeed, LineFeedFails, Verdict
<1> QED
  BY <1>1, <1>2, <1>3, <1>4

LEMMA IntactBefore ==
  ASSUME TypeOK, [Next]_vars, Intact(file')
  PROVE  Intact(file)
<1>1. file \in Seq(Part)
  BY DEF TypeOK, Part
<1>2. ASSUME NEW part \in Part, file' = Append(file, part)
      PROVE  Intact(file)
  BY <1>1, <1>2, JoinedGrows
<1> QED
  BY <1>2, FileAppended

(* In an intact log every entry on file is replayed. *)
LEMMA OnFileReplayed ==
  ASSUME NEW log \in Seq(Part), NEW e, OnFile(log, e), Intact(log)
  PROVE  \E k \in 1..Len(Replay(log)) : Replay(log)[k] = e
<1>1. PICK i \in 1..Len(log) : Ended(log, i) /\ log[i] = e
  BY DEF OnFile
<1>2. i \notin Joined(log)
  BY DEF Intact
<1> QED
  BY <1>1, <1>2, EndedReplayed

LEMMA AckedNumbers ==
  ASSUME TypeOK
  PROVE  Len(acked) \in Nat /\ \A k \in 1..Len(acked) : acked[k] \in Entries /\ acked[k].seq \in Nat
<1>1. acked \in Seq(Entries)
  BY DEF TypeOK
<1>2. \A k \in 1..Len(acked) : acked[k] \in Entries
  BY <1>1, ElementOfSeq
<1> QED
  BY <1>1, <1>2, LenProperties DEF Entries

LEMMA RisingStep ==
  ASSUME TypeOK, GateHeld, Numbered, Rising, AckedOnFile', [Next]_vars
  PROVE  Rising'
<1> SUFFICES ASSUME Intact(file')
             PROVE  /\ \A k \in 1..Len(acked') : acked'[k].seq < seq'
                    /\ \A w \in Workers, k \in 1..Len(acked') :
                         work'[w].pc \in {"open", "newline"} => acked'[k].seq < work'[w].seq
                    /\ \A i, j \in 1..Len(acked') : i < j => acked'[i].seq < acked'[j].seq
  BY DEF Rising
<1>0. /\ \A k \in 1..Len(acked) : acked[k].seq < seq
      /\ \A w \in Workers, k \in 1..Len(acked) :
           work[w].pc \in {"open", "newline"} => acked[k].seq < work[w].seq
      /\ \A i, j \in 1..Len(acked) : i < j => acked[i].seq < acked[j].seq
  BY IntactBefore DEF Rising
<1>1. Len(acked) \in Nat /\ seq \in Nat /\ \A k \in 1..Len(acked) : acked[k].seq \in Nat
  BY AckedNumbers DEF TypeOK
<1>2. ASSUME NEW w \in Workers, NEW obs \in Observations, NEW verifier \in Actors \union {None},
             Evaluate(w, obs, verifier)
      PROVE  /\ \A k \in 1..Len(acked') : acked'[k].seq < seq'
             /\ \A v \in Workers, k \in 1..Len(acked') :
                  work'[v].pc \in {"open", "newline"} => acked'[k].seq < work'[v].seq
             /\ \A i, j \in 1..Len(acked') : i < j => acked'[i].seq < acked'[j].seq
  BY <1>0, <1>1, <1>2, EvaluateDoes
<1>3. ASSUME acked' = acked, seq' = seq,
             \A v \in Workers : work'[v].pc \in {"open", "newline"} =>
               work[v].pc \in {"open", "newline"} /\ work'[v].seq = work[v].seq
      PROVE  /\ \A k \in 1..Len(acked') : acked'[k].seq < seq'
             /\ \A v \in Workers, k \in 1..Len(acked') :
                  work'[v].pc \in {"open", "newline"} => acked'[k].seq < work'[v].seq
             /\ \A i, j \in 1..Len(acked') : i < j => acked'[i].seq < acked'[j].seq
  BY <1>0, <1>3
<1>4. ASSUME NEW w \in Workers, OpenFails(w) \/ WriteTorn(w) \/ LineFeedFails(w)
      PROVE  /\ acked' = acked /\ seq' = seq
             /\ \A v \in Workers : work'[v].pc \in {"open", "newline"} =>
                  work[v].pc \in {"open", "newline"} /\ work'[v].seq = work[v].seq
  BY <1>4, GivingUpDoes DEF Moved
<1>5. ASSUME NEW w \in Workers, WriteEntry(w)
      PROVE  /\ acked' = acked /\ seq' = seq
             /\ \A v \in Workers : work'[v].pc \in {"open", "newline"} =>
                  work[v].pc \in {"open", "newline"} /\ work'[v].seq = work[v].seq
  BY <1>5, WriteEntryDoes DEF Moved
<1>6. ASSUME NEW w \in Workers, Verdict(w)
      PROVE  /\ acked' = acked /\ seq' = seq
             /\ \A v \in Workers : work'[v].pc \in {"open", "newline"} =>
                  work[v].pc \in {"open", "newline"} /\ work'[v].seq = work[v].seq
  BY <1>6, VerdictEnds, VerdictDoes
<1>7. ASSUME NEW w \in Workers, Publish(w)
      PROVE  /\ acked' = acked /\ seq' = seq
             /\ \A v \in Workers : work'[v].pc \in {"open", "newline"} =>
                  work[v].pc \in {"open", "newline"} /\ work'[v].seq = work[v].seq
  BY <1>7, PublishDoes DEF Returned, Idle
<1>8. ASSUME NEW w \in Workers, WriteLineFeed(w)
      PROVE  /\ \A k \in 1..Len(acked') : acked'[k].seq < seq'
             /\ \A v \in Workers, k \in 1..Len(acked') :
                  work'[v].pc \in {"open", "newline"} => acked'[k].seq < work'[v].seq
             /\ \A i, j \in 1..Len(acked') : i < j => acked'[i].seq < acked'[j].seq
  <2>1. PICK n \in Nat : n = Len(acked)
    BY <1>1
  <2>2. /\ acked' = Append(acked, Entry(w)) /\ Entry(w) \in Entries /\ seq' = seq
        /\ work[w].pc = "newline" /\ work'[w].pc = "verdict"
        /\ \A v \in Workers : v # w => work'[v] = work[v]
    BY <1>8, WriteLineFeedDoes DEF Moved
  <2>3. /\ Len(acked') = n + 1 /\ acked'[n + 1] = Entry(w)
        /\ \A i \in 1..n : acked'[i] = acked[i]
    BY <2>1, <2>2, AppendProperties DEF TypeOK
  <2>4. acked'[n + 1].seq = work[w].seq /\ work[w].seq \in Nat /\ work[w].seq < seq
    <3>1. Entry(w).seq = work[w].seq
      BY DEF Entry
    <3>2. Entry(w).seq \in Nat
      BY <2>2 DEF Entries
    <3>3. work[w].seq < seq
      BY <2>2 DEF Numbered
    <3> QED
      BY <2>3, <3>1, <3>2, <3>3
  <2>5. \A k \in 1..n : acked'[k].seq < work[w].seq /\ acked'[k].seq < seq /\ acked'[k].seq \in Nat
    BY <1>0, <1>1, <2>1, <2>2, <2>3
  <2>6. \A k \in 1..(n + 1) : k \in 1..n \/ k = n + 1
    BY <2>1
  <2>7. \A k \in 1..(n + 1) : acked'[k].seq < seq'
    BY <2>2, <2>4, <2>5, <2>6
  <2>8. \A v \in Workers : work'[v].pc \notin {"open", "newline"}
    BY <2>2 DEF GateHeld
  <2>9. ASSUME NEW i \in 1..(n + 1), NEW j \in 1..(n + 1), i < j
        PROVE  acked'[i].seq < acked'[j].seq
    <3>1. i \in 1..n
      BY <2>9
    <3>2. CASE j \in 1..n
      BY <1>0, <2>1, <2>3, <2>9, <3>1, <3>2
    <3>3. CASE j = n + 1
      BY <2>4, <2>5, <3>1, <3>3
    <3> QED
      BY <2>6, <3>2, <3>3
  <2> QED
    BY <2>3, <2>7, <2>8, <2>9
<1>9. CASE Restart
  <2>1. /\ \A w \in Workers : work'[w] = Idle
        /\ file' \in Seq(Part) /\ seq' = NextSeq(Replay(file')) /\ acked' = acked
    BY <1>9, RestartDoes
  <2>2. ASSUME NEW k \in 1..Len(acked')
        PROVE  acked'[k].seq < seq'
    <3>1. OnFile(file', acked'[k])
      BY DEF AckedOnFile
    <3>2. PICK m \in 1..Len(Replay(file')) : Replay(file')[m] = acked'[k]
      BY <2>1, <3>1, OnFileReplayed
    <3>3. Replay(file') \in Seq(Entries)
      BY <2>1, ReplayType
    <3>4. Replay(file')[m].seq < NextSeq(Replay(file'))
      BY <3>3, NextSeqLarger
    <3> QED
      BY <2>1, <3>2, <3>4
  <2>3. \A w \in Workers : work'[w].pc \notin {"open", "newline"}
    BY <2>1 DEF Idle
  <2> QED
    BY <1>0, <2>1, <2>2, <2>3
<1>10. CASE UNCHANGED vars
  BY <1>0, <1>10 DEF vars
<1> QED
  BY <1>2, <1>3, <1>4, <1>5, <1>6, <1>7, <1>8, <1>9, <1>10 DEF Next

Latest ==
  \A w \in Workers : work[w].pc = "verdict" /\ work[w].audit # None =>
    Len(memory) # 0 /\ memory[Len(memory)] = Entry(w) /\ work[w].audit = work[w].seq

Explained ==
  \A c \in Cards : verdicts[c] # None /\ verdicts[c].audit # None =>
    LastAbout(memory, c, verdicts[c]) \/ Superseding(c)

LEMMA LatestStep ==
  ASSUME TypeOK, GateHeld, Numbered, Latest, [Next]_vars
  PROVE  Latest'
<1>1. ASSUME memory' = memory,
             \A v \in Workers : work'[v].pc = "verdict" /\ work'[v].audit # None => work'[v] = work[v]
      PROVE  Latest'
  BY <1>1 DEF Latest, Entry
<1>2. ASSUME NEW w \in Workers, NEW obs \in Observations, NEW verifier \in Actors \union {None},
             Evaluate(w, obs, verifier)
      PROVE  Latest'
  BY <1>1, <1>2, EvaluateDoes
<1>3. ASSUME NEW w \in Workers, OpenFails(w) \/ WriteTorn(w) \/ LineFeedFails(w)
      PROVE  Latest'
  BY <1>1, <1>3, GivingUpDoes DEF Moved, Numbered
<1>4. ASSUME NEW w \in Workers, WriteEntry(w)
      PROVE  Latest'
  BY <1>1, <1>4, WriteEntryDoes DEF Moved
<1>5. ASSUME NEW w \in Workers, WriteLineFeed(w)
      PROVE  Latest'
  <2>1. /\ work[w].pc = "newline" /\ Moved(w, "verdict", work[w].seq)
        /\ memory' = Append(memory, Entry(w)) /\ Entry(w) \in Entries
    BY <1>5, WriteLineFeedDoes
  <2>2. PICK n \in Nat : n = Len(memory)
    BY LenProperties DEF TypeOK
  <2>3. Len(memory') = n + 1 /\ memory'[n + 1] = Entry(w)
    BY <2>1, <2>2, AppendProperties DEF TypeOK
  <2>4. Len(memory') # 0 /\ memory'[Len(memory')] = Entry(w)
    BY <2>2, <2>3
  <2>5. Entry(w)' = Entry(w) /\ work'[w].audit = work'[w].seq
    BY <2>1 DEF Moved
  <2>6. \A v \in Workers : v # w => work'[v].pc # "verdict"
    BY <2>1 DEF Moved, GateHeld
  <2> QED
    BY <2>4, <2>5, <2>6 DEF Latest
<1>6. ASSUME NEW w \in Workers, Verdict(w)
      PROVE  Latest'
  BY <1>1, <1>6, VerdictEnds, VerdictDoes
<1>7. ASSUME NEW w \in Workers, Publish(w)
      PROVE  Latest'
  BY <1>1, <1>7, PublishDoes DEF Returned, Idle
<1>8. CASE Restart
  BY <1>8, RestartDoes DEF Latest, Idle
<1>9. CASE UNCHANGED vars
  BY <1>1, <1>9 DEF vars
<1> QED
  BY <1>2, <1>3, <1>4, <1>5, <1>6, <1>7, <1>8, <1>9 DEF Next

LEMMA ExplainedStep ==
  ASSUME TypeOK, GateHeld, Numbered, Latest, Explained, [Next]_vars
  PROVE  Explained'
<1>1. ASSUME memory' = memory, verdicts' = verdicts,
             \A v \in Workers : work[v].pc = "verdict" /\ work[v].audit # None => work'[v] = work[v]
      PROVE  Explained'
  BY <1>1 DEF Explained, Superseding
<1>2. ASSUME NEW w \in Workers, NEW obs \in Observations, NEW verifier \in Actors \union {None},
             Evaluate(w, obs, verifier)
      PROVE  Explained'
  <2>1. work[w].pc = "idle"
    BY <1>2 DEF Evaluate
  <2> QED
    BY <1>1, <1>2, <2>1, EvaluateDoes
<1>3. ASSUME NEW w \in Workers, OpenFails(w) \/ WriteTorn(w) \/ LineFeedFails(w)
      PROVE  Explained'
  BY <1>1, <1>3, GivingUpDoes DEF Moved
<1>4. ASSUME NEW w \in Workers, WriteEntry(w)
      PROVE  Explained'
  BY <1>1, <1>4, WriteEntryDoes DEF Moved
<1>5. ASSUME NEW w \in Workers, WriteLineFeed(w)
      PROVE  Explained'
  <2>1. /\ work[w].pc = "newline" /\ Moved(w, "verdict", work[w].seq)
        /\ memory' = Append(memory, Entry(w)) /\ Entry(w) \in Entries /\ verdicts' = verdicts
    BY <1>5, WriteLineFeedDoes
  <2>2. PICK n \in Nat : n = Len(memory)
    BY LenProperties DEF TypeOK
  <2>3. /\ Len(memory') = n + 1 /\ memory'[n + 1] = Entry(w)
        /\ \A i \in 1..n : memory'[i] = memory[i]
    BY <2>1, <2>2, AppendProperties DEF TypeOK
  <2>4. ~ \E c \in Cards : Superseding(c)
    BY <2>1 DEF Superseding, GateHeld
  <2>5. ASSUME NEW c \in Cards, verdicts[c] # None, verdicts[c].audit # None
        PROVE  LastAbout(memory', c, verdicts[c]) \/ Superseding(c)'
    <3>1. PICK k \in 1..n :
            /\ memory[k].seq = verdicts[c].audit /\ memory[k].outcome = verdicts[c].decision
            /\ \A l \in 1..n : memory[l].target = c => l <= k
      BY <2>2, <2>4, <2>5 DEF Explained, LastAbout
    <3>2. CASE work[w].obs.card = c
      <4>1. work'[w].pc = "verdict" /\ work'[w].audit = work[w].seq /\ work'[w].obs.card = c
        BY <2>1, <3>2 DEF Moved
      <4>2. work[w].seq # None
        BY <2>1, AuditAssumption DEF Entry, Entries
      <4> QED
        BY <4>1, <4>2 DEF Superseding
    <3>3. CASE work[w].obs.card # c
      <4>1. memory'[n + 1].target # c
        BY <2>3, <3>3 DEF Entry
      <4>2. \A l \in 1..(n + 1) : memory'[l].target = c => l <= k
        <5> SUFFICES ASSUME NEW l \in 1..(n + 1), memory'[l].target = c
                     PROVE  l <= k
          OBVIOUS
        <5>1. l \in 1..n
          BY <4>1
        <5> QED
          BY <2>3, <3>1, <5>1
      <4>3. k \in 1..(n + 1) /\ memory'[k] = memory[k]
        BY <2>3
      <4> QED
        BY <2>3, <3>1, <4>2, <4>3 DEF LastAbout
    <3> QED
      BY <3>2, <3>3
  <2> QED
    BY <2>1, <2>5 DEF Explained
<1>6. ASSUME NEW w \in Workers, Verdict(w)
      PROVE  Explained'
  <2>1. PICK d \in Cards : d = work[w].obs.card
    BY <1>6, VerdictDoes
  <2>2. PICK v : v = [decision |-> work[w].decision, audit |-> work[w].audit]
    OBVIOUS
  <2>3. /\ verdicts'[d] = v /\ memory' = memory /\ work[w].pc = "verdict"
        /\ \A c \in Cards : c # d => verdicts'[c] = verdicts[c]
        /\ v.decision = work[w].decision /\ v.audit = work[w].audit
    BY <1>6, <2>1, <2>2, VerdictDoes
  <2>4. ASSUME v.audit # None
        PROVE  LastAbout(memory, d, v)
    <3>1. PICK n \in Nat : n = Len(memory)
      BY LenProperties DEF TypeOK
    <3>2. n # 0 /\ memory[n] = Entry(w) /\ work[w].audit = work[w].seq
      BY <2>3, <2>4, <3>1 DEF Latest
    <3>3. memory[n].seq = v.audit /\ memory[n].outcome = v.decision
      BY <2>3, <3>2 DEF Entry
    <3>4. n \in 1..n /\ \A l \in 1..n : l <= n
      BY <3>2
    <3> QED
      BY <3>1, <3>3, <3>4 DEF LastAbout
  <2>5. \A c \in Cards : c # d => ~ Superseding(c)
    BY <2>1, <2>3 DEF Superseding, GateHeld
  <2>6. ASSUME NEW c \in Cards, verdicts'[c] # None, verdicts'[c].audit # None
        PROVE  LastAbout(memory', c, verdicts'[c])
    <3>1. CASE c = d
      BY <2>3, <2>4, <2>6, <3>1
    <3>2. CASE c # d
      BY <2>3, <2>5, <2>6, <3>2 DEF Explained
    <3> QED
      BY <3>1, <3>2
  <2> QED
    BY <2>6 DEF Explained
<1>7. ASSUME NEW w \in Workers, Publish(w)
      PROVE  Explained'
  BY <1>1, <1>7, PublishDoes DEF Returned
<1>8. CASE Restart
  BY <1>8, RestartDoes DEF Explained
<1>9. CASE UNCHANGED vars
  BY <1>1, <1>9 DEF vars
<1> QED
  BY <1>2, <1>3, <1>4, <1>5, <1>6, <1>7, <1>8, <1>9 DEF Next

-----------------------------------------------------------------------------
TrailInv ==
  /\ TypeOK /\ IInv
  /\ GateHeld /\ Numbered /\ Written /\ Answered /\ AckedOnFile /\ CardsOnFile /\ Rising
  /\ Latest /\ Explained

LEMMA TrailInit == Init => TrailInv
<1> SUFFICES ASSUME Init
             PROVE  TrailInv
  OBVIOUS
<1>1. TypeOK /\ IInv
  BY TrailTypeInit, InitInductive
<1>2. \A w \in Workers : work[w].pc = "idle"
  BY DEF Init, Idle
<1>3. GateHeld /\ Numbered /\ Written /\ Answered /\ Latest
  BY <1>2 DEF GateHeld, Numbered, Written, Answered, Latest
<1>4. Len(acked) = 0 /\ \A k : k \notin 1..Len(acked)
  BY DEF Init
<1>5. AckedOnFile /\ Rising
  BY <1>4 DEF AckedOnFile, Rising
<1>6. CardsOnFile /\ Explained
  BY DEF Init, CardsOnFile, Explained
<1> QED
  BY <1>1, <1>3, <1>5, <1>6 DEF TrailInv

LEMMA TrailStep == TrailInv /\ [Next]_vars => TrailInv'
<1> SUFFICES ASSUME TrailInv, [Next]_vars
             PROVE  TrailInv'
  OBVIOUS
<1>1. /\ TypeOK /\ IInv
      /\ GateHeld /\ Numbered /\ Written /\ Answered /\ AckedOnFile /\ CardsOnFile /\ Rising
      /\ Latest /\ Explained
  BY DEF TrailInv
<1>2. TypeOK' /\ IInv'
  BY <1>1, TrailTypeStep, StepInductive
<1>3. GateHeld' /\ Numbered' /\ Written'
  BY <1>1, GateHeldStep, NumberedStep, WrittenStep
<1>4. Answered' /\ AckedOnFile' /\ CardsOnFile'
  BY <1>1, AnsweredStep, AckedStep, CardsStep
<1>5. Rising'
  BY <1>1, <1>4, RisingStep
<1>6. Latest' /\ Explained'
  BY <1>1, LatestStep, ExplainedStep
<1> QED
  BY <1>2, <1>3, <1>4, <1>5, <1>6 DEF TrailInv

LEMMA TrailInOrderFrom == TrailInv => TrailInOrder
<1> SUFFICES ASSUME TrailInv
             PROVE  TrailInOrder
  OBVIOUS
<1>1. TypeOK /\ GateHeld /\ AckedOnFile /\ Rising /\ Explained
  BY DEF TrailInv
<1>2. /\ file \in Seq(Part) /\ Replay(file) \in Seq(Entries)
      /\ DOMAIN acked = 1..Len(acked) /\ DOMAIN memory = 1..Len(memory)
  <2>1. file \in Seq(Part) /\ acked \in Seq(Entries) /\ memory \in Seq(Entries)
    BY <1>1 DEF TypeOK, Part
  <2> QED
    BY <2>1, ReplayType, LenProperties
<1>3. LostOnlyInJoinedLine
  <2> SUFFICES ASSUME NEW k \in 1..Len(acked), \A i \in Joined(file) : file[i] # acked[k]
               PROVE  Contains(Replay(file), acked[k])
    BY <1>2 DEF LostOnlyInJoinedLine
  <2>1. PICK i \in 1..Len(file) : Ended(file, i) /\ file[i] = acked[k]
    BY <1>1 DEF AckedOnFile, OnFile
  <2>2. \E m \in 1..Len(Replay(file)) : Replay(file)[m] = acked[k]
    BY <1>2, <2>1, EndedReplayed
  <2> QED
    BY <2>2 DEF Contains
<1>4. AckedInOrder
  BY <1>1, <1>2 DEF Rising, AckedInOrder
<1>5. VerdictIsLastEntry
  <2> SUFFICES ASSUME gate = NoOne, NEW c \in Cards, verdicts[c] # None, verdicts[c].audit # None
               PROVE  LastAbout(memory, c, verdicts[c])
    BY <1>2 DEF VerdictIsLastEntry, LastAbout
  <2>1. ~ Superseding(c)
    BY <1>1, AuditAssumption DEF Superseding, GateHeld
  <2> QED
    BY <1>1, <2>1 DEF Explained
<1> QED
  BY <1>1, <1>3, <1>4, <1>5 DEF TrailInOrder

(* Between restarts that nothing tore, the trail is in the order of the      *)
(* calls: every acknowledged entry is replayed unless its line was joined to *)
(* a torn one, acknowledged numbers rise, and what is shown of a card is its *)
(* last entry; for any threads, cards and actors, and under every failure of *)
(* the log (audit.rs, gatekeeper.rs).                                        *)
THEOREM TrailIsInOrder == Spec => []TrailInOrder
BY TrailInit, TrailStep, TrailInOrderFrom, PTL DEF Spec

LEMMA PublishedFrom == TrailInv => PublishedIsAudited
<1> SUFFICES ASSUME TrailInv, Intact(file), NEW c \in Cards, cards[c] # None, cards[c].audit # None
             PROVE  \E k \in DOMAIN Replay(file) :
                      /\ Replay(file)[k].seq = cards[c].audit
                      /\ Replay(file)[k].target = c
                      /\ Replay(file)[k].outcome = "approved"
                      /\ Replay(file)[k].evidence = cards[c].obs.evidence
  BY DEF PublishedIsAudited
<1>1. PICK i \in 1..Len(file) :
        /\ Ended(file, i) /\ file[i].seq = cards[c].audit /\ file[i].target = c
        /\ file[i].outcome = "approved" /\ file[i].evidence = cards[c].obs.evidence
  BY DEF TrailInv, CardsOnFile, Approval
<1>2. file \in Seq(Part)
  BY DEF TrailInv, TypeOK, Part
<1>3. OnFile(file, file[i])
  BY <1>1 DEF OnFile
<1>4. PICK k \in 1..Len(Replay(file)) : Replay(file)[k] = file[i]
  BY <1>2, <1>3, OnFileReplayed
<1>5. DOMAIN Replay(file) = 1..Len(Replay(file))
  <2>1. Replay(file) \in Seq(Entries)
    BY <1>2, ReplayType
  <2> QED
    BY <2>1, LenProperties
<1> QED
  BY <1>1, <1>4, <1>5

(* What a card shows with a number is on file as an approval of that card    *)
(* with that evidence, however the threads interleave and whichever write    *)
(* fails (gatekeeper.rs, audit.rs), while no line was left unfinished.       *)
THEOREM PublishedIsAuditedHolds == Spec => []PublishedIsAudited
BY TrailInit, TrailStep, PublishedFrom, PTL DEF Spec
=============================================================================
