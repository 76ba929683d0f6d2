-------------------------- MODULE Governance_proofs --------------------------
(***************************************************************************)
(* TLAPS proofs about the two implementations of ProposalLife: the off-    *)
(* chain executor, for every set of voters, any thresholds, periods and    *)
(* delays, and any number of proposals and votes; and the on-chain         *)
(* governor, for any accounts, roles, powers and periods.                  *)
(***************************************************************************)
EXTENDS GovernanceExecutor, Governor, SequenceTheorems, WellFoundedInduction, SumLemmas

(* A handler that rewrites proposals in place leaves the map well typed. *)
LEMMA RewrittenInPlace ==
  ASSUME NEW S, NEW s \in Seq(S), NEW t,
         t = [j \in DOMAIN s |-> t[j]],
         \A j \in DOMAIN s : t[j] \in S
  PROVE  t \in Seq(S) /\ Len(t) = Len(s) /\ DOMAIN t = DOMAIN s
<1>1. DOMAIN s = 1..Len(s) /\ Len(s) \in Nat
  OBVIOUS
<1>2. t \in [1..Len(s) -> S]
  BY <1>1
<1>3. QED
  BY <1>1, <1>2

(* Creating a proposal, and counting a vote, keep a proposal's type. *)
LEMMA NewProposalTyped ==
  ASSUME NEW type \in Types, NEW v \in Voters, NEW power \in Powers,
         NEW now \in Nat
  PROVE  NewProposal(type, v, power, now) \in Proposal
BY GovernanceAssumption DEF NewProposal, Proposal, Statuses

LEMMA TalliedTyped ==
  ASSUME NEW p \in Proposal, NEW vote \in Vote
  PROVE  /\ Tallied(p, vote.support, vote.power) \in Proposal
         /\ Tallied(p, vote.support, vote.power).status = p.status
         /\ Tallied(p, vote.support, vote.power).type = p.type
         /\ Tallied(p, vote.support, vote.power).votingEnd = p.votingEnd
<1>1. vote.support \in BOOLEAN /\ vote.power \in Nat
  BY GovernanceAssumption DEF Vote
<1>2. /\ p.for \in Nat /\ p.against \in Nat /\ p.total \in Nat
      /\ p.for + vote.power \in Nat /\ p.against + vote.power \in Nat
      /\ p.total + vote.power \in Nat
  BY <1>1 DEF Proposal
<1>3. CASE vote.support
  BY <1>2, <1>3 DEF Tallied, Proposal
<1>4. CASE ~vote.support
  BY <1>2, <1>4 DEF Tallied, Proposal
<1>5. QED
  BY <1>3, <1>4

LEMMA StatusAtTyped ==
  ASSUME NEW p \in Proposal, NEW now \in Nat
  PROVE  StatusAt(p, now) \in Statuses
BY DEF StatusAt, Proposal, Statuses

(* check_proposal_status says Timelocked or Executable of passed proposals   *)
(* only, and Executable only when every delay is over.                       *)
LEMMA StatusAtLawful ==
  ASSUME NEW p \in Proposal, NEW now \in Nat, p.status = "Active"
  PROVE  /\ StatusAt(p, now) \in {"Active", "Defeated", "Timelocked", "Executable"}
         /\ StatusAt(p, now) \in {"Timelocked", "Executable"} => Passed(p)
         /\ StatusAt(p, now) = "Executable" => ReadyAt(p) <= now
<1>1. ReadyAt(p) \in Nat
  BY GovernanceAssumption DEF ReadyAt, RequiresTimelock, Proposal
<1>2. QED
  BY <1>1 DEF StatusAt

(* What the later phases read of a proposal: its outcome does not depend on  *)
(* the status written into it.                                               *)
LEMMA SameOutcome ==
  ASSUME NEW p \in Proposal, NEW q \in Proposal,
         q.type = p.type, q.votingEnd = p.votingEnd,
         q.for = p.for, q.against = p.against, q.total = p.total
  PROVE  /\ Passed(q) = Passed(p)
         /\ ReadyAt(q) = ReadyAt(p)
         /\ Deadline(q) = Deadline(p)
BY DEF Passed, QuorumReached, ApprovalReached, ReadyAt, Deadline,
       RequiresTimelock

LEMMA ReadyTyped ==
  ASSUME NEW p \in Proposal
  PROVE  ReadyAt(p) \in Nat /\ Deadline(p) \in Nat
BY GovernanceAssumption DEF ReadyAt, Deadline, RequiresTimelock, Proposal

-----------------------------------------------------------------------------
(* The type invariant: every handler keeps the maps well typed.             *)
THEOREM TypeCorrect == Spec => []TypeOK
<1>1. Init => TypeOK
  <2>1. <<>> \in Seq(Proposal) /\ Len(<<>>) = 0
    OBVIOUS
  <2>2. MaxProposals \in Nat
    BY GovernanceAssumption
  <2>3. [i \in Ids |-> {}] \in [Ids -> SUBSET Vote]
    OBVIOUS
  <2>4. 0 \in 0..MaxProposals
    BY <2>2
  <2>5. ASSUME Init PROVE /\ clock \in Nat /\ paused \in BOOLEAN
                          /\ votes \in [Ids -> SUBSET Vote]
                          /\ creating \in 0..MaxProposals
    BY <2>3, <2>4, <2>5 DEF Init
  <2>6. ASSUME Init PROVE /\ proposals \in Seq(Proposal)
                          /\ Len(proposals) <= MaxProposals
    BY <2>1, <2>2, <2>6 DEF Init
  <2>7. QED
    BY <2>5, <2>6 DEF TypeOK
<1>2. TypeOK /\ [Next]_vars => TypeOK'
  <2> SUFFICES ASSUME TypeOK, [Next]_vars PROVE TypeOK'
    OBVIOUS
  <2> USE GovernanceAssumption
  <2>0. Created = 1..Len(proposals) /\ \A i \in Created : proposals[i] \in Proposal
    BY DEF TypeOK, Created
  <2>1. ASSUME NEW type \in Types, NEW v \in Voters, NEW power \in Powers,
               NEW now \in 0..clock, Create(type, v, power, now)
        PROVE  TypeOK'
    <3>1. NewProposal(type, v, power, now) \in Proposal
      <4>1. now \in Nat
        BY DEF TypeOK
      <4>2. QED
        BY <4>1, NewProposalTyped
    <3>2. /\ proposals' \in Seq(Proposal)
          /\ Len(proposals') = Len(proposals) + 1
      BY <2>1, <3>1 DEF Create, TypeOK
    <3>3. QED
      BY <2>1, <3>2 DEF Create, TypeOK
  <2>2. ASSUME NEW i \in Created, NEW vote \in Vote, NEW later \in {0, 1},
               CastVote(i, vote, later)
        PROVE  TypeOK'
    <3> DEFINE p == Tallied(proposals[i], vote.support, vote.power)
               q == [p EXCEPT !.status = StatusAt(p, clock + later)]
    <3>1. p \in Proposal
      BY <2>0, TalliedTyped
    <3>2. StatusAt(p, clock + later) \in Statuses
      BY <3>1, StatusAtTyped DEF TypeOK
    <3>3. q \in Proposal
      BY <3>1, <3>2 DEF Proposal
    <3>4. proposals' = [proposals EXCEPT ![i] = q]
      BY <2>2 DEF CastVote
    <3> HIDE DEF p, q
    <3>5. proposals' \in Seq(Proposal) /\ Len(proposals') = Len(proposals)
      BY <3>3, <3>4, <2>0 DEF TypeOK
    <3>6. votes' \in [Ids -> SUBSET Vote]
      BY <2>2 DEF CastVote, TypeOK
    <3>7. QED
      BY <2>2, <3>5, <3>6 DEF CastVote, TypeOK
  <2>3. CASE InsertVoteMap
    <3>1. votes' \in [Ids -> SUBSET Vote]
      BY <2>3 DEF InsertVoteMap, TypeOK
    <3>2. creating' \in 0..MaxProposals
      BY <2>3 DEF InsertVoteMap, TypeOK
    <3>3. QED
      BY <2>3, <3>1, <3>2 DEF InsertVoteMap, TypeOK
  <2>4. ASSUME NEW i \in Created, Execute(i)
        PROVE  TypeOK'
    <3>1. PICK q \in Proposal : proposals' = [proposals EXCEPT ![i] = q]
      <4>1. CASE clock > Deadline(proposals[i])
        BY <4>1, <2>4, <2>0 DEF Execute, Proposal, Statuses
      <4>2. CASE ~(clock > Deadline(proposals[i]))
        BY <4>2, <2>4, <2>0 DEF Execute, Proposal, Statuses, TypeOK
      <4>3. QED
        BY <4>1, <4>2
    <3>2. proposals' \in Seq(Proposal) /\ Len(proposals') = Len(proposals)
      BY <3>1, <2>0 DEF TypeOK
    <3>3. QED
      BY <2>4, <3>2 DEF Execute, TypeOK
  <2>5. ASSUME NEW i \in Created, NEW v \in Voters, Cancel(i, v)
        PROVE  TypeOK'
    <3>1. [proposals[i] EXCEPT !.status = "Cancelled"] \in Proposal
      BY <2>0 DEF Proposal, Statuses
    <3>2. proposals' \in Seq(Proposal) /\ Len(proposals') = Len(proposals)
      BY <3>1, <2>5, <2>0 DEF TypeOK, Cancel
    <3>3. QED
      BY <2>5, <3>2 DEF Cancel, TypeOK
  <2>6. ASSUME NEW now \in 0..clock, ProcessTimelockQueue(now)
        PROVE  TypeOK'
    <3>1. \A i \in Created : Unlocked(proposals[i], now) \in Proposal
      BY <2>0 DEF Unlocked, Proposal, Statuses
    <3>2. proposals' \in Seq(Proposal) /\ Len(proposals') = Len(proposals)
      BY <3>1, <2>6, RewrittenInPlace DEF TypeOK, ProcessTimelockQueue, Created
    <3>3. QED
      BY <2>6, <3>2 DEF ProcessTimelockQueue, TypeOK
  <2>7. ASSUME NEW now \in 0..clock, ProcessExecutionQueue(now)
        PROVE  TypeOK'
    <3>1. \A i \in Created : Lapsed(proposals[i], now) \in Proposal
      BY <2>0 DEF Lapsed, Proposal, Statuses
    <3>2. proposals' \in Seq(Proposal) /\ Len(proposals') = Len(proposals)
      BY <3>1, <2>7, RewrittenInPlace DEF TypeOK, ProcessExecutionQueue, Created
    <3>3. QED
      BY <2>7, <3>2 DEF ProcessExecutionQueue, TypeOK
  <2>8. ASSUME NEW flag \in BOOLEAN, SetPaused(flag)
        PROVE  TypeOK'
    BY <2>8 DEF SetPaused, TypeOK
  <2>9. CASE Tick
    BY <2>9 DEF Tick, TypeOK
  <2>10. CASE UNCHANGED vars
    BY <2>10 DEF vars, TypeOK
  <2>11. QED
    BY <2>1, <2>2, <2>3, <2>4, <2>5, <2>6, <2>7, <2>8, <2>9, <2>10 DEF Next
<1>3. QED
  BY <1>1, <1>2, PTL DEF Spec

-----------------------------------------------------------------------------
(* The inductive strengthening of ExecutedLawfully: the later statuses say   *)
(* that the proposal passed, Executable says that every delay is over.       *)
Lawful(p, now) ==
  /\ p.status \in {"Timelocked", "Executable", "Executed", "Expired"} => Passed(p)
  /\ p.status = "Executable" => ReadyAt(p) <= now
  /\ p.status = "Executed" =>
       ReadyAt(p) <= p.executedAt /\ p.executedAt <= Deadline(p)

AllLawful == \A i \in Created : Lawful(proposals[i], clock)

(* Time passing keeps a proposal lawful. *)
LEMMA LawfulLater ==
  ASSUME NEW p \in Proposal, NEW now \in Nat, NEW later \in Nat,
         now <= later, Lawful(p, now)
  PROVE  Lawful(p, later)
BY ReadyTyped DEF Lawful

(* So does a handler that leaves the outcome alone and writes a status that  *)
(* the outcome and the clock justify.                                        *)
LEMMA LawfulRewrite ==
  ASSUME NEW p \in Proposal, NEW q \in Proposal, NEW now,
         q.type = p.type, q.votingEnd = p.votingEnd,
         q.for = p.for, q.against = p.against, q.total = p.total,
         q.status \in {"Executable", "Executed", "Expired"} => Passed(p),
         q.status # "Timelocked",
         q.status = "Executable" => ReadyAt(p) <= now,
         q.status = "Executed" =>
           ReadyAt(p) <= q.executedAt /\ q.executedAt <= Deadline(p)
  PROVE  Lawful(q, now)
<1>1. Passed(q) = Passed(p) /\ ReadyAt(q) = ReadyAt(p) /\ Deadline(q) = Deadline(p)
  BY SameOutcome
<1>2. QED
  BY <1>1 DEF Lawful

LEMMA AllLawfulStep ==
  ASSUME TypeOK, TypeOK', AllLawful, [Next]_vars
  PROVE  AllLawful'
<1>0. /\ Created = 1..Len(proposals) /\ Len(proposals) \in Nat
      /\ \A i \in Created : proposals[i] \in Proposal /\ Lawful(proposals[i], clock)
      /\ Created' = 1..Len(proposals')
      /\ \A i \in Created' : proposals'[i] \in Proposal
      /\ clock \in Nat /\ clock' \in Nat
  BY DEF TypeOK, Created, AllLawful
<1>1. ASSUME NEW type \in Types, NEW v \in Voters, NEW power \in Powers,
             NEW now \in 0..clock, Create(type, v, power, now)
      PROVE  AllLawful'
  <2>1. PICK p : proposals' = Append(proposals, p) /\ p.status = "Active"
    BY <1>1 DEF Create, NewProposal
  <2>2. Lawful(p, clock)
    BY <2>1 DEF Lawful
  <2>3. \A i \in Created' : proposals'[i] = p \/ (i \in Created /\ proposals'[i] = proposals[i])
    BY <2>1, <1>0 DEF TypeOK
  <2>4. QED
    BY <2>2, <2>3, <1>0, <1>1 DEF Create, AllLawful
<1>2. ASSUME NEW i \in Created, NEW vote \in Vote, NEW later \in {0, 1},
             CastVote(i, vote, later)
      PROVE  AllLawful'
  <2> DEFINE p == Tallied(proposals[i], vote.support, vote.power)
             s == StatusAt(p, clock + later)
             q == [p EXCEPT !.status = s]
  <2>1. p \in Proposal /\ p.status = "Active"
    BY <1>0, <1>2, TalliedTyped DEF CastVote, Votable
  <2>2. clock + later \in Nat /\ clock' = clock + later
    BY <1>0, <1>2 DEF CastVote
  <2>3. /\ s \in {"Active", "Defeated", "Timelocked", "Executable"}
        /\ s \in {"Timelocked", "Executable"} => Passed(p)
        /\ s = "Executable" => ReadyAt(p) <= clock'
    BY <2>1, <2>2, StatusAtLawful
  <2>4. proposals' = [proposals EXCEPT ![i] = q]
    BY <1>2 DEF CastVote
  <2> HIDE DEF p, s
  <2>5. q \in Proposal /\ q.status = s
    BY <2>1, <2>3 DEF Proposal, Statuses
  <2>6. /\ q.type = p.type /\ q.votingEnd = p.votingEnd
        /\ q.for = p.for /\ q.against = p.against /\ q.total = p.total
    BY <2>1 DEF Proposal
  <2> HIDE DEF q
  <2>7. Passed(q) = Passed(p) /\ ReadyAt(q) = ReadyAt(p)
    BY <2>1, <2>5, <2>6, SameOutcome
  <2>8. Lawful(q, clock')
    BY <2>3, <2>5, <2>7 DEF Lawful
  <2>9. \A j \in Created' : \/ proposals'[j] = q
                            \/ j \in Created /\ proposals'[j] = proposals[j]
    BY <2>4, <1>0 DEF TypeOK
  <2>10. \A j \in Created : Lawful(proposals[j], clock')
    BY <1>0, <2>2, LawfulLater
  <2>11. QED
    BY <2>8, <2>9, <2>10 DEF AllLawful
<1>3. ASSUME NEW i \in Created, Execute(i)
      PROVE  AllLawful'
  <2> DEFINE p == proposals[i]
  <2>0. p \in Proposal /\ Passed(p) /\ ReadyAt(p) <= clock
    BY <1>0, <1>3 DEF Execute, Lawful
  <2>1. PICK q : /\ proposals' = [proposals EXCEPT ![i] = q]
                 /\ \/ q = [p EXCEPT !.status = "Expired"]
                    \/ /\ q = [p EXCEPT !.status = "Executed", !.executedAt = clock]
                       /\ ~(clock > Deadline(p))
    BY <1>3 DEF Execute
  <2>2. /\ q \in Proposal
        /\ q.type = p.type /\ q.votingEnd = p.votingEnd
        /\ q.for = p.for /\ q.against = p.against /\ q.total = p.total
        /\ \/ q.status = "Expired"
           \/ q.status = "Executed" /\ q.executedAt = clock /\ clock <= Deadline(p)
    <3>1. CASE q = [p EXCEPT !.status = "Expired"]
      BY <3>1, <2>0 DEF Proposal, Statuses
    <3>2. CASE q # [p EXCEPT !.status = "Expired"]
      <4>1. /\ q = [p EXCEPT !.status = "Executed", !.executedAt = clock]
            /\ clock <= Deadline(p)
        BY <3>2, <2>0, <2>1, <1>0, ReadyTyped
      <4>2. QED
        BY <4>1, <2>0, <1>0 DEF Proposal, Statuses
    <3>3. QED
      BY <3>1, <3>2
  <2>3. Lawful(q, clock)
    BY <2>0, <2>2, LawfulRewrite
  <2>4. \A j \in Created' : \/ proposals'[j] = q
                            \/ j \in Created /\ proposals'[j] = proposals[j]
    BY <2>1, <1>0 DEF TypeOK
  <2>5. QED
    BY <2>3, <2>4, <1>0, <1>3 DEF Execute, AllLawful
<1>4. ASSUME NEW i \in Created, NEW v \in Voters, Cancel(i, v)
      PROVE  AllLawful'
  <2>1. PICK q : proposals' = [proposals EXCEPT ![i] = q] /\ q.status = "Cancelled"
    <3>1. proposals[i] \in Proposal
      BY <1>0
    <3>2. [proposals[i] EXCEPT !.status = "Cancelled"].status = "Cancelled"
      BY <3>1 DEF Proposal
    <3>3. proposals' = [proposals EXCEPT ![i] =
                          [proposals[i] EXCEPT !.status = "Cancelled"]]
      BY <1>4 DEF Cancel
    <3>4. QED
      BY <3>2, <3>3
  <2>2. Lawful(q, clock)
    BY <2>1 DEF Lawful
  <2>3. \A j \in Created' : \/ proposals'[j] = q
                            \/ j \in Created /\ proposals'[j] = proposals[j]
    BY <2>1, <1>0 DEF TypeOK
  <2>4. QED
    BY <2>2, <2>3, <1>0, <1>4 DEF Cancel, AllLawful
<1>5. ASSUME NEW now \in 0..clock, ProcessTimelockQueue(now)
      PROVE  AllLawful'
  <2>1. ASSUME NEW i \in Created PROVE Lawful(Unlocked(proposals[i], now), clock)
    <3> DEFINE p == proposals[i]
               q == [p EXCEPT !.status = "Executable"]
    <3>1. CASE p.status = "Timelocked" /\ now >= ReadyAt(p)
      <4>1. p \in Proposal /\ Passed(p)
        BY <1>0, <3>1 DEF Lawful
      <4>2. q \in Proposal /\ q.status = "Executable"
            /\ q.type = p.type /\ q.votingEnd = p.votingEnd
            /\ q.for = p.for /\ q.against = p.against /\ q.total = p.total
        BY <4>1 DEF Proposal, Statuses
      <4>3. ReadyAt(p) <= clock
        BY <3>1, <4>1, <1>0, ReadyTyped
      <4> HIDE DEF p, q
      <4>4. Lawful(q, clock)
        BY <4>1, <4>2, <4>3, LawfulRewrite
      <4>5. QED
        BY <4>4, <3>1 DEF Unlocked, p, q
    <3>2. CASE ~(p.status = "Timelocked" /\ now >= ReadyAt(p))
      BY <3>2, <1>0 DEF Unlocked
    <3>3. QED
      BY <3>1, <3>2
  <2>2. proposals' = [i \in Created |-> Unlocked(proposals[i], now)] /\ clock' = clock
    BY <1>5 DEF ProcessTimelockQueue
  <2>3. Created' = Created
    BY <2>2, <1>0 DEF Created
  <2>4. QED
    BY <2>1, <2>2, <2>3 DEF AllLawful
<1>6. ASSUME NEW now \in 0..clock, ProcessExecutionQueue(now)
      PROVE  AllLawful'
  <2>1. ASSUME NEW i \in Created PROVE Lawful(Lapsed(proposals[i], now), clock)
    <3> DEFINE p == proposals[i]
               q == [p EXCEPT !.status = "Expired"]
    <3>1. CASE p.status = "Executable" /\ now > Deadline(p)
      <4>1. p \in Proposal /\ Passed(p)
        BY <1>0, <3>1 DEF Lawful
      <4>2. q \in Proposal /\ q.status = "Expired"
            /\ q.type = p.type /\ q.votingEnd = p.votingEnd
            /\ q.for = p.for /\ q.against = p.against /\ q.total = p.total
        BY <4>1 DEF Proposal, Statuses
      <4> HIDE DEF p, q
      <4>3. Lawful(q, clock)
        BY <4>1, <4>2, LawfulRewrite
      <4>4. QED
        BY <4>3, <3>1 DEF Lapsed, p, q
    <3>2. CASE ~(p.status = "Executable" /\ now > Deadline(p))
      BY <3>2, <1>0 DEF Lapsed
    <3>3. QED
      BY <3>1, <3>2
  <2>2. proposals' = [i \in Created |-> Lapsed(proposals[i], now)] /\ clock' = clock
    BY <1>6 DEF ProcessExecutionQueue
  <2>3. Created' = Created
    BY <2>2, <1>0 DEF Created
  <2>4. QED
    BY <2>1, <2>2, <2>3 DEF AllLawful
<1>7. CASE Tick
  <2>1. proposals' = proposals /\ clock <= clock'
    BY <1>7, <1>0 DEF Tick
  <2>2. \A i \in Created : Lawful(proposals[i], clock')
    BY <1>0, <2>1, LawfulLater
  <2>3. QED
    BY <2>1, <2>2 DEF AllLawful, Created
<1>8. CASE \/ InsertVoteMap \/ UNCHANGED vars \/ \E flag \in BOOLEAN : SetPaused(flag)
  BY <1>8, <1>0 DEF InsertVoteMap, SetPaused, vars, AllLawful, Created
<1>9. QED
  BY <1>1, <1>2, <1>3, <1>4, <1>5, <1>6, <1>7, <1>8 DEF Next

(* An executed proposal passed on its final tally, sat out its voting period *)
(* and its timelock, and was executed before its deadline: execute_proposal  *)
(* may trust the status that other handlers wrote.                           *)
THEOREM ExecutedLawfullyHolds == Spec => []ExecutedLawfully
<1>1. Init => AllLawful
  BY DEF Init, AllLawful, Created
<1>2. TypeOK /\ TypeOK' /\ AllLawful /\ [Next]_vars => AllLawful'
  BY AllLawfulStep
<1>3. AllLawful => ExecutedLawfully
  BY DEF AllLawful, Lawful, ExecutedLawfully
<1>4. QED
  BY <1>1, <1>2, <1>3, TypeCorrect, PTL DEF Spec

-----------------------------------------------------------------------------
(* The executor implements ProposalLife.  Lives is what ProposalLife sees.   *)
Lives == [i \in Created |-> LifeOf(proposals[i])]

Phases == {"open", "closed", "executed", "dropped"}

(* The proposals ProposalLife sees are those of the map, one by one. *)
LEMMA LivesAreProposals ==
  ASSUME TypeOK, TypeOK'
  PROVE  /\ Len(proposals) \in Nat /\ Len(proposals') \in Nat
         /\ DOMAIN Lives = 1..Len(proposals) /\ Len(Lives) = Len(proposals)
         /\ DOMAIN Lives' = 1..Len(proposals') /\ Len(Lives') = Len(proposals')
         /\ Created = 1..Len(proposals) /\ Created' = 1..Len(proposals')
         /\ \A i \in Created : proposals[i] \in Proposal /\ Lives[i] = LifeOf(proposals[i])
         /\ \A i \in Created' :
              proposals'[i] \in Proposal /\ Lives'[i] = LifeOf(proposals'[i])
<1>1. /\ Len(proposals) \in Nat /\ Len(proposals') \in Nat
      /\ Created = 1..Len(proposals) /\ Created' = 1..Len(proposals')
      /\ \A i \in Created : proposals[i] \in Proposal
      /\ \A i \in Created' : proposals'[i] \in Proposal
  BY DEF TypeOK, Created
<1>2. Lives = [i \in 1..Len(proposals) |-> LifeOf(proposals[i])]
  BY <1>1 DEF Lives
<1>3. Lives' = [i \in 1..Len(proposals') |-> LifeOf(proposals'[i])]
  BY <1>1 DEF Lives
<1>4. QED
  BY <1>1, <1>2, <1>3

LEMMA LifeFields ==
  ASSUME NEW p \in Proposal
  PROVE  /\ LifeOf(p).phase = PhaseOf(p.status) /\ PhaseOf(p.status) \in Phases
         /\ LifeOf(p) = [phase |-> LifeOf(p).phase, tally |-> LifeOf(p).tally]
         /\ LifeOf(p).tally.for = p.for /\ LifeOf(p).tally.against = p.against
         /\ LifeOf(p).tally.other = p.total - p.for - p.against
BY DEF LifeOf, PhaseOf, Phases

(* A proposal that passed has a tally that carries it. *)
LEMMA PassedCarries ==
  ASSUME NEW p \in Proposal, Passed(p)
  PROVE  Carrying(LifeOf(p).tally)
<1>1. p.for \in Nat /\ p.against \in Nat /\ p.total \in Nat
      /\ QuorumPercent \in Nat /\ ApprovalPercent \in Nat
  BY GovernanceAssumption DEF Proposal
<1> DEFINE t == LifeOf(p).tally
           cast == p.for + p.against
<1>2. t.for = p.for /\ t.against = p.against /\ cast + t.other = p.total
  BY <1>1, LifeFields
<1>3. 100 * cast >= QuorumPercent * p.total
  BY DEF Passed, QuorumReached
<1>4. 100 * p.for >= ApprovalPercent * cast
  <2>1. CASE cast = 0
    BY <1>1, <2>1
  <2>2. CASE cast # 0
    BY <2>2 DEF Passed, ApprovalReached
  <2>3. QED
    BY <2>1, <2>2
<1> HIDE DEF t
<1>5. Carrying(t)
  BY <1>2, <1>3, <1>4 DEF Carrying
<1>6. QED
  BY <1>5 DEF t

(* A handler that keeps every tally and moves statuses forward is a Wind. *)
LEMMA WindStep ==
  ASSUME TypeOK, TypeOK', Created' = Created,
         \A i \in Created :
           /\ LifeOf(proposals'[i]).tally = LifeOf(proposals[i]).tally
           /\ PhaseOf(proposals'[i].status) \in Life!Successor(PhaseOf(proposals[i].status))
  PROVE  Life!LifeNext
<1>1. DOMAIN Lives' = DOMAIN Lives
  BY LivesAreProposals
<1>2. \A i \in DOMAIN Lives :
        /\ Lives'[i].tally = Lives[i].tally
        /\ Lives'[i].phase \in Life!Successor(Lives[i].phase)
  BY LivesAreProposals, LifeFields
<1>3. Life!Wind
  BY <1>1, <1>2 DEF Life!Wind, Lives
<1>4. QED
  BY <1>3 DEF Life!LifeNext

(* create_proposal appends an open proposal without votes. *)
LEMMA CreateStep ==
  ASSUME TypeOK, TypeOK', NEW type \in Types, NEW v \in Voters,
         NEW power \in Powers, NEW now \in 0..clock, Create(type, v, power, now)
  PROVE  Life!LifeNext
<1> DEFINE p == NewProposal(type, v, power, now)
<1>1. now \in Nat /\ p \in Proposal
  BY NewProposalTyped DEF TypeOK
<1>2. p.status = "Active" /\ p.for = 0 /\ p.against = 0
  BY DEF NewProposal
<1>3. proposals' = Append(proposals, p)
  BY DEF Create
<1> HIDE DEF p
<1>4. /\ LifeOf(p).phase = "open"
      /\ LifeOf(p).tally.for = 0 /\ LifeOf(p).tally.against = 0
  BY <1>1, <1>2, LifeFields DEF PhaseOf
<1>5. /\ Len(proposals') = Len(proposals) + 1
      /\ proposals'[Len(proposals')] = p
      /\ \A i \in Created : proposals'[i] = proposals[i]
  BY <1>1, <1>3 DEF TypeOK, Created
<1>6. Len(Lives') = Len(Lives) + 1 /\ Lives'[Len(Lives')] = LifeOf(p)
  BY <1>5, LivesAreProposals
<1>7. Lives' = Append(Lives, LifeOf(p))
  <2> DEFINE S == {LifeOf(x) : x \in Proposal}
             T == Append(Lives, LifeOf(p))
  <2>1. Lives \in Seq(S) /\ Lives' \in Seq(S) /\ LifeOf(p) \in S
    <3>1. Lives \in [1..Len(proposals) -> S]
      BY LivesAreProposals DEF Lives
    <3>2. Lives' \in [1..Len(proposals') -> S]
      BY LivesAreProposals DEF Lives
    <3>3. QED
      BY <1>1, <3>1, <3>2, LivesAreProposals
  <2>2. /\ T \in Seq(S) /\ Len(T) = Len(Lives) + 1
        /\ T[Len(Lives) + 1] = LifeOf(p)
        /\ \A i \in 1..Len(Lives) : T[i] = Lives[i]
    <3> HIDE DEF S
    <3>1. QED
      BY <2>1, AppendProperties
  <2>3. \A i \in 1..Len(T) : T[i] = Lives'[i]
    BY <2>2, <1>5, <1>6, LivesAreProposals
  <2> HIDE DEF S, T
  <2>4. Lives' = T
    BY <1>6, <2>1, <2>2, <2>3, SeqEqual
  <2>5. QED
    BY <2>4 DEF T
<1>8. Life!Propose
  BY <1>4, <1>6, <1>7 DEF Life!Propose, Lives
<1>9. QED
  BY <1>8 DEF Life!LifeNext

(* A handler that rewrites one proposal leaves the other lives alone. *)
LEMMA OneLifeRewritten ==
  ASSUME TypeOK, TypeOK', NEW i \in Created, NEW q \in Proposal,
         proposals' = [proposals EXCEPT ![i] = q]
  PROVE  /\ Created' = Created /\ proposals'[i] = q
         /\ \A j \in Created : j # i => proposals'[j] = proposals[j]
         /\ Lives'[i] = LifeOf(q)
         /\ Lives' = [Lives EXCEPT ![i] = LifeOf(q)]
<1>1. /\ Len(proposals') = Len(proposals) /\ proposals'[i] = q
      /\ \A j \in Created : j # i => proposals'[j] = proposals[j]
  BY DEF TypeOK, Created
<1>2. Created' = Created
  BY <1>1, LivesAreProposals
<1>3. Lives' = [j \in Created |-> LifeOf(proposals'[j])]
  BY <1>2 DEF Lives
<1>4. [Lives EXCEPT ![i] = LifeOf(q)] =
        [j \in Created |-> IF j = i THEN LifeOf(q) ELSE LifeOf(proposals[j])]
  BY DEF Lives
<1>5. QED
  BY <1>1, <1>2, <1>3, <1>4

(* cast_vote adds to one tally; the status it writes keeps the proposal open *)
(* or closes it.                                                             *)
LEMMA CastStep ==
  ASSUME TypeOK, TypeOK', NEW i \in Created, NEW vote \in Vote,
         NEW later \in {0, 1}, CastVote(i, vote, later)
  PROVE  Life!LifeNext
<1> DEFINE o == proposals[i]
           p == Tallied(o, vote.support, vote.power)
           s == StatusAt(p, clock + later)
           q == [p EXCEPT !.status = s]
<1>1. o \in Proposal /\ o.status = "Active"
  BY LivesAreProposals DEF CastVote, Votable
<1>2. p \in Proposal /\ p.status = "Active"
  BY <1>1, TalliedTyped
<1>3. s \in {"Active", "Defeated", "Timelocked", "Executable"}
  BY <1>2, StatusAtLawful DEF TypeOK
<1>4. proposals' = [proposals EXCEPT ![i] = q]
  BY DEF CastVote
<1>5. o.for <= p.for /\ o.against <= p.against
      /\ o.total - o.for - o.against <= p.total - p.for - p.against
  <2>1. vote.power \in Nat
    BY GovernanceAssumption DEF Vote
  <2>2. o.for \in Nat /\ o.against \in Nat /\ o.total \in Nat
    BY <1>1 DEF Proposal
  <2>3. CASE vote.support
    BY <1>1, <2>1, <2>2, <2>3 DEF Tallied, Proposal
  <2>4. CASE ~vote.support
    BY <1>1, <2>1, <2>2, <2>4 DEF Tallied, Proposal
  <2>5. QED
    BY <2>3, <2>4
<1> HIDE DEF p, s
<1>6. q \in Proposal /\ q.status = s
      /\ q.for = p.for /\ q.against = p.against /\ q.total = p.total
  BY <1>2, <1>3 DEF Proposal, Statuses
<1> HIDE DEF q, o
<1>7. /\ LifeOf(o).phase = "open" /\ LifeOf(q).phase \in {"open", "closed"}
      /\ Life!Grows(LifeOf(o).tally, LifeOf(q).tally)
  BY <1>1, <1>3, <1>5, <1>6, LifeFields DEF PhaseOf, Life!Grows
<1>8. /\ i \in DOMAIN Lives /\ Lives[i] = LifeOf(o) /\ Lives'[i] = LifeOf(q)
      /\ Lives' = [Lives EXCEPT ![i] = Lives'[i]]
  BY <1>4, <1>6, LivesAreProposals, OneLifeRewritten DEF o
<1>9. Life!Cast(i)
  BY <1>7, <1>8 DEF Life!Cast, Lives
<1>10. QED
  BY <1>8, <1>9 DEF Life!LifeNext, Lives

(* execute_proposal executes a closed proposal that its tally carries, or    *)
(* drops one that is late.                                                   *)
LEMMA ExecuteStep ==
  ASSUME TypeOK, TypeOK', AllLawful, NEW i \in Created, Execute(i)
  PROVE  Life!LifeNext
<1> DEFINE p == proposals[i]
           late == [p EXCEPT !.status = "Expired"]
           done == [p EXCEPT !.status = "Executed", !.executedAt = clock]
<1>1. p \in Proposal /\ p.status = "Executable" /\ Passed(p)
  BY LivesAreProposals DEF Execute, AllLawful, Lawful
<1>2. CASE clock > Deadline(p)
  <2>1. late \in Proposal /\ late.status = "Expired"
        /\ late.for = p.for /\ late.against = p.against /\ late.total = p.total
    BY <1>1 DEF Proposal, Statuses
  <2>2. proposals' = [proposals EXCEPT ![i] = late]
    BY <1>2 DEF Execute
  <2> HIDE DEF late
  <2>3. LifeOf(late).tally = LifeOf(p).tally
    BY <2>1 DEF LifeOf
  <2>4. PhaseOf(late.status) \in Life!Successor(PhaseOf(p.status))
    BY <1>1, <2>1 DEF PhaseOf, Life!Successor
  <2>5. \A j \in Created :
          /\ LifeOf(proposals'[j]).tally = LifeOf(proposals[j]).tally
          /\ PhaseOf(proposals'[j].status)
               \in Life!Successor(PhaseOf(proposals[j].status))
    BY <2>1, <2>2, <2>3, <2>4, OneLifeRewritten, LivesAreProposals
       DEF PhaseOf, Life!Successor
  <2>6. Created' = Created
    BY <2>1, <2>2, OneLifeRewritten
  <2>7. QED
    BY <2>5, <2>6, WindStep
<1>3. CASE ~(clock > Deadline(p))
  <2>1. done \in Proposal /\ done.status = "Executed"
        /\ done.for = p.for /\ done.against = p.against /\ done.total = p.total
    BY <1>1 DEF Proposal, Statuses, TypeOK
  <2>2. proposals' = [proposals EXCEPT ![i] = done]
    BY <1>3 DEF Execute
  <2> HIDE DEF done
  <2>3. LifeOf(done) = [LifeOf(p) EXCEPT !.phase = "executed"]
    BY <2>1 DEF LifeOf, PhaseOf
  <2>4. /\ i \in DOMAIN Lives /\ Lives[i] = LifeOf(p)
        /\ Lives' = [Lives EXCEPT ![i] = LifeOf(done)]
    BY <2>1, <2>2, LivesAreProposals, OneLifeRewritten
  <2>5. Lives[i].phase = "closed" /\ Carrying(Lives[i].tally)
    BY <1>1, <2>4, PassedCarries DEF LifeOf, PhaseOf
  <2>6. Lives' = [Lives EXCEPT ![i].phase = "executed"]
    BY <2>3, <2>4
  <2>7. Life!Execute(i)
    BY <2>5, <2>6 DEF Life!Execute, Lives
  <2>8. QED
    BY <2>4, <2>7 DEF Life!LifeNext, Lives
<1>4. QED
  BY <1>2, <1>3

(* A cancellation and the two queue runs move statuses forward only. *)
LEMMA CancelStep ==
  ASSUME TypeOK, TypeOK', NEW i \in Created, NEW v \in Voters, Cancel(i, v)
  PROVE  Life!LifeNext
<1> DEFINE p == proposals[i]
           q == [p EXCEPT !.status = "Cancelled"]
<1>1. p \in Proposal /\ p.status = "Active"
  BY LivesAreProposals DEF Cancel
<1>2. q \in Proposal /\ q.status = "Cancelled"
      /\ q.for = p.for /\ q.against = p.against /\ q.total = p.total
  BY <1>1 DEF Proposal, Statuses
<1>3. proposals' = [proposals EXCEPT ![i] = q]
  BY DEF Cancel
<1> HIDE DEF q
<1>4. LifeOf(q).tally = LifeOf(p).tally
  BY <1>2 DEF LifeOf
<1>5. \A j \in Created :
        /\ LifeOf(proposals'[j]).tally = LifeOf(proposals[j]).tally
        /\ PhaseOf(proposals'[j].status)
             \in Life!Successor(PhaseOf(proposals[j].status))
  BY <1>1, <1>2, <1>3, <1>4, OneLifeRewritten, LivesAreProposals
     DEF PhaseOf, Life!Successor
<1>6. Created' = Created
  BY <1>2, <1>3, OneLifeRewritten
<1>7. QED
  BY <1>5, <1>6, WindStep

LEMMA TimelockQueueStep ==
  ASSUME TypeOK, TypeOK', NEW now, ProcessTimelockQueue(now)
  PROVE  Life!LifeNext
<1>1. proposals' = [i \in Created |-> Unlocked(proposals[i], now)]
  BY DEF ProcessTimelockQueue
<1>2. Created' = Created
  BY <1>1 DEF Created
<1>3. ASSUME NEW i \in Created
      PROVE  /\ LifeOf(proposals'[i]).tally = LifeOf(proposals[i]).tally
             /\ PhaseOf(proposals'[i].status)
                  \in Life!Successor(PhaseOf(proposals[i].status))
  <2> DEFINE p == proposals[i]
             q == [p EXCEPT !.status = "Executable"]
  <2>1. p \in Proposal /\ proposals'[i] = Unlocked(p, now)
    BY <1>1, LivesAreProposals
  <2>2. CASE p.status = "Timelocked" /\ now >= ReadyAt(p)
    <3>1. proposals'[i] = q
      BY <2>1, <2>2 DEF Unlocked
    <3>2. q.status = "Executable"
          /\ q.for = p.for /\ q.against = p.against /\ q.total = p.total
      BY <2>1 DEF Proposal
    <3>3. QED
      BY <2>2, <3>1, <3>2 DEF LifeOf, PhaseOf, Life!Successor
  <2>3. CASE ~(p.status = "Timelocked" /\ now >= ReadyAt(p))
    BY <2>1, <2>3 DEF Unlocked, PhaseOf, Life!Successor
  <2>4. QED
    BY <2>2, <2>3
<1>4. QED
  BY <1>2, <1>3, WindStep

LEMMA ExecutionQueueStep ==
  ASSUME TypeOK, TypeOK', NEW now, ProcessExecutionQueue(now)
  PROVE  Life!LifeNext
<1>1. proposals' = [i \in Created |-> Lapsed(proposals[i], now)]
  BY DEF ProcessExecutionQueue
<1>2. Created' = Created
  BY <1>1 DEF Created
<1>3. ASSUME NEW i \in Created
      PROVE  /\ LifeOf(proposals'[i]).tally = LifeOf(proposals[i]).tally
             /\ PhaseOf(proposals'[i].status)
                  \in Life!Successor(PhaseOf(proposals[i].status))
  <2> DEFINE p == proposals[i]
             q == [p EXCEPT !.status = "Expired"]
  <2>1. p \in Proposal /\ proposals'[i] = Lapsed(p, now)
    BY <1>1, LivesAreProposals
  <2>2. CASE p.status = "Executable" /\ now > Deadline(p)
    <3>1. proposals'[i] = q
      BY <2>1, <2>2 DEF Lapsed
    <3>2. q.status = "Expired"
          /\ q.for = p.for /\ q.against = p.against /\ q.total = p.total
      BY <2>1 DEF Proposal
    <3>3. QED
      BY <2>2, <3>1, <3>2 DEF LifeOf, PhaseOf, Life!Successor
  <2>3. CASE ~(p.status = "Executable" /\ now > Deadline(p))
    BY <2>1, <2>3 DEF Lapsed, PhaseOf, Life!Successor
  <2>4. QED
    BY <2>2, <2>3
<1>4. QED
  BY <1>2, <1>3, WindStep

(* Every history of the executor is one of ProposalLife: no proposal is      *)
(* executed twice, before its voting has closed or on a tally that does not  *)
(* carry it, and no tally changes after closing, for any voters, thresholds  *)
(* and delays and any age of the clock readings.                             *)
THEOREM ExecutorRefinesLife == Spec => ExecutorKeepsPromise
<1>1. Init => Life!LifeInit
  <2> SUFFICES ASSUME Init PROVE Life!LifeInit
    OBVIOUS
  <2>1. Created = {}
    BY DEF Init, Created
  <2>2. [i \in Created |-> LifeOf(proposals[i])] = <<>>
    BY <2>1
  <2>3. QED
    BY <2>2 DEF Life!LifeInit
<1>2. Init => AllLawful
  BY DEF Init, AllLawful, Created
<1>3. TypeOK /\ TypeOK' /\ AllLawful /\ [Next]_vars => AllLawful'
  BY AllLawfulStep
<1>4. TypeOK /\ TypeOK' /\ AllLawful /\ [Next]_vars => [Life!LifeNext]_Lives
  <2> SUFFICES ASSUME TypeOK, TypeOK', AllLawful, [Next]_vars
               PROVE  Life!LifeNext \/ Lives' = Lives
    OBVIOUS
  <2>1. ASSUME NEW type \in Types, NEW v \in Voters, NEW power \in Powers,
               NEW now \in 0..clock, Create(type, v, power, now)
        PROVE  Life!LifeNext
    BY <2>1, CreateStep
  <2>2. ASSUME NEW i \in Created, NEW vote \in Vote, NEW later \in {0, 1},
               CastVote(i, vote, later)
        PROVE  Life!LifeNext
    BY <2>2, CastStep
  <2>3. ASSUME NEW i \in Created, Execute(i) PROVE Life!LifeNext
    BY <2>3, ExecuteStep
  <2>4. ASSUME NEW i \in Created, NEW v \in Voters, Cancel(i, v)
        PROVE  Life!LifeNext
    BY <2>4, CancelStep
  <2>5. ASSUME NEW now \in 0..clock,
               ProcessTimelockQueue(now) \/ ProcessExecutionQueue(now)
        PROVE  Life!LifeNext
    BY <2>5, TimelockQueueStep, ExecutionQueueStep
  <2>6. CASE \/ InsertVoteMap \/ Tick \/ UNCHANGED vars
             \/ \E flag \in BOOLEAN : SetPaused(flag)
    <3>1. proposals' = proposals
      BY <2>6 DEF InsertVoteMap, Tick, SetPaused, vars
    <3>2. QED
      BY <3>1 DEF Lives, Created
  <2>7. QED
    BY <2>1, <2>2, <2>3, <2>4, <2>5, <2>6 DEF Next
<1>5. QED
  BY <1>1, <1>2, <1>3, <1>4, TypeCorrect, PTL
     DEF Spec, ExecutorKeepsPromise, Life!LifeSpec, Lives

-----------------------------------------------------------------------------
(* The on-chain governor.                                                    *)

(* A set of positions has a last one: the number after which none is left is *)
(* the least of those with this property.                                    *)
LEMMA LastOfPositions ==
  ASSUME NEW n \in Nat, NEW S \in SUBSET (1..n), S # {}
  PROVE  \E k \in S : \A j \in S : k >= j
<1> DEFINE R == {ss \in Nat \X Nat : ss[1] < ss[2]}
           T == {n - j : j \in S}
<1>1. IsWellFoundedOn(R, Nat)
  BY NatLessThanWellFounded DEF OpToRel
<1>2. T \subseteq Nat /\ T # {}
  <2>1. \A j \in S : n - j \in Nat
    OBVIOUS
  <2>2. PICK j \in S : TRUE
    OBVIOUS
  <2>3. n - j \in T
    BY <2>2
  <2>4. QED
    BY <2>1, <2>3
<1>3. PICK t \in T : \A u \in T : ~(<<u, t>> \in R)
  <2> HIDE DEF R, T
  <2>1. QED
    BY <1>1, <1>2, WFMin
<1>4. PICK k \in S : t = n - k
  OBVIOUS
<1>5. \A j \in S : n - j \in T /\ n - j \in Nat
  OBVIOUS
<1>6. \A j \in S : ~(n - j < n - k)
  BY <1>2, <1>3, <1>4, <1>5
<1>7. QED
  BY <1>6

-----------------------------------------------------------------------------
(* The type invariant of the governor.                                       *)
LEMMA GovernorConstants ==
  /\ Weights \subseteq Nat
  /\ QUORUM_THRESHOLD \in Nat /\ QUORUM_THRESHOLD > 0
  /\ VOTING_DELAY \in Nat
  /\ VOTING_PERIOD \in Nat /\ VOTING_PERIOD > 0
  /\ TIMELOCK_DELAY \in Nat /\ TIMELOCK_DELAY > 0
  /\ Genesis \in Nat /\ MaxHeight \in Nat /\ Genesis > MaxHeight /\ MaxHeight > 0
BY GovernorAssumption

LEMMA GovernorTypes ==
  ASSUME GovernorTypeOK
  PROVE  /\ height \in 0..MaxHeight /\ height \in Nat
         /\ Now \in Nat /\ Now > 0
         /\ votingPower \in [Accounts -> Nat]
         /\ checkpoints \in [Accounts -> Seq(Checkpoint)]
         /\ ballots \in Seq(Ballot)
         /\ DOMAIN ballots = 1..Len(ballots) /\ Len(ballots) \in Nat
         /\ \A i \in DOMAIN ballots : ballots[i] \in Ballot
         /\ receipts \in [1..MaxBallots -> [Accounts -> Receipt]]
<1>1. /\ height \in 0..MaxHeight
      /\ votingPower \in [Accounts -> Nat]
      /\ checkpoints \in [Accounts -> Seq(Checkpoint)]
      /\ ballots \in Seq(Ballot)
      /\ receipts \in [1..MaxBallots -> [Accounts -> Receipt]]
  BY DEF GovernorTypeOK
<1>2. height \in Nat /\ Now \in Nat /\ Now > 0
  BY <1>1, GovernorConstants DEF Now
<1>3. QED
  BY <1>1, <1>2

(* getVotingPower answers a number. *)
LEMMA PowerTyped ==
  ASSUME GovernorTypeOK, NEW a \in Accounts, NEW b \in Nat
  PROVE  PowerAt(a, b) \in Nat
<1> DEFINE older == {k \in DOMAIN checkpoints[a] : checkpoints[a][k].block <= b}
<1>1. checkpoints[a] \in Seq(Checkpoint)
  BY GovernorTypes
<1>2. CASE older = {}
  BY <1>2 DEF PowerAt
<1>3. CASE older # {}
  <2>1. Len(checkpoints[a]) \in Nat /\ older \in SUBSET (1..Len(checkpoints[a]))
    BY <1>1
  <2>2. \E k \in older : \A j \in older : k >= j
    <3> HIDE DEF older
    <3>1. QED
      BY <1>3, <2>1, LastOfPositions
  <2>3. Max(older) \in older
    <3> HIDE DEF older
    <3>1. QED
      BY <2>2 DEF Max
  <2>4. checkpoints[a][Max(older)] \in Checkpoint
    <3> HIDE DEF older
    <3>1. Max(older) \in 1..Len(checkpoints[a])
      BY <2>1, <2>3
    <3>2. QED
      BY <1>1, <3>1
  <2>5. checkpoints[a][Max(older)].power \in Nat
    BY <2>4, GovernorConstants DEF Checkpoint
  <2>6. PowerAt(a, b) = checkpoints[a][Max(older)].power
    BY <1>3 DEF PowerAt
  <2>7. QED
    BY <2>5, <2>6
<1>4. QED
  BY <1>2, <1>3

(* A vote adds its weight to one of the three tallies. *)
LEMMA CountedTyped ==
  ASSUME NEW b \in Ballot, NEW support \in {For, Against, Abstain},
         NEW weight \in Nat
  PROVE  LET c == Counted(b, support, weight)
         IN /\ c \in Ballot
            /\ c.voteStart = b.voteStart /\ c.voteEnd = b.voteEnd
            /\ c.executedAt = b.executedAt /\ c.canceled = b.canceled
            /\ b.for <= c.for /\ b.against <= c.against /\ b.abstain <= c.abstain
<1> USE DEF Ballot
<1>1. CASE support = For
  BY <1>1 DEF Counted
<1>2. CASE support = Against
  BY <1>2 DEF Counted, For, Against
<1>3. CASE support = Abstain
  BY <1>3 DEF Counted, For, Against, Abstain
<1>4. QED
  BY <1>1, <1>2, <1>3

(* Every function of the contract keeps its storage well typed.              *)
THEOREM GovernorTypeCorrect == GovernorSpec => []GovernorTypeOK
<1>1. GovernorInit => GovernorTypeOK
  BY GovernorConstants DEF GovernorInit, GovernorTypeOK, NoReceipt, Receipt
<1>2. GovernorTypeOK /\ [GovernorNext]_governorVars => GovernorTypeOK'
  <2> SUFFICES ASSUME GovernorTypeOK, [GovernorNext]_governorVars
               PROVE  GovernorTypeOK'
    OBVIOUS
  <2>1. CASE MineBlock
    <3>1. height' \in 0..MaxHeight
      BY <2>1, GovernorTypes, GovernorConstants DEF MineBlock
    <3>2. QED
      BY <2>1, <3>1 DEF MineBlock, GovernorTypeOK
  <2>2. ASSUME NEW a \in Accounts, NEW p \in Weights, UpdateVotingPower(a, p)
        PROVE  GovernorTypeOK'
    <3>1. PICK cps \in Seq(Checkpoint) :
            checkpoints' = [checkpoints EXCEPT ![a] = cps]
      <4> DEFINE old == checkpoints[a]
                 cp == [block |-> height, power |-> p]
      <4>1. old \in Seq(Checkpoint) /\ cp \in Checkpoint
        BY GovernorTypes DEF Checkpoint
      <4>2. [old EXCEPT ![Len(old)] = cp] \in Seq(Checkpoint)
            /\ Append(old, cp) \in Seq(Checkpoint)
        <5> HIDE DEF old, cp
        <5>1. [old EXCEPT ![Len(old)] = cp] \in Seq(Checkpoint)
          <6>1. old \in [1..Len(old) -> Checkpoint] /\ Len(old) \in Nat
            BY <4>1, LenProperties
          <6>2. [old EXCEPT ![Len(old)] = cp] \in [1..Len(old) -> Checkpoint]
            BY <4>1, <6>1
          <6>3. QED
            BY <6>1, <6>2
        <5>2. Append(old, cp) \in Seq(Checkpoint)
          BY <4>1, AppendProperties
        <5>3. QED
          BY <4>1, <5>1, <5>2
      <4>3. QED
        BY <2>2, <4>1, <4>2 DEF UpdateVotingPower, SetPower
    <3>2. votingPower' = [votingPower EXCEPT ![a] = p] /\ p \in Nat
          /\ UNCHANGED <<height, ballots, receipts>>
      BY <2>2, GovernorConstants DEF UpdateVotingPower, SetPower
    <3>3. votingPower' \in [Accounts -> Nat] /\ checkpoints' \in [Accounts -> Seq(Checkpoint)]
      BY <3>1, <3>2, GovernorTypes
    <3>4. QED
      BY <3>2, <3>3 DEF GovernorTypeOK
  <2>3. ASSUME NEW a \in Accounts, ProposeOnChain(a)
        PROVE  GovernorTypeOK'
    <3>1. PICK b \in Ballot : ballots' = Append(ballots, b)
      <4>1. Now + VOTING_DELAY \in Nat /\ Now + VOTING_DELAY + VOTING_PERIOD \in Nat
        BY GovernorTypes, GovernorConstants
      <4>2. QED
        BY <2>3, <4>1 DEF ProposeOnChain, Ballot
    <3>2. ballots' \in Seq(Ballot)
      BY <3>1, GovernorTypes
    <3>3. QED
      BY <2>3, <3>2 DEF ProposeOnChain, GovernorTypeOK
  <2>4. ASSUME NEW i \in DOMAIN ballots, NEW a \in Accounts,
               NEW s \in {For, Against, Abstain}, CastVoteOnChain(i, a, s)
        PROVE  GovernorTypeOK'
    <3> DEFINE w == PowerAt(a, ballots[i].voteStart)
    <3>1. ballots[i] \in Ballot /\ w \in Nat
      <4>1. ballots[i] \in Ballot /\ ballots[i].voteStart \in Nat
        BY GovernorTypes DEF Ballot
      <4>2. QED
        BY <4>1, PowerTyped
    <3> HIDE DEF w
    <3>2. Counted(ballots[i], s, w) \in Ballot
      BY <3>1, CountedTyped
    <3>3. /\ ballots' = [ballots EXCEPT ![i] = Counted(ballots[i], s, w)]
          /\ receipts' = [receipts EXCEPT ![i][a] = [support |-> s, weight |-> w]]
          /\ UNCHANGED <<height, votingPower, checkpoints>>
      BY <2>4 DEF CastVoteOnChain, w
    <3>4. ballots' \in Seq(Ballot)
      BY <3>2, <3>3, GovernorTypes
    <3>5. receipts' \in [1..MaxBallots -> [Accounts -> Receipt]]
      BY <3>1, <3>3, GovernorTypes DEF Receipt
    <3>6. QED
      BY <3>3, <3>4, <3>5 DEF GovernorTypeOK
  <2>5. ASSUME NEW i \in DOMAIN ballots, ExecuteOnChain(i) \/ CancelOnChain(i)
        PROVE  GovernorTypeOK'
    <3>1. ballots[i] \in Ballot /\ Now \in Nat
      BY GovernorTypes
    <3>2. PICK b \in Ballot : ballots' = [ballots EXCEPT ![i] = b]
      BY <2>5, <3>1 DEF ExecuteOnChain, CancelOnChain, Ballot
    <3>3. ballots' \in Seq(Ballot)
      BY <3>2, GovernorTypes
    <3>4. QED
      BY <2>5, <3>3 DEF ExecuteOnChain, CancelOnChain, GovernorTypeOK
  <2>6. CASE UNCHANGED governorVars
    BY <2>6 DEF governorVars, GovernorTypeOK
  <2>7. QED
    BY <2>1, <2>2, <2>3, <2>4, <2>5, <2>6 DEF GovernorNext
<1>3. QED
  BY <1>1, <1>2, PTL DEF GovernorSpec

-----------------------------------------------------------------------------
(* Voting ends after it starts, and nothing is executed before it has ended. *)
BallotSettled(b) ==
  /\ b.voteStart < b.voteEnd
  /\ Executed(b) => b.voteEnd <= Now

GovernorInv == GovernorTypeOK /\ \A i \in DOMAIN ballots : BallotSettled(ballots[i])

(* What a step does to the ballots. *)
LEMMA OneBallotRewritten ==
  ASSUME GovernorTypeOK, NEW i \in DOMAIN ballots, NEW b,
         ballots' = [ballots EXCEPT ![i] = b]
  PROVE  /\ DOMAIN ballots' = DOMAIN ballots /\ ballots'[i] = b
         /\ \A j \in DOMAIN ballots : j # i => ballots'[j] = ballots[j]
OBVIOUS

LEMMA BallotAppended ==
  ASSUME GovernorTypeOK, NEW b \in Ballot, ballots' = Append(ballots, b)
  PROVE  /\ DOMAIN ballots' = 1..(Len(ballots) + 1)
         /\ Len(ballots') = Len(ballots) + 1
         /\ ballots'[Len(ballots) + 1] = b
         /\ \A j \in DOMAIN ballots : ballots'[j] = ballots[j]
BY GovernorTypes

LEMMA NewBallot ==
  ASSUME GovernorTypeOK, NEW a \in Accounts, ProposeOnChain(a)
  PROVE  \E b \in Ballot :
           /\ ballots' = Append(ballots, b) /\ height' = height
           /\ b.voteStart = Now + VOTING_DELAY
           /\ b.voteEnd = Now + VOTING_DELAY + VOTING_PERIOD
           /\ b.for = 0 /\ b.against = 0
           /\ b.executedAt = 0 /\ b.canceled = FALSE
<1>1. Now + VOTING_DELAY \in Nat /\ Now + VOTING_DELAY + VOTING_PERIOD \in Nat
  BY GovernorTypes, GovernorConstants
<1> DEFINE b == [proposer |-> a, voteStart |-> Now + VOTING_DELAY,
                 voteEnd |-> Now + VOTING_DELAY + VOTING_PERIOD,
                 for |-> 0, against |-> 0, abstain |-> 0,
                 executedAt |-> 0, canceled |-> FALSE]
<1>2. b \in Ballot
  BY <1>1 DEF Ballot
<1>3. ballots' = Append(ballots, b) /\ height' = height
  BY DEF ProposeOnChain
<1>4. QED
  BY <1>2, <1>3

LEMMA VotedBallot ==
  ASSUME GovernorTypeOK, NEW i \in DOMAIN ballots, NEW a \in Accounts,
         NEW s \in {For, Against, Abstain}, CastVoteOnChain(i, a, s)
  PROVE  \E b \in Ballot :
           /\ ballots' = [ballots EXCEPT ![i] = b] /\ height' = height
           /\ ballots[i].voteStart <= Now /\ Now < ballots[i].voteEnd
           /\ b.voteStart = ballots[i].voteStart /\ b.voteEnd = ballots[i].voteEnd
           /\ b.executedAt = ballots[i].executedAt
           /\ b.canceled = ballots[i].canceled
           /\ ballots[i].for <= b.for /\ ballots[i].against <= b.against
           /\ ballots[i].abstain <= b.abstain
<1> DEFINE w == PowerAt(a, ballots[i].voteStart)
<1>1. ballots[i] \in Ballot /\ ballots[i].voteStart \in Nat
  BY GovernorTypes DEF Ballot
<1>2. w \in Nat
  BY <1>1, PowerTyped
<1>3. ballots' = [ballots EXCEPT ![i] = Counted(ballots[i], s, w)] /\ height' = height
  BY DEF CastVoteOnChain
<1>4. ballots[i].voteStart <= Now /\ Now < ballots[i].voteEnd
  BY DEF CastVoteOnChain, DuringVoting
<1> HIDE DEF w
<1>5. QED
  BY <1>1, <1>2, <1>3, <1>4, CountedTyped

LEMMA ExecutedBallot ==
  ASSUME GovernorTypeOK, NEW i \in DOMAIN ballots, ExecuteOnChain(i)
  PROVE  LET b == [ballots[i] EXCEPT !.executedAt = Now]
         IN /\ b \in Ballot /\ Executed(b) /\ MayExecute(ballots[i])
            /\ ballots' = [ballots EXCEPT ![i] = b] /\ height' = height
<1>1. ballots[i] \in Ballot /\ Now \in Nat /\ Now # 0
  BY GovernorTypes
<1>2. /\ [ballots[i] EXCEPT !.executedAt = Now] \in Ballot
      /\ [ballots[i] EXCEPT !.executedAt = Now].executedAt = Now
  BY <1>1 DEF Ballot
<1>3. QED
  BY <1>1, <1>2 DEF ExecuteOnChain, Executed

LEMMA CancelledBallot ==
  ASSUME GovernorTypeOK, NEW i \in DOMAIN ballots, CancelOnChain(i)
  PROVE  LET b == [ballots[i] EXCEPT !.canceled = TRUE]
         IN /\ b \in Ballot /\ ~Executed(ballots[i]) /\ ~ballots[i].canceled
            /\ ballots' = [ballots EXCEPT ![i] = b] /\ height' = height
BY GovernorTypes DEF CancelOnChain, Ballot

LEMMA GovernorInvHolds == GovernorSpec => []GovernorInv
<1>1. GovernorInit => \A i \in DOMAIN ballots : BallotSettled(ballots[i])
  BY DEF GovernorInit
<1>2. GovernorTypeOK' /\ GovernorInv /\ [GovernorNext]_governorVars => GovernorInv'
  <2> SUFFICES ASSUME GovernorTypeOK', GovernorTypeOK, GovernorInv,
                      [GovernorNext]_governorVars
               PROVE  \A i \in DOMAIN ballots' : BallotSettled(ballots[i])'
    BY DEF GovernorInv
  <2>0. /\ \A i \in DOMAIN ballots : ballots[i] \in Ballot /\ BallotSettled(ballots[i])
        /\ Now \in Nat /\ Now > 0
    BY GovernorTypes DEF GovernorInv
  <2>1. CASE MineBlock
    <3>1. ballots' = ballots /\ Now' = Now + 1
      BY <2>1, GovernorTypes, GovernorConstants DEF MineBlock, Now
    <3>2. QED
      BY <3>1, <2>0 DEF BallotSettled, Executed, Ballot
  <2>2. ASSUME NEW a \in Accounts, ProposeOnChain(a)
        PROVE  \A i \in DOMAIN ballots' : BallotSettled(ballots[i])'
    <3>1. PICK b \in Ballot :
            /\ ballots' = Append(ballots, b) /\ height' = height
            /\ b.voteStart = Now + VOTING_DELAY
            /\ b.voteEnd = Now + VOTING_DELAY + VOTING_PERIOD
            /\ b.executedAt = 0
      BY <2>2, NewBallot
    <3>2. b.voteStart < b.voteEnd /\ ~Executed(b)
      BY <3>1, <2>0, GovernorConstants DEF Executed
    <3>3. Now' = Now
      BY <3>1 DEF Now
    <3>4. \A i \in DOMAIN ballots' :
            \/ ballots'[i] = b
            \/ i \in DOMAIN ballots /\ ballots'[i] = ballots[i]
      BY <3>1, BallotAppended, GovernorTypes
    <3>5. QED
      BY <3>2, <3>3, <3>4, <2>0 DEF BallotSettled
  <2>3. ASSUME NEW i \in DOMAIN ballots, NEW b, ballots' = [ballots EXCEPT ![i] = b],
               height' = height, b.voteStart = ballots[i].voteStart,
               b.voteEnd = ballots[i].voteEnd,
               Executed(b) => Executed(ballots[i]) \/ ballots[i].voteEnd <= Now
        PROVE  \A j \in DOMAIN ballots' : BallotSettled(ballots[j])'
    <3>1. Now' = Now
      BY <2>3 DEF Now
    <3>2. DOMAIN ballots' = DOMAIN ballots /\ ballots'[i] = b
          /\ \A j \in DOMAIN ballots : j # i => ballots'[j] = ballots[j]
      BY <2>3, OneBallotRewritten
    <3>3. QED
      BY <2>0, <2>3, <3>1, <3>2 DEF BallotSettled
  <2>4. ASSUME NEW i \in DOMAIN ballots, NEW a \in Accounts,
               NEW s \in {For, Against, Abstain}, CastVoteOnChain(i, a, s)
        PROVE  \A j \in DOMAIN ballots' : BallotSettled(ballots[j])'
    <3>1. PICK b : /\ ballots' = [ballots EXCEPT ![i] = b] /\ height' = height
                   /\ b.voteStart = ballots[i].voteStart
                   /\ b.voteEnd = ballots[i].voteEnd
                   /\ b.executedAt = ballots[i].executedAt
      BY <2>4, VotedBallot
    <3>2. QED
      BY <2>3, <3>1 DEF Executed
  <2>5. ASSUME NEW i \in DOMAIN ballots, ExecuteOnChain(i)
        PROVE  \A j \in DOMAIN ballots' : BallotSettled(ballots[j])'
    <3> DEFINE b == [ballots[i] EXCEPT !.executedAt = Now]
    <3>1. ballots' = [ballots EXCEPT ![i] = b] /\ height' = height
          /\ ballots[i].voteEnd <= Now
      BY <2>5, ExecutedBallot DEF MayExecute
    <3>2. b.voteStart = ballots[i].voteStart /\ b.voteEnd = ballots[i].voteEnd
      BY <2>0 DEF Ballot
    <3> HIDE DEF b
    <3>3. QED
      BY <2>3, <3>1, <3>2
  <2>6. ASSUME NEW i \in DOMAIN ballots, CancelOnChain(i)
        PROVE  \A j \in DOMAIN ballots' : BallotSettled(ballots[j])'
    <3> DEFINE b == [ballots[i] EXCEPT !.canceled = TRUE]
    <3>1. ballots' = [ballots EXCEPT ![i] = b] /\ height' = height
      BY <2>6, CancelledBallot
    <3>2. b.voteStart = ballots[i].voteStart /\ b.voteEnd = ballots[i].voteEnd
          /\ b.executedAt = ballots[i].executedAt
      BY <2>0 DEF Ballot
    <3> HIDE DEF b
    <3>3. QED
      BY <2>3, <3>1, <3>2 DEF Executed
  <2>7. CASE UNCHANGED governorVars \/ \E a \in Accounts, p \in Weights : UpdateVotingPower(a, p)
    <3>1. ballots' = ballots /\ Now' = Now
      BY <2>7 DEF governorVars, UpdateVotingPower, SetPower, Now
    <3>2. QED
      BY <3>1, <2>0 DEF BallotSettled
  <2>8. QED
    BY <2>1, <2>2, <2>4, <2>5, <2>6, <2>7 DEF GovernorNext
<1>3. GovernorTypeOK /\ (\A i \in DOMAIN ballots : BallotSettled(ballots[i])) => GovernorInv
  BY DEF GovernorInv
<1>4. QED
  BY <1>1, <1>2, <1>3, GovernorTypeCorrect, PTL DEF GovernorSpec

-----------------------------------------------------------------------------
(* The reported state. *)
LEMMA StateUnfolded ==
  ASSUME NEW i \in DOMAIN ballots
  PROVE  StateOf(i) =
           IF ballots[i].canceled THEN "Canceled"
           ELSE IF Executed(ballots[i]) THEN "Executed"
           ELSE IF Now < ballots[i].voteStart THEN "Pending"
           ELSE IF Now <= ballots[i].voteEnd THEN "Active"
           ELSE IF ~QuorumMet(ballots[i]) THEN "Defeated"
           ELSE IF ballots[i].for + ballots[i].against = 0 THEN "Reverted"
           ELSE IF ~Approved(ballots[i]) THEN "Defeated"
           ELSE IF Now >= ballots[i].voteEnd + TIMELOCK_DELAY THEN "Queued"
           ELSE "Succeeded"
BY DEF StateOf

LEMMA LaterUnfolded ==
  /\ Later("Pending") = {"Pending", "Active", "Canceled"}
  /\ Later("Active") = {"Active", "Defeated", "Reverted", "Succeeded", "Queued",
                        "Canceled"}
  /\ Later("Succeeded") = {"Succeeded", "Queued", "Canceled"}
  /\ Later("Queued") = {"Queued", "Executed", "Canceled"}
  /\ Later("Defeated") = {"Defeated", "Canceled"}
  /\ Later("Reverted") = {"Reverted", "Canceled"}
  /\ Later("Executed") = {"Executed"} /\ Later("Canceled") = {"Canceled"}
BY DEF Later

(* state() reports Queued exactly when execute would succeed: a proposal     *)
(* that may be executed has some vote for or against, and the delay keeps    *)
(* it from being executed in the block in which its voting ends.             *)
LEMMA QueuedMayExecute ==
  ASSUME GovernorInv, NEW i \in DOMAIN ballots
  PROVE  (StateOf(i) = "Queued") <=> MayExecute(ballots[i])
<1> DEFINE b == ballots[i]
<1>1. /\ b \in Ballot /\ b.voteStart < b.voteEnd /\ Now \in Nat
      /\ b.voteStart \in Nat /\ b.voteEnd \in Nat /\ b.for \in Nat /\ b.against \in Nat
  BY GovernorTypes DEF GovernorInv, BallotSettled, Ballot
<1>2. Now >= b.voteEnd + TIMELOCK_DELAY => b.voteEnd < Now /\ b.voteStart < Now
  BY <1>1, GovernorConstants
<1>3. Approved(b) => b.for + b.against # 0
  BY <1>1 DEF Approved
<1>4. QED
  BY <1>1, <1>2, <1>3, StateUnfolded, GovernorConstants DEF MayExecute

(* state() and execute() spell out the same conditions separately: exactly   *)
(* the proposals reported as Queued pass all of execute()'s.                 *)
THEOREM QueuedIsExecutableHolds == GovernorSpec => []QueuedIsExecutable
<1>1. GovernorInv => QueuedIsExecutable
  BY QueuedMayExecute DEF QueuedIsExecutable
<1>2. QED
  BY <1>1, GovernorInvHolds, PTL

(* No settled proposal comes back to life: time, votes, cancellations and    *)
(* executions move the status state() reports forward only.                  *)
THEOREM StateMovesForwardHolds == GovernorSpec => StateMovesForward
<1> DEFINE Forward == \A i \in DOMAIN ballots : StateOf(i)' \in Later(StateOf(i))
<1>1. GovernorInv /\ GovernorInv' /\ [GovernorNext]_governorVars => [Forward]_governorVars
  <2> SUFFICES ASSUME GovernorInv, GovernorInv', [GovernorNext]_governorVars,
                      NEW i \in DOMAIN ballots
               PROVE  StateOf(i)' \in Later(StateOf(i))
    OBVIOUS
  <2>0. /\ GovernorTypeOK /\ Now \in Nat /\ ballots[i] \in Ballot
        /\ ballots[i].voteStart \in Nat /\ ballots[i].voteEnd \in Nat
        /\ ballots[i].voteStart < ballots[i].voteEnd
        /\ TIMELOCK_DELAY \in Nat
    BY GovernorTypes, GovernorConstants DEF GovernorInv, BallotSettled, Ballot
  <2>1. ASSUME i \in DOMAIN ballots'
        PROVE  StateOf(i)' =
           IF ballots'[i].canceled THEN "Canceled"
           ELSE IF Executed(ballots'[i]) THEN "Executed"
           ELSE IF Now' < ballots'[i].voteStart THEN "Pending"
           ELSE IF Now' <= ballots'[i].voteEnd THEN "Active"
           ELSE IF ~QuorumMet(ballots'[i]) THEN "Defeated"
           ELSE IF ballots'[i].for + ballots'[i].against = 0 THEN "Reverted"
           ELSE IF ~Approved(ballots'[i]) THEN "Defeated"
           ELSE IF Now' >= ballots'[i].voteEnd + TIMELOCK_DELAY THEN "Queued"
           ELSE "Succeeded"
    BY DEF StateOf
  <2>2. ASSUME i \in DOMAIN ballots', ballots'[i] = ballots[i],
               Now' = Now \/ Now' = Now + 1
        PROVE  StateOf(i)' \in Later(StateOf(i))
    BY <2>0, <2>1, <2>2, StateUnfolded, LaterUnfolded
  <2>3. ASSUME NEW j \in DOMAIN ballots, NEW b, ballots' = [ballots EXCEPT ![j] = b],
               j # i, height' = height
        PROVE  StateOf(i)' \in Later(StateOf(i))
    BY <2>0, <2>2, <2>3, OneBallotRewritten DEF Now
  <2>4. CASE MineBlock
    <3>1. ballots' = ballots /\ Now' = Now + 1
      BY <2>4, GovernorTypes, GovernorConstants, <2>0 DEF MineBlock, Now
    <3>2. QED
      BY <2>2, <3>1
  <2>5. ASSUME NEW a \in Accounts, ProposeOnChain(a)
        PROVE  StateOf(i)' \in Later(StateOf(i))
    <3>1. PICK b \in Ballot : ballots' = Append(ballots, b) /\ height' = height
      BY <2>0, <2>5, NewBallot
    <3>2. i \in DOMAIN ballots' /\ ballots'[i] = ballots[i] /\ Now' = Now
      BY <2>0, <3>1, BallotAppended, GovernorTypes DEF Now
    <3>3. QED
      BY <2>2, <3>2
  <2>6. ASSUME NEW j \in DOMAIN ballots, NEW a \in Accounts,
               NEW s \in {For, Against, Abstain}, CastVoteOnChain(j, a, s)
        PROVE  StateOf(i)' \in Later(StateOf(i))
    <3>1. PICK b \in Ballot :
            /\ ballots' = [ballots EXCEPT ![j] = b] /\ height' = height
            /\ ballots[j].voteStart <= Now /\ Now < ballots[j].voteEnd
            /\ b.voteStart = ballots[j].voteStart /\ b.voteEnd = ballots[j].voteEnd
            /\ b.executedAt = ballots[j].executedAt
            /\ b.canceled = ballots[j].canceled
      BY <2>0, <2>6, VotedBallot
    <3>2. CASE j = i
      <4>1. i \in DOMAIN ballots' /\ ballots'[i] = b /\ Now' = Now
        BY <2>0, <3>1, <3>2, OneBallotRewritten DEF Now
      <4>2. QED
        BY <2>0, <2>1, <3>1, <3>2, <4>1, StateUnfolded, LaterUnfolded DEF Executed
    <3>3. QED
      BY <2>3, <3>1, <3>2
  <2>7. ASSUME NEW j \in DOMAIN ballots, ExecuteOnChain(j)
        PROVE  StateOf(i)' \in Later(StateOf(i))
    <3> DEFINE b == [ballots[j] EXCEPT !.executedAt = Now]
    <3>1. /\ b \in Ballot /\ Executed(b) /\ MayExecute(ballots[j])
          /\ ballots' = [ballots EXCEPT ![j] = b] /\ height' = height
      BY <2>0, <2>7, ExecutedBallot
    <3>2. CASE j = i
      <4>1. StateOf(i) = "Queued" /\ ~ballots[i].canceled
        BY <3>1, <3>2, QueuedMayExecute DEF MayExecute
      <4>2. b.canceled = ballots[i].canceled
        BY <2>0, <3>2 DEF Ballot
      <4> HIDE DEF b
      <4>3. i \in DOMAIN ballots' /\ ballots'[i] = b
        BY <2>0, <3>1, <3>2, OneBallotRewritten
      <4>4. QED
        BY <2>1, <3>1, <4>1, <4>2, <4>3, LaterUnfolded
    <3> HIDE DEF b
    <3>3. QED
      BY <2>3, <3>1, <3>2
  <2>8. ASSUME NEW j \in DOMAIN ballots, CancelOnChain(j)
        PROVE  StateOf(i)' \in Later(StateOf(i))
    <3> DEFINE b == [ballots[j] EXCEPT !.canceled = TRUE]
    <3>1. /\ b \in Ballot /\ ~Executed(ballots[j])
          /\ ballots' = [ballots EXCEPT ![j] = b] /\ height' = height
      BY <2>0, <2>8, CancelledBallot
    <3>2. CASE j = i
      <4>1. b.canceled
        BY <2>0, <3>2 DEF Ballot
      <4> HIDE DEF b
      <4>2. i \in DOMAIN ballots' /\ ballots'[i] = b
        BY <2>0, <3>1, <3>2, OneBallotRewritten
      <4>3. QED
        BY <2>1, <3>1, <3>2, <4>1, <4>2, StateUnfolded, LaterUnfolded
    <3> HIDE DEF b
    <3>3. QED
      BY <2>3, <3>1, <3>2
  <2>9. CASE UNCHANGED governorVars \/ \E a \in Accounts, p \in Weights : UpdateVotingPower(a, p)
    <3>1. ballots' = ballots /\ Now' = Now
      BY <2>9 DEF governorVars, UpdateVotingPower, SetPower, Now
    <3>2. QED
      BY <2>2, <3>1
  <2>10. QED
    BY <2>4, <2>5, <2>6, <2>7, <2>8, <2>9 DEF GovernorNext
<1>2. QED
  BY <1>1, GovernorInvHolds, PTL DEF GovernorSpec, StateMovesForward

-----------------------------------------------------------------------------
(* The governor implements ProposalLife: what ProposalLife sees of it.       *)
BallotLives == [i \in DOMAIN ballots |-> BallotLife(ballots[i])]

LEMMA BallotPhase ==
  ASSUME NEW b \in Ballot
  PROVE  /\ BallotLife(b).phase =
              IF Executed(b) THEN "executed"
              ELSE IF b.canceled THEN "dropped"
              ELSE IF Now < b.voteEnd THEN "open" ELSE "closed"
         /\ BallotLife(b).tally = [for |-> b.for, against |-> b.against, other |-> b.abstain]
BY DEF BallotLife, Ballot

(* execute's rounded percentage: half of the votes that are not abstentions. *)
LEMMA ApprovedIsMajority ==
  ASSUME NEW b \in Ballot, Approved(b)
  PROVE  b.for >= b.against /\ b.for > 0
<1> DEFINE cast == b.for + b.against
           percent == (b.for * 100) \div cast
<1>1. b.for \in Nat /\ b.against \in Nat /\ cast \in Nat /\ cast > 0 /\ percent >= 50
  BY DEF Approved, Ballot
<1>2. percent \in Int /\ b.for * 100 >= percent * cast
  BY <1>1
<1> HIDE DEF percent
<1>3. percent * cast >= 50 * cast
  BY <1>1, <1>2
<1>4. b.for * 100 >= 50 * b.for + 50 * b.against
  BY <1>1, <1>2, <1>3
<1>5. QED
  BY <1>1, <1>4

LEMMA MayExecuteCarries ==
  ASSUME NEW b \in Ballot, MayExecute(b)
  PROVE  Passing(BallotLife(b).tally)
<1>1. /\ BallotLife(b).tally.for = b.for /\ BallotLife(b).tally.against = b.against
      /\ BallotLife(b).tally.other = b.abstain
  BY DEF BallotLife
<1>2. QED
  BY <1>1, ApprovedIsMajority DEF MayExecute, QuorumMet, Passing

(* Rewriting one ballot in the current block rewrites its life alone. *)
LEMMA OneBallotLife ==
  ASSUME GovernorTypeOK, GovernorTypeOK', NEW i \in DOMAIN ballots, NEW b,
         ballots' = [ballots EXCEPT ![i] = b], height' = height
  PROVE  /\ i \in DOMAIN BallotLives /\ DOMAIN BallotLives' = DOMAIN BallotLives
         /\ BallotLives[i] = BallotLife(ballots[i])
         /\ BallotLives'[i] = BallotLife(b)
         /\ BallotLives' = [BallotLives EXCEPT ![i] = BallotLife(b)]
<1>1. DOMAIN ballots' = DOMAIN ballots /\ ballots'[i] = b
      /\ \A j \in DOMAIN ballots : j # i => ballots'[j] = ballots[j]
  BY OneBallotRewritten
<1>2. Now' = Now
  BY DEF Now
<1>3. \A c : BallotLife(c)' = BallotLife(c)
  BY <1>2 DEF BallotLife, Executed
<1>4. BallotLives' = [j \in DOMAIN ballots |-> BallotLife(ballots'[j])]
  BY <1>1, <1>3 DEF BallotLives
<1>5. [BallotLives EXCEPT ![i] = BallotLife(b)] =
        [j \in DOMAIN ballots |-> IF j = i THEN BallotLife(b) ELSE BallotLife(ballots[j])]
  BY DEF BallotLives
<1>6. QED
  BY <1>1, <1>4, <1>5 DEF BallotLives

LEMMA BallotWind ==
  ASSUME GovernorTypeOK, GovernorTypeOK', DOMAIN ballots' = DOMAIN ballots,
         \A i \in DOMAIN ballots :
           /\ BallotLife(ballots[i])'.tally = BallotLife(ballots[i]).tally
           /\ BallotLife(ballots[i])'.phase
                \in GovernorLife!Successor(BallotLife(ballots[i]).phase)
  PROVE  GovernorLife!LifeNext
<1>1. DOMAIN BallotLives' = DOMAIN BallotLives
  BY DEF BallotLives
<1>2. \A i \in DOMAIN BallotLives :
        /\ BallotLives'[i].tally = BallotLives[i].tally
        /\ BallotLives'[i].phase \in GovernorLife!Successor(BallotLives[i].phase)
  BY DEF BallotLives
<1>3. GovernorLife!Wind
  BY <1>1, <1>2 DEF GovernorLife!Wind, BallotLives
<1>4. QED
  BY <1>3 DEF GovernorLife!LifeNext

(* Mining a block closes the proposals whose voting ends with it. *)
LEMMA MineStep ==
  ASSUME GovernorInv, GovernorInv', MineBlock
  PROVE  GovernorLife!LifeNext
<1>1. ballots' = ballots /\ Now \in Nat /\ Now' = Now + 1
  BY GovernorTypes, GovernorConstants DEF MineBlock, Now, GovernorInv
<1>2. ASSUME NEW i \in DOMAIN ballots
      PROVE  /\ BallotLife(ballots[i])'.tally = BallotLife(ballots[i]).tally
             /\ BallotLife(ballots[i])'.phase
                  \in GovernorLife!Successor(BallotLife(ballots[i]).phase)
  <2> DEFINE b == ballots[i]
  <2>1. b \in Ballot /\ b.voteEnd \in Nat
    BY GovernorTypes DEF GovernorInv, Ballot
  <2>2. BallotLife(b)'.tally = BallotLife(b).tally
    BY <1>1 DEF BallotLife
  <2>3. BallotLife(b)'.phase =
          IF Executed(b) THEN "executed"
          ELSE IF b.canceled THEN "dropped"
          ELSE IF Now' < b.voteEnd THEN "open" ELSE "closed"
    BY <1>1, <2>1 DEF BallotLife, Executed, Ballot
  <2>4. BallotLife(b).phase =
          IF Executed(b) THEN "executed"
          ELSE IF b.canceled THEN "dropped"
          ELSE IF Now < b.voteEnd THEN "open" ELSE "closed"
    BY <2>1, BallotPhase
  <2>5. BallotLife(b)'.phase \in GovernorLife!Successor(BallotLife(b).phase)
    <3> DEFINE before == BallotLife(b).phase
               after == BallotLife(b)'.phase
    <3>1. \/ before = after /\ before \in {"open", "closed", "dropped", "executed"}
          \/ before = "open" /\ after = "closed"
      BY <1>1, <2>1, <2>3, <2>4
    <3> HIDE DEF before, after
    <3>2. after \in GovernorLife!Successor(before)
      BY <3>1 DEF GovernorLife!Successor
    <3>3. QED
      BY <3>2 DEF before, after
  <2>6. QED
    BY <2>2, <2>5
<1>3. QED
  BY <1>1, <1>2, BallotWind DEF GovernorInv

(* propose opens a ballot without votes. *)
LEMMA ProposeStep ==
  ASSUME GovernorInv, GovernorInv', NEW a \in Accounts, ProposeOnChain(a)
  PROVE  GovernorLife!LifeNext
<1>1. PICK b \in Ballot :
        /\ ballots' = Append(ballots, b) /\ height' = height
        /\ b.voteStart = Now + VOTING_DELAY
        /\ b.voteEnd = Now + VOTING_DELAY + VOTING_PERIOD
        /\ b.for = 0 /\ b.against = 0
        /\ b.executedAt = 0 /\ b.canceled = FALSE
  BY NewBallot DEF GovernorInv
<1>2. Now \in Nat /\ Len(ballots) \in Nat /\ DOMAIN ballots = 1..Len(ballots)
  BY GovernorTypes DEF GovernorInv
<1>3. Now < b.voteEnd
  BY <1>1, <1>2, GovernorConstants
<1>4. /\ BallotLife(b).phase = "open"
      /\ BallotLife(b).tally.for = 0 /\ BallotLife(b).tally.against = 0
  <2>1. BallotLife(b).tally = [for |-> b.for, against |-> b.against, other |-> b.abstain]
    BY BallotPhase
  <2>2. ~Executed(b) /\ ~b.canceled
    BY <1>1 DEF Executed
  <2>3. BallotLife(b).phase = "open"
    BY <1>3, <2>2, BallotPhase
  <2>4. QED
    BY <1>1, <2>1, <2>3
<1>5. /\ DOMAIN ballots' = 1..(Len(ballots) + 1)
      /\ ballots'[Len(ballots) + 1] = b
      /\ \A j \in DOMAIN ballots : ballots'[j] = ballots[j]
  BY <1>1, BallotAppended DEF GovernorInv
<1>6. \A c : BallotLife(c)' = BallotLife(c)
  BY <1>1 DEF BallotLife, Executed, Now
<1>7. /\ BallotLives = [j \in 1..Len(ballots) |-> BallotLife(ballots[j])]
      /\ BallotLives' = [j \in 1..(Len(ballots) + 1) |-> BallotLife(ballots'[j])]
  BY <1>2, <1>5, <1>6 DEF BallotLives
<1>8. BallotLives' = Append(BallotLives, BallotLife(b))
      /\ Len(BallotLives') = Len(BallotLives) + 1
      /\ BallotLives'[Len(BallotLives')] = BallotLife(b)
  <2> DEFINE S == {BallotLife(c) : c \in Ballot}
             T == Append(BallotLives, BallotLife(b))
  <2>1. \A j \in 1..(Len(ballots) + 1) : ballots'[j] \in Ballot
    BY <1>5, GovernorTypes, <1>2, <1>1 DEF GovernorInv
  <2>2. \A j \in 1..Len(ballots) : ballots[j] \in Ballot
    BY <1>2, GovernorTypes DEF GovernorInv
  <2>3. /\ BallotLives \in [1..Len(ballots) -> S]
        /\ BallotLives' \in [1..(Len(ballots) + 1) -> S]
        /\ BallotLife(b) \in S
    BY <1>7, <2>1, <2>2
  <2> HIDE DEF S
  <2>4. /\ BallotLives \in Seq(S) /\ Len(BallotLives) = Len(ballots)
        /\ BallotLives' \in Seq(S) /\ Len(BallotLives') = Len(ballots) + 1
    BY <1>2, <2>3
  <2>5. /\ T \in Seq(S) /\ Len(T) = Len(BallotLives) + 1
        /\ T[Len(BallotLives) + 1] = BallotLife(b)
        /\ \A j \in 1..Len(BallotLives) : T[j] = BallotLives[j]
    BY <2>3, <2>4, AppendProperties
  <2>6. \A j \in 1..Len(T) : T[j] = BallotLives'[j]
    BY <1>2, <1>5, <1>7, <2>4, <2>5
  <2>7. BallotLives'[Len(ballots) + 1] = BallotLife(b)
    BY <1>2, <1>5, <1>7
  <2> HIDE DEF T
  <2>8. BallotLives' = T
    BY <2>4, <2>5, <2>6, SeqEqual
  <2>9. QED
    BY <2>4, <2>7, <2>8 DEF T
<1>9. GovernorLife!Propose
  BY <1>4, <1>8 DEF GovernorLife!Propose, BallotLives
<1>10. QED
  BY <1>9 DEF GovernorLife!LifeNext

(* castVote adds to one tally of an open ballot, or of a cancelled one. *)
LEMMA VoteStep ==
  ASSUME GovernorInv, GovernorInv', NEW i \in DOMAIN ballots, NEW a \in Accounts,
         NEW s \in {For, Against, Abstain}, CastVoteOnChain(i, a, s)
  PROVE  GovernorLife!LifeNext
<1>1. PICK b \in Ballot :
        /\ ballots' = [ballots EXCEPT ![i] = b] /\ height' = height
        /\ ballots[i].voteStart <= Now /\ Now < ballots[i].voteEnd
        /\ b.voteStart = ballots[i].voteStart /\ b.voteEnd = ballots[i].voteEnd
        /\ b.executedAt = ballots[i].executedAt
        /\ b.canceled = ballots[i].canceled
        /\ ballots[i].for <= b.for /\ ballots[i].against <= b.against
        /\ ballots[i].abstain <= b.abstain
  BY VotedBallot DEF GovernorInv
<1>2. ballots[i] \in Ballot /\ Now \in Nat /\ ballots[i].voteEnd \in Nat
      /\ BallotSettled(ballots[i])
  BY GovernorTypes DEF GovernorInv, Ballot
<1>3. ~Executed(ballots[i]) /\ ~Executed(b)
  BY <1>1, <1>2 DEF BallotSettled, Executed
<1>4. /\ BallotLife(ballots[i]).phase \in {"open", "dropped"}
      /\ BallotLife(b).phase = BallotLife(ballots[i]).phase
      /\ BallotLife(b).phase # "closed"
      /\ GovernorLife!Grows(BallotLife(ballots[i]).tally, BallotLife(b).tally)
  <2> DEFINE c == ballots[i]
  <2>1. /\ BallotLife(b).tally = [for |-> b.for, against |-> b.against, other |-> b.abstain]
        /\ BallotLife(c).tally = [for |-> c.for, against |-> c.against, other |-> c.abstain]
    BY <1>2, BallotPhase
  <2>2. GovernorLife!Grows(BallotLife(c).tally, BallotLife(b).tally)
    BY <1>1, <2>1 DEF GovernorLife!Grows
  <2>3. /\ BallotLife(c).phase = IF c.canceled THEN "dropped" ELSE "open"
        /\ BallotLife(b).phase = IF b.canceled THEN "dropped" ELSE "open"
    BY <1>1, <1>2, <1>3, BallotPhase
  <2>4. QED
    BY <1>1, <2>2, <2>3
<1>5. /\ i \in DOMAIN BallotLives /\ BallotLives[i] = BallotLife(ballots[i])
      /\ BallotLives'[i] = BallotLife(b)
      /\ BallotLives' = [BallotLives EXCEPT ![i] = BallotLives'[i]]
  BY <1>1, OneBallotLife DEF GovernorInv
<1>6. GovernorLife!Cast(i)
  BY <1>4, <1>5 DEF GovernorLife!Cast, BallotLives
<1>7. QED
  BY <1>5, <1>6 DEF GovernorLife!LifeNext, BallotLives

(* execute executes a closed ballot that its tally carries. *)
LEMMA ExecuteOnChainStep ==
  ASSUME GovernorInv, GovernorInv', NEW i \in DOMAIN ballots, ExecuteOnChain(i)
  PROVE  GovernorLife!LifeNext
<1> DEFINE b == [ballots[i] EXCEPT !.executedAt = Now]
<1>1. /\ b \in Ballot /\ Executed(b) /\ MayExecute(ballots[i])
      /\ ballots' = [ballots EXCEPT ![i] = b] /\ height' = height
  BY ExecutedBallot DEF GovernorInv
<1>2. ballots[i] \in Ballot /\ Now \in Nat /\ ballots[i].voteEnd \in Nat
  BY GovernorTypes DEF GovernorInv, Ballot
<1>3. b.for = ballots[i].for /\ b.against = ballots[i].against /\ b.abstain = ballots[i].abstain
  BY <1>2 DEF Ballot
<1> HIDE DEF b
<1>4. BallotLife(ballots[i]).phase = "closed" /\ Passing(BallotLife(ballots[i]).tally)
  <2>1. ~Executed(ballots[i]) /\ ~ballots[i].canceled /\ ballots[i].voteEnd <= Now
    BY <1>1 DEF MayExecute
  <2>2. BallotLife(ballots[i]).phase = "closed"
    <3>1. BallotLife(ballots[i]).phase =
            IF Executed(ballots[i]) THEN "executed"
            ELSE IF ballots[i].canceled THEN "dropped"
            ELSE IF Now < ballots[i].voteEnd THEN "open" ELSE "closed"
      BY <1>2, BallotPhase
    <3>2. ~(Now < ballots[i].voteEnd)
      BY <1>2, <2>1
    <3>3. QED
      BY <2>1, <3>1, <3>2
  <2>3. QED
    BY <1>1, <1>2, <2>2, MayExecuteCarries
<1>5. BallotLife(b) = [BallotLife(ballots[i]) EXCEPT !.phase = "executed"]
  BY <1>1, <1>3 DEF BallotLife
<1>6. /\ i \in DOMAIN BallotLives /\ BallotLives[i] = BallotLife(ballots[i])
      /\ BallotLives' = [BallotLives EXCEPT ![i] = BallotLife(b)]
  BY <1>1, OneBallotLife DEF GovernorInv
<1>7. BallotLives' = [BallotLives EXCEPT ![i].phase = "executed"]
  BY <1>5, <1>6
<1>8. GovernorLife!Execute(i)
  BY <1>4, <1>6, <1>7 DEF GovernorLife!Execute, BallotLives
<1>9. QED
  BY <1>6, <1>8 DEF GovernorLife!LifeNext, BallotLives

(* cancel drops an open or a closed ballot. *)
LEMMA CancelOnChainStep ==
  ASSUME GovernorInv, GovernorInv', NEW i \in DOMAIN ballots, CancelOnChain(i)
  PROVE  GovernorLife!LifeNext
<1> DEFINE b == [ballots[i] EXCEPT !.canceled = TRUE]
<1>1. /\ b \in Ballot /\ ~Executed(ballots[i]) /\ ~ballots[i].canceled
      /\ ballots' = [ballots EXCEPT ![i] = b] /\ height' = height
  BY CancelledBallot DEF GovernorInv
<1>2. ballots[i] \in Ballot
  BY GovernorTypes DEF GovernorInv
<1>3. /\ b.for = ballots[i].for /\ b.against = ballots[i].against
      /\ b.abstain = ballots[i].abstain /\ b.canceled
      /\ b.executedAt = ballots[i].executedAt
  BY <1>2 DEF Ballot
<1> HIDE DEF b
<1>4. \A c : BallotLife(c)' = BallotLife(c)
  BY <1>1 DEF BallotLife, Executed, Now
<1>5. /\ BallotLife(b).tally = BallotLife(ballots[i]).tally
      /\ BallotLife(b).phase \in GovernorLife!Successor(BallotLife(ballots[i]).phase)
  BY <1>1, <1>2, <1>3, BallotPhase DEF Executed, GovernorLife!Successor
<1>6. \A j \in DOMAIN ballots :
        BallotLife(ballots[j]).phase
          \in GovernorLife!Successor(BallotLife(ballots[j]).phase)
  BY GovernorTypes, BallotPhase DEF GovernorInv, GovernorLife!Successor
<1>7. /\ DOMAIN ballots' = DOMAIN ballots /\ ballots'[i] = b
      /\ \A j \in DOMAIN ballots : j # i => ballots'[j] = ballots[j]
  BY <1>1, OneBallotRewritten DEF GovernorInv
<1>8. \A j \in DOMAIN ballots : BallotLife(ballots[j])' = BallotLife(ballots'[j])
  BY <1>1 DEF BallotLife, Executed, Now
<1>9. QED
  BY <1>5, <1>6, <1>7, <1>8, BallotWind DEF GovernorInv

(* Every history of the contract is one of ProposalLife: a ballot is         *)
(* executed once, after its voting has ended and on a tally that carries it  *)
(* and that no vote changes any more, for any powers, roles and delays.      *)
THEOREM GovernorRefinesLife == GovernorSpec => GovernorKeepsPromise
<1>1. GovernorInit => GovernorLife!LifeInit
  BY DEF GovernorInit, GovernorLife!LifeInit
<1>2. GovernorInv /\ GovernorInv' /\ [GovernorNext]_governorVars
        => [GovernorLife!LifeNext]_BallotLives
  <2> SUFFICES ASSUME GovernorInv, GovernorInv', [GovernorNext]_governorVars
               PROVE  GovernorLife!LifeNext \/ BallotLives' = BallotLives
    OBVIOUS
  <2>1. CASE UNCHANGED governorVars \/ \E a \in Accounts, p \in Weights : UpdateVotingPower(a, p)
    BY <2>1 DEF governorVars, UpdateVotingPower, SetPower, BallotLives, BallotLife, Executed, Now
  <2>2. QED
    BY <2>1, MineStep, ProposeStep, VoteStep, ExecuteOnChainStep, CancelOnChainStep
       DEF GovernorNext
<1>3. QED
  BY <1>1, <1>2, GovernorInvHolds, PTL
     DEF GovernorSpec, GovernorKeepsPromise, GovernorLife!LifeSpec, BallotLives

-----------------------------------------------------------------------------
(* The executor's counts and the votes on record.                            *)

(* What is on record can be added up, and a proposal nobody has created has  *)
(* no votes.                                                                 *)
RecordKept ==
  /\ \A i \in Ids : IsFiniteSet(votes[i])
  /\ \A i \in Ids : i \notin Created => votes[i] = {}
  /\ RecordedIsCounted

VotesFor(record, support) == {b \in record : b.support = support}

LEMMA RecordSum ==
  ASSUME NEW record \in SUBSET Vote, IsFiniteSet(record), NEW support \in BOOLEAN
  PROVE  /\ IsFiniteSet(VotesFor(record, support))
         /\ \A b \in VotesFor(record, support) : PowerOf[b] \in Nat
         /\ SumFunctionOnSet(PowerOf, VotesFor(record, support)) \in Nat
<1>1. VotesFor(record, support) \in SUBSET record
  BY DEF VotesFor
<1>2. IsFiniteSet(VotesFor(record, support))
  BY <1>1, FS_Subset
<1>3. \A b \in VotesFor(record, support) : PowerOf[b] \in Nat
  BY <1>1, GovernanceAssumption DEF Vote, PowerOf
<1>4. QED
  BY <1>2, <1>3, SumType

(* A vote replaces the voter's earlier one: the record of its side grows by  *)
(* at most its power, the other side's does not grow.                        *)
LEMMA RecordGrows ==
  ASSUME NEW record \in SUBSET Vote, IsFiniteSet(record), NEW vote \in Vote,
         NEW support \in BOOLEAN
  PROVE  LET new == {b \in record : b.voter # vote.voter} \union {vote}
             old == SumFunctionOnSet(PowerOf, VotesFor(record, support))
         IN SumFunctionOnSet(PowerOf, VotesFor(new, support))
              <= IF vote.support = support THEN old + vote.power ELSE old
<1> DEFINE new == {b \in record : b.voter # vote.voter} \union {vote}
           rest == {b \in VotesFor(record, support) : b.voter # vote.voter}
           old == SumFunctionOnSet(PowerOf, VotesFor(record, support))
<1>1. /\ IsFiniteSet(VotesFor(record, support)) /\ old \in Nat
      /\ \A b \in VotesFor(record, support) : PowerOf[b] \in Nat
  BY RecordSum
<1>2. rest \in SUBSET VotesFor(record, support) /\ vote \notin rest
  OBVIOUS
<1>3. PowerOf[vote] = vote.power /\ vote.power \in Nat
  BY GovernanceAssumption DEF PowerOf, Vote
<1>4. VotesFor(new, support) = IF vote.support = support THEN rest \union {vote} ELSE rest
  BY DEF VotesFor
<1> HIDE DEF new, rest, old
<1>5. IsFiniteSet(rest) /\ (\A b \in rest : PowerOf[b] \in Nat)
  BY <1>1, <1>2, FS_Subset
<1>6. SumFunctionOnSet(PowerOf, rest) \in Nat
  BY <1>5, SumType
<1>7. SumFunctionOnSet(PowerOf, rest) <= old
  BY <1>1, <1>2, SumSubset DEF old
<1>8. CASE vote.support = support
  <2>1. \A b \in rest \union {vote} : PowerOf[b] \in Nat
    BY <1>3, <1>5
  <2>2. SumFunctionOnSet(PowerOf, rest \union {vote}) = vote.power + SumFunctionOnSet(PowerOf, rest)
    BY <1>2, <1>3, <1>5, <2>1, SumAdd
  <2>3. VotesFor(new, support) = rest \union {vote}
    BY <1>4, <1>8
  <2>4. SumFunctionOnSet(PowerOf, VotesFor(new, support)) <= old + vote.power
    BY <1>1, <1>3, <1>6, <1>7, <2>2, <2>3
  <2>5. QED
    BY <1>8, <2>4 DEF new, old
<1>9. CASE vote.support # support
  <2>1. SumFunctionOnSet(PowerOf, VotesFor(new, support)) <= old
    BY <1>4, <1>7, <1>9
  <2>2. QED
    BY <1>9, <2>1 DEF new, old
<1>10. QED
  BY <1>8, <1>9

LEMMA RecordedPowerIs ==
  ASSUME NEW i
  PROVE  /\ RecordedPower(i, TRUE) = SumFunctionOnSet(PowerOf, VotesFor(votes[i], TRUE))
         /\ RecordedPower(i, FALSE) = SumFunctionOnSet(PowerOf, VotesFor(votes[i], FALSE))
BY DEF RecordedPower, VotesFor

(* A step that leaves the record alone and does not lower a tally. *)
LEMMA TalliesKept ==
  ASSUME RecordKept, UNCHANGED votes, DOMAIN proposals' = DOMAIN proposals,
         \A i \in Created : proposals'[i].for = proposals[i].for
                            /\ proposals'[i].against = proposals[i].against
  PROVE  RecordKept'
<1>1. \A i : RecordedPower(i, TRUE)' = RecordedPower(i, TRUE)
             /\ RecordedPower(i, FALSE)' = RecordedPower(i, FALSE)
  BY DEF RecordedPower
<1>2. QED
  BY <1>1 DEF RecordKept, RecordedIsCounted, Created

LEMMA RecordCastStep ==
  ASSUME TypeOK, RecordKept, NEW i \in Created, NEW vote \in Vote,
         NEW later \in {0, 1}, CastVote(i, vote, later)
  PROVE  RecordKept'
<1> DEFINE o == proposals[i]
           p == Tallied(o, vote.support, vote.power)
           q == [p EXCEPT !.status = StatusAt(p, clock + later)]
           new == {b \in votes[i] : b.voter # vote.voter} \union {vote}
<1>1. /\ o \in Proposal /\ i \in Ids /\ votes[i] \in SUBSET Vote /\ IsFiniteSet(votes[i])
      /\ Created = 1..Len(proposals) /\ Len(proposals) \in Nat
  BY GovernanceAssumption DEF TypeOK, RecordKept, Created, Ids
<1>2. vote.power \in Nat /\ vote.support \in BOOLEAN /\ o.for \in Nat /\ o.against \in Nat
  BY <1>1, GovernanceAssumption DEF Vote, Proposal
<1>3. /\ p.for = IF vote.support THEN o.for + vote.power ELSE o.for
      /\ p.against = IF vote.support THEN o.against ELSE o.against + vote.power
  <2> HIDE DEF o
  <2>1. QED
    BY <1>1, <1>2 DEF Tallied, Proposal
<1>4. p \in Proposal
  BY <1>1, TalliedTyped
<1>5. q.for = p.for /\ q.against = p.against
  <2> HIDE DEF p
  <2>1. QED
    BY <1>4 DEF Proposal
<1>6. proposals' = [proposals EXCEPT ![i] = q] /\ votes' = [votes EXCEPT ![i] = new]
  BY DEF CastVote
<1> HIDE DEF p, q, new
<1>7. /\ DOMAIN proposals' = DOMAIN proposals /\ proposals'[i] = q
      /\ \A j \in Created : j # i => proposals'[j] = proposals[j]
  BY <1>1, <1>6 DEF TypeOK, Created
<1>8. votes'[i] = new /\ \A j \in Ids : j # i => votes'[j] = votes[j]
  BY <1>1, <1>6 DEF TypeOK
<1>9. IsFiniteSet(new)
  <2>1. {b \in votes[i] : b.voter # vote.voter} \in SUBSET votes[i]
    OBVIOUS
  <2>2. IsFiniteSet({b \in votes[i] : b.voter # vote.voter})
    BY <1>1, <2>1, FS_Subset
  <2>3. QED
    BY <2>2, FS_AddElement DEF new
<1>10. ASSUME NEW j \in Created, j # i
       PROVE  /\ RecordedPower(j, TRUE)' <= proposals'[j].for
              /\ RecordedPower(j, FALSE)' <= proposals'[j].against
  <2>0. j \in Ids
    BY <1>1, GovernanceAssumption DEF TypeOK, Ids
  <2>1. votes'[j] = votes[j] /\ proposals'[j] = proposals[j]
    BY <1>7, <1>8, <1>10, <2>0
  <2>2. QED
    BY <2>1 DEF RecordKept, RecordedIsCounted, RecordedPower
<1>11. /\ RecordedPower(i, TRUE)' <= proposals'[i].for
       /\ RecordedPower(i, FALSE)' <= proposals'[i].against
  <2> DEFINE oldFor == SumFunctionOnSet(PowerOf, VotesFor(votes[i], TRUE))
             oldAgainst == SumFunctionOnSet(PowerOf, VotesFor(votes[i], FALSE))
             newFor == SumFunctionOnSet(PowerOf, VotesFor(new, TRUE))
             newAgainst == SumFunctionOnSet(PowerOf, VotesFor(new, FALSE))
  <2>1. oldFor <= o.for /\ oldAgainst <= o.against
    BY RecordedPowerIs DEF RecordKept, RecordedIsCounted
  <2>2. oldFor \in Nat /\ oldAgainst \in Nat
    BY <1>1, RecordSum
  <2>3. new \in SUBSET Vote
    BY <1>1 DEF new
  <2>4. newFor \in Nat /\ newAgainst \in Nat
    BY <1>9, <2>3, RecordSum
  <2>5. /\ newFor <= IF vote.support = TRUE THEN oldFor + vote.power ELSE oldFor
        /\ newAgainst <= IF vote.support = FALSE THEN oldAgainst + vote.power ELSE oldAgainst
    BY <1>1, RecordGrows DEF new
  <2>6. RecordedPower(i, TRUE)' = newFor /\ RecordedPower(i, FALSE)' = newAgainst
    BY <1>8 DEF RecordedPower, VotesFor
  <2>7. proposals'[i].for = p.for /\ proposals'[i].against = p.against
    BY <1>5, <1>7
  <2> HIDE DEF oldFor, oldAgainst, newFor, newAgainst, o
  <2>8. CASE vote.support = TRUE
    <3>1. p.for = o.for + vote.power /\ p.against = o.against
      BY <1>3, <2>8
    <3>2. newFor <= oldFor + vote.power /\ newAgainst <= oldAgainst
      BY <2>5, <2>8
    <3>3. newFor <= p.for /\ newAgainst <= p.against
      BY <1>2, <2>1, <2>2, <2>4, <3>1, <3>2
    <3>4. QED
      BY <2>6, <2>7, <3>3
  <2>9. CASE vote.support = FALSE
    <3>1. p.for = o.for /\ p.against = o.against + vote.power
      BY <1>3, <2>9
    <3>2. newFor <= oldFor /\ newAgainst <= oldAgainst + vote.power
      BY <2>5, <2>9
    <3>3. newFor <= p.for /\ newAgainst <= p.against
      BY <1>2, <2>1, <2>2, <2>4, <3>1, <3>2
    <3>4. QED
      BY <2>6, <2>7, <3>3
  <2>10. QED
    BY <1>2, <2>8, <2>9
<1>12. \A j \in Ids : IsFiniteSet(votes'[j]) /\ (j \notin Created => votes'[j] = {})
  BY <1>1, <1>8, <1>9 DEF RecordKept
<1>13. QED
  BY <1>7, <1>10, <1>11, <1>12 DEF RecordKept, RecordedIsCounted, Created

LEMMA RecordStep ==
  ASSUME TypeOK, RecordKept, [Next]_vars
  PROVE  RecordKept'
<1>0. /\ Created = 1..Len(proposals) /\ Len(proposals) \in Nat /\ Len(proposals) <= MaxProposals
      /\ \A i \in Created : i \in Ids /\ proposals[i] \in Proposal
      /\ votes \in [Ids -> SUBSET Vote] /\ creating \in 0..MaxProposals /\ clock \in Nat
  BY GovernanceAssumption DEF TypeOK, Created, Ids
<1>1. ASSUME NEW type \in Types, NEW v \in Voters, NEW power \in Powers,
             NEW now \in 0..clock, Create(type, v, power, now)
      PROVE  RecordKept'
  <2>0. PICK new \in Nat : new = Len(proposals) + 1
    BY <1>0
  <2> DEFINE p == NewProposal(type, v, power, now)
  <2>1. proposals' = Append(proposals, p) /\ votes' = votes /\ Len(proposals) < MaxProposals
    BY <1>1 DEF Create
  <2>2. p.for = 0 /\ p.against = 0
    BY DEF NewProposal
  <2>3. proposals \in Seq(Proposal)
    BY DEF TypeOK
  <2>4. p \in Proposal
    BY <1>0, NewProposalTyped
  <2> HIDE DEF p
  <2>5. /\ DOMAIN proposals' = 1..new /\ proposals'[new] = p
        /\ \A i \in Created : proposals'[i] = proposals[i]
    BY <1>0, <2>0, <2>1, <2>3, <2>4, AppendProperties
  <2>6. new \in Ids /\ new \notin Created
    BY <1>0, <2>0, <2>1, GovernanceAssumption DEF Ids
  <2>7. votes[new] = {}
    BY <2>6 DEF RecordKept
  <2>8. RecordedPower(new, TRUE)' = 0 /\ RecordedPower(new, FALSE)' = 0
    <3>1. {b \in votes'[new] : b.support = TRUE} = {} /\ {b \in votes'[new] : b.support = FALSE} = {}
      BY <2>1, <2>7
    <3>2. QED
      BY <3>1, SumEmpty DEF RecordedPower
  <2>9. \A i : RecordedPower(i, TRUE)' = RecordedPower(i, TRUE)
               /\ RecordedPower(i, FALSE)' = RecordedPower(i, FALSE)
    BY <2>1 DEF RecordedPower
  <2>10. \A i \in DOMAIN proposals' : /\ RecordedPower(i, TRUE)' <= proposals'[i].for
                                      /\ RecordedPower(i, FALSE)' <= proposals'[i].against
    <3>1. ASSUME NEW i \in DOMAIN proposals', i # new
          PROVE  /\ RecordedPower(i, TRUE)' <= proposals'[i].for
                 /\ RecordedPower(i, FALSE)' <= proposals'[i].against
      <4>1. i \in Created /\ proposals'[i] = proposals[i]
        BY <1>0, <2>0, <2>5, <3>1
      <4>2. QED
        BY <4>1, <2>9 DEF RecordKept, RecordedIsCounted
    <3>2. ASSUME NEW i \in DOMAIN proposals', i = new
          PROVE  /\ RecordedPower(i, TRUE)' <= proposals'[i].for
                 /\ RecordedPower(i, FALSE)' <= proposals'[i].against
      <4>1. RecordedPower(i, TRUE)' = 0 /\ RecordedPower(i, FALSE)' = 0
        BY <2>8, <3>2 DEF RecordedPower
      <4>2. proposals'[i].for = 0 /\ proposals'[i].against = 0
        BY <2>2, <2>5, <3>2
      <4>3. 0 <= proposals'[i].for /\ 0 <= proposals'[i].against
        BY <4>2
      <4>4. QED
        BY <4>1, <4>3, Zenon
    <3>3. QED
      BY <3>1, <3>2
  <2>11. \A i \in Ids : i \notin DOMAIN proposals' => i \notin Created
    BY <1>0, <2>0, <2>5
  <2>12. QED
    BY <2>1, <2>10, <2>11 DEF RecordKept, RecordedIsCounted, Created
<1>2. ASSUME NEW i \in Created, NEW vote \in Vote, NEW later \in {0, 1}, CastVote(i, vote, later)
      PROVE  RecordKept'
  BY <1>2, RecordCastStep
<1>3. CASE InsertVoteMap
  <2>1. PICK c \in Ids : c = creating
    BY <1>0, <1>3, GovernanceAssumption DEF InsertVoteMap, Ids
  <2>2. proposals' = proposals /\ votes' = [votes EXCEPT ![c] = {}]
    BY <1>3, <2>1 DEF InsertVoteMap
  <2>3. votes'[c] = {} /\ \A j \in Ids : j # c => votes'[j] = votes[j]
    BY <1>0, <2>2
  <2>4. RecordedPower(c, TRUE)' = 0 /\ RecordedPower(c, FALSE)' = 0
    <3>1. {b \in votes'[c] : b.support = TRUE} = {} /\ {b \in votes'[c] : b.support = FALSE} = {}
      BY <2>3
    <3>2. QED
      BY <3>1, SumEmpty DEF RecordedPower
  <2>5. \A i \in Created : /\ RecordedPower(i, TRUE)' <= proposals[i].for
                           /\ RecordedPower(i, FALSE)' <= proposals[i].against
    <3>1. ASSUME NEW i \in Created, i # c
          PROVE  /\ RecordedPower(i, TRUE)' <= proposals[i].for
                 /\ RecordedPower(i, FALSE)' <= proposals[i].against
      <4>1. votes'[i] = votes[i]
        BY <1>0, <2>3, <3>1
      <4>2. QED
        BY <4>1 DEF RecordKept, RecordedIsCounted, RecordedPower
    <3>2. c \in Created => proposals[c].for \in Nat /\ proposals[c].against \in Nat
      BY <1>0 DEF Proposal
    <3>3. ASSUME NEW i \in Created, i = c
          PROVE  /\ RecordedPower(i, TRUE)' <= proposals[i].for
                 /\ RecordedPower(i, FALSE)' <= proposals[i].against
      <4>1. RecordedPower(i, TRUE)' = 0 /\ RecordedPower(i, FALSE)' = 0
        BY <2>4, <3>3 DEF RecordedPower
      <4>2. 0 <= proposals[i].for /\ 0 <= proposals[i].against
        BY <3>2, <3>3
      <4>3. QED
        BY <4>1, <4>2, Zenon
    <3>4. QED
      BY <3>1, <3>3
  <2>6. \A i \in Ids : IsFiniteSet(votes'[i]) /\ (i \notin Created => votes'[i] = {})
    BY <2>3, FS_EmptySet DEF RecordKept
  <2>7. QED
    BY <2>2, <2>5, <2>6 DEF RecordKept, RecordedIsCounted, Created
<1>4. ASSUME NEW i \in Created, Execute(i)
      PROVE  RecordKept'
  <2>1. PICK q : /\ proposals' = [proposals EXCEPT ![i] = q]
                 /\ q.for = proposals[i].for /\ q.against = proposals[i].against
    <3> DEFINE o == proposals[i]
    <3>1. o \in Proposal
      BY <1>0
    <3>2. /\ [o EXCEPT !.status = "Expired"].for = o.for
          /\ [o EXCEPT !.status = "Expired"].against = o.against
          /\ [o EXCEPT !.status = "Executed", !.executedAt = clock].for = o.for
          /\ [o EXCEPT !.status = "Executed", !.executedAt = clock].against = o.against
      BY <3>1 DEF Proposal
    <3>3. \/ proposals' = [proposals EXCEPT ![i] = [o EXCEPT !.status = "Expired"]]
          \/ proposals' = [proposals EXCEPT ![i] = [o EXCEPT !.status = "Executed", !.executedAt = clock]]
      BY <1>4 DEF Execute
    <3> HIDE DEF o
    <3>4. QED
      BY <3>2, <3>3 DEF o
  <2>2. votes' = votes
    BY <1>4 DEF Execute
  <2>3. DOMAIN proposals' = DOMAIN proposals /\ proposals'[i] = q
        /\ \A j \in Created : j # i => proposals'[j] = proposals[j]
    BY <1>0, <2>1 DEF TypeOK, Created
  <2>4. QED
    BY <2>1, <2>2, <2>3, TalliesKept
<1>5. ASSUME NEW i \in Created, NEW v \in Voters, Cancel(i, v)
      PROVE  RecordKept'
  <2>1. PICK q : /\ proposals' = [proposals EXCEPT ![i] = q]
                 /\ q.for = proposals[i].for /\ q.against = proposals[i].against
    <3> DEFINE o == proposals[i]
    <3>1. o \in Proposal
      BY <1>0
    <3>2. [o EXCEPT !.status = "Cancelled"].for = o.for /\ [o EXCEPT !.status = "Cancelled"].against = o.against
      BY <3>1 DEF Proposal
    <3>3. proposals' = [proposals EXCEPT ![i] = [o EXCEPT !.status = "Cancelled"]]
      BY <1>5 DEF Cancel
    <3> HIDE DEF o
    <3>4. QED
      BY <3>2, <3>3 DEF o
  <2>2. votes' = votes
    BY <1>5 DEF Cancel
  <2>3. DOMAIN proposals' = DOMAIN proposals /\ proposals'[i] = q
        /\ \A j \in Created : j # i => proposals'[j] = proposals[j]
    BY <1>0, <2>1 DEF TypeOK, Created
  <2>4. QED
    BY <2>1, <2>2, <2>3, TalliesKept
<1>6. ASSUME NEW now \in 0..clock, ProcessTimelockQueue(now) \/ ProcessExecutionQueue(now)
      PROVE  RecordKept'
  <2>1. \A i \in Created :
          /\ Unlocked(proposals[i], now).for = proposals[i].for
          /\ Unlocked(proposals[i], now).against = proposals[i].against
          /\ Lapsed(proposals[i], now).for = proposals[i].for
          /\ Lapsed(proposals[i], now).against = proposals[i].against
    BY <1>0 DEF Unlocked, Lapsed, Proposal
  <2>2. votes' = votes
    BY <1>6 DEF ProcessTimelockQueue, ProcessExecutionQueue
  <2>3. DOMAIN proposals' = DOMAIN proposals
        /\ \A i \in Created : proposals'[i] \in {Unlocked(proposals[i], now), Lapsed(proposals[i], now)}
    BY <1>6 DEF ProcessTimelockQueue, ProcessExecutionQueue, Created
  <2>4. QED
    BY <2>1, <2>2, <2>3, TalliesKept
<1>7. CASE Tick \/ UNCHANGED vars \/ \E flag \in BOOLEAN : SetPaused(flag)
  <2>1. votes' = votes /\ proposals' = proposals
    BY <1>7 DEF Tick, vars, SetPaused
  <2>2. QED
    BY <2>1, TalliesKept
<1>8. QED
  BY <1>1, <1>2, <1>3, <1>4, <1>5, <1>6, <1>7 DEF Next

(* A vote on record has been counted, for any voters, powers, delays and     *)
(* bounds: no interleaving of votes, of votes cast again and of the creation *)
(* of a proposal leaves a power on record that the proposal's counts lack    *)
(* (m300_governance_executor.rs).                                            *)
THEOREM RecordedIsCountedHolds == Spec => []RecordedIsCounted
<1>1. Init => RecordKept
  <2> SUFFICES ASSUME Init
               PROVE  RecordKept
    OBVIOUS
  <2>1. proposals = <<>> /\ votes = [i \in Ids |-> {}]
    BY DEF Init
  <2>2. Created = {}
    BY <2>1 DEF Created
  <2>3. \A i \in Ids : votes[i] = {} /\ IsFiniteSet(votes[i])
    BY <2>1, FS_EmptySet
  <2>4. QED
    BY <2>2, <2>3 DEF RecordKept, RecordedIsCounted
<1>2. TypeOK /\ RecordKept /\ [Next]_vars => RecordKept'
  BY RecordStep
<1>3. RecordKept => RecordedIsCounted
  BY DEF RecordKept
<1>4. QED
  BY <1>1, <1>2, <1>3, TypeCorrect, PTL DEF Spec

-----------------------------------------------------------------------------
(* The contract's counts and its receipts.                                   *)

(* The weights of the receipts r, and the accounts with that support.        *)
Weighed(r) == [a \in Accounts |-> r[a].weight]
Siding(r, support) == {a \in Accounts : r[a].support = support}

LEMMA ReceiptPowerIs ==
  ASSUME NEW i, NEW support
  PROVE  ReceiptPower(i, support) = SumFunctionOnSet(Weighed(receipts[i]), Siding(receipts[i], support))
BY DEF ReceiptPower, WeightOn, Weighed, Siding

LEMMA ReceiptSum ==
  ASSUME NEW r \in [Accounts -> Receipt], NEW support
  PROVE  /\ IsFiniteSet(Siding(r, support)) /\ Siding(r, support) \subseteq Accounts
         /\ \A a \in Accounts : Weighed(r)[a] \in Nat
         /\ SumFunctionOnSet(Weighed(r), Siding(r, support)) \in Nat
<1>1. Siding(r, support) \subseteq Accounts
  BY DEF Siding
<1>2. IsFiniteSet(Siding(r, support))
  BY <1>1, GovernorAssumption, FS_Subset
<1>3. \A a \in Accounts : Weighed(r)[a] \in Nat
  BY DEF Weighed, Receipt
<1>4. QED
  BY <1>1, <1>2, <1>3, SumType

(* The first vote of an account adds its weight to the sum of its side and   *)
(* leaves the other sides' sums alone, whatever side the empty receipt says. *)
LEMMA ReceiptAdded ==
  ASSUME NEW r \in [Accounts -> Receipt], NEW a \in Accounts, r[a].weight = 0,
         NEW s \in {For, Against, Abstain}, NEW w \in Nat,
         NEW support \in {For, Against, Abstain}
  PROVE  LET new == [r EXCEPT ![a] = [support |-> s, weight |-> w]]
             old == SumFunctionOnSet(Weighed(r), Siding(r, support))
         IN SumFunctionOnSet(Weighed(new), Siding(new, support))
              = IF s = support THEN old + w ELSE old
<1> DEFINE new == [r EXCEPT ![a] = [support |-> s, weight |-> w]]
           f == Weighed(r)
           g == Weighed(new)
           S == Siding(r, support)
           T == S \ {a}
<1>1. /\ new[a].support = s /\ new[a].weight = w
      /\ \A b \in Accounts : b # a => new[b] = r[b]
  OBVIOUS
<1>2. [support |-> s, weight |-> w] \in Receipt
  BY DEF Receipt
<1>3. new \in [Accounts -> Receipt]
  BY <1>2
<1> HIDE DEF new
<1>4. f[a] = 0 /\ g[a] = w /\ \A b \in Accounts : b # a => g[b] = f[b]
  BY <1>1 DEF Weighed
<1>5. Siding(new, support) = IF s = support THEN T \union {a} ELSE T
  <2>1. CASE s = support
    BY <1>1, <2>1 DEF Siding
  <2>2. CASE s # support
    BY <1>1, <2>2 DEF Siding
  <2>3. QED
    BY <2>1, <2>2
<1>6. /\ IsFiniteSet(S) /\ S \subseteq Accounts
      /\ (\A b \in Accounts : f[b] \in Nat) /\ (\A b \in Accounts : g[b] \in Nat)
  BY <1>3, ReceiptSum
<1> HIDE DEF f, g, S
<1>7. IsFiniteSet(T) /\ T \subseteq Accounts /\ T \subseteq S /\ a \notin T
  BY <1>6, FS_Subset
<1>8. SumFunctionOnSet(f, S) = SumFunctionOnSet(f, T)
  <2>1. CASE a \in S
    <3>1. SumFunctionOnSet(f, S) = f[a] + SumFunctionOnSet(f, S \ {a})
      <4>1. \A b \in S : f[b] \in Nat
        BY <1>6
      <4>2. QED
        BY <1>6, <2>1, <4>1, SumRemove
    <3>2. SumFunctionOnSet(f, T) \in Nat
      <4>1. \A b \in T : f[b] \in Nat
        BY <1>6, <1>7
      <4> HIDE DEF T
      <4>2. QED
        BY <1>7, <4>1, SumType
    <3>3. QED
      BY <1>4, <3>1, <3>2
  <2>2. CASE a \notin S
    <3>1. T = S
      BY <2>2
    <3>2. QED
      BY <3>1
  <2>3. QED
    BY <2>1, <2>2
<1> HIDE DEF T
<1>9. SumFunctionOnSet(g, T) = SumFunctionOnSet(f, T) /\ SumFunctionOnSet(f, T) \in Nat
  <2>1. \A b \in T : f[b] \in Nat /\ g[b] = f[b]
    BY <1>4, <1>6, <1>7
  <2>2. QED
    BY <1>7, <2>1, SumSame, SumType
<1>10. SumFunctionOnSet(g, T \union {a}) = w + SumFunctionOnSet(g, T)
  <2>1. \A b \in T \union {a} : g[b] \in Nat
    BY <1>6, <1>7
  <2>2. QED
    BY <1>4, <1>7, <2>1, SumAdd
<1>11. CASE s = support
  <2>1. Siding(new, support) = T \union {a}
    BY <1>5, <1>11
  <2>2. SumFunctionOnSet(g, Siding(new, support)) = SumFunctionOnSet(f, S) + w
    BY <1>8, <1>9, <1>10, <2>1
  <2>3. QED
    BY <1>11, <2>2 DEF f, g, S, new
<1>12. CASE s # support
  <2>1. Siding(new, support) = T
    BY <1>5, <1>12
  <2>2. SumFunctionOnSet(g, Siding(new, support)) = SumFunctionOnSet(f, S)
    BY <1>8, <1>9, <2>1
  <2>3. QED
    BY <1>12, <2>2 DEF f, g, S, new
<1>13. QED
  BY <1>11, <1>12

(* Nobody has voted. *)
LEMMA NoReceiptSum ==
  ASSUME NEW support
  PROVE  LET none == [a \in Accounts |-> NoReceipt]
         IN SumFunctionOnSet(Weighed(none), Siding(none, support)) = 0
<1> DEFINE none == [a \in Accounts |-> NoReceipt]
<1>1. none \in [Accounts -> Receipt]
  BY DEF NoReceipt, Receipt
<1>2. \A a \in Siding(none, support) : Weighed(none)[a] = 0
  BY DEF Siding, Weighed, NoReceipt
<1> HIDE DEF none
<1>3. IsFiniteSet(Siding(none, support))
  BY <1>1, ReceiptSum
<1>4. SumFunctionOnSet(Weighed(none), Siding(none, support)) = 0
  BY <1>2, <1>3, SumZero
<1>5. QED
  BY <1>4 DEF none

(* The tallies of a ballot are the sums of its receipts. *)
Balanced(b, r) ==
  /\ b.for = SumFunctionOnSet(Weighed(r), Siding(r, For))
  /\ b.against = SumFunctionOnSet(Weighed(r), Siding(r, Against))
  /\ b.abstain = SumFunctionOnSet(Weighed(r), Siding(r, Abstain))

ReceiptsKept ==
  /\ Len(ballots) <= MaxBallots
  /\ \A i \in 1..MaxBallots : i \notin DOMAIN ballots => receipts[i] = [a \in Accounts |-> NoReceipt]
  /\ \A i \in DOMAIN ballots : Balanced(ballots[i], receipts[i])

LEMMA ReceiptsKeptTallies == ReceiptsKept => TallyIsReceipts
BY ReceiptPowerIs DEF ReceiptsKept, TallyIsReceipts, Balanced

LEMMA BalancedVote ==
  ASSUME NEW b \in Ballot, NEW r \in [Accounts -> Receipt], Balanced(b, r),
         NEW a \in Accounts, r[a].weight = 0,
         NEW s \in {For, Against, Abstain}, NEW w \in Nat
  PROVE  Balanced(Counted(b, s, w), [r EXCEPT ![a] = [support |-> s, weight |-> w]])
<1> DEFINE c == Counted(b, s, w)
           new == [r EXCEPT ![a] = [support |-> s, weight |-> w]]
           Sum(x, support) == SumFunctionOnSet(Weighed(x), Siding(x, support))
<1>1. \A support \in {For, Against, Abstain} :
        Sum(new, support) = IF s = support THEN Sum(r, support) + w ELSE Sum(r, support)
  BY ReceiptAdded
<1>2. b.for = Sum(r, For) /\ b.against = Sum(r, Against) /\ b.abstain = Sum(r, Abstain)
  BY DEF Balanced
<1> HIDE DEF new, Sum
<1>3. /\ c.for = IF s = For THEN b.for + w ELSE b.for
      /\ c.against = IF s = Against THEN b.against + w ELSE b.against
      /\ c.abstain = IF s = Abstain THEN b.abstain + w ELSE b.abstain
  <2>1. CASE s = For
    BY <2>1 DEF Counted, Ballot, For, Against, Abstain
  <2>2. CASE s = Against
    BY <2>2 DEF Counted, Ballot, For, Against, Abstain
  <2>3. CASE s = Abstain
    BY <2>3 DEF Counted, Ballot, For, Against, Abstain
  <2>4. QED
    BY <2>1, <2>2, <2>3
<1> HIDE DEF c
<1>4. c.for = Sum(new, For) /\ c.against = Sum(new, Against) /\ c.abstain = Sum(new, Abstain)
  BY <1>1, <1>2, <1>3
<1>5. QED
  BY <1>4 DEF Balanced, Sum, c, new

LEMMA ReceiptsVoteStep ==
  ASSUME GovernorTypeOK, ReceiptsKept, NEW i \in DOMAIN ballots, NEW a \in Accounts,
         NEW s \in {For, Against, Abstain}, CastVoteOnChain(i, a, s)
  PROVE  ReceiptsKept'
<1> DEFINE w == PowerAt(a, ballots[i].voteStart)
           b == Counted(ballots[i], s, w)
           r == [receipts[i] EXCEPT ![a] = [support |-> s, weight |-> w]]
<1>1. /\ ballots[i] \in Ballot /\ ballots[i].voteStart \in Nat
      /\ DOMAIN ballots = 1..Len(ballots) /\ Len(ballots) \in Nat
      /\ receipts \in [1..MaxBallots -> [Accounts -> Receipt]]
  BY GovernorTypes DEF Ballot
<1>2. w \in Nat
  BY <1>1, PowerTyped
<1>3. i \in 1..MaxBallots /\ MaxBallots \in Nat
  BY <1>1, GovernorAssumption DEF ReceiptsKept
<1>4. receipts[i] \in [Accounts -> Receipt] /\ receipts[i][a].weight = 0
  BY <1>1, <1>3 DEF CastVoteOnChain
<1>5. /\ ballots' = [ballots EXCEPT ![i] = b]
      /\ receipts' = [receipts EXCEPT ![i][a] = [support |-> s, weight |-> w]]
  BY DEF CastVoteOnChain
<1> HIDE DEF w
<1>6. b \in Ballot
  BY <1>1, <1>2, CountedTyped
<1>7. Balanced(b, r)
  BY <1>1, <1>2, <1>4, BalancedVote DEF ReceiptsKept
<1>8. receipts'[i] = r /\ \A j \in 1..MaxBallots : j # i => receipts'[j] = receipts[j]
  BY <1>1, <1>3, <1>5
<1> HIDE DEF b, r
<1>9. /\ DOMAIN ballots' = DOMAIN ballots /\ ballots'[i] = b /\ Len(ballots') = Len(ballots)
      /\ \A j \in DOMAIN ballots : j # i => ballots'[j] = ballots[j]
  <2>1. ballots \in Seq(Ballot)
    BY GovernorTypes
  <2>2. QED
    BY <1>1, <1>5, <1>6, <2>1
<1>10. \A j \in DOMAIN ballots : j \in 1..MaxBallots
  BY <1>1, <1>3 DEF ReceiptsKept
<1>11. \A j \in DOMAIN ballots : Balanced(ballots'[j], receipts'[j])
  <2>1. ASSUME NEW j \in DOMAIN ballots, j # i
        PROVE  Balanced(ballots'[j], receipts'[j])
    <3>1. ballots'[j] = ballots[j] /\ receipts'[j] = receipts[j]
      BY <1>8, <1>9, <1>10, <2>1
    <3>2. QED
      BY <3>1 DEF ReceiptsKept
  <2>2. QED
    BY <1>7, <1>8, <1>9, <2>1
<1>12. \A j \in 1..MaxBallots : j \notin DOMAIN ballots => receipts'[j] = [x \in Accounts |-> NoReceipt]
  BY <1>8 DEF ReceiptsKept
<1>13. QED
  BY <1>9, <1>11, <1>12 DEF ReceiptsKept, Balanced, Weighed, Siding

LEMMA ReceiptsStep ==
  ASSUME GovernorTypeOK, ReceiptsKept, [GovernorNext]_governorVars
  PROVE  ReceiptsKept'
<1>1. /\ ballots \in Seq(Ballot) /\ DOMAIN ballots = 1..Len(ballots) /\ Len(ballots) \in Nat
      /\ MaxBallots \in Nat
  BY GovernorTypes, GovernorAssumption
<1>2. ASSUME UNCHANGED <<ballots, receipts>>
      PROVE  ReceiptsKept'
  BY <1>2 DEF ReceiptsKept, Balanced, Weighed, Siding
<1>3. ASSUME NEW a \in Accounts, ProposeOnChain(a)
      PROVE  ReceiptsKept'
  <2>0. PICK n \in Nat : n = Len(ballots) + 1
    BY <1>1
  <2>1. PICK b \in Ballot : ballots' = Append(ballots, b) /\ b.for = 0 /\ b.against = 0 /\ b.abstain = 0
    <3> DEFINE b == [proposer |-> a, voteStart |-> Now + VOTING_DELAY,
                     voteEnd |-> Now + VOTING_DELAY + VOTING_PERIOD,
                     for |-> 0, against |-> 0, abstain |-> 0,
                     executedAt |-> 0, canceled |-> FALSE]
    <3>1. Now + VOTING_DELAY \in Nat /\ Now + VOTING_DELAY + VOTING_PERIOD \in Nat
      BY GovernorTypes, GovernorConstants
    <3>2. b \in Ballot /\ b.for = 0 /\ b.against = 0 /\ b.abstain = 0
      BY <3>1 DEF Ballot
    <3>3. ballots' = Append(ballots, b)
      BY <1>3 DEF ProposeOnChain
    <3> HIDE DEF b
    <3>4. QED
      BY <3>2, <3>3
  <2>2. receipts' = receipts /\ n <= MaxBallots
    BY <1>1, <1>3, <2>0 DEF ProposeOnChain
  <2>3. /\ DOMAIN ballots' = 1..n /\ Len(ballots') = n /\ ballots'[n] = b
        /\ \A j \in DOMAIN ballots : ballots'[j] = ballots[j]
    BY <2>0, <2>1, BallotAppended
  <2>4. receipts[n] = [x \in Accounts |-> NoReceipt]
    BY <1>1, <2>0, <2>2 DEF ReceiptsKept
  <2>5. Balanced(b, receipts[n])
    BY <2>1, <2>4, NoReceiptSum DEF Balanced
  <2>6. \A j \in DOMAIN ballots' : Balanced(ballots'[j], receipts[j])
    <3>1. ASSUME NEW j \in DOMAIN ballots', j # n
          PROVE  Balanced(ballots'[j], receipts[j])
      <4>1. j \in DOMAIN ballots
        BY <1>1, <2>0, <2>3, <3>1
      <4>2. QED
        BY <2>3, <4>1 DEF ReceiptsKept
    <3>2. QED
      BY <2>3, <2>5, <3>1
  <2>7. \A j \in 1..MaxBallots : j \notin DOMAIN ballots' => receipts[j] = [x \in Accounts |-> NoReceipt]
    BY <1>1, <2>0, <2>3 DEF ReceiptsKept
  <2>8. \A j \in DOMAIN ballots' : Balanced(ballots'[j], receipts'[j])
    BY <2>2, <2>6
  <2>9. QED
    BY <2>2, <2>3, <2>7, <2>8 DEF ReceiptsKept, Balanced, Weighed, Siding
<1>4. ASSUME NEW i \in DOMAIN ballots, ExecuteOnChain(i) \/ CancelOnChain(i)
      PROVE  ReceiptsKept'
  <2> DEFINE o == ballots[i]
  <2>1. o \in Ballot
    BY GovernorTypes
  <2>2. PICK b \in Ballot : /\ ballots' = [ballots EXCEPT ![i] = b]
                            /\ b.for = o.for /\ b.against = o.against /\ b.abstain = o.abstain
    <3>1. Now \in Nat
      BY GovernorTypes
    <3>2. \A b \in {[o EXCEPT !.executedAt = Now], [o EXCEPT !.canceled = TRUE]} :
            b \in Ballot /\ b.for = o.for /\ b.against = o.against /\ b.abstain = o.abstain
      BY <2>1, <3>1 DEF Ballot
    <3>3. \/ ballots' = [ballots EXCEPT ![i] = [o EXCEPT !.executedAt = Now]]
          \/ ballots' = [ballots EXCEPT ![i] = [o EXCEPT !.canceled = TRUE]]
      BY <1>4 DEF ExecuteOnChain, CancelOnChain
    <3> HIDE DEF o
    <3>4. QED
      BY <3>2, <3>3
  <2>3. receipts' = receipts
    BY <1>4 DEF ExecuteOnChain, CancelOnChain
  <2>4. /\ DOMAIN ballots' = DOMAIN ballots /\ ballots'[i] = b /\ Len(ballots') = Len(ballots)
        /\ \A j \in DOMAIN ballots : j # i => ballots'[j] = ballots[j]
    BY <1>1, <2>2
  <2>5. Balanced(b, receipts[i])
    BY <2>2 DEF ReceiptsKept, Balanced
  <2>6. \A j \in DOMAIN ballots : Balanced(ballots'[j], receipts[j])
    BY <2>4, <2>5 DEF ReceiptsKept
  <2>7. \A j \in DOMAIN ballots' : Balanced(ballots'[j], receipts'[j])
    BY <2>3, <2>4, <2>6
  <2>8. QED
    BY <2>3, <2>4, <2>7 DEF ReceiptsKept, Balanced, Weighed, Siding
<1>5. QED
  BY <1>2, <1>3, <1>4, ReceiptsVoteStep DEF GovernorNext, governorVars, MineBlock, UpdateVotingPower, SetPower

(* The contract's tallies are the sums of its receipts, and state() and      *)
(* execute() agree, for any accounts, weights, roles and periods             *)
(* (AllBrightGovernance.sol).                                                *)
THEOREM GovernorIsSound == GovernorSpec => []GovernorSound
<1>1. GovernorInit => ReceiptsKept
  <2> SUFFICES ASSUME GovernorInit
               PROVE  ReceiptsKept
    OBVIOUS
  <2>1. ballots = <<>> /\ receipts = [i \in 1..MaxBallots |-> [a \in Accounts |-> NoReceipt]]
    BY DEF GovernorInit
  <2>2. DOMAIN ballots = {} /\ Len(ballots) = 0 /\ MaxBallots \in Nat
    BY <2>1, GovernorAssumption
  <2>3. QED
    BY <2>1, <2>2 DEF ReceiptsKept
<1>2. GovernorTypeOK /\ ReceiptsKept /\ [GovernorNext]_governorVars => ReceiptsKept'
  BY ReceiptsStep
<1>3. GovernorTypeOK /\ ReceiptsKept /\ QueuedIsExecutable => GovernorSound
  BY ReceiptsKeptTallies DEF GovernorSound
<1>4. QED
  BY <1>1, <1>2, <1>3, GovernorTypeCorrect, QueuedIsExecutableHolds, PTL DEF GovernorSpec
-----------------------------------------------------------------------------
(* What a vote weighs.                                                       *)

(* The newest checkpoint holds the power of the moment, and every proposal   *)
(* starts at a timestamp, above every block number.                          *)
NewestIsCurrent ==
  \A a \in Accounts :
    votingPower[a] = IF checkpoints[a] = <<>> THEN 0
                     ELSE checkpoints[a][Len(checkpoints[a])].power

StartsAreTimes == \A i \in DOMAIN ballots : ballots[i].voteStart >= Genesis

(* A search for a timestamp among block numbers ends at the newest one. *)
LEMMA SearchFindsNewest ==
  ASSUME GovernorTypeOK, NewestIsCurrent, NEW a \in Accounts, NEW b \in Nat, b >= Genesis
  PROVE  PowerAt(a, b) = votingPower[a]
<1> DEFINE cps == checkpoints[a]
           older == {k \in DOMAIN cps : cps[k].block <= b}
<1>1. cps \in Seq(Checkpoint) /\ Len(cps) \in Nat /\ DOMAIN cps = 1..Len(cps)
  BY GovernorTypes
<1>2. \A k \in DOMAIN cps : cps[k].block <= b
  <2> SUFFICES ASSUME NEW k \in DOMAIN cps PROVE cps[k].block <= b
    OBVIOUS
  <2>1. cps[k] \in Checkpoint
    BY <1>1
  <2>2. cps[k].block \in 0..MaxHeight
    BY <2>1 DEF Checkpoint
  <2> QED
    BY <2>2, GovernorConstants
<1>3. older = 1..Len(cps)
  BY <1>1, <1>2
<1>4. PowerAt(a, b) = IF older = {} THEN 0 ELSE cps[Max(older)].power
  BY DEF PowerAt
<1>5. cps = <<>> <=> Len(cps) = 0
  BY <1>1
<1>6. Len(cps) > 0 => Max(1..Len(cps)) = Len(cps)
  <2> SUFFICES ASSUME Len(cps) > 0 PROVE Max(1..Len(cps)) = Len(cps)
    OBVIOUS
  <2> DEFINE n == Len(cps)
  <2>1. n \in 1..n /\ \A y \in 1..n : n >= y
    BY <1>1
  <2>2. \A x \in 1..n : (\A y \in 1..n : x >= y) => x = n
    BY <1>1, <2>1
  <2> HIDE DEF n
  <2> QED
    BY <2>1, <2>2 DEF Max, n
<1>7. votingPower[a] = IF cps = <<>> THEN 0 ELSE cps[Len(cps)].power
  BY DEF NewestIsCurrent
<1> HIDE DEF cps, older
<1> QED
  BY <1>1, <1>3, <1>4, <1>5, <1>6, <1>7

(* An update moves both, in a checkpoint of its own or of the same block. *)
LEMMA UpdateKeepsNewest ==
  ASSUME GovernorTypeOK, NewestIsCurrent, NEW a \in Accounts, NEW p \in Weights,
         UpdateVotingPower(a, p)
  PROVE  NewestIsCurrent'
<1> DEFINE cps == checkpoints[a]
           cp == [block |-> height, power |-> p]
           new == IF cps # <<>> /\ Last(cps).block = height
                  THEN [cps EXCEPT ![Len(cps)] = cp] ELSE Append(cps, cp)
<1>1. cps \in Seq(Checkpoint) /\ Len(cps) \in Nat /\ DOMAIN cps = 1..Len(cps)
  BY GovernorTypes
<1>2. votingPower' = [votingPower EXCEPT ![a] = p] /\ checkpoints' = [checkpoints EXCEPT ![a] = new]
  BY DEF UpdateVotingPower, SetPower
<1>3. /\ votingPower'[a] = p /\ checkpoints'[a] = new
      /\ \A u \in Accounts \ {a} : votingPower'[u] = votingPower[u] /\ checkpoints'[u] = checkpoints[u]
  <2> HIDE DEF new
  <2> QED
    BY <1>2, GovernorTypes
<1>4. new # <<>> /\ new[Len(new)] = cp
  <2>1. CASE cps # <<>> /\ Last(cps).block = height
    <3>1. new = [cps EXCEPT ![Len(cps)] = cp] /\ Len(cps) > 0
      BY <1>1, <2>1
    <3>2. Len(new) = Len(cps)
      BY <1>1, <3>1
    <3> HIDE DEF cps, cp, new
    <3> QED
      BY <1>1, <3>1, <3>2
  <2>2. CASE ~(cps # <<>> /\ Last(cps).block = height)
    <3>1. new = Append(cps, cp)
      BY <2>2
    <3> HIDE DEF cps, cp, new
    <3> QED
      BY <1>1, <3>1
  <2> QED
    BY <2>1, <2>2
<1>5. new[Len(new)].power = p
  <2> HIDE DEF new
  <2> QED
    BY <1>4
<1> HIDE DEF cps, cp, new
<1> QED
  BY <1>3, <1>4, <1>5 DEF NewestIsCurrent

LEMMA StartsStep ==
  ASSUME GovernorTypeOK, StartsAreTimes, [GovernorNext]_governorVars
  PROVE  StartsAreTimes'
<1>0. \A i \in DOMAIN ballots : ballots[i] \in Ballot
  BY GovernorTypes
<1>1. ASSUME NEW a \in Accounts, ProposeOnChain(a) PROVE StartsAreTimes'
  <2>1. PICK b \in Ballot : ballots' = Append(ballots, b) /\ b.voteStart = Now + VOTING_DELAY
    BY <1>1, NewBallot
  <2>2. b.voteStart >= Genesis
    BY <2>1, GovernorTypes, GovernorConstants DEF Now
  <2>3. \A i \in DOMAIN ballots' :
          \/ ballots'[i] = b
          \/ i \in DOMAIN ballots /\ ballots'[i] = ballots[i]
    <3>1. /\ DOMAIN ballots' = 1..(Len(ballots) + 1)
          /\ ballots'[Len(ballots) + 1] = b
          /\ \A j \in DOMAIN ballots : ballots'[j] = ballots[j]
      BY <2>1, BallotAppended
    <3>2. DOMAIN ballots = 1..Len(ballots) /\ Len(ballots) \in Nat
      BY GovernorTypes
    <3>3. ASSUME NEW i \in DOMAIN ballots'
          PROVE  i = Len(ballots) + 1 \/ i \in DOMAIN ballots
      BY <3>1, <3>2, <3>3
    <3> QED
      BY <3>1, <3>3
  <2> QED
    BY <2>2, <2>3 DEF StartsAreTimes
<1>2. ASSUME NEW i \in DOMAIN ballots, NEW b, ballots' = [ballots EXCEPT ![i] = b],
             b.voteStart = ballots[i].voteStart
      PROVE  StartsAreTimes'
  BY <1>2, OneBallotRewritten DEF StartsAreTimes
<1>3. ASSUME NEW i \in DOMAIN ballots, NEW a \in Accounts,
             NEW s \in {For, Against, Abstain}, CastVoteOnChain(i, a, s)
      PROVE  StartsAreTimes'
  <2>1. PICK b : ballots' = [ballots EXCEPT ![i] = b] /\ b.voteStart = ballots[i].voteStart
    BY <1>3, VotedBallot
  <2> QED
    BY <1>2, <2>1
<1>4. ASSUME NEW i \in DOMAIN ballots, ExecuteOnChain(i) \/ CancelOnChain(i)
      PROVE  StartsAreTimes'
  <2>1. \/ ballots' = [ballots EXCEPT ![i] = [ballots[i] EXCEPT !.executedAt = Now]]
        \/ ballots' = [ballots EXCEPT ![i] = [ballots[i] EXCEPT !.canceled = TRUE]]
    BY <1>4, ExecutedBallot, CancelledBallot
  <2>2. /\ [ballots[i] EXCEPT !.executedAt = Now].voteStart = ballots[i].voteStart
        /\ [ballots[i] EXCEPT !.canceled = TRUE].voteStart = ballots[i].voteStart
    BY <1>0 DEF Ballot
  <2> QED
    BY <1>2, <2>1, <2>2
<1>5. CASE MineBlock \/ UNCHANGED governorVars
            \/ \E a \in Accounts, p \in Weights : UpdateVotingPower(a, p)
  <2>1. ballots' = ballots
    BY <1>5 DEF MineBlock, governorVars, UpdateVotingPower, SetPower
  <2> QED
    BY <2>1 DEF StartsAreTimes
<1> QED
  BY <1>1, <1>3, <1>4, <1>5 DEF GovernorNext

LEMMA NewestStep ==
  ASSUME GovernorTypeOK, NewestIsCurrent, [GovernorNext]_governorVars
  PROVE  NewestIsCurrent'
<1>1. CASE \E a \in Accounts, p \in Weights : UpdateVotingPower(a, p)
  BY <1>1, UpdateKeepsNewest
<1>2. CASE ~\E a \in Accounts, p \in Weights : UpdateVotingPower(a, p)
  <2>1. UNCHANGED <<votingPower, checkpoints>>
    BY <1>2 DEF GovernorNext, governorVars, MineBlock, ProposeOnChain, CastVoteOnChain,
                ExecuteOnChain, CancelOnChain
  <2> QED
    BY <2>1 DEF NewestIsCurrent
<1> QED
  BY <1>1, <1>2

(* A vote weighs exactly what the account has when it is cast, for any       *)
(* history of powers: castVote searches the checkpoints for a timestamp and  *)
(* finds the newest one, which updateVotingPower keeps current.              *)
THEOREM VoteCarriesPowerHolds == GovernorSpec => VoteCarriesPower
<1> DEFINE CarriesNow == \A i \in DOMAIN receipts, a \in Accounts :
                           receipts'[i][a] # receipts[i][a] =>
                             receipts'[i][a].weight = votingPower[a]
           Inv == NewestIsCurrent /\ StartsAreTimes
<1>1. GovernorInit => Inv
  BY DEF GovernorInit, NewestIsCurrent, StartsAreTimes
<1>2. GovernorTypeOK /\ Inv /\ [GovernorNext]_governorVars => Inv'
  BY NewestStep, StartsStep
<1>3. GovernorTypeOK /\ Inv /\ [GovernorNext]_governorVars => [CarriesNow]_governorVars
  <2> SUFFICES ASSUME GovernorTypeOK, Inv, [GovernorNext]_governorVars
               PROVE  CarriesNow
    OBVIOUS
  <2>1. ASSUME NEW i \in DOMAIN ballots, NEW a \in Accounts,
               NEW s \in {For, Against, Abstain}, CastVoteOnChain(i, a, s)
        PROVE  CarriesNow
    <3> DEFINE w == PowerAt(a, ballots[i].voteStart)
    <3>1. ballots[i].voteStart \in Nat /\ ballots[i].voteStart >= Genesis
      <4>1. ballots[i] \in Ballot
        BY GovernorTypes
      <4> QED
        BY <4>1 DEF Ballot, StartsAreTimes
    <3>2. w = votingPower[a]
      BY <3>1, SearchFindsNewest
    <3>3. receipts' = [receipts EXCEPT ![i][a] = [support |-> s, weight |-> w]]
      BY <2>1 DEF CastVoteOnChain
    <3> HIDE DEF w
    <3>4. \A j \in DOMAIN receipts, u \in Accounts :
            \/ receipts'[j][u] = receipts[j][u]
            \/ u = a /\ receipts'[j][u].weight = w
      <4>1. receipts \in [1..MaxBallots -> [Accounts -> Receipt]]
        BY GovernorTypes
      <4> TAKE j \in DOMAIN receipts, u \in Accounts
      <4>3. receipts'[j] = IF j = i THEN [receipts[j] EXCEPT ![a] = [support |-> s, weight |-> w]]
                           ELSE receipts[j]
        BY <3>3
      <4>4. receipts[j] \in [Accounts -> Receipt]
        BY <4>1
      <4> QED
        BY <4>3, <4>4
    <3> QED
      BY <3>2, <3>4
  <2>2. CASE UNCHANGED receipts
    BY <2>2
  <2> QED
    BY <2>1, <2>2 DEF GovernorNext, governorVars, MineBlock, UpdateVotingPower, SetPower,
                      ProposeOnChain, ExecuteOnChain, CancelOnChain
<1> QED
  BY <1>1, <1>2, <1>3, GovernorTypeCorrect, PTL DEF GovernorSpec, VoteCarriesPower
=============================================================================
