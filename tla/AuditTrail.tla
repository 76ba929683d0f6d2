----------------------------- MODULE AuditTrail -----------------------------
(***************************************************************************)
(* The reflection pipeline of crates/governance: an observation is judged  *)
(* by the Gatekeeper, the decision is appended to the audit log, and a     *)
(* card is updated when the observation was approved (reflection.rs,       *)
(* gatekeeper.rs, audit.rs).  The Gatekeeper's mutex is held from the      *)
(* judgement to the verdict and released before the card is updated.       *)
(*                                                                         *)
(* A log line is written in two writes, the JSON text and the line feed,   *)
(* either of which may fail, and the process may be killed in between.     *)
(* The log is a sequence of what those writes left.                        *)
(***************************************************************************)
EXTENDS Integers, Sequences, FiniteSets, SequencesExt

CONSTANTS
  Workers,         \* threads that submit observations; the daemon has one
  Cards,
  Actors,
  Observations,    \* [card, author, evidence, flaws]: see Observation
  NoOne, None,
  Torn, LineFeed,  \* a part of a JSON text; the line feed
  MaxSubmissions   \* bound: observations submitted

ASSUME AuditAssumption ==
  /\ NoOne \notin Workers
  /\ None \notin Nat
  /\ MaxSubmissions \in Nat

(* The criteria an observation itself can fail.  Integrity cannot fail: the  *)
(* hash is computed from the evidence on the way.  Observations of a card    *)
(* that does not exist publish nothing and are left out.                     *)
Criteria == {"Evidence", "Security", "Governance", "PolicyCompliance",
             "AuditEligibility"}

Observation == [card : Cards, author : Actors, evidence : Nat,
                flaws : SUBSET Criteria]

ASSUME ObservationsAssumption == Observations \subseteq Observation

Decisions == {"approved", "rejected", "flagged"}

(* AuditEntry *)
Entries == [seq : Nat, actor : Actors \union {None}, target : Cards,
            outcome : Decisions, evidence : Nat]

ASSUME LogAssumption ==
  Torn # LineFeed /\ Torn \notin Entries /\ LineFeed \notin Entries

VARIABLES
  gate,         \* who holds the Gatekeeper's mutex
  work,         \* where each worker is, with its observation and verdict
  seq,          \* AuditStore.seq: the next sequence number
  file,         \* the log on disk
  memory,       \* AuditStore.inner
  verdicts,     \* Gatekeeper.verdicts, by card
  cards,        \* what each card shows; None is PendingVerification
  acked,        \* history: the entries whose number was returned, in order
  submissions   \* observations submitted so far

vars == <<gate, work, seq, file, memory, verdicts, cards, acked, submissions>>

Idle == [pc |-> "idle", obs |-> None, verifier |-> None, decision |-> None,
         seq |-> None, audit |-> None]

Init ==
  /\ gate = NoOne
  /\ work = [w \in Workers |-> Idle]
  /\ seq = 1
  /\ file = <<>>
  /\ memory = <<>>
  /\ verdicts = [c \in Cards |-> None]
  /\ cards = [c \in Cards |-> None]
  /\ acked = <<>>
  /\ submissions = 0

(* Mutant: the author is not compared with the verifier. *)
FailedSelfApproved(obs, verifier) ==
  obs.flaws \union (IF verifier = None THEN {"ZeroTrust"} ELSE {})

(* None stands for an empty verifier. *)
Failed(obs, verifier) ==
  obs.flaws \union (IF verifier \in {None, obs.author} THEN {"ZeroTrust"} ELSE {})

Decision(obs, verifier) ==
  LET failed == Failed(obs, verifier)
  IN IF failed = {} THEN "approved"
     ELSE IF "ZeroTrust" \notin failed /\ Cardinality(failed) <= 2 THEN "flagged"
     ELSE "rejected"

Entry(w) == [seq |-> work[w].seq, actor |-> work[w].verifier,
             target |-> work[w].obs.card, outcome |-> work[w].decision,
             evidence |-> work[w].obs.evidence]

-----------------------------------------------------------------------------
(* submit_observation, evaluate and the numbering in append: the Gatekeeper's *)
(* mutex is taken, the decision made and the number drawn.                    *)
Evaluate(w, obs, verifier) ==
  /\ work[w].pc = "idle"
  /\ gate = NoOne
  /\ submissions < MaxSubmissions
  /\ gate' = w
  /\ work' = [work EXCEPT ![w] =
       [pc |-> "open", obs |-> obs, verifier |-> verifier,
        decision |-> Decision(obs, verifier), seq |-> seq, audit |-> None]]
  /\ seq' = seq + 1
  /\ submissions' = submissions + 1
  /\ UNCHANGED <<file, memory, verdicts, cards, acked>>

(* append returns an error, which evaluate drops: the number stays unused.   *)
OpenFails(w) ==
  /\ work[w].pc = "open"
  /\ work' = [work EXCEPT ![w].pc = "verdict"]
  /\ UNCHANGED <<gate, seq, file, memory, verdicts, cards, acked, submissions>>

WriteTorn(w) ==
  /\ work[w].pc = "open"
  /\ file' = Append(file, Torn)
  /\ work' = [work EXCEPT ![w].pc = "verdict"]
  /\ UNCHANGED <<gate, seq, memory, verdicts, cards, acked, submissions>>

(* Mutant: the log is opened without append and truncated. *)
WriteTruncating(w) ==
  /\ work[w].pc = "open"
  /\ file' = <<Entry(w)>>
  /\ work' = [work EXCEPT ![w].pc = "newline"]
  /\ UNCHANGED <<gate, seq, memory, verdicts, cards, acked, submissions>>

WriteEntry(w) ==
  /\ work[w].pc = "open"
  /\ file' = Append(file, Entry(w))
  /\ work' = [work EXCEPT ![w].pc = "newline"]
  /\ UNCHANGED <<gate, seq, memory, verdicts, cards, acked, submissions>>

WriteLineFeed(w) ==
  /\ work[w].pc = "newline"
  /\ file' = Append(file, LineFeed)
  /\ memory' = Append(memory, Entry(w))
  /\ acked' = Append(acked, Entry(w))
  /\ work' = [work EXCEPT ![w].pc = "verdict", ![w].audit = work[w].seq]
  /\ UNCHANGED <<gate, seq, verdicts, cards, submissions>>

LineFeedFails(w) ==
  /\ work[w].pc = "newline"
  /\ work' = [work EXCEPT ![w].pc = "verdict"]
  /\ UNCHANGED <<gate, seq, file, memory, verdicts, cards, acked, submissions>>

-----------------------------------------------------------------------------
(* Mutants: flagged observations are published too; the first verdict on a   *)
(* card is kept.                                                             *)
VerdictPublishingFlagged(w) ==
  /\ work[w].pc = "verdict"
  /\ verdicts' = [verdicts EXCEPT ![work[w].obs.card] =
       [decision |-> work[w].decision, audit |-> work[w].audit]]
  /\ gate' = NoOne
  /\ work' = [work EXCEPT ![w] =
       IF work[w].decision # "rejected" THEN [@ EXCEPT !.pc = "publish"] ELSE Idle]
  /\ UNCHANGED <<seq, file, memory, cards, acked, submissions>>

VerdictOnce(w) ==
  /\ work[w].pc = "verdict"
  /\ verdicts' = [verdicts EXCEPT ![work[w].obs.card] =
       IF @ # None THEN @
       ELSE [decision |-> work[w].decision, audit |-> work[w].audit]]
  /\ gate' = NoOne
  /\ work' = [work EXCEPT ![w] =
       IF work[w].decision = "approved" THEN [@ EXCEPT !.pc = "publish"] ELSE Idle]
  /\ UNCHANGED <<seq, file, memory, cards, acked, submissions>>

(* The verdict is recorded under the card's fixed id and the mutex released. *)
Verdict(w) ==
  /\ work[w].pc = "verdict"
  /\ verdicts' = [verdicts EXCEPT ![work[w].obs.card] =
       [decision |-> work[w].decision, audit |-> work[w].audit]]
  /\ gate' = NoOne
  /\ work' = [work EXCEPT ![w] =
       IF work[w].decision = "approved" THEN [@ EXCEPT !.pc = "publish"] ELSE Idle]
  /\ UNCHANGED <<seq, file, memory, cards, acked, submissions>>

Shown(w) == [obs |-> work[w].obs, verifier |-> work[w].verifier,
             audit |-> work[w].audit]

Publish(w) ==
  /\ work[w].pc = "publish"
  /\ cards' = [cards EXCEPT ![work[w].obs.card] = Shown(w)]
  /\ work' = [work EXCEPT ![w] = Idle]
  /\ UNCHANGED <<gate, seq, file, memory, verdicts, acked, submissions>>

-----------------------------------------------------------------------------
(* The lines of a log that parse: a whole JSON text alone between line feeds *)
(* (or the ends of the log).                                                 *)
Parsed(log) ==
  {i \in DOMAIN log : /\ log[i] \notin {Torn, LineFeed}
                      /\ i = 1 \/ log[i - 1] = LineFeed
                      /\ i = Len(log) \/ log[i + 1] = LineFeed}

Before(log, i) == {j \in Parsed(log) : j <= i}

KthLine(log, k) == CHOOSE i \in Parsed(log) : Cardinality(Before(log, i)) = k

Replay(log) == [k \in 1..Cardinality(Parsed(log)) |-> log[KthLine(log, k)]]

NextSeq(entries) ==
  1 + Max({0} \union {entries[k].seq : k \in DOMAIN entries})

(* The process dies, perhaps in the middle of a line, and is started again:  *)
(* AuditStore::open replays the log; cards and verdicts start empty.         *)
Restart ==
  /\ \/ UNCHANGED file
     \/ /\ \E w \in Workers : work[w].pc = "open"
        /\ file' = Append(file, Torn)
  /\ memory' = Replay(file')
  /\ seq' = NextSeq(Replay(file'))
  /\ gate' = NoOne
  /\ work' = [w \in Workers |-> Idle]
  /\ verdicts' = [c \in Cards |-> None]
  /\ cards' = [c \in Cards |-> None]
  /\ UNCHANGED <<acked, submissions>>

Next ==
  \/ \E w \in Workers, obs \in Observations, verifier \in Actors \union {None} :
       Evaluate(w, obs, verifier)
  \/ \E w \in Workers :
       \/ OpenFails(w) \/ WriteTorn(w) \/ WriteEntry(w)
       \/ WriteLineFeed(w) \/ LineFeedFails(w)
       \/ Verdict(w) \/ Publish(w)
  \/ Restart

Spec == Init /\ [][Next]_vars

-----------------------------------------------------------------------------
Numbers == Nat \union {None}

Busy == [pc : {"open", "newline", "verdict", "publish"}, obs : Observations,
         verifier : Actors \union {None}, decision : Decisions,
         seq : Nat, audit : Numbers]

TypeOK ==
  /\ gate \in Workers \union {NoOne}
  /\ work \in [Workers -> Busy \union {Idle}]
  /\ seq \in Nat \ {0}
  /\ file \in Seq(Entries \union {Torn, LineFeed})
  /\ memory \in Seq(Entries)
  /\ verdicts \in [Cards -> [decision : Decisions, audit : Numbers] \union {None}]
  /\ cards \in [Cards -> [obs : Observations, verifier : Actors \union {None},
                          audit : Numbers] \union {None}]
  /\ acked \in Seq(Entries)
  /\ submissions \in Nat

(* "only publishes a card update when the Gatekeeper returns Approved",      *)
(* "never by its own author": what a card shows has no flaw and was verified *)
(* by another actor, whoever submitted what in between.                      *)
PublishedIsVerified ==
  \A c \in Cards : cards[c] # None =>
    /\ cards[c].obs.card = c
    /\ cards[c].obs.flaws = {}
    /\ cards[c].verifier \notin {None, cards[c].obs.author}

(* No text of the log continues a line that was left torn or without its     *)
(* line feed.                                                                *)
Joined(log) == {i \in 2..Len(log) : LineFeed \notin {log[i - 1], log[i]}}
Intact(log) == Joined(log) = {}

(* "Every decision is persisted to the audit trail": what a card shows with  *)
(* a number is backed by an approval in the log.  (An append that fails      *)
(* leaves the card without a number: gatekeeper.rs drops the error.)         *)
PublishedIsAudited ==
  Intact(file) => \A c \in Cards : cards[c] # None /\ cards[c].audit # None =>
    \E k \in DOMAIN Replay(file) :
      /\ Replay(file)[k].seq = cards[c].audit
      /\ Replay(file)[k].target = c
      /\ Replay(file)[k].outcome = "approved"
      /\ Replay(file)[k].evidence = cards[c].obs.evidence

(* "reloaded on startup so the trail survives process restarts": an entry    *)
(* whose number was returned is found by every later replay.                 *)
AckedSurvives == \A k \in DOMAIN acked : Contains(Replay(file), acked[k])

(* What the code achieves of AckedSurvives: an entry whose number was        *)
(* returned is lost only when it was appended to an unfinished line.         *)
LostOnlyInJoinedLine ==
  \A k \in DOMAIN acked :
    \/ Contains(Replay(file), acked[k])
    \/ \E i \in Joined(file) : file[i] = acked[k]

(* "Append-only": no step, a failed write or a restart included, takes an    *)
(* entry out of the replayed trail or changes the order of the entries in    *)
(* it, unless it continues an unfinished line.                               *)
TrailAppendOnly ==
  [][Intact(file') => IsPrefix(Replay(file), Replay(file'))]_vars

(* Numbers are returned in increasing order, across failures and restarts:   *)
(* while no line was lost, a number identifies one decision.                 *)
AckedInOrder ==
  Intact(file) => \A i, j \in DOMAIN acked : i < j => acked[i].seq < acked[j].seq

(* get_verdict and the trail agree: while the mutex is free, the verdict on  *)
(* a card that has a number is the last entry about that card.               *)
VerdictIsLastEntry ==
  gate = NoOne => \A c \in Cards :
    verdicts[c] # None /\ verdicts[c].audit # None =>
      \E k \in DOMAIN memory :
        /\ memory[k].seq = verdicts[c].audit
        /\ memory[k].outcome = verdicts[c].decision
        /\ \A l \in DOMAIN memory : memory[l].target = c => l <= k

(* The trail, what was answered from it and the verdicts beside it.          *)
TrailInOrder == TypeOK /\ LostOnlyInJoinedLine /\ AckedInOrder /\ VerdictIsLastEntry

=============================================================================
