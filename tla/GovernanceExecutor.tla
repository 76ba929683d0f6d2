------------------------- MODULE GovernanceExecutor -------------------------
(***************************************************************************)
(* The off-chain life of a governance proposal                             *)
(* (backend/m300_governance_executor.rs): creation, voting, timelock,      *)
(* execution, expiry and cancellation.                                     *)
(*                                                                         *)
(* Every handler but create_proposal holds the write guard of `proposals`  *)
(* from its first read to its last write and is one action here.           *)
(* create_proposal holds only the guard of next_proposal_id across its two *)
(* insertions and is two actions.  Several handlers read the system clock  *)
(* before they wait for a guard, so they work with a reading that may be   *)
(* up to MaxWait old; cast_vote reads the clock twice.                     *)
(*                                                                         *)
(* The two proposal queues are never filled, and the counters are only     *)
(* reported; neither is modelled.                                          *)
(***************************************************************************)
EXTENDS Integers, Sequences, FiniteSetsExt

CONSTANTS
  Voters,             \* addresses that propose, vote and cancel
  Types,              \* proposal types in use
  Powers,             \* voting powers a caller may pass
  ProposalThreshold,  \* config.proposal_threshold
  QuorumPercent,      \* config.quorum_threshold, in percent
  ApprovalPercent,    \* config.approval_threshold, in percent
  VotingPeriod,       \* config.voting_period_ms, in clock units
  TimelockDelay,      \* config.timelock_delay_ms
  ExecutionDelay,     \* config.execution_delay_ms
  MaxProposals,       \* bound: proposals created
  MaxVotes,           \* bound: votes a proposal's tally can absorb
  MaxTime,            \* bound: the clock
  MaxWait             \* bound: age of a clock reading when it is used

ASSUME GovernanceAssumption ==
  /\ Types \subseteq {"ParameterChange", "PolicyUpdate", "EmergencyAction",
                      "CapitalAllocation", "ModuleUpgrade"}
  /\ Powers \subseteq Nat
  /\ {ProposalThreshold, QuorumPercent, ApprovalPercent, VotingPeriod,
      TimelockDelay, ExecutionDelay, MaxProposals, MaxVotes, MaxTime,
      MaxWait} \subseteq Nat

VARIABLES
  clock,      \* SystemTime::now()
  paused,     \* emergency_paused and the global GOVERNANCE_PAUSED
  proposals,  \* the map `proposals`; ids are handed out in order, so it
              \* is a sequence, and next_proposal_id is one past its end
  votes,      \* the map `votes`: the recorded votes of each proposal
  creating    \* the proposal whose create_proposal has yet to insert its
              \* empty vote map, or 0; it holds next_proposal_id's guard

vars == <<clock, paused, proposals, votes, creating>>

Ids      == 1..MaxProposals
Created  == DOMAIN proposals
Statuses == {"Active", "Timelocked", "Executable", "Executed", "Defeated",
             "Cancelled", "Expired"}

(* GovernanceProposal.  timelock_end_ms and execution_deadline_ms are fixed  *)
(* offsets of voting_end_ms and are computed from it.                        *)
Proposal ==
  [status : Statuses, type : Types, proposer : Voters, votingEnd : Nat,
   for : Nat, against : Nat, total : Nat, executedAt : Nat]

Vote == [voter : Voters, support : BOOLEAN, power : Powers]

RequiresTimelock(p) == p.type # "EmergencyAction"

(* When the last delay before execution is over. *)
ReadyAt(p) ==
  IF RequiresTimelock(p) THEN p.votingEnd + TimelockDelay ELSE p.votingEnd

Deadline(p) == ReadyAt(p) + ExecutionDelay

Init ==
  /\ clock = 0
  /\ paused = FALSE
  /\ proposals = <<>>
  /\ votes = [i \in Ids |-> {}]
  /\ creating = 0

(* A reading of the clock taken at most MaxWait ago. *)
Reading(t) == t \in Nat /\ t <= clock /\ clock <= t + MaxWait

-----------------------------------------------------------------------------
(* create_proposal: the proposal becomes visible before its vote map is.     *)
(* The proposer's power is part of the total from the start.                 *)
NewProposal(type, proposer, power, now) ==
  [status |-> "Active", type |-> type, proposer |-> proposer,
   votingEnd |-> now + VotingPeriod, for |-> 0, against |-> 0,
   total |-> power, executedAt |-> 0]

Create(type, proposer, power, now) ==
  /\ creating = 0
  /\ Len(proposals) < MaxProposals
  /\ paused => type = "EmergencyAction"
  /\ power >= ProposalThreshold
  /\ Reading(now)
  /\ proposals' = Append(proposals, NewProposal(type, proposer, power, now))
  /\ creating' = Len(proposals')
  /\ UNCHANGED <<clock, paused, votes>>

InsertVoteMap ==
  /\ creating # 0
  /\ votes' = [votes EXCEPT ![creating] = {}]
  /\ creating' = 0
  /\ UNCHANGED <<clock, paused, proposals>>

-----------------------------------------------------------------------------
(* cast_vote and check_proposal_status *)

(* quorum = (for + against) / total and approval = for / (for + against),   *)
(* an approval of 0 when nobody voted.                                      *)
QuorumReached(p) == 100 * (p.for + p.against) >= QuorumPercent * p.total

ApprovalReached(p) ==
  IF p.for + p.against = 0
  THEN ApprovalPercent = 0
  ELSE 100 * p.for >= ApprovalPercent * (p.for + p.against)

Passed(p) == QuorumReached(p) /\ ApprovalReached(p)

(* Mutant: a passed proposal skips its timelock. *)
StatusAtUnlocked(p, now) ==
  IF p.total = 0 \/ now < p.votingEnd THEN p.status
  ELSE IF ~Passed(p) THEN "Defeated" ELSE "Executable"

StatusAt(p, now) ==
  IF p.total = 0 \/ now < p.votingEnd THEN p.status
  ELSE IF ~Passed(p) THEN "Defeated"
  ELSE IF now < ReadyAt(p) THEN "Timelocked" ELSE "Executable"

(* Mutant: opposing votes are recorded and never counted. *)
TalliedForOnly(p, support, power) ==
  [p EXCEPT !.for = IF support THEN @ + power ELSE @, !.total = @ + power]

(* Mutant: the electorate shrinks with every vote. *)
TalliedShrinking(p, support, power) ==
  [p EXCEPT !.for = IF support THEN @ + power ELSE @,
            !.against = IF support THEN @ ELSE @ + power,
            !.total = @ - power]

Tallied(p, support, power) ==
  [p EXCEPT !.for     = IF support THEN @ + power ELSE @,
            !.against = IF support THEN @ ELSE @ + power,
            !.total   = @ + power]

(* Voting starts when the proposal is created, so its start bounds nothing. *)
Votable(p) == p.status = "Active" /\ clock <= p.votingEnd

(* The second clock reading, in check_proposal_status, may come `later`. A *)
(* voter is not asked whether it voted before; the map keeps its last vote. *)
CastVote(i, vote, later) ==
  LET p == Tallied(proposals[i], vote.support, vote.power)
  IN /\ Votable(proposals[i])
     /\ proposals[i].for + proposals[i].against + vote.power <= MaxVotes
     /\ clock + later <= MaxTime
     /\ proposals' = [proposals EXCEPT ![i] =
                        [p EXCEPT !.status = StatusAt(p, clock + later)]]
     /\ votes' = [votes EXCEPT ![i] =
                    {b \in @ : b.voter # vote.voter} \union {vote}]
     /\ clock' = clock + later
     /\ UNCHANGED <<paused, creating>>

-----------------------------------------------------------------------------
(* Mutant: an executable proposal is not asked for. *)
ExecuteAnyClosed(i) ==
  /\ proposals[i].status \in {"Executable", "Defeated"}
  /\ proposals' = [proposals EXCEPT ![i] =
       IF clock > Deadline(@)
       THEN [@ EXCEPT !.status = "Expired"]
       ELSE [@ EXCEPT !.status = "Executed", !.executedAt = clock]]
  /\ UNCHANGED <<clock, paused, votes, creating>>

(* execute_proposal: only the status and the deadline are checked; neither   *)
(* the pause nor the executor is.                                            *)
Execute(i) ==
  /\ proposals[i].status = "Executable"
  /\ proposals' = [proposals EXCEPT ![i] =
       IF clock > Deadline(@)
       THEN [@ EXCEPT !.status = "Expired"]
       ELSE [@ EXCEPT !.status = "Executed", !.executedAt = clock]]
  /\ UNCHANGED <<clock, paused, votes, creating>>

(* cancel_proposal; no proposal is ever Pending. *)
Cancel(i, canceller) ==
  /\ proposals[i].status = "Active"
  /\ proposals[i].proposer = canceller
  /\ proposals' = [proposals EXCEPT ![i].status = "Cancelled"]
  /\ UNCHANGED <<clock, paused, votes, creating>>

(* process_timelock_queue and process_execution_queue walk the whole map. *)
Unlocked(p, now) ==
  IF p.status = "Timelocked" /\ now >= ReadyAt(p)
  THEN [p EXCEPT !.status = "Executable"] ELSE p

ProcessTimelockQueue(now) ==
  /\ Reading(now)
  /\ proposals' = [i \in Created |-> Unlocked(proposals[i], now)]
  /\ UNCHANGED <<clock, paused, votes, creating>>

Lapsed(p, now) ==
  IF p.status = "Executable" /\ now > Deadline(p)
  THEN [p EXCEPT !.status = "Expired"] ELSE p

ProcessExecutionQueue(now) ==
  /\ Reading(now)
  /\ proposals' = [i \in Created |-> Lapsed(proposals[i], now)]
  /\ UNCHANGED <<clock, paused, votes, creating>>

(* emergency_pause and emergency_resume *)
SetPaused(flag) ==
  /\ paused' = flag
  /\ UNCHANGED <<clock, proposals, votes, creating>>

Tick ==
  /\ clock < MaxTime
  /\ clock' = clock + 1
  /\ UNCHANGED <<paused, proposals, votes, creating>>

Next ==
  \/ \E type \in Types, v \in Voters, power \in Powers, now \in 0..clock :
       Create(type, v, power, now)
  \/ \E i \in Created, vote \in Vote, later \in {0, 1} : CastVote(i, vote, later)
  \/ InsertVoteMap
  \/ \E i \in Created : Execute(i)
  \/ \E i \in Created, v \in Voters : Cancel(i, v)
  \/ \E now \in 0..clock : ProcessTimelockQueue(now)
  \/ \E now \in 0..clock : ProcessExecutionQueue(now)
  \/ \E flag \in BOOLEAN : SetPaused(flag)
  \/ Tick

Spec == Init /\ [][Next]_vars

-----------------------------------------------------------------------------
TypeOK ==
  /\ clock \in Nat
  /\ paused \in BOOLEAN
  /\ proposals \in Seq(Proposal)
  /\ Len(proposals) <= MaxProposals
  /\ votes \in [Ids -> SUBSET Vote]
  /\ creating \in 0..MaxProposals

(* execute_proposal trusts a status that other handlers, working with other  *)
(* clock readings, have set: whatever their order, an executed proposal met  *)
(* quorum and approval on its final tally, sat out its voting period and its *)
(* timelock, and was not late.                                               *)
ExecutedLawfully ==
  \A i \in Created :
    LET p == proposals[i]
    IN p.status = "Executed" =>
         Passed(p) /\ ReadyAt(p) <= p.executedAt /\ p.executedAt <= Deadline(p)

PowerOf == [b \in Vote |-> b.power]

RecordedPower(i, support) ==
  SumFunctionOnSet(PowerOf, {b \in votes[i] : b.support = support})

(* A vote on record has been counted: votes cast again and votes cast while  *)
(* the proposal is being created can only be missing from the record.        *)
RecordedIsCounted ==
  \A i \in Created : /\ RecordedPower(i, TRUE) <= proposals[i].for
                 /\ RecordedPower(i, FALSE) <= proposals[i].against

(* "Record vote": the recorded votes are the votes that were counted. *)
CountedIsRecorded ==
  \A i \in Created : /\ RecordedPower(i, TRUE) = proposals[i].for
                 /\ RecordedPower(i, FALSE) = proposals[i].against

-----------------------------------------------------------------------------
(* The executor implements ProposalLife.  A proposal's voting is closed by   *)
(* the vote that finds it over; a cancelled or expired one is dropped.  What *)
(* the proposer and the voters add to the total alone counts as present.     *)
PhaseOf(status) ==
  CASE status = "Active" -> "open"
    [] status \in {"Timelocked", "Executable", "Defeated"} -> "closed"
    [] status = "Executed" -> "executed"
    [] OTHER -> "dropped"

LifeOf(p) ==
  [phase |-> PhaseOf(p.status),
   tally |-> [for |-> p.for, against |-> p.against,
              other |-> p.total - p.for - p.against]]

Carrying(t) ==
  LET cast == t.for + t.against
  IN /\ 100 * cast >= QuorumPercent * (cast + t.other)
     /\ 100 * t.for >= ApprovalPercent * cast

Life == INSTANCE ProposalLife WITH
  Carries <- Carrying, life <- [i \in Created |-> LifeOf(proposals[i])]

(* Every history of the executor is a history of ProposalLife: the status a  *)
(* handler set earlier, the queue runs on old clock readings and the pauses  *)
(* never let a proposal be executed twice, before its voting has closed or   *)
(* on a tally that does not carry it, and no tally changes after closing.    *)
ExecutorKeepsPromise == Life!LifeSpec
=============================================================================
