------------------------------ MODULE Governor ------------------------------
(***************************************************************************)
(* The on-chain governor (contracts/AllBrightGovernance.sol): checkpointed *)
(* voting power, proposals, votes, execution after a delay, cancellation.  *)
(*                                                                         *)
(* A transaction is one action and happens in the current block.  One      *)
(* block is mined per unit of time, so block.timestamp is Genesis plus the *)
(* height; timestamps are larger than any height, as on every chain, and   *)
(* no contract lives in block 0, so a checkpointHistory of zero, which     *)
(* getVotingPower asks for first, says that there is no checkpoint.        *)
(* delegate writes two maps that nothing reads and is left out.  The call  *)
(* a proposal carries goes through an inherited function; if it fails the  *)
(* transaction has not happened.                                           *)
(***************************************************************************)
EXTENDS Integers, Sequences, SequencesExt, FiniteSetsExt

CONSTANTS
  Accounts,         \* addresses that hold voting power
  Proposers,        \* addresses with PROPOSER_ROLE
  Cancellers,       \* addresses with CANCELLER_ROLE
  Weights,          \* voting powers the admin may set
  QUORUM_THRESHOLD, VOTING_DELAY, VOTING_PERIOD, TIMELOCK_DELAY,
  Genesis,          \* timestamp of block 0
  MaxHeight,        \* bound: blocks mined
  MaxBallots,       \* bound: proposals
  MaxCheckpoints    \* bound: checkpoints of an account

ASSUME GovernorAssumption ==
  /\ IsFiniteSet(Accounts) /\ Weights \subseteq Nat
  /\ {QUORUM_THRESHOLD, VOTING_DELAY, VOTING_PERIOD, TIMELOCK_DELAY, Genesis,
      MaxHeight, MaxBallots, MaxCheckpoints} \subseteq Nat
  /\ Genesis > MaxHeight /\ MaxHeight > 0
  /\ QUORUM_THRESHOLD > 0 /\ VOTING_PERIOD > 0 /\ TIMELOCK_DELAY > 0

VARIABLES
  height,       \* block.number
  votingPower,  \* per account, the power it has now
  checkpoints,  \* per account, the sequence of its checkpoints
  ballots,      \* the contract's proposals, by id
  receipts      \* votes: per proposal and account, the support and weight

governorVars == <<height, votingPower, checkpoints, ballots, receipts>>

Now == Genesis + height
Against == 0
For == 1
Abstain == 2

Checkpoint == [block : 0..MaxHeight, power : Weights]

Ballot ==
  [proposer : Accounts, voteStart : Nat, voteEnd : Nat, for : Nat,
   against : Nat, abstain : Nat, executedAt : Nat, canceled : BOOLEAN]

Receipt == [support : {For, Against, Abstain}, weight : Nat]

NoReceipt == [support |-> Against, weight |-> 0]

GovernorInit ==
  /\ height = 1
  /\ votingPower = [a \in Accounts |-> 0]
  /\ checkpoints = [a \in Accounts |-> <<>>]
  /\ ballots = <<>>
  /\ receipts = [i \in 1..MaxBallots |-> [a \in Accounts |-> NoReceipt]]

MineBlock ==
  /\ height < MaxHeight
  /\ height' = height + 1
  /\ UNCHANGED <<votingPower, checkpoints, ballots, receipts>>

-----------------------------------------------------------------------------
(* Voting power *)

(* getVotingPower: the last checkpoint not after block b. *)
PowerAt(a, b) ==
  LET older == {k \in DOMAIN checkpoints[a] : checkpoints[a][k].block <= b}
  IN IF older = {} THEN 0 ELSE checkpoints[a][Max(older)].power

SetPower(a, power, cps) ==
  /\ votingPower' = [votingPower EXCEPT ![a] = power]
  /\ checkpoints' = [checkpoints EXCEPT ![a] = cps]
  /\ Len(cps) <= MaxCheckpoints
  /\ UNCHANGED <<height, ballots, receipts>>

(* Mutant: a block's checkpoint keeps the first power set in that block. *)
UpdateVotingPowerOnce(a, power) ==
  LET cps == checkpoints[a]
  IN SetPower(a, power,
       IF cps # <<>> /\ Last(cps).block = height
       THEN cps ELSE Append(cps, [block |-> height, power |-> power]))

(* updateVotingPower: one checkpoint per block, with the last power set in it. *)
UpdateVotingPower(a, power) ==
  LET cp  == [block |-> height, power |-> power]
      cps == checkpoints[a]
  IN SetPower(a, power,
       IF cps # <<>> /\ Last(cps).block = height
       THEN [cps EXCEPT ![Len(cps)] = cp] ELSE Append(cps, cp))

-----------------------------------------------------------------------------
ProposeOnChain(a) ==
  /\ a \in Proposers \/ votingPower[a] >= QUORUM_THRESHOLD
  /\ Len(ballots) < MaxBallots
  /\ ballots' = Append(ballots,
       [proposer |-> a, voteStart |-> Now + VOTING_DELAY,
        voteEnd |-> Now + VOTING_DELAY + VOTING_PERIOD,
        for |-> 0, against |-> 0, abstain |-> 0,
        executedAt |-> 0, canceled |-> FALSE])
  /\ UNCHANGED <<height, votingPower, checkpoints, receipts>>

(* onlyDuringVoting *)
DuringVoting(b) == b.voteStart <= Now /\ Now < b.voteEnd

Counted(b, support, weight) ==
  CASE support = For     -> [b EXCEPT !.for = @ + weight]
    [] support = Against -> [b EXCEPT !.against = @ + weight]
    [] OTHER             -> [b EXCEPT !.abstain = @ + weight]

(* Mutant: the receipt is not asked for. *)
CastVoteAgain(i, a, support) ==
  LET weight == PowerAt(a, ballots[i].voteStart)
  IN /\ DuringVoting(ballots[i])
     /\ weight > 0
     /\ receipts' = [receipts EXCEPT ![i][a] =
                       [support |-> support, weight |-> weight]]
     /\ ballots' = [ballots EXCEPT ![i] = Counted(@, support, weight)]
     /\ UNCHANGED <<height, votingPower, checkpoints>>

(* castVote: the power is looked up at voteStart, a timestamp, as if it were *)
(* a block number.                                                           *)
CastVoteOnChain(i, a, support) ==
  LET weight == PowerAt(a, ballots[i].voteStart)
  IN /\ DuringVoting(ballots[i])
     /\ receipts[i][a].weight = 0
     /\ weight > 0
     /\ receipts' = [receipts EXCEPT ![i][a] =
                       [support |-> support, weight |-> weight]]
     /\ ballots' = [ballots EXCEPT ![i] = Counted(@, support, weight)]
     /\ UNCHANGED <<height, votingPower, checkpoints>>

-----------------------------------------------------------------------------
(* execute and state *)

QuorumMet(b) == b.for + b.against + b.abstain >= QUORUM_THRESHOLD

(* for * 100 / (for + against) >= 50 in whole numbers; the division reverts  *)
(* when nobody was for or against.                                           *)
Approved(b) ==
  b.for + b.against > 0 /\ (b.for * 100) \div (b.for + b.against) >= 50

Executed(b) == b.executedAt # 0

(* Mutant: the delay runs from the start of voting. *)
MayExecuteEarly(b) ==
  /\ ~Executed(b) /\ ~b.canceled
  /\ QuorumMet(b) /\ Approved(b)
  /\ Now >= b.voteStart + TIMELOCK_DELAY

(* The requirements of execute, in its order. *)
MayExecute(b) ==
  /\ b.voteEnd <= Now /\ ~Executed(b) /\ ~b.canceled
  /\ QuorumMet(b) /\ Approved(b)
  /\ Now >= b.voteEnd + TIMELOCK_DELAY

ExecuteOnChain(i) ==
  /\ MayExecute(ballots[i])
  /\ ballots' = [ballots EXCEPT ![i].executedAt = Now]
  /\ UNCHANGED <<height, votingPower, checkpoints, receipts>>

CancelOnChain(i) ==
  /\ ballots[i].proposer \in Cancellers
  /\ ~Executed(ballots[i]) /\ ~ballots[i].canceled
  /\ ballots' = [ballots EXCEPT ![i].canceled = TRUE]
  /\ UNCHANGED <<height, votingPower, checkpoints, receipts>>

(* state(): "Reverted" stands for the division by zero. *)
StateOf(i) ==
  LET b == ballots[i]
  IN CASE b.canceled -> "Canceled"
       [] ~b.canceled /\ Executed(b) -> "Executed"
       [] OTHER ->
            IF Now < b.voteStart THEN "Pending"
            ELSE IF Now <= b.voteEnd THEN "Active"
            ELSE IF ~QuorumMet(b) THEN "Defeated"
            ELSE IF b.for + b.against = 0 THEN "Reverted"
            ELSE IF ~Approved(b) THEN "Defeated"
            ELSE IF Now >= b.voteEnd + TIMELOCK_DELAY THEN "Queued"
            ELSE "Succeeded"

GovernorNext ==
  \/ MineBlock
  \/ \E a \in Accounts, p \in Weights : UpdateVotingPower(a, p)
  \/ \E a \in Accounts : ProposeOnChain(a)
  \/ \E i \in DOMAIN ballots :
       \/ \E a \in Accounts, s \in {For, Against, Abstain} :
            CastVoteOnChain(i, a, s)
       \/ ExecuteOnChain(i)
       \/ CancelOnChain(i)

GovernorSpec == GovernorInit /\ [][GovernorNext]_governorVars

-----------------------------------------------------------------------------
(* Every variable of the governor has its type. *)
GovernorTypeOK ==
  /\ height \in 0..MaxHeight
  /\ votingPower \in [Accounts -> Nat]
  /\ checkpoints \in [Accounts -> Seq(Checkpoint)]
  /\ ballots \in Seq(Ballot)
  /\ receipts \in [1..MaxBallots -> [Accounts -> Receipt]]

WeightOn(i) == [a \in Accounts |-> receipts[i][a].weight]

ReceiptPower(i, support) ==
  SumFunctionOnSet(WeightOn(i), {a \in Accounts : receipts[i][a].support = support})

(* Whatever powers change while a vote runs, a proposal's tallies are the    *)
(* weights on its receipts, one receipt per account (castVote).              *)
TallyIsReceipts ==
  \A i \in DOMAIN ballots :
    /\ ballots[i].for = ReceiptPower(i, For)
    /\ ballots[i].against = ReceiptPower(i, Against)
    /\ ballots[i].abstain = ReceiptPower(i, Abstain)

(* state() and execute, which spell the rules out separately, agree: what is *)
(* reported as Queued, and nothing else, can be executed now; on a proposal  *)
(* with abstentions only both revert.                                        *)
QueuedIsExecutable ==
  \A i \in DOMAIN ballots :
    (StateOf(i) = "Queued") <=> MayExecute(ballots[i])

GovernorSound == GovernorTypeOK /\ TallyIsReceipts /\ QueuedIsExecutable

(* A vote weighs what the account has at that moment, however often and when *)
(* its power was set before: castVote passes voteStart, a timestamp, where   *)
(* getVotingPower searches for a block number, and finds the newest          *)
(* checkpoint, which updateVotingPower keeps equal to votingPower.           *)
VoteCarriesPower ==
  [][\A i \in DOMAIN receipts, a \in Accounts :
       receipts'[i][a] # receipts[i][a] =>
         receipts'[i][a].weight = votingPower[a]]_governorVars

(* The status a proposal reports only moves forward, whatever is voted,      *)
(* cancelled or executed meanwhile: no settled proposal comes back to life   *)
(* and no defeated one succeeds later.                                       *)
Later(s) ==
  CASE s = "Pending"   -> {"Pending", "Active", "Canceled"}
    [] s = "Active"    -> {"Active", "Defeated", "Reverted", "Succeeded",
                           "Queued", "Canceled"}
    [] s = "Succeeded" -> {"Succeeded", "Queued", "Canceled"}
    [] s = "Queued"    -> {"Queued", "Executed", "Canceled"}
    [] s = "Defeated"  -> {"Defeated", "Canceled"}
    [] s = "Reverted"  -> {"Reverted", "Canceled"}
    [] OTHER           -> {s}

StateMovesForward ==
  [][\A i \in DOMAIN ballots :
       StateOf(i)' \in Later(StateOf(i))]_governorVars

(* The governor implements ProposalLife: voting closes with voteEnd.         *)
Passing(t) ==
  /\ t.for + t.against + t.other >= QUORUM_THRESHOLD
  /\ t.for >= t.against
  /\ t.for > 0

BallotLife(b) ==
  [phase |-> CASE Executed(b) -> "executed"
               [] ~Executed(b) /\ b.canceled -> "dropped"
               [] ~Executed(b) /\ ~b.canceled ->
                    IF Now < b.voteEnd THEN "open" ELSE "closed",
   tally |-> [for |-> b.for, against |-> b.against, other |-> b.abstain]]

GovernorLife == INSTANCE ProposalLife WITH
  Carries <- Passing, life <- [i \in DOMAIN ballots |-> BallotLife(ballots[i])]

(* Every history of the contract is a history of ProposalLife: a proposal is *)
(* executed once, after voting, on a tally that carries it and that no vote  *)
(* changes any more, whatever roles and powers change in between.            *)
GovernorKeepsPromise == GovernorLife!LifeSpec
=============================================================================
