------------------------------ MODULE FlashLoans ------------------------------
(***************************************************************************)
(* The flash-loan governor and the flash-loan executor                     *)
(* (backend/m135_flash_loan_governor.rs, m137_flash_loan_executor.rs).     *)
(*                                                                         *)
(* The governor gives a verdict on an opportunity and keeps exposure,      *)
(* losses and exception requests; the executor checks a policy of its own, *)
(* queues the loan and takes it out.  Neither calls the other.  Each       *)
(* operation has its object to itself (&mut self); a loan is one await, at *)
(* which its task can be dropped.  Amounts are whole units, signatures and *)
(* rationales are left out.                                                *)
(***************************************************************************)
EXTENDS Integers, Sequences, FiniteSetsExt

CONSTANTS
  Pools,
  Opportunities,    \* records [id, pool, size, profit, gas, steep, role]
  MaxLoan,          \* max_flash_loan_size_eth
  MaxGas,           \* max_gas_cost_eth
  PoolLimit,        \* per_pool_exposure_limit_eth
  MaxLoss,          \* max_daily_loss_eth
  MultisigAbove,    \* capital_multisig_threshold_eth
  Losses,           \* realised losses
  LoanQueue,        \* capacity of the executor's queue, 65536 in the code
  MaxVerdicts,      \* bound: verdicts and exception requests
  MaxRealised,      \* bound: losses and approvals recorded
  MaxLoans          \* bound: calls of execute_arbitrage

ASSUME LoansAssumption ==
  /\ {MaxLoan, MaxGas, PoolLimit, MaxLoss, MultisigAbove} \subseteq Nat
  /\ LoanQueue \in Nat \ {0} /\ Losses \subseteq Nat
  /\ \A o \in Opportunities : o.pool \in Pools /\ o.size \in Nat /\ o.gas \in Nat /\ o.profit \in Int

VARIABLES
  exposure,    \* pool_exposure
  runningLoss, \* daily_loss_running_eth of the governor
  verdicts,    \* the verdicts given: [opp, verdict, loss], the loss as it stood
  blocked,     \* opportunities_blocked
  exceptions,  \* ExceptionRequests: [id, approved]
  approvals,   \* exceptions_approved
  realised,    \* losses recorded and approvals asked so far
  loanQueue,   \* length of the executor's transaction_queue
  loan,        \* the executor's call: "none", "spinning" or "out"
  tally,       \* the executor's metrics
  ended        \* history: calls refused by the policy, and calls dropped

governorVars == <<exposure, runningLoss, verdicts, blocked, exceptions, approvals, realised>>
executorVars == <<loanQueue, loan, tally, ended>>
loanVars     == <<governorVars, executorVars>>

FlashLoansInit ==
  /\ exposure = [p \in Pools |-> 0]
  /\ runningLoss = 0 /\ verdicts = <<>> /\ blocked = 0
  /\ exceptions = <<>> /\ approvals = 0 /\ realised = 0
  /\ loanQueue = 0 /\ loan = "none"
  /\ tally = [executions |-> 0, successes |-> 0, failures |-> 0]
  /\ ended = [refused |-> 0, dropped |-> 0]

-----------------------------------------------------------------------------
(* evaluate_opportunity *)

Positive(n) == IF n > 0 THEN n ELSE 0

ExceedsDailyLoss(o) == runningLoss + Positive(o.gas - o.profit) > MaxLoss

(* Mutant: the exposure that the loan itself adds is not counted. *)
PassesWithoutItself(o) ==
  /\ o.size <= MaxLoan
  /\ ~o.steep
  /\ o.gas <= MaxGas
  /\ exposure[o.pool] <= PoolLimit

(* steep: the slippage is above max_slippage_bps. *)
PassesLimits(o) ==
  /\ o.size <= MaxLoan
  /\ ~o.steep
  /\ o.gas <= MaxGas
  /\ exposure[o.pool] + o.size <= PoolLimit

MayAuthorize(role) == role = "Treasury"

VerdictOn(o) ==
  CASE ExceedsDailyLoss(o) -> "Deny"
    [] ~ExceedsDailyLoss(o) /\ PassesLimits(o) /\ (MayAuthorize(o.role) \/ o.size <= MultisigAbove) -> "Approve"
    [] OTHER -> "Exception"

(* An approval adds to the exposure of the pool; nothing takes it off again. *)
EvaluateOpportunity(o) ==
  /\ Len(verdicts) < MaxVerdicts
  /\ verdicts' = Append(verdicts, [opp |-> o, verdict |-> VerdictOn(o), loss |-> runningLoss])
  /\ blocked' = blocked + (IF VerdictOn(o) = "Deny" THEN 1 ELSE 0)
  /\ exposure' = IF VerdictOn(o) = "Approve" THEN [exposure EXCEPT ![o.pool] = @ + o.size] ELSE exposure
  /\ UNCHANGED <<runningLoss, exceptions, approvals, realised, executorVars>>

(* request_exception asks for three texts and for nothing about the verdict. *)
RequestException(o) ==
  /\ Len(exceptions) < MaxVerdicts
  /\ exceptions' = Append(exceptions, [id |-> o.id, approved |-> FALSE])
  /\ UNCHANGED <<exposure, runningLoss, verdicts, blocked, approvals, realised, executorVars>>

(* approve_exception takes the first request with the id, approved or not. *)
ApproveException(id, role) ==
  LET asked == {n \in DOMAIN exceptions : exceptions[n].id = id}
  IN /\ MayAuthorize(role) /\ asked # {}
     /\ realised < MaxRealised /\ realised' = realised + 1
     /\ exceptions' = [exceptions EXCEPT ![Min(asked)].approved = TRUE]
     /\ approvals' = approvals + 1
     /\ UNCHANGED <<exposure, runningLoss, verdicts, blocked, executorVars>>

(* record_realized_pnl with a loss; a gain changes nothing. *)
RecordRealizedPnl(lost) ==
  /\ realised < MaxRealised /\ realised' = realised + 1
  /\ runningLoss' = runningLoss + lost
  /\ UNCHANGED <<exposure, verdicts, blocked, exceptions, approvals, executorVars>>

LoanGovernorNext ==
  \/ \E o \in Opportunities :
       \/ EvaluateOpportunity(o) \/ RequestException(o)
       \/ \E role \in {"Operator", "Treasury"} : ApproveException(o.id, role)
  \/ \E lost \in Losses : RecordRealizedPnl(lost)

-----------------------------------------------------------------------------
(* execute_arbitrage, of an enabled executor with a wallet. *)

(* validate_branchless; the running loss it also asks for is never raised. *)
LoanIsValid(o) == o.size <= MaxLoan /\ o.profit > 0 /\ ~o.steep

(* A refused call counts as an execution and as no failure. *)
RefuseLoan(o) ==
  /\ loan = "none" /\ tally.executions < MaxLoans
  /\ ~LoanIsValid(o)
  /\ tally' = [tally EXCEPT !.executions = @ + 1]
  /\ ended' = [ended EXCEPT !.refused = @ + 1]
  /\ UNCHANGED <<governorVars, loanQueue, loan>>

(* The call spins until the queue takes the loan. *)
StartLoan(o) ==
  /\ loan = "none" /\ tally.executions < MaxLoans
  /\ LoanIsValid(o)
  /\ tally' = [tally EXCEPT !.executions = @ + 1]
  /\ loan' = "spinning"
  /\ UNCHANGED <<governorVars, loanQueue, ended>>

QueueLoan ==
  /\ loan = "spinning"
  /\ loanQueue < LoanQueue
  /\ loanQueue' = loanQueue + 1
  /\ loan' = "out"
  /\ UNCHANGED <<governorVars, tally, ended>>

FinishLoan(success) ==
  /\ loan = "out"
  /\ tally' = IF success THEN [tally EXCEPT !.successes = @ + 1]
                         ELSE [tally EXCEPT !.failures = @ + 1]
  /\ loan' = "none"
  /\ UNCHANGED <<governorVars, loanQueue, ended>>

DropLoan ==
  /\ loan = "out"
  /\ loan' = "none"
  /\ ended' = [ended EXCEPT !.dropped = @ + 1]
  /\ UNCHANGED <<governorVars, loanQueue, tally>>

LoanExecutorNext ==
  \/ \E o \in Opportunities : RefuseLoan(o) \/ StartLoan(o)
  \/ QueueLoan
  \/ \E success \in BOOLEAN : FinishLoan(success)
  \/ DropLoan

FlashLoansNext == LoanGovernorNext \/ LoanExecutorNext

FlashLoansSpec == FlashLoansInit /\ [][FlashLoansNext]_loanVars

-----------------------------------------------------------------------------
LoansTypeOK ==
  /\ exposure \in [Pools -> Nat] /\ runningLoss \in Nat
  /\ \A n \in DOMAIN verdicts : verdicts[n].verdict \in {"Approve", "Exception", "Deny"}
  /\ loan \in {"none", "spinning", "out"} /\ loanQueue \in 0..LoanQueue

Given(verdict) == {n \in DOMAIN verdicts : verdicts[n].verdict = verdict}

AmountsAsked   == [n \in DOMAIN verdicts |-> verdicts[n].opp.size]
ApprovedFor(p) == {n \in Given("Approve") : verdicts[n].opp.pool = p}

(* Over any sequence of verdicts, losses and exceptions: what is approved    *)
(* for a pool stays within its limit and is what the exposure says; no large *)
(* amount is approved for anyone but the treasury; and nothing but a denial  *)
(* comes of an opportunity whose loss would pass the cap.                    *)
VerdictsKeepLimits ==
  /\ \A p \in Pools :
       /\ exposure[p] = SumFunctionOnSet(AmountsAsked, ApprovedFor(p))
       /\ exposure[p] <= PoolLimit
  /\ \A n \in Given("Approve") :
       MayAuthorize(verdicts[n].opp.role) \/ verdicts[n].opp.size <= MultisigAbove
  /\ \A n \in DOMAIN verdicts :
       verdicts[n].loss + Positive(verdicts[n].opp.gas - verdicts[n].opp.profit) > MaxLoss
         <=> n \in Given("Deny")
  /\ blocked = Cardinality(Given("Deny"))

(* Of several requests for one opportunity only the first is ever approved,  *)
(* and no request is approved that was not counted.                          *)
FirstRequestApproved ==
  /\ \A n, m \in DOMAIN exceptions :
       n < m /\ exceptions[n].id = exceptions[m].id => ~exceptions[m].approved
  /\ Cardinality({n \in DOMAIN exceptions : exceptions[n].approved}) <= approvals

(* Every call of the executor is a success, a failure, refused, dropped or   *)
(* still out; each that passed the policy is in the queue, except for one    *)
(* that spins, which when the queue is full is for ever.                     *)
LoansAreAccounted ==
  LET running == IF loan = "none" THEN 0 ELSE 1
      waiting == IF loan = "spinning" THEN 1 ELSE 0
      finished == tally.successes + tally.failures
  IN /\ tally.executions = finished + ended.refused + ended.dropped + running
     /\ loanQueue + waiting = finished + ended.dropped + running

(* All three. *)
FlashLoansSound == LoansTypeOK /\ VerdictsKeepLimits /\ FirstRequestApproved /\ LoansAreAccounted
=============================================================================
