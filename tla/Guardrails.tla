----------------------------- MODULE Guardrails -----------------------------
(***************************************************************************)
(* The ethics engine (backend/shield_guardrails.rs).  Trades are           *)
(* authorized one at a time, but each one's profit or loss is recorded     *)
(* later, by a call of its own, and several authorized trades may be open  *)
(* by then; nothing ties what is recorded to what was expected, and the    *)
(* loss limit and the profit cap may be set anew at any time.              *)
(*                                                                         *)
(* Amounts are whole units.  The global and the local emergency flag are   *)
(* one, for the program has one engine and every method writes both.  Left *)
(* out: the hourly counter and the enabled flag, written and never asked,  *)
(* the position size and the metrics.                                      *)
(***************************************************************************)
EXTENDS Integers, FiniteSets, Functions

CONSTANTS
  Trades,          \* trades, each authorized once at most
  Amounts,         \* expected and realised gains and losses
  LossLimits,      \* daily loss limits that may be set
  ProfitCaps,      \* daily profit caps that may be set
  MaxConsecutive,  \* MAX_CONSECUTIVE_LOSSES
  Specialists,     \* supervisors with a halt flag of their own
  MaxDays,         \* bound: calls of reset_daily
  NotOpen          \* a trade that is not outstanding

ASSUME GuardrailsAssumption ==
  /\ IsFiniteSet(Trades)
  /\ Amounts \subseteq Nat /\ LossLimits \subseteq Nat /\ ProfitCaps \subseteq Nat
  /\ MaxConsecutive \in Nat /\ MaxDays \in Nat
  /\ NotOpen \notin [gain : Amounts, loss : Amounts]

VARIABLES
  halt,        \* emergency_halt
  vetoes,      \* specialists whose halt flag is up
  lossLimit,   \* DAILY_LOSS_LIMIT
  profitCap,   \* DAILY_PROFIT_CAP
  profit,      \* daily_profit_accrued
  loss,        \* daily_loss_accrued
  losses,      \* consecutive_losses
  open,        \* what was expected of each trade authorized and not recorded
  used,        \* trades authorized so far
  days,        \* calls of reset_daily so far
  excess       \* history: how far beyond the limits in force the day may go
               \* by what no authorization was asked about, see below

limitVars == <<lossLimit, profitCap>>
guardVars == <<halt, vetoes, lossLimit, profitCap, profit, loss, losses, open, used, days, excess>>

Expectation == [gain : Amounts, loss : Amounts]

GuardrailsInit ==
  /\ halt = FALSE /\ vetoes = {}
  /\ lossLimit \in LossLimits /\ profitCap \in ProfitCaps
  /\ profit = 0 /\ loss = 0 /\ losses = 0
  /\ open = [t \in Trades |-> NotOpen]
  /\ used = {}
  /\ days = 0
  /\ excess = [loss |-> 0, gain |-> 0, streak |-> 0]

IsHalted == halt \/ vetoes # {}

Larger(a, b) == IF a > b THEN a ELSE b
Above(a, b) == IF a > b THEN a - b ELSE 0

-----------------------------------------------------------------------------
(* What is outstanding: the trades authorized and not yet recorded, and what *)
(* they were expected to lose and to gain.  An authorization does not look   *)
(* at them.                                                                  *)
Outstanding == {t \in Trades : open[t] # NotOpen}
ExpectedLoss == [t \in Trades |-> IF open[t] = NotOpen THEN 0 ELSE open[t].loss]
ExpectedGain == [t \in Trades |-> IF open[t] = NotOpen THEN 0 ELSE open[t].gain]
OpenLoss == SumFunctionOnSet(ExpectedLoss, Trades)
OpenGain == SumFunctionOnSet(ExpectedGain, Trades)

-----------------------------------------------------------------------------
(* authorize_trade *)

(* Mutant: the loss a trade may make is not asked for. *)
RoomUnasked(e) == profit + e.gain <= profitCap /\ losses < MaxConsecutive

(* The checks after the one that halts, for a position of a legal size. *)
Room(e) ==
  /\ profit + e.gain <= profitCap
  /\ e.loss <= lossLimit - loss
  /\ losses < MaxConsecutive

Approve(t, e) ==
  /\ ~IsHalted
  /\ t \notin used
  /\ loss < lossLimit
  /\ Room(e)
  /\ open' = [open EXCEPT ![t] = e]
  /\ used' = used \union {t}
  /\ excess' = [loss |-> Larger(excess.loss, OpenLoss),
                gain |-> Larger(excess.gain, OpenGain),
                streak |-> Larger(excess.streak, Cardinality(Outstanding))]
  /\ UNCHANGED <<halt, vetoes, limitVars, profit, loss, losses, days>>

(* A request that would otherwise be considered finds the day's losses at    *)
(* the limit, and halts the fleet.                                           *)
Exhausted(e) ==
  /\ ~IsHalted
  /\ profit + e.gain <= profitCap
  /\ loss >= lossLimit
  /\ halt' = TRUE
  /\ UNCHANGED <<vetoes, limitVars, profit, loss, losses, open, used, days, excess>>

(* record_profit and record_loss *)
RecordProfit(t, gain) ==
  /\ open[t] # NotOpen
  /\ profit' = profit + gain
  /\ losses' = IF gain > 0 THEN 0 ELSE losses
  /\ excess' = [excess EXCEPT !.gain = @ + Above(gain, open[t].gain)]
  /\ open' = [open EXCEPT ![t] = NotOpen]
  /\ UNCHANGED <<halt, vetoes, limitVars, loss, used, days>>

RecordLoss(t, amount) ==
  /\ open[t] # NotOpen
  /\ loss' = loss + amount
  /\ losses' = losses + 1
  /\ excess' = [excess EXCEPT !.loss = @ + Above(amount, open[t].loss)]
  /\ open' = [open EXCEPT ![t] = NotOpen]
  /\ UNCHANGED <<halt, vetoes, limitVars, profit, used, days>>

-----------------------------------------------------------------------------
(* The commander and the supervisors *)

TriggerEmergencyHalt ==
  /\ halt' = TRUE
  /\ UNCHANGED <<vetoes, limitVars, profit, loss, losses, open, used, days, excess>>

TriggerSpecialistHalt(s, state) ==
  /\ vetoes' = IF state THEN vetoes \union {s} ELSE vetoes \ {s}
  /\ UNCHANGED <<halt, limitVars, profit, loss, losses, open, used, days, excess>>

ResumeOperations ==
  /\ halt' = FALSE
  /\ losses' = 0
  /\ UNCHANGED <<vetoes, limitVars, profit, loss, open, used, days, excess>>

(* New limits.  What a lower one takes away may already be spent; a higher   *)
(* one gives it back.                                                        *)
SetLimits(limit, cap) ==
  /\ lossLimit' = limit /\ profitCap' = cap
  /\ excess' = [excess EXCEPT !.loss = Above(@ + lossLimit, limit),
                              !.gain = Above(@ + profitCap, cap)]
  /\ UNCHANGED <<halt, vetoes, profit, loss, losses, open, used, days>>

SetDailyLossLimit(limit) == SetLimits(limit, profitCap)

(* The cap is stored in ten-thousandths and read in thousandths. *)
CapScale == 10

SetDailyProfitCap(cap) == SetLimits(lossLimit, CapScale * cap)

(* 5% and 10% of the capital, each at least a hundredth: the cap is not the  *)
(* smaller one.                                                              *)
InitializeFromCapital(limit, cap) == limit <= cap /\ SetLimits(limit, cap)

(* A new day may begin with more outstanding than it has room for. *)
ResetDaily ==
  /\ days < MaxDays
  /\ days' = days + 1
  /\ profit' = 0 /\ loss' = 0
  /\ excess' = [excess EXCEPT !.loss = Above(OpenLoss, lossLimit),
                              !.gain = Above(OpenGain, profitCap)]
  /\ UNCHANGED <<halt, vetoes, limitVars, losses, open, used>>

GuardrailsNext ==
  \/ \E t \in Trades, e \in Expectation : Approve(t, e)
  \/ \E e \in Expectation : Exhausted(e)
  \/ \E t \in Trades, a \in Amounts : RecordProfit(t, a) \/ RecordLoss(t, a)
  \/ TriggerEmergencyHalt
  \/ \E s \in Specialists, state \in BOOLEAN : TriggerSpecialistHalt(s, state)
  \/ ResumeOperations
  \/ \E limit \in LossLimits : SetDailyLossLimit(limit)
  \/ \E cap \in ProfitCaps : SetDailyProfitCap(cap)
  \/ \E limit \in LossLimits, cap \in ProfitCaps : InitializeFromCapital(limit, cap)
  \/ ResetDaily

GuardrailsSpec == GuardrailsInit /\ [][GuardrailsNext]_guardVars

-----------------------------------------------------------------------------
GuardrailsTypeOK ==
  /\ halt \in BOOLEAN /\ vetoes \subseteq Specialists
  /\ lossLimit \in LossLimits /\ profitCap \in Nat
  /\ profit \in Nat /\ loss \in Nat /\ losses \in Nat
  /\ open \in [Trades -> Expectation \union {NotOpen}]
  /\ used \subseteq Trades
  /\ days \in Nat
  /\ excess \in [loss : Nat, gain : Nat, streak : Nat]

(* No day exceeds its loss limit or its profit cap, and no losing streak the *)
(* maximum, by more than what authorize_trade is never asked about: what the *)
(* trades outstanding at an authorization were expected to lose or gain (or  *)
(* their number), how much worse, or better, than expected the day's trades  *)
(* went, and by how much a limit in force was lowered -- whatever halts,     *)
(* resumptions and resets fall between an authorization and its record.      *)
(* Trades that run one at a time and as expected under limits that only rise *)
(* stay within them: nothing is then in excess.                              *)
DayWithinLimits ==
  /\ loss <= lossLimit + excess.loss
  /\ profit <= profitCap + excess.gain
  /\ losses <= MaxConsecutive + excess.streak

GuardrailsSound == GuardrailsTypeOK /\ DayWithinLimits

(* The strengthening that makes it inductive: what is outstanding has room   *)
(* as well.                                                                  *)
RoomForOpen ==
  /\ loss + OpenLoss <= lossLimit + excess.loss
  /\ profit + OpenGain <= profitCap + excess.gain
  /\ losses + Cardinality(Outstanding) <= MaxConsecutive + excess.streak

GuardrailsInv == GuardrailsSound /\ RoomForOpen
=============================================================================
