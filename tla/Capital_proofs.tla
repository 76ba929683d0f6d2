---------------------------- MODULE Capital_proofs ---------------------------
(***************************************************************************)
(* What guards the capital. The guardrails: their invariant holds for any  *)
(* trades, amounts and limits. The sweeper: only one sweep at a time       *)
(* leaves the cooldown, while nothing disturbs it no profit is swept       *)
(* twice, and its books catch up with what was moved, for any clients,     *)
(* profits and thresholds. The trade executor and the flash-loan governor: *)
(* what they record stays within their limits and adds up.                 *)
(***************************************************************************)
EXTENDS Guardrails, AutoTransfer, TradeExecutor, FlashLoans, SequenceTheorems, SumLemmas

-----------------------------------------------------------------------------
(* The guardrails.                                                          *)

LEMMA ConstantTypes ==
  /\ IsFiniteSet(Trades)
  /\ Amounts \subseteq Nat
  /\ LossLimits \subseteq Nat
  /\ ProfitCaps \subseteq Nat
  /\ MaxConsecutive \in Nat
  /\ NotOpen \notin Expectation
BY GuardrailsAssumption DEF Expectation

(* What is outstanding adds up to natural numbers. *)
OpenTyped ==
  /\ \A t \in Trades : ExpectedLoss[t] \in Nat /\ ExpectedGain[t] \in Nat
  /\ OpenLoss \in Nat /\ OpenGain \in Nat
  /\ IsFiniteSet(Outstanding) /\ Cardinality(Outstanding) \in Nat
  /\ lossLimit \in Nat
  /\ excess.loss \in Nat /\ excess.gain \in Nat /\ excess.streak \in Nat

LEMMA OpenTypes == GuardrailsTypeOK => OpenTyped
<1> SUFFICES ASSUME GuardrailsTypeOK PROVE OpenTyped
  OBVIOUS
<1>1. \A t \in Trades : open[t] # NotOpen => open[t].loss \in Nat /\ open[t].gain \in Nat
  BY ConstantTypes DEF GuardrailsTypeOK, Expectation
<1>2. \A t \in Trades : ExpectedLoss[t] \in Nat /\ ExpectedGain[t] \in Nat
  BY <1>1 DEF ExpectedLoss, ExpectedGain
<1>3. OpenLoss \in Nat /\ OpenGain \in Nat
  BY <1>2, ConstantTypes, SumType DEF OpenLoss, OpenGain
<1>4. IsFiniteSet(Outstanding) /\ Cardinality(Outstanding) \in Nat
  BY ConstantTypes, FS_Subset, FS_CardinalityType DEF Outstanding
<1> QED
  BY <1>2, <1>3, <1>4, ConstantTypes DEF GuardrailsTypeOK, OpenTyped

LEMMA OpenTypesNext == GuardrailsTypeOK' => OpenTyped'
BY OpenTypes, PTL

(* One trade's expectation replaced: the sums move by the difference. *)
LEMMA OpenChanges ==
  ASSUME GuardrailsTypeOK, GuardrailsTypeOK', NEW t \in Trades,
         \A u \in Trades \ {t} : open'[u] = open[u]
  PROVE  /\ OpenLoss' = OpenLoss - ExpectedLoss[t] + ExpectedLoss'[t]
         /\ OpenGain' = OpenGain - ExpectedGain[t] + ExpectedGain'[t]
<1> DEFINE f == ExpectedLoss
           g == ExpectedLoss'
           p == ExpectedGain
           q == ExpectedGain'
<1>1. /\ \A u \in Trades : f[u] \in Nat /\ g[u] \in Nat /\ p[u] \in Nat /\ q[u] \in Nat
  <2>1. \A u \in Trades : f[u] \in Nat /\ p[u] \in Nat
    BY OpenTypes DEF OpenTyped
  <2>2. \A u \in Trades : open'[u] # NotOpen => open'[u].loss \in Nat /\ open'[u].gain \in Nat
    BY ConstantTypes DEF GuardrailsTypeOK, Expectation
  <2>3. \A u \in Trades : g[u] \in Nat /\ q[u] \in Nat
    BY <2>2 DEF ExpectedLoss, ExpectedGain
  <2> QED
    BY <2>1, <2>3
<1>2. \A u \in Trades \ {t} : g[u] = f[u] /\ q[u] = p[u]
  BY DEF ExpectedLoss, ExpectedGain
<1>3. OpenLoss = SumFunctionOnSet(f, Trades) /\ OpenLoss' = SumFunctionOnSet(g, Trades)
  BY DEF OpenLoss
<1>4. OpenGain = SumFunctionOnSet(p, Trades) /\ OpenGain' = SumFunctionOnSet(q, Trades)
  BY DEF OpenGain
<1> HIDE DEF f, g, p, q
<1>5. SumFunctionOnSet(g, Trades) = SumFunctionOnSet(f, Trades) - f[t] + g[t]
  BY <1>1, <1>2, ConstantTypes, SumUpdate
<1>6. SumFunctionOnSet(q, Trades) = SumFunctionOnSet(p, Trades) - p[t] + q[t]
  BY <1>1, <1>2, ConstantTypes, SumUpdate
<1> QED
  BY <1>3, <1>4, <1>5, <1>6 DEF f, g, p, q

(* With room for what is outstanding, what is recorded is within limits. *)
LEMMA RoomSuffices == GuardrailsTypeOK /\ RoomForOpen => GuardrailsInv
BY OpenTypes, ConstantTypes
DEF GuardrailsInv, GuardrailsSound, DayWithinLimits, RoomForOpen, GuardrailsTypeOK, OpenTyped

LEMMA RoomSufficesNext == GuardrailsTypeOK' /\ RoomForOpen' => GuardrailsInv'
BY RoomSuffices, PTL

(* An authorization leaves room for what it expects, beyond the limits by no *)
(* more than what was outstanding already.                                   *)
LEMMA ApproveKeeps ==
  ASSUME GuardrailsInv, NEW t \in Trades, NEW e \in Expectation, Approve(t, e)
  PROVE  GuardrailsInv'
<1>1. e.gain \in Nat /\ e.loss \in Nat /\ e # NotOpen
  BY ConstantTypes DEF Expectation
<1>2. GuardrailsTypeOK
  BY DEF GuardrailsInv, GuardrailsSound
<1>3. /\ open' = [open EXCEPT ![t] = e]
      /\ UNCHANGED <<halt, vetoes, lossLimit, profitCap, profit, loss, losses, days>>
      /\ used' = used \union {t}
      /\ excess'.loss = Larger(excess.loss, OpenLoss)
      /\ excess'.gain = Larger(excess.gain, OpenGain)
      /\ excess'.streak = Larger(excess.streak, Cardinality(Outstanding))
      /\ excess' = [loss |-> excess'.loss, gain |-> excess'.gain, streak |-> excess'.streak]
  BY DEF Approve, limitVars
<1>4. /\ excess'.loss \in Nat /\ excess'.loss >= OpenLoss
      /\ excess'.gain \in Nat /\ excess'.gain >= OpenGain
      /\ excess'.streak \in Nat /\ excess'.streak >= Cardinality(Outstanding)
  BY <1>2, <1>3, OpenTypes DEF Larger, OpenTyped
<1>5. GuardrailsTypeOK'
  <2>1. open' \in [Trades -> Expectation \union {NotOpen}]
    BY <1>2, <1>3 DEF GuardrailsTypeOK
  <2>2. excess' \in [loss : Nat, gain : Nat, streak : Nat]
    BY <1>3, <1>4
  <2> QED
    BY <1>2, <1>3, <2>1, <2>2 DEF GuardrailsTypeOK
<1>6. \A u \in Trades \ {t} : open'[u] = open[u]
  BY <1>2, <1>3 DEF GuardrailsTypeOK
<1>7. OpenLoss' <= OpenLoss + e.loss /\ OpenGain' <= OpenGain + e.gain
  <2>1. open'[t] = e
    BY <1>2, <1>3 DEF GuardrailsTypeOK
  <2>2. ExpectedLoss'[t] = e.loss /\ ExpectedGain'[t] = e.gain
    BY <1>1, <2>1 DEF ExpectedLoss, ExpectedGain
  <2>3. /\ OpenLoss' = OpenLoss - ExpectedLoss[t] + ExpectedLoss'[t]
        /\ OpenGain' = OpenGain - ExpectedGain[t] + ExpectedGain'[t]
    BY <1>2, <1>5, <1>6, OpenChanges
  <2> QED
    BY <1>1, <1>2, <2>2, <2>3, OpenTypes DEF OpenTyped
<1>8. Cardinality(Outstanding') <= Cardinality(Outstanding) + 1
  <2>1. Outstanding' = Outstanding \union {t}
    BY <1>1, <1>2, <1>3 DEF Outstanding, GuardrailsTypeOK
  <2>2. IsFiniteSet(Outstanding) /\ Cardinality(Outstanding) \in Nat
    BY <1>2, OpenTypes DEF OpenTyped
  <2>3. Cardinality(Outstanding \union {t}) \in {Cardinality(Outstanding), Cardinality(Outstanding) + 1}
    BY <2>2, FS_AddElement
  <2> QED
    BY <2>1, <2>2, <2>3
<1>9. /\ profit + e.gain <= profitCap
      /\ e.loss <= lossLimit - loss
      /\ losses < MaxConsecutive
  BY DEF Approve, Room
<1>10. /\ OpenLoss \in Nat /\ OpenGain \in Nat /\ Cardinality(Outstanding) \in Nat
       /\ OpenLoss' \in Nat /\ OpenGain' \in Nat /\ Cardinality(Outstanding') \in Nat
       /\ lossLimit \in Nat /\ profitCap \in Nat /\ MaxConsecutive \in Nat
       /\ loss \in Nat /\ profit \in Nat /\ losses \in Nat
  <2>1. OpenLoss' \in Nat /\ OpenGain' \in Nat /\ Cardinality(Outstanding') \in Nat
    BY <1>5, OpenTypesNext DEF OpenTyped
  <2> QED
    BY <1>2, <2>1, OpenTypes, ConstantTypes DEF GuardrailsTypeOK, OpenTyped
<1>11. RoomForOpen'
  <2>1. loss + OpenLoss' <= lossLimit + excess'.loss
    BY <1>1, <1>4, <1>7, <1>9, <1>10
  <2>2. profit + OpenGain' <= profitCap + excess'.gain
    BY <1>1, <1>4, <1>7, <1>9, <1>10
  <2>3. losses + Cardinality(Outstanding') <= MaxConsecutive + excess'.streak
    BY <1>4, <1>8, <1>9, <1>10
  <2> QED
    BY <1>3, <2>1, <2>2, <2>3 DEF RoomForOpen
<1> QED
  BY <1>5, <1>11, RoomSufficesNext

(* A record closes its trade: what it went beyond its expectation is in      *)
(* excess.                                                                   *)
LEMMA RecordKeeps ==
  ASSUME GuardrailsInv, NEW t \in Trades, NEW a \in Amounts,
         RecordProfit(t, a) \/ RecordLoss(t, a)
  PROVE  GuardrailsInv'
<1>1. GuardrailsTypeOK /\ RoomForOpen
  BY DEF GuardrailsInv, GuardrailsSound
<1>2. /\ open[t] # NotOpen /\ open' = [open EXCEPT ![t] = NotOpen]
      /\ UNCHANGED <<halt, vetoes, lossLimit, profitCap, used, days>>
  BY DEF RecordProfit, RecordLoss, limitVars
<1>3. a \in Nat /\ open[t].loss \in Nat /\ open[t].gain \in Nat
  BY <1>1, <1>2, ConstantTypes DEF GuardrailsTypeOK, Expectation
<1>4. /\ open' \in [Trades -> Expectation \union {NotOpen}]
      /\ open'[t] = NotOpen /\ \A u \in Trades \ {t} : open'[u] = open[u]
  BY <1>1, <1>2 DEF GuardrailsTypeOK
<1>5. /\ loss \in Nat /\ profit \in Nat /\ losses \in Nat
      /\ lossLimit \in Nat /\ profitCap \in Nat /\ MaxConsecutive \in Nat
      /\ excess = [loss |-> excess.loss, gain |-> excess.gain, streak |-> excess.streak]
      /\ excess.loss \in Nat /\ excess.gain \in Nat /\ excess.streak \in Nat
  BY <1>1, ConstantTypes DEF GuardrailsTypeOK
<1>6. \/ /\ profit' = profit + a /\ loss' = loss /\ losses' \in {0, losses}
         /\ excess'.gain = excess.gain + Above(a, open[t].gain)
         /\ excess'.loss = excess.loss
      \/ /\ loss' = loss + a /\ profit' = profit /\ losses' = losses + 1
         /\ excess'.loss = excess.loss + Above(a, open[t].loss)
         /\ excess'.gain = excess.gain
  BY <1>5 DEF RecordProfit, RecordLoss
<1>7. /\ excess'.streak = excess.streak
      /\ excess' = [loss |-> excess'.loss, gain |-> excess'.gain, streak |-> excess'.streak]
  BY <1>5 DEF RecordProfit, RecordLoss
<1>8. /\ Above(a, open[t].gain) \in Nat /\ a <= open[t].gain + Above(a, open[t].gain)
      /\ Above(a, open[t].loss) \in Nat /\ a <= open[t].loss + Above(a, open[t].loss)
  BY <1>3 DEF Above
<1>9. GuardrailsTypeOK'
  <2>1. excess'.loss \in Nat /\ excess'.gain \in Nat
    BY <1>5, <1>6, <1>8
  <2>2. excess' \in [loss : Nat, gain : Nat, streak : Nat]
    BY <1>5, <1>7, <2>1
  <2>3. profit' \in Nat /\ loss' \in Nat /\ losses' \in Nat
    BY <1>3, <1>5, <1>6
  <2> QED
    BY <1>1, <1>2, <1>4, <2>2, <2>3 DEF GuardrailsTypeOK
<1>10. OpenLoss' = OpenLoss - open[t].loss /\ OpenGain' = OpenGain - open[t].gain
  <2>1. /\ ExpectedLoss[t] = open[t].loss /\ ExpectedGain[t] = open[t].gain
        /\ ExpectedLoss'[t] = 0 /\ ExpectedGain'[t] = 0
    BY <1>2, <1>4 DEF ExpectedLoss, ExpectedGain
  <2>2. /\ OpenLoss' = OpenLoss - ExpectedLoss[t] + ExpectedLoss'[t]
        /\ OpenGain' = OpenGain - ExpectedGain[t] + ExpectedGain'[t]
    BY <1>1, <1>4, <1>9, OpenChanges
  <2> QED
    BY <1>1, <1>3, <2>1, <2>2, OpenTypes DEF OpenTyped
<1>11. Cardinality(Outstanding') = Cardinality(Outstanding) - 1
  <2>1. Outstanding' = Outstanding \ {t} /\ t \in Outstanding
    BY <1>2, <1>4 DEF Outstanding
  <2> QED
    BY <1>1, <2>1, OpenTypes, FS_RemoveElement DEF OpenTyped
<1>12. /\ OpenLoss \in Nat /\ OpenGain \in Nat /\ Cardinality(Outstanding) \in Nat
       /\ OpenLoss' \in Nat /\ OpenGain' \in Nat /\ Cardinality(Outstanding') \in Nat
  BY <1>1, <1>9, OpenTypes, OpenTypesNext DEF OpenTyped
<1>13. RoomForOpen'
  <2>1. loss' + OpenLoss' <= lossLimit + excess'.loss
    BY <1>1, <1>3, <1>5, <1>6, <1>8, <1>10, <1>12 DEF RoomForOpen
  <2>2. profit' + OpenGain' <= profitCap + excess'.gain
    BY <1>1, <1>3, <1>5, <1>6, <1>8, <1>10, <1>12 DEF RoomForOpen
  <2>3. losses' + Cardinality(Outstanding') <= MaxConsecutive + excess.streak
    BY <1>1, <1>5, <1>6, <1>11, <1>12 DEF RoomForOpen
  <2> QED
    BY <1>2, <1>7, <2>1, <2>2, <2>3 DEF RoomForOpen
<1> QED
  BY <1>9, <1>13, RoomSufficesNext

(* A lower limit or cap is in excess by what it takes away. *)
LEMMA LimitsKeep ==
  ASSUME GuardrailsInv, NEW limit \in LossLimits, NEW cap \in Nat, SetLimits(limit, cap)
  PROVE  GuardrailsInv'
<1>1. GuardrailsTypeOK /\ RoomForOpen
  BY DEF GuardrailsInv, GuardrailsSound
<1>2. /\ loss \in Nat /\ profit \in Nat /\ losses \in Nat /\ limit \in Nat
      /\ lossLimit \in Nat /\ profitCap \in Nat /\ MaxConsecutive \in Nat
      /\ excess = [loss |-> excess.loss, gain |-> excess.gain, streak |-> excess.streak]
      /\ excess.loss \in Nat /\ excess.gain \in Nat /\ excess.streak \in Nat
      /\ OpenLoss \in Nat /\ OpenGain \in Nat /\ Cardinality(Outstanding) \in Nat
  BY <1>1, OpenTypes, ConstantTypes DEF GuardrailsTypeOK, OpenTyped
<1>3. /\ lossLimit' = limit /\ profitCap' = cap
      /\ UNCHANGED <<halt, vetoes, profit, loss, losses, open, used, days>>
  BY DEF SetLimits
<1>4. /\ excess'.loss = Above(excess.loss + lossLimit, limit)
      /\ excess'.gain = Above(excess.gain + profitCap, cap)
      /\ excess'.streak = excess.streak
      /\ excess' = [loss |-> excess'.loss, gain |-> excess'.gain, streak |-> excess'.streak]
  BY <1>2 DEF SetLimits
<1>5. /\ excess'.loss \in Nat /\ lossLimit + excess.loss <= limit + excess'.loss
      /\ excess'.gain \in Nat /\ profitCap + excess.gain <= cap + excess'.gain
  BY <1>2, <1>4 DEF Above
<1>6. GuardrailsTypeOK'
  <2>1. excess' \in [loss : Nat, gain : Nat, streak : Nat]
    BY <1>2, <1>4, <1>5
  <2> QED
    BY <1>1, <1>3, <2>1 DEF GuardrailsTypeOK
<1>7. OpenLoss' = OpenLoss /\ OpenGain' = OpenGain /\ Outstanding' = Outstanding
  BY <1>3 DEF OpenLoss, OpenGain, ExpectedLoss, ExpectedGain, Outstanding
<1>8. RoomForOpen'
  BY <1>1, <1>2, <1>3, <1>4, <1>5, <1>7 DEF RoomForOpen
<1> QED
  BY <1>6, <1>8, RoomSufficesNext

(* A new day clears both counters and keeps what is open. *)
LEMMA ResetKeeps ==
  ASSUME GuardrailsInv, ResetDaily
  PROVE  GuardrailsInv'
<1>1. GuardrailsTypeOK /\ RoomForOpen
  BY DEF GuardrailsInv, GuardrailsSound
<1>2. /\ losses \in Nat /\ lossLimit \in Nat /\ profitCap \in Nat /\ MaxConsecutive \in Nat
      /\ excess = [loss |-> excess.loss, gain |-> excess.gain, streak |-> excess.streak]
      /\ excess.loss \in Nat /\ excess.gain \in Nat /\ excess.streak \in Nat
      /\ OpenLoss \in Nat /\ OpenGain \in Nat /\ Cardinality(Outstanding) \in Nat
  BY <1>1, OpenTypes, ConstantTypes DEF GuardrailsTypeOK, OpenTyped
<1>3. /\ profit' = 0 /\ loss' = 0 /\ days' = days + 1
      /\ UNCHANGED <<halt, vetoes, lossLimit, profitCap, losses, open, used>>
  BY DEF ResetDaily, limitVars
<1>4. /\ excess'.loss = Above(OpenLoss, lossLimit)
      /\ excess'.gain = Above(OpenGain, profitCap)
      /\ excess'.streak = excess.streak
      /\ excess' = [loss |-> excess'.loss, gain |-> excess'.gain, streak |-> excess'.streak]
  BY <1>2 DEF ResetDaily
<1>5. /\ excess'.loss \in Nat /\ OpenLoss <= lossLimit + excess'.loss
      /\ excess'.gain \in Nat /\ OpenGain <= profitCap + excess'.gain
  BY <1>2, <1>4 DEF Above
<1>6. GuardrailsTypeOK'
  <2>1. excess' \in [loss : Nat, gain : Nat, streak : Nat]
    BY <1>2, <1>4, <1>5
  <2> QED
    BY <1>1, <1>3, <2>1 DEF GuardrailsTypeOK
<1>7. OpenLoss' = OpenLoss /\ OpenGain' = OpenGain /\ Outstanding' = Outstanding
  BY <1>3 DEF OpenLoss, OpenGain, ExpectedLoss, ExpectedGain, Outstanding
<1>8. RoomForOpen'
  BY <1>1, <1>2, <1>3, <1>4, <1>5, <1>7 DEF RoomForOpen
<1> QED
  BY <1>6, <1>8, RoomSufficesNext

(* Halts and resumptions leave the amounts alone; a resumption forgets the   *)
(* streak.                                                                   *)
LEMMA HaltKeeps ==
  ASSUME GuardrailsInv, losses' \in {0, losses},
         halt' \in BOOLEAN, vetoes' \subseteq Specialists,
         UNCHANGED <<lossLimit, profitCap, profit, loss, open, used, days, excess>>
  PROVE  GuardrailsInv'
<1>1. GuardrailsTypeOK /\ RoomForOpen
  BY DEF GuardrailsInv, GuardrailsSound
<1>2. GuardrailsTypeOK'
  BY <1>1 DEF GuardrailsTypeOK
<1>3. OpenLoss' = OpenLoss /\ OpenGain' = OpenGain /\ Outstanding' = Outstanding
  BY DEF OpenLoss, OpenGain, ExpectedLoss, ExpectedGain, Outstanding
<1>4. /\ losses \in Nat /\ Cardinality(Outstanding) \in Nat
      /\ MaxConsecutive \in Nat /\ excess.streak \in Nat
  BY <1>1, OpenTypes, ConstantTypes DEF GuardrailsTypeOK, OpenTyped
<1>5. losses' + Cardinality(Outstanding) <= MaxConsecutive + excess.streak
  BY <1>1, <1>4 DEF RoomForOpen
<1>6. RoomForOpen'
  BY <1>1, <1>3, <1>5 DEF RoomForOpen
<1> QED
  BY <1>2, <1>6, RoomSufficesNext

(* No day exceeds its loss limit, its profit cap or its losing streak by     *)
(* more than what authorize_trade is never asked about, however limits and   *)
(* caps change and whatever halts, resumptions and resets come in between    *)
(* (authorize_trade, record_profit, record_loss, the setters of the limits). *)
THEOREM DaysStayWithinLimits == GuardrailsSpec => []GuardrailsSound
<1>1. GuardrailsInit => GuardrailsInv
  <2> SUFFICES ASSUME GuardrailsInit PROVE GuardrailsInv
    OBVIOUS
  <2>1. GuardrailsTypeOK
    BY ConstantTypes DEF GuardrailsInit, GuardrailsTypeOK
  <2>2. \A t \in Trades : open[t] = NotOpen
    BY DEF GuardrailsInit
  <2>3. OpenLoss = 0 /\ OpenGain = 0
    <3>1. \A t \in Trades : ExpectedLoss[t] = 0 /\ ExpectedGain[t] = 0
      BY <2>2 DEF ExpectedLoss, ExpectedGain
    <3> QED
      BY <3>1, ConstantTypes, SumZero DEF OpenLoss, OpenGain
  <2>4. Cardinality(Outstanding) = 0
    <3>1. Outstanding = {}
      BY <2>2 DEF Outstanding
    <3> QED
      BY <3>1, FS_EmptySet
  <2>5. RoomForOpen
    <3>1. /\ profit = 0 /\ loss = 0 /\ losses = 0
          /\ lossLimit \in Nat /\ profitCap \in Nat /\ MaxConsecutive \in Nat
          /\ excess.loss = 0 /\ excess.gain = 0 /\ excess.streak = 0
      BY ConstantTypes DEF GuardrailsInit
    <3> QED
      BY <2>3, <2>4, <3>1 DEF RoomForOpen
  <2> QED
    BY <2>1, <2>5, RoomSuffices
<1>2. GuardrailsInv /\ [GuardrailsNext]_guardVars => GuardrailsInv'
  <2> SUFFICES ASSUME GuardrailsInv, [GuardrailsNext]_guardVars
               PROVE  GuardrailsInv'
    OBVIOUS
  <2>0. halt \in BOOLEAN /\ vetoes \subseteq Specialists /\ lossLimit \in LossLimits /\ profitCap \in Nat
    BY DEF GuardrailsInv, GuardrailsSound, GuardrailsTypeOK
  <2>1. ASSUME NEW e \in Expectation, Exhausted(e) PROVE GuardrailsInv'
    BY <2>0, <2>1, HaltKeeps DEF Exhausted, limitVars
  <2>2. CASE TriggerEmergencyHalt
    BY <2>0, <2>2, HaltKeeps DEF TriggerEmergencyHalt, limitVars
  <2>3. ASSUME NEW s \in Specialists, NEW state \in BOOLEAN, TriggerSpecialistHalt(s, state)
        PROVE  GuardrailsInv'
    BY <2>0, <2>3, HaltKeeps DEF TriggerSpecialistHalt, limitVars
  <2>4. CASE ResumeOperations
    BY <2>0, <2>4, HaltKeeps DEF ResumeOperations, limitVars
  <2>5. CASE UNCHANGED guardVars
    BY <2>0, <2>5, HaltKeeps DEF guardVars
  <2>6. ASSUME NEW limit \in LossLimits, SetDailyLossLimit(limit) PROVE GuardrailsInv'
    BY <2>0, <2>6, LimitsKeep DEF SetDailyLossLimit
  <2>7. ASSUME NEW cap \in ProfitCaps, SetDailyProfitCap(cap) PROVE GuardrailsInv'
    <3>1. CapScale * cap \in Nat
      BY ConstantTypes DEF CapScale
    <3> QED
      BY <2>0, <2>7, <3>1, LimitsKeep DEF SetDailyProfitCap
  <2>8. ASSUME NEW limit \in LossLimits, NEW cap \in ProfitCaps, InitializeFromCapital(limit, cap)
        PROVE  GuardrailsInv'
    BY <2>8, ConstantTypes, LimitsKeep DEF InitializeFromCapital
  <2> QED
    BY ApproveKeeps, RecordKeeps, ResetKeeps, <2>1, <2>2, <2>3, <2>4, <2>5, <2>6, <2>7, <2>8
    DEF GuardrailsNext
<1>3. GuardrailsInv => GuardrailsSound
  BY DEF GuardrailsInv
<1> QED
  BY <1>1, <1>2, <1>3, PTL DEF GuardrailsSpec

-----------------------------------------------------------------------------
(* The sweeper.                                                              *)

Transfers == [pc : {"idle", "send", "account"}, amount : Nat]

LEMMA SweepConstants ==
  /\ Timer \in Callers /\ Clients \subseteq Callers /\ Timer \notin Clients
  /\ Profits \subseteq Int
  /\ threshold_eth \in Nat /\ max_transfer_eth \in Nat
  /\ Cooldown \in Nat /\ MaxMoved \in Nat
BY SweepAssumption DEF Callers

(* The amount of a sweep is what the profit it looked at has left over. *)
LEMMA AmountBounds ==
  ASSUME TypeOK, NEW earned \in Int
  PROVE  /\ Amount(earned) \in Nat
         /\ Amount(earned) > 0 => swept + Amount(earned) <= earned
BY SweepConstants DEF TypeOK, Amount, Unswept

(* What a decision leaves behind, whoever takes it. *)
LEMMA Decided ==
  ASSUME TypeOK, NEW c \in Callers, NEW earned \in Int, Decide(c, earned)
  PROVE  /\ call' \in [Callers -> Transfers]
         /\ call'[c] = [pc |-> "send", amount |-> Amount(earned)]
         /\ \A d \in Callers : d # c => call'[d] = call[d]
         /\ mishaps' \subseteq Mishaps /\ mishaps \subseteq mishaps'
         /\ "overlap" \notin mishaps' =>
              "overlap" \notin mishaps /\ \A d \in Callers : call[d].pc = "idle"
<1>1. Amount(earned) \in Nat
  BY AmountBounds
<1>2. [pc |-> "send", amount |-> Amount(earned)] \in Transfers
  BY <1>1 DEF Transfers
<1>3. call \in [Callers -> Transfers]
  BY DEF TypeOK, Transfers
<1>4. call' = [call EXCEPT ![c] = [pc |-> "send", amount |-> Amount(earned)]]
  BY DEF Decide
<1>5. /\ call' \in [Callers -> Transfers]
      /\ call'[c] = [pc |-> "send", amount |-> Amount(earned)]
      /\ \A d \in Callers : d # c => call'[d] = call[d]
  BY <1>2, <1>3, <1>4
<1>6. /\ mishaps' \subseteq Mishaps /\ mishaps \subseteq mishaps'
      /\ "overlap" \notin mishaps' =>
           "overlap" \notin mishaps /\ \A d \in Callers : call[d].pc = "idle"
  BY DEF Decide, Quiet, TypeOK, Mishaps
<1>7. QED
  BY <1>5, <1>6

(* Every section of the sweeper keeps the types. *)
THEOREM SweepTypeCorrect == Spec => []TypeOK
<1>1. Init => TypeOK
  BY SweepConstants DEF Init, TypeOK, Idle
<1>2. TypeOK /\ [Next]_vars => TypeOK'
  <2> SUFFICES ASSUME TypeOK, [Next]_vars PROVE TypeOK'
    OBVIOUS
  <2>1. ASSUME NEW earned \in Profits, Trade(earned) PROVE TypeOK'
    BY <2>1, SweepConstants DEF Trade, TypeOK, Mishaps
  <2>2. CASE Check
    <3>1. call' \in [Callers -> Transfers] /\ mishaps' \subseteq Mishaps
      BY <2>2, Decided, SweepConstants DEF Check, TypeOK, Transfers
    <3>2. QED
      BY <2>2, <3>1 DEF Check, TypeOK, Transfers
  <2>3. ASSUME NEW c \in Clients, Trigger(c) PROVE TypeOK'
    <3>1. call' \in [Callers -> Transfers] /\ mishaps' \subseteq Mishaps
      BY <2>3, Decided, SweepConstants DEF Trigger, TypeOK
    <3>2. QED
      BY <2>3, <3>1 DEF Trigger, TypeOK, Transfers
  <2>4. ASSUME NEW c \in Callers, Send(c) \/ SendFails(c) \/ Account(c) PROVE TypeOK'
    <3>1. CASE Send(c)
      BY <3>1, SweepConstants DEF Send, TypeOK
    <3>2. CASE SendFails(c)
      BY <3>2 DEF SendFails, TypeOK, Idle
    <3>3. CASE Account(c)
      BY <3>3, SweepConstants DEF Account, TypeOK, Idle
    <3>4. QED
      BY <2>4, <3>1, <3>2, <3>3
  <2>5. ASSUME NEW c \in Clients, Disconnect(c) PROVE TypeOK'
    BY <2>5, SweepConstants DEF Disconnect, TypeOK, Idle, Mishaps
  <2>6. CASE RefreshAccumulated \/ Tick \/ UNCHANGED vars
    BY <2>6, SweepConstants DEF RefreshAccumulated, Tick, vars, TypeOK
  <2>7. QED
    BY <2>1, <2>2, <2>3, <2>4, <2>5, <2>6 DEF Next
<1>3. QED
  BY <1>1, <1>2, PTL DEF Spec

-----------------------------------------------------------------------------
(* While sweeps do not overlap there is one at most, and one that has not    *)
(* been sent was decided when no cooldown ran: only the accounting of        *)
(* another sweep could have started one since.                               *)
OneSweep ==
  "overlap" \notin mishaps =>
    /\ \A c, d \in Callers : call[c].pc # "idle" /\ call[d].pc # "idle" => c = d
    /\ \A c \in Callers : call[c].pc = "send" => cooldown = 0

LEMMA DecidedAlone ==
  ASSUME TypeOK, OneSweep, NEW c \in Callers, NEW earned \in Int,
         Decide(c, earned), cooldown = 0, cooldown' = cooldown
  PROVE  OneSweep'
<1>1. /\ \A d \in Callers : d # c => call'[d] = call[d]
      /\ "overlap" \notin mishaps' => \A d \in Callers : call[d].pc = "idle"
  BY Decided
<1>2. ASSUME "overlap" \notin mishaps'
      PROVE  \A d, e \in Callers : call'[d].pc # "idle" /\ call'[e].pc # "idle" => d = e
  BY <1>1, <1>2
<1>3. QED
  BY <1>2 DEF OneSweep

LEMMA OneSweepStep ==
  ASSUME TypeOK, OneSweep, [Next]_vars
  PROVE  OneSweep'
<1> USE DEF OneSweep
<1>1. ASSUME NEW earned \in Profits, Trade(earned) PROVE OneSweep'
  BY <1>1 DEF Trade
<1>2. CASE Check
  <2>1. CASE UNCHANGED <<call, mishaps>>
    BY <1>2, <2>1 DEF Check
  <2>2. CASE Decide(Timer, accumulated) /\ cooldown = 0
    BY <1>2, <2>2, DecidedAlone, SweepConstants DEF Check, TypeOK
  <2>3. QED
    BY <1>2, <2>1, <2>2 DEF Check
<1>3. ASSUME NEW c \in Clients, Trigger(c) PROVE OneSweep'
  BY <1>3, DecidedAlone, SweepConstants DEF Trigger, TypeOK
<1>4. ASSUME NEW c \in Callers, Send(c) \/ SendFails(c) \/ Account(c) PROVE OneSweep'
  <2>1. CASE Send(c)
    BY <2>1 DEF Send, TypeOK
  <2>2. CASE SendFails(c)
    BY <2>2 DEF SendFails, TypeOK, Idle
  <2>3. CASE Account(c)
    BY <2>3 DEF Account, TypeOK, Idle
  <2>4. QED
    BY <1>4, <2>1, <2>2, <2>3
<1>5. ASSUME NEW c \in Clients, Disconnect(c) PROVE OneSweep'
  BY <1>5, SweepConstants DEF Disconnect, TypeOK, Idle
<1>6. CASE RefreshAccumulated \/ UNCHANGED vars
  BY <1>6 DEF RefreshAccumulated, vars
<1>7. CASE Tick
  BY <1>7 DEF Tick, TypeOK
<1>8. QED
  BY <1>1, <1>2, <1>3, <1>4, <1>5, <1>6, <1>7 DEF Next

LEMMA OneSweepHolds == Spec => []OneSweep
<1>1. Init => OneSweep
  BY DEF Init, OneSweep, Idle
<1>2. TypeOK /\ OneSweep /\ [Next]_vars => OneSweep'
  BY OneSweepStep
<1>3. QED
  BY <1>1, <1>2, SweepTypeCorrect, PTL DEF Spec

(* Nothing is moved during the cooldown of an earlier transfer while sweeps  *)
(* do not overlap, although the cooldown is read before the contract call    *)
(* and set after it, and requests are dropped in between.                    *)
THEOREM CooldownKeptHolds == Spec => CooldownKept
<1>1. TypeOK /\ OneSweep /\ [Next]_vars =>
        [moved' # moved /\ "overlap" \notin mishaps => cooldown = 0]_vars
  <2> SUFFICES ASSUME TypeOK, OneSweep, [Next]_vars, moved' # moved,
                      "overlap" \notin mishaps
               PROVE  cooldown = 0
    OBVIOUS
  <2>1. PICK c \in Callers : Send(c)
    BY DEF Next, Trade, Check, RefreshAccumulated, Trigger, Disconnect, SendFails,
           Account, Tick, vars
  <2>2. QED
    BY <2>1 DEF Send, OneSweep
<1>2. QED
  BY <1>1, SweepTypeCorrect, OneSweepHolds, PTL DEF Spec, CooldownKept

(* While trades only add profit and one sweep at a time runs to its end,     *)
(* what was moved is at most what is accounted for and what is about to be,  *)
(* and both are covered by profit: a cached sum is never above the real one. *)
Covered ==
  mishaps = {} =>
    /\ cached <= accumulated /\ moved <= accumulated
    /\ \A c \in Callers :
         call[c].pc # "idle" /\ call[c].amount > 0 => swept + call[c].amount <= accumulated
    /\ (\A c \in Callers : call[c].pc # "account") => moved <= swept
    /\ \A c \in Callers : call[c].pc = "account" => moved <= swept + call[c].amount

LEMMA CoveredStep ==
  ASSUME TypeOK, OneSweep, Covered, [Next]_vars
  PROVE  Covered'
<1> USE DEF Covered
<1>1. ASSUME NEW earned \in Profits, Trade(earned) PROVE Covered'
  <2>1. /\ accumulated' = accumulated + earned
        /\ mishaps' = IF earned < 0 THEN mishaps \union {"loss"} ELSE mishaps
        /\ UNCHANGED <<cached, swept, cooldown, call, moved>>
    BY <1>1 DEF Trade
  <2>2. /\ accumulated \in Int /\ cached \in Int /\ moved \in Int /\ swept \in Int
        /\ \A c \in Callers : call[c].amount \in Int
    BY DEF TypeOK
  <2>3. earned \in Int
    BY SweepConstants
  <2>4. mishaps' = {} => mishaps = {} /\ ~(earned < 0)
    BY <2>1
  <2>5. mishaps' = {} => accumulated <= accumulated'
    BY <2>1, <2>2, <2>3, <2>4
  <2>6. accumulated' \in Int
    BY <2>1, <2>2, <2>3
  <2> QED
    BY <2>1, <2>2, <2>4, <2>5, <2>6
<1>2. ASSUME NEW c \in Callers, NEW earned \in Int, Decide(c, earned),
             earned <= accumulated, cached' \in {cached, accumulated},
             UNCHANGED <<accumulated, swept, moved>>
      PROVE  Covered'
  <2> SUFFICES ASSUME mishaps' = {} PROVE Covered'
    OBVIOUS
  <2>1. /\ mishaps = {} /\ \A d \in Callers : call[d].pc = "idle"
        /\ call'[c] = [pc |-> "send", amount |-> Amount(earned)]
        /\ \A d \in Callers : d # c => call'[d] = call[d]
    BY <1>2, Decided
  <2>2. moved <= swept /\ moved <= accumulated /\ cached <= accumulated
    BY <2>1
  <2>3. Amount(earned) \in Nat /\ (Amount(earned) > 0 => swept + Amount(earned) <= earned)
    BY AmountBounds
  <2>4. call'[c].pc = "send" /\ call'[c].amount = Amount(earned)
    BY <2>1
  <2>5. \A d \in Callers : call'[d].pc # "idle" => d = c
    BY <2>1
  <2>6. cached' <= accumulated'
    BY <1>2, <2>2 DEF TypeOK
  <2>7. Amount(earned) > 0 => swept' + Amount(earned) <= accumulated'
    BY <1>2, <2>3 DEF TypeOK
  <2>8. QED
    BY <1>2, <2>2, <2>4, <2>5, <2>6, <2>7
<1>3. ASSUME Check \/ \E c \in Clients : Trigger(c) PROVE Covered'
  <2>1. CASE Check /\ UNCHANGED <<call, mishaps>>
    BY <2>1 DEF Check, TypeOK
  <2>2. CASE Check /\ Decide(Timer, accumulated)
    BY <1>2, <2>2, SweepConstants DEF Check, TypeOK
  <2>3. ASSUME NEW c \in Clients, Trigger(c) PROVE Covered'
    <3>1. mishaps = {} => cached <= accumulated
      OBVIOUS
    <3>2. mishaps' = {} => mishaps = {}
      BY <2>3, Decided, SweepConstants DEF Trigger, TypeOK
    <3>3. QED
      BY <1>2, <2>3, <3>1, <3>2, SweepConstants DEF Trigger, TypeOK
  <2>4. QED
    BY <1>3, <2>1, <2>2, <2>3 DEF Check
<1>4. ASSUME NEW c \in Callers, Send(c) PROVE Covered'
  BY <1>4, SweepConstants DEF Send, TypeOK, OneSweep
<1>5. ASSUME NEW c \in Callers, SendFails(c) \/ Account(c) PROVE Covered'
  BY <1>5 DEF SendFails, Account, TypeOK, OneSweep, Idle
<1>6. ASSUME NEW c \in Clients, Disconnect(c) PROVE Covered'
  BY <1>6 DEF Disconnect
<1>7. CASE RefreshAccumulated \/ Tick \/ UNCHANGED vars
  BY <1>7 DEF RefreshAccumulated, Tick, vars, TypeOK
<1>8. QED
  BY <1>1, <1>2, <1>3, <1>4, <1>5, <1>6, <1>7 DEF Next

(* "Sweep accounting (prevents double-sweep)": no more is moved than was     *)
(* earned, whatever calls fail and however stale the cached sum is.          *)
THEOREM NoDoubleSweepHolds == Spec => []NoDoubleSweep
<1>1. Init => Covered
  BY DEF Init, Covered, Idle
<1>2. TypeOK /\ OneSweep /\ Covered /\ [Next]_vars => Covered'
  BY CoveredStep
<1>3. Covered => NoDoubleSweep
  BY DEF Covered, NoDoubleSweep
<1>4. QED
  BY <1>1, <1>2, <1>3, SweepTypeCorrect, OneSweepHolds, PTL DEF Spec

-----------------------------------------------------------------------------
(* What the sweeper moves and what it has in its books.                      *)

(* What callers have transferred and not accounted for yet. *)
Unaccounted == [c \in Callers |-> IF call[c].pc = "account" THEN call[c].amount ELSE 0]

(* While no sweep was dropped, every transfer is in the books or about to be. *)
Booked ==
  "dropped" \notin mishaps => moved = swept + SumFunctionOnSet(Unaccounted, Callers)

LEMMA CallersFinite == IsFiniteSet(Callers)
BY SweepAssumption, FS_AddElement DEF Callers

LEMMA UnaccountedType ==
  ASSUME TypeOK
  PROVE  /\ \A c \in Callers : Unaccounted[c] \in Nat
         /\ SumFunctionOnSet(Unaccounted, Callers) \in Nat
<1>1. \A c \in Callers : call[c].amount \in Nat
  BY DEF TypeOK
<1>2. \A c \in Callers : Unaccounted[c] \in Nat
  BY <1>1 DEF Unaccounted
<1> QED
  BY <1>2, CallersFinite, SumType

(* A step of one caller that leaves the others moves the sum by what changes *)
(* for it.                                                                   *)
LEMMA UnaccountedStep ==
  ASSUME TypeOK, TypeOK', NEW c \in Callers, \A d \in Callers : d # c => call'[d] = call[d]
  PROVE  SumFunctionOnSet(Unaccounted', Callers)
           = SumFunctionOnSet(Unaccounted, Callers) - Unaccounted[c] + Unaccounted'[c]
<1>1. PICK f : f = Unaccounted
  OBVIOUS
<1>2. PICK g : g = Unaccounted'
  OBVIOUS
<1>3. \A d \in Callers : f[d] \in Nat
  BY <1>1, UnaccountedType
<1>4. \A d \in Callers : g[d] \in Nat
  <2>1. \A d \in Callers : call'[d].amount \in Nat
    BY DEF TypeOK
  <2> QED
    BY <1>2, <2>1 DEF Unaccounted
<1>5. \A d \in Callers \ {c} : g[d] = f[d]
  BY <1>1, <1>2 DEF Unaccounted
<1>6. SumFunctionOnSet(g, Callers) = SumFunctionOnSet(f, Callers) - f[c] + g[c]
  BY <1>3, <1>4, <1>5, CallersFinite, SumUpdate
<1> QED
  BY <1>1, <1>2, <1>6

LEMMA BookedStep ==
  ASSUME TypeOK, TypeOK', Booked, [Next]_vars
  PROVE  Booked'
<1>0. /\ moved \in Nat /\ swept \in Nat /\ SumFunctionOnSet(Unaccounted, Callers) \in Nat
      /\ \A c \in Callers : call[c].amount \in Nat /\ Unaccounted[c] \in Nat
  BY UnaccountedType DEF TypeOK
<1>1. ASSUME UNCHANGED <<call, swept, moved>>, mishaps \subseteq mishaps'
      PROVE  Booked'
  <2>1. Unaccounted' = Unaccounted
    BY <1>1 DEF Unaccounted
  <2> QED
    BY <1>1, <2>1 DEF Booked
<1>2. ASSUME NEW c \in Callers, \A d \in Callers : d # c => call'[d] = call[d],
             call[c].pc # "account", call'[c].pc # "account",
             UNCHANGED <<swept, moved>>, mishaps \subseteq mishaps'
      PROVE  Booked'
  <2>1. Unaccounted[c] = 0 /\ Unaccounted'[c] = 0
    BY <1>2 DEF Unaccounted
  <2>2. SumFunctionOnSet(Unaccounted', Callers) = SumFunctionOnSet(Unaccounted, Callers)
    BY <1>0, <1>2, <2>1, UnaccountedStep
  <2> QED
    BY <1>2, <2>2 DEF Booked
<1>3. ASSUME NEW earned \in Profits, Trade(earned)
      PROVE  Booked'
  BY <1>1, <1>3 DEF Trade
<1>4. CASE Check
  <2>1. CASE UNCHANGED <<call, mishaps>>
    BY <1>1, <1>4, <2>1 DEF Check
  <2>2. CASE Decide(Timer, accumulated)
    <3>1. /\ call'[Timer].pc = "send" /\ \A d \in Callers : d # Timer => call'[d] = call[d]
          /\ mishaps \subseteq mishaps'
      BY <2>2, Decided, SweepConstants DEF TypeOK
    <3> QED
      BY <1>2, <1>4, <3>1, SweepConstants DEF Check
  <2> QED
    BY <1>4, <2>1, <2>2 DEF Check
<1>5. ASSUME NEW c \in Clients, Trigger(c)
      PROVE  Booked'
  <2>1. c \in Callers /\ cached \in Int /\ Decide(c, cached)
    BY <1>5, SweepConstants DEF TypeOK, Trigger
  <2>2. /\ call'[c] = [pc |-> "send", amount |-> Amount(cached)]
        /\ \A d \in Callers : d # c => call'[d] = call[d]
        /\ mishaps \subseteq mishaps'
    BY <2>1, Decided, Zenon
  <2> QED
    BY <1>2, <1>5, <2>1, <2>2 DEF Trigger
<1>6. ASSUME NEW c \in Callers, Send(c), "dropped" \notin mishaps'
      PROVE  moved' = swept' + SumFunctionOnSet(Unaccounted', Callers)
  <2>1. /\ call[c].pc = "send" /\ call'[c].pc = "account" /\ call'[c].amount = call[c].amount
        /\ \A d \in Callers : d # c => call'[d] = call[d]
        /\ swept' = swept /\ mishaps' = mishaps
    BY <1>6 DEF Send, TypeOK
  <2>2. moved' = moved + call[c].amount
    BY <1>6, <2>1 DEF Send
  <2>3. Unaccounted[c] = 0 /\ Unaccounted'[c] = call[c].amount
    BY <2>1 DEF Unaccounted
  <2>4. SumFunctionOnSet(Unaccounted', Callers)
          = SumFunctionOnSet(Unaccounted, Callers) + call[c].amount
    BY <1>0, <2>1, <2>3, UnaccountedStep
  <2>5. moved = swept + SumFunctionOnSet(Unaccounted, Callers)
    BY <1>6, <2>1 DEF Booked
  <2> QED
    BY <1>0, <2>1, <2>2, <2>4, <2>5
<1>7. ASSUME NEW c \in Callers, SendFails(c)
      PROVE  Booked'
  BY <1>2, <1>7 DEF SendFails, TypeOK, Idle
<1>8. ASSUME NEW c \in Callers, Account(c), "dropped" \notin mishaps'
      PROVE  moved' = swept' + SumFunctionOnSet(Unaccounted', Callers)
  <2>1. /\ call[c].pc = "account" /\ call'[c].pc = "idle"
        /\ \A d \in Callers : d # c => call'[d] = call[d]
        /\ swept' = swept + call[c].amount /\ moved' = moved /\ mishaps' = mishaps
    BY <1>8 DEF Account, TypeOK, Idle
  <2>2. Unaccounted[c] = call[c].amount /\ Unaccounted'[c] = 0
    BY <2>1 DEF Unaccounted
  <2>3. SumFunctionOnSet(Unaccounted', Callers)
          = SumFunctionOnSet(Unaccounted, Callers) - call[c].amount
    BY <1>0, <2>1, <2>2, UnaccountedStep
  <2>4. moved = swept + SumFunctionOnSet(Unaccounted, Callers)
    BY <1>8, <2>1 DEF Booked
  <2> QED
    BY <1>0, <2>1, <2>3, <2>4
<1>9. ASSUME NEW c \in Clients, Disconnect(c)
      PROVE  Booked'
  BY <1>9 DEF Disconnect, Booked
<1>10. CASE RefreshAccumulated \/ Tick \/ UNCHANGED vars
  BY <1>1, <1>10 DEF RefreshAccumulated, Tick, vars
<1> QED
  BY <1>3, <1>4, <1>5, <1>6, <1>7, <1>8, <1>9, <1>10 DEF Next, Booked

(* The accounting catches up with what the contract moved, through overlaps, *)
(* failing calls and losses, and prevents double sweeps: "Sweep accounting   *)
(* (prevents double-sweep)".                                                 *)
THEOREM SweepIsSound == Spec => []SweepSound
<1>1. Init => Booked
  <2> SUFFICES ASSUME Init
               PROVE  Booked
    OBVIOUS
  <2>1. \A c \in Callers : Unaccounted[c] = 0
    BY DEF Init, Unaccounted, Idle
  <2>2. SumFunctionOnSet(Unaccounted, Callers) = 0
    BY <2>1, CallersFinite, SumZero
  <2> QED
    BY <2>2 DEF Init, Booked
<1>2. TypeOK /\ TypeOK' /\ Booked /\ [Next]_vars => Booked'
  BY BookedStep
<1>3. TypeOK /\ Booked => SweptIsMoved
  <2> SUFFICES ASSUME TypeOK, Booked, Quiet, "dropped" \notin mishaps
               PROVE  swept = moved
    BY DEF SweptIsMoved
  <2>1. \A c \in Callers : Unaccounted[c] = 0
    BY DEF Quiet, Unaccounted
  <2>2. SumFunctionOnSet(Unaccounted, Callers) = 0
    BY <2>1, CallersFinite, SumZero
  <2> QED
    BY <2>2 DEF TypeOK, Booked
<1> QED
  BY <1>1, <1>2, <1>3, SweepTypeCorrect, NoDoubleSweepHolds, PTL DEF Spec, SweepSound

-----------------------------------------------------------------------------
(* The trade executor.                                                       *)

(* An order that passed the validation is within the limits for good: the    *)
(* vault's share, the slippage of the executor's making and the floor do not *)
(* change.                                                                   *)
Order == [size : Int, net : Int, slippage : Int, asked : Requests]

WithinLimits(t) == t.size <= MaxTradeSize /\ t.slippage <= slippageCap /\ t.net >= MinProfit * 20

TradeVarsOK ==
  /\ settings \in [mode : Modes, growth : Growths, unstable : BOOLEAN]
  /\ slippageCap \in Nat /\ relayDryRun \in BOOLEAN
  /\ trade \in [at : {"none"}] \union [at : {"spinning"}, order : Order] \union [at : {"relay"}]
  /\ metrics \in [executions : Nat, successes : Nat, failures : Nat]
  /\ tradeQueue \in 0..TradeQueue /\ submitted \in Nat /\ ledger \in Seq(Order)
  /\ bundles \in [submitted : Nat, included : Nat, failed : Nat]
  /\ lostBundles \in [dry : Nat, dropped : Nat]

TradeInv ==
  /\ TradeVarsOK /\ TradesWithinLimits /\ TradesAreRecorded
  /\ trade.at = "spinning" => WithinLimits(trade.order)

(* The call under way, where it counts. *)
Spinning == IF trade.at = "spinning" THEN 1 ELSE 0
AtRelay  == IF trade.at = "relay" THEN 1 ELSE 0

LEMMA RecordedMeans ==
  TradesAreRecorded <=>
    /\ tradeQueue = submitted /\ submitted = Len(ledger) /\ submitted = metrics.successes
    /\ bundles.submitted = Len(ledger)
    /\ bundles.submitted = bundles.included + bundles.failed + lostBundles.dry + lostBundles.dropped + AtRelay
    /\ metrics.executions = metrics.successes + metrics.failures + Spinning
BY DEF TradesAreRecorded, Spinning, AtRelay

LEMMA RecordedMeansNext ==
  TradesAreRecorded' <=>
    /\ tradeQueue' = submitted' /\ submitted' = Len(ledger') /\ submitted' = metrics'.successes
    /\ bundles'.submitted = Len(ledger')
    /\ bundles'.submitted =
         bundles'.included + bundles'.failed + lostBundles'.dry + lostBundles'.dropped + AtRelay'
    /\ metrics'.executions = metrics'.successes + metrics'.failures + Spinning'
BY DEF TradesAreRecorded, Spinning, AtRelay

LEMMA TradeInitially == TradeInit => TradeInv
<1> SUFFICES ASSUME TradeInit
             PROVE  TradeInv
  OBVIOUS
<1>1. TradeVarsOK
  BY TradeAssumption DEF TradeInit, TradeVarsOK, NoTrade
<1>2. ledger = <<>> /\ Len(ledger) = 0 /\ DOMAIN ledger = {}
  BY DEF TradeInit
<1>3. TradesWithinLimits /\ TradesAreRecorded
  BY <1>2 DEF TradeInit, TradesWithinLimits, TradesAreRecorded, NoTrade
<1> QED
  BY <1>1, <1>3 DEF TradeInv, TradeInit, NoTrade

(* What the settings make of a request is an order of the vault's share.     *)
LEMMA AdjustedIsOrder ==
  ASSUME TradeVarsOK, NEW r \in Requests
  PROVE  Adjusted(r) \in Order /\ Adjusted(r).size <= MaxTradeSize
<1>1. /\ r.size \in Nat /\ r.profit \in Int /\ r.slippage \in Nat /\ r.gas \in Nat
      /\ settings.growth \in Nat /\ settings.mode \in Nat /\ MaxTradeSize \in Nat
  BY TradeAssumption DEF TradeVarsOK
<1> DEFINE size == Smaller(r.size * settings.growth, MaxTradeSize)
           net == r.profit * settings.growth * (IF settings.unstable THEN 3 ELSE 2) - r.gas * 20
           slippage == Smaller(r.slippage, settings.mode)
<1>2. r.size * settings.growth \in Int /\ r.profit * settings.growth \in Int
  BY <1>1
<1>3. size \in Int /\ size <= MaxTradeSize
  BY <1>1, <1>2 DEF Smaller
<1>4. net \in Int
  BY <1>1, <1>2
<1>5. slippage \in Int
  BY <1>1 DEF Smaller
<1>6. Adjusted(r) = [size |-> size, net |-> net, slippage |-> slippage, asked |-> r]
  BY DEF Adjusted
<1> HIDE DEF size, net, slippage
<1> QED
  BY <1>3, <1>4, <1>5, <1>6 DEF Order

LEMMA TradeStep == TradeInv /\ [TradeNext]_tradeVars => TradeInv'
<1> SUFFICES ASSUME TradeInv, [TradeNext]_tradeVars
             PROVE  TradeInv'
  OBVIOUS
<1>a. /\ metrics \in [executions : Nat, successes : Nat, failures : Nat]
      /\ bundles \in [submitted : Nat, included : Nat, failed : Nat]
      /\ lostBundles \in [dry : Nat, dropped : Nat]
      /\ submitted \in Nat /\ tradeQueue \in Nat /\ TradeQueue \in Nat
  BY TradeAssumption DEF TradeInv, TradeVarsOK
<1>b. /\ metrics.executions \in Nat /\ metrics.successes \in Nat /\ metrics.failures \in Nat
      /\ bundles.submitted \in Nat /\ bundles.included \in Nat /\ bundles.failed \in Nat
      /\ lostBundles.dry \in Nat /\ lostBundles.dropped \in Nat
  BY <1>a
<1>c. TradesAreRecorded /\ Spinning \in Nat /\ AtRelay \in Nat
  BY DEF TradeInv, Spinning, AtRelay
<1>d. metrics = [executions |-> metrics.executions, successes |-> metrics.successes, failures |-> metrics.failures]
  BY <1>a
<1>e. /\ metrics.executions = metrics.successes + metrics.failures + Spinning
      /\ bundles.submitted = bundles.included + bundles.failed + lostBundles.dry + lostBundles.dropped + AtRelay
  BY <1>c, RecordedMeans
<1>1. CASE ChangeSettings
  <2>1. settings' \in [mode : Modes, growth : Growths, unstable : BOOLEAN]
        /\ UNCHANGED <<slippageCap, relayDryRun, trade, metrics, tradeQueue, submitted, ledger, bundles, lostBundles>>
    BY <1>1 DEF ChangeSettings
  <2> QED
    BY <2>1 DEF TradeInv, TradeVarsOK, TradesWithinLimits, TradesAreRecorded, WithinLimits
<1>2. ASSUME NEW r \in Requests, RejectTrade(r)
      PROVE  TradeInv'
  <2>1. /\ trade.at = "none"
        /\ metrics' = [executions |-> metrics.executions + 1, successes |-> metrics.successes,
                       failures |-> metrics.failures + 1]
        /\ UNCHANGED <<settings, slippageCap, relayDryRun, trade, tradeQueue, submitted, ledger, bundles, lostBundles>>
    BY <1>a, <1>2 DEF RejectTrade, NoTrade
  <2>2. /\ metrics' \in [executions : Nat, successes : Nat, failures : Nat]
        /\ metrics'.executions = metrics.executions + 1 /\ metrics'.successes = metrics.successes
        /\ metrics'.failures = metrics.failures + 1
    BY <1>a, <1>b, <2>1
  <2>3. TradeVarsOK'
    BY <2>1, <2>2 DEF TradeInv, TradeVarsOK
  <2>0. Spinning' = Spinning /\ AtRelay' = AtRelay
    BY <2>1 DEF Spinning, AtRelay
  <2>4. TradesAreRecorded'
    <3>1. metrics'.executions = metrics'.successes + metrics'.failures + Spinning'
      BY <1>b, <1>c, <1>e, <2>2, <2>0
    <3>2. metrics'.successes = metrics.successes
      BY <2>2
    <3> QED
      BY <1>c, <2>1, <2>0, <3>1, <3>2, RecordedMeans, RecordedMeansNext
  <2> QED
    BY <2>1, <2>3, <2>4 DEF TradeInv, TradesWithinLimits
<1>3. ASSUME NEW r \in Requests, AcceptTrade(r)
      PROVE  TradeInv'
  <2> DEFINE order == Adjusted(r)
  <2>1. /\ trade.at = "none" /\ ~IsRejected(order)
        /\ metrics' = [metrics EXCEPT !.executions = @ + 1]
        /\ trade' = [at |-> "spinning", order |-> order]
        /\ UNCHANGED <<settings, slippageCap, relayDryRun, tradeQueue, submitted, ledger, bundles, lostBundles>>
    BY <1>3 DEF AcceptTrade, NoTrade
  <2>2. order \in Order /\ order.size <= MaxTradeSize
    BY AdjustedIsOrder DEF TradeInv
  <2> HIDE DEF order
  <2>3. WithinLimits(order)
    <3>1. order.net \in Int /\ order.slippage \in Int /\ slippageCap \in Nat /\ MinProfit * 20 \in Nat
      BY <2>2, TradeAssumption DEF Order, TradeInv, TradeVarsOK
    <3> QED
      BY <2>1, <2>2, <3>1 DEF IsRejected, WithinLimits
  <2>4. /\ metrics' \in [executions : Nat, successes : Nat, failures : Nat]
        /\ metrics'.executions = metrics.executions + 1 /\ metrics'.successes = metrics.successes
        /\ metrics'.failures = metrics.failures
    BY <1>a, <1>b, <2>1
  <2>5. trade' \in [at : {"spinning"}, order : Order]
    BY <2>1, <2>2
  <2>6. TradeVarsOK'
    BY <2>1, <2>4, <2>5 DEF TradeInv, TradeVarsOK
  <2>0. Spinning' = 1 /\ AtRelay' = 0 /\ Spinning = 0 /\ AtRelay = 0
    BY <2>1 DEF Spinning, AtRelay
  <2>7. TradesAreRecorded'
    BY <1>b, <1>c, <2>1, <2>4, <2>0, RecordedMeans, RecordedMeansNext
  <2> QED
    BY <2>1, <2>3, <2>6, <2>7 DEF TradeInv, TradesWithinLimits, WithinLimits
<1>4. CASE QueueTrade
  <2>1. /\ trade.at = "spinning" /\ tradeQueue < TradeQueue
        /\ tradeQueue' = tradeQueue + 1 /\ submitted' = submitted + 1
        /\ metrics' = [metrics EXCEPT !.successes = @ + 1]
        /\ ledger' = Append(ledger, trade.order)
        /\ bundles' = [bundles EXCEPT !.submitted = @ + 1]
        /\ \/ trade' = NoTrade /\ lostBundles' = [lostBundles EXCEPT !.dry = @ + 1]
           \/ trade' = [at |-> "relay"] /\ lostBundles' = lostBundles
        /\ UNCHANGED <<settings, slippageCap, relayDryRun>>
    BY <1>4 DEF QueueTrade
  <2>2. trade.order \in Order /\ WithinLimits(trade.order) /\ ledger \in Seq(Order)
    BY <2>1 DEF TradeInv, TradeVarsOK
  <2>3. /\ ledger' \in Seq(Order) /\ Len(ledger') = Len(ledger) + 1 /\ Len(ledger) \in Nat
        /\ ledger'[Len(ledger) + 1] = trade.order /\ \A n \in 1..Len(ledger) : ledger'[n] = ledger[n]
        /\ DOMAIN ledger = 1..Len(ledger) /\ DOMAIN ledger' = 1..(Len(ledger) + 1)
    BY <2>1, <2>2, AppendProperties, LenProperties
  <2>4. TradesWithinLimits'
    <3>1. \A n \in DOMAIN ledger' : n \in DOMAIN ledger \/ n = Len(ledger) + 1
      BY <2>3
    <3> QED
      BY <2>1, <2>2, <2>3, <3>1 DEF TradeInv, TradesWithinLimits, WithinLimits
  <2>5. /\ metrics' \in [executions : Nat, successes : Nat, failures : Nat]
        /\ metrics'.executions = metrics.executions /\ metrics'.successes = metrics.successes + 1
        /\ metrics'.failures = metrics.failures
    <3>1. metrics' = [metrics EXCEPT !.successes = metrics.successes + 1]
      BY <2>1
    <3> QED
      BY <1>a, <3>1
  <2>6. /\ bundles' \in [submitted : Nat, included : Nat, failed : Nat]
        /\ bundles'.submitted = bundles.submitted + 1 /\ bundles'.included = bundles.included
        /\ bundles'.failed = bundles.failed
    <3>1. bundles' = [bundles EXCEPT !.submitted = bundles.submitted + 1]
      BY <2>1
    <3> QED
      BY <1>a, <3>1
  <2>7. /\ lostBundles' \in [dry : Nat, dropped : Nat] /\ lostBundles'.dropped = lostBundles.dropped
        /\ \/ trade' = [at |-> "none"] /\ lostBundles'.dry = lostBundles.dry + 1
           \/ trade' = [at |-> "relay"] /\ lostBundles'.dry = lostBundles.dry
    <3>1. CASE trade' = NoTrade /\ lostBundles' = [lostBundles EXCEPT !.dry = lostBundles.dry + 1]
      BY <1>a, <3>1 DEF NoTrade
    <3>2. CASE trade' = [at |-> "relay"] /\ lostBundles' = lostBundles
      BY <1>a, <3>2
    <3> QED
      BY <2>1, <3>1, <3>2
  <2>8. TradeVarsOK'
    <3>1. tradeQueue' \in 0..TradeQueue /\ submitted' \in Nat
      BY <1>a, <1>b, <2>1
    <3>2. trade' \in [at : {"none"}] \union [at : {"spinning"}, order : Order] \union [at : {"relay"}]
      BY <2>7
    <3> QED
      BY <2>1, <2>3, <2>5, <2>6, <2>7, <3>1, <3>2 DEF TradeInv, TradeVarsOK
  <2>9. TradesAreRecorded'
    <3>1. /\ Spinning = 1 /\ AtRelay = 0 /\ Spinning' = 0
          /\ lostBundles'.dry + AtRelay' = lostBundles.dry + 1 /\ AtRelay' \in Nat
      BY <1>b, <2>1, <2>7 DEF Spinning, AtRelay
    <3>2. lostBundles'.dry \in Nat /\ lostBundles'.dropped = lostBundles.dropped
      BY <2>7
    <3>3. metrics'.executions = metrics'.successes + metrics'.failures + Spinning'
      BY <1>b, <1>c, <1>e, <2>5, <3>1
    <3>4. bundles'.submitted =
            bundles'.included + bundles'.failed + lostBundles'.dry + lostBundles'.dropped + AtRelay'
      BY <1>b, <1>c, <1>e, <2>6, <3>1, <3>2
    <3>5. /\ tradeQueue' = submitted' /\ submitted' = Len(ledger') /\ submitted' = metrics'.successes
          /\ bundles'.submitted = Len(ledger')
      BY <1>c, <2>1, <2>3, <2>5, <2>6, RecordedMeans
    <3> QED
      BY <3>3, <3>4, <3>5, RecordedMeansNext
  <2> QED
    BY <2>4, <2>7, <2>8, <2>9 DEF TradeInv
<1>5. ASSUME NEW accepted \in BOOLEAN, RelayAnswers(accepted)
      PROVE  TradeInv'
  <2>1. /\ trade.at = "relay" /\ trade' = [at |-> "none"]
        /\ \/ bundles' = [bundles EXCEPT !.included = @ + 1]
           \/ bundles' = [bundles EXCEPT !.failed = @ + 1]
        /\ UNCHANGED <<settings, slippageCap, relayDryRun, metrics, tradeQueue, submitted, ledger, lostBundles>>
    BY <1>5 DEF RelayAnswers, NoTrade
  <2>2. /\ bundles' \in [submitted : Nat, included : Nat, failed : Nat]
        /\ bundles'.submitted = bundles.submitted
        /\ bundles'.included + bundles'.failed = bundles.included + bundles.failed + 1
    BY <1>a, <1>b, <2>1
  <2>3. TradeVarsOK'
    BY <2>1, <2>2 DEF TradeInv, TradeVarsOK
  <2>0. Spinning' = 0 /\ AtRelay' = 0 /\ Spinning = 0 /\ AtRelay = 1
    BY <2>1 DEF Spinning, AtRelay
  <2>4. TradesAreRecorded'
    BY <1>b, <1>c, <2>1, <2>2, <2>0, RecordedMeans, RecordedMeansNext
  <2> QED
    BY <2>1, <2>3, <2>4 DEF TradeInv, TradesWithinLimits
<1>6. CASE DropTrade
  <2>1. /\ trade.at = "relay" /\ trade' = [at |-> "none"]
        /\ lostBundles' = [lostBundles EXCEPT !.dropped = @ + 1]
        /\ UNCHANGED <<settings, slippageCap, relayDryRun, metrics, tradeQueue, submitted, ledger, bundles>>
    BY <1>6 DEF DropTrade, NoTrade
  <2>2. /\ lostBundles' \in [dry : Nat, dropped : Nat]
        /\ lostBundles'.dry = lostBundles.dry /\ lostBundles'.dropped = lostBundles.dropped + 1
    BY <1>a, <1>b, <2>1
  <2>3. TradeVarsOK'
    BY <2>1, <2>2 DEF TradeInv, TradeVarsOK
  <2>0. Spinning' = 0 /\ AtRelay' = 0 /\ Spinning = 0 /\ AtRelay = 1
    BY <2>1 DEF Spinning, AtRelay
  <2>4. TradesAreRecorded'
    BY <1>b, <1>c, <2>1, <2>2, <2>0, RecordedMeans, RecordedMeansNext
  <2> QED
    BY <2>1, <2>3, <2>4 DEF TradeInv, TradesWithinLimits
<1>7. CASE UNCHANGED tradeVars
  BY <1>7 DEF tradeVars, TradeInv, TradeVarsOK, TradesWithinLimits, TradesAreRecorded, WithinLimits
<1> QED
  BY <1>1, <1>2, <1>3, <1>4, <1>5, <1>6, <1>7 DEF TradeNext

(* No recorded trade leaves the vault's share, the executor's slippage or    *)
(* its floor, and queue, list, ledger, counters and bundles agree, whatever  *)
(* the settings are changed to and whichever calls are dropped               *)
(* (m025_trade_executor.rs, flashbots_mev_protection.rs).                    *)
THEOREM TradesAreSound == TradeSpec => []TradesSound
<1>1. TradeInv => TradesSound
  BY DEF TradeInv, TradeVarsOK, TradesSound, TradeTypeOK
<1> QED
  BY <1>1, TradeInitially, TradeStep, PTL DEF TradeSpec

-----------------------------------------------------------------------------
(* Flash loans.                                                              *)

Verdict == [opp : Opportunities, verdict : {"Approve", "Exception", "Deny"}, loss : Nat]
ExceptionRequest == [id : {o.id : o \in Opportunities}, approved : BOOLEAN]

LoansVarsOK ==
  /\ exposure \in [Pools -> Nat] /\ runningLoss \in Nat /\ verdicts \in Seq(Verdict)
  /\ blocked \in Nat /\ exceptions \in Seq(ExceptionRequest) /\ approvals \in Nat
  /\ loan \in {"none", "spinning", "out"} /\ loanQueue \in 0..LoanQueue
  /\ tally \in [executions : Nat, successes : Nat, failures : Nat]
  /\ ended \in [refused : Nat, dropped : Nat]

LoansInv == LoansVarsOK /\ VerdictsKeepLimits /\ FirstRequestApproved /\ LoansAreAccounted

LEMMA LoansInitially == FlashLoansInit => LoansInv
<1> SUFFICES ASSUME FlashLoansInit
             PROVE  LoansInv
  OBVIOUS
<1>1. /\ verdicts = <<>> /\ DOMAIN verdicts = {} /\ exceptions = <<>> /\ DOMAIN exceptions = {}
      /\ blocked = 0 /\ approvals = 0 /\ exposure = [p \in Pools |-> 0]
  BY DEF FlashLoansInit
<1>2. LoansVarsOK
  BY <1>1, LoansAssumption DEF FlashLoansInit, LoansVarsOK
<1>3. Given("Approve") = {} /\ Given("Deny") = {} /\ \A p \in Pools : ApprovedFor(p) = {}
  BY <1>1 DEF Given, ApprovedFor
<1>4. VerdictsKeepLimits
  <2>1. Cardinality(Given("Deny")) = 0
    BY <1>3, FS_EmptySet
  <2>2. \A p \in Pools : SumFunctionOnSet(AmountsAsked, ApprovedFor(p)) = 0
    BY <1>3, SumEmpty
  <2>3. PoolLimit \in Nat
    BY LoansAssumption
  <2> QED
    BY <1>1, <1>3, <2>1, <2>2, <2>3 DEF VerdictsKeepLimits
<1>5. FirstRequestApproved
  <2>1. Cardinality({n \in DOMAIN exceptions : exceptions[n].approved}) = 0
    BY <1>1, FS_EmptySet
  <2> QED
    BY <1>1, <2>1 DEF FirstRequestApproved
<1>6. LoansAreAccounted
  BY DEF FlashLoansInit, LoansAreAccounted
<1> QED
  BY <1>2, <1>4, <1>5, <1>6 DEF LoansInv

(* A verdict is a denial exactly when the loss would pass the cap, and an    *)
(* approval only within the pool's limit and for who may ask it.             *)
LEMMA VerdictFacts ==
  ASSUME NEW o \in Opportunities, LoansVarsOK
  PROVE  /\ VerdictOn(o) \in {"Approve", "Exception", "Deny"}
         /\ VerdictOn(o) = "Deny" <=> ExceedsDailyLoss(o)
         /\ VerdictOn(o) = "Approve" => /\ exposure[o.pool] + o.size <= PoolLimit
                                        /\ MayAuthorize(o.role) \/ o.size <= MultisigAbove
  BY DEF VerdictOn, PassesLimits

LEMMA VerdictsType ==
  ASSUME LoansVarsOK
  PROVE  /\ Len(verdicts) \in Nat /\ DOMAIN verdicts = 1..Len(verdicts)
         /\ IsFiniteSet(DOMAIN verdicts)
         /\ \A n \in DOMAIN verdicts : AmountsAsked[n] \in Nat /\ verdicts[n].opp \in Opportunities
         /\ \A v : IsFiniteSet(Given(v)) /\ Cardinality(Given(v)) \in Nat
         /\ \A p : IsFiniteSet(ApprovedFor(p)) /\ ApprovedFor(p) \subseteq DOMAIN verdicts
<1>1. Len(verdicts) \in Nat /\ DOMAIN verdicts = 1..Len(verdicts)
  BY LenProperties DEF LoansVarsOK
<1>2. IsFiniteSet(DOMAIN verdicts)
  BY <1>1, FS_Interval
<1>3. \A n \in DOMAIN verdicts : verdicts[n].opp \in Opportunities
  <2>1. \A n \in DOMAIN verdicts : verdicts[n] \in Verdict
    BY <1>1, ElementOfSeq DEF LoansVarsOK
  <2> QED
    BY <2>1 DEF Verdict
<1>4. \A n \in DOMAIN verdicts : AmountsAsked[n] \in Nat
  BY <1>3, LoansAssumption DEF AmountsAsked
<1>5. /\ \A v : Given(v) \in SUBSET DOMAIN verdicts
      /\ \A p : ApprovedFor(p) \in SUBSET DOMAIN verdicts
  BY DEF Given, ApprovedFor
<1>6. /\ \A v : IsFiniteSet(Given(v)) /\ Cardinality(Given(v)) \in Nat
      /\ \A p : IsFiniteSet(ApprovedFor(p)) /\ ApprovedFor(p) \subseteq DOMAIN verdicts
  BY <1>2, <1>5, FS_Subset, FS_CardinalityType
<1> QED
  BY <1>1, <1>2, <1>3, <1>4, <1>6

LEMMA EvaluateKeeps ==
  ASSUME LoansInv, NEW o \in Opportunities, EvaluateOpportunity(o)
  PROVE  LoansInv'
<1> DEFINE given == VerdictOn(o)
           rec == [opp |-> o, verdict |-> given, loss |-> runningLoss]
<1>1. /\ verdicts' = Append(verdicts, rec)
      /\ blocked' = blocked + (IF given = "Deny" THEN 1 ELSE 0)
      /\ exposure' = IF given = "Approve" THEN [exposure EXCEPT ![o.pool] = exposure[o.pool] + o.size]
                     ELSE exposure
      /\ UNCHANGED <<runningLoss, exceptions, approvals, realised, executorVars>>
  BY DEF EvaluateOpportunity
<1>2. /\ given \in {"Approve", "Exception", "Deny"}
      /\ given = "Deny" <=> ExceedsDailyLoss(o)
      /\ given = "Approve" => /\ exposure[o.pool] + o.size <= PoolLimit
                              /\ MayAuthorize(o.role) \/ o.size <= MultisigAbove
  BY VerdictFacts DEF LoansInv
<1>3. /\ o.pool \in Pools /\ o.size \in Nat /\ PoolLimit \in Nat /\ exposure \in [Pools -> Nat]
      /\ runningLoss \in Nat /\ blocked \in Nat
  BY LoansAssumption DEF LoansInv, LoansVarsOK
<1>4. rec \in Verdict /\ rec.opp = o /\ rec.verdict = given /\ rec.loss = runningLoss
  BY <1>2, <1>3 DEF Verdict
<1> HIDE DEF rec, given
<1>5. PICK len \in Nat : len = Len(verdicts)
  BY VerdictsType DEF LoansInv
<1>6. /\ verdicts' \in Seq(Verdict) /\ DOMAIN verdicts = 1..len /\ DOMAIN verdicts' = 1..(len + 1)
      /\ verdicts'[len + 1] = rec /\ \A n \in 1..len : verdicts'[n] = verdicts[n]
      /\ len + 1 \notin DOMAIN verdicts /\ DOMAIN verdicts' = DOMAIN verdicts \union {len + 1}
  <2>1. verdicts \in Seq(Verdict)
    BY DEF LoansInv, LoansVarsOK
  <2>2. /\ verdicts' \in Seq(Verdict) /\ Len(verdicts') = len + 1
        /\ verdicts'[len + 1] = rec /\ \A n \in 1..len : verdicts'[n] = verdicts[n]
    BY <1>1, <1>4, <1>5, <2>1, AppendProperties
  <2>3. DOMAIN verdicts = 1..len /\ DOMAIN verdicts' = 1..(len + 1)
    BY <1>5, <2>1, <2>2, LenProperties
  <2> QED
    BY <2>2, <2>3
<1>7. exposure' \in [Pools -> Nat]
  <2>1. exposure[o.pool] + o.size \in Nat
    BY <1>3
  <2> QED
    BY <1>1, <1>3, <2>1
<1>8. LoansVarsOK'
  BY <1>1, <1>3, <1>6, <1>7 DEF LoansInv, LoansVarsOK, executorVars
<1>9. /\ \A n \in DOMAIN verdicts : AmountsAsked[n] \in Nat /\ AmountsAsked'[n] = AmountsAsked[n]
      /\ AmountsAsked'[len + 1] = o.size
      /\ \A n \in DOMAIN verdicts' : AmountsAsked'[n] \in Nat
  <2>1. \A n \in DOMAIN verdicts : AmountsAsked[n] \in Nat
    BY VerdictsType DEF LoansInv
  <2>2. AmountsAsked'[len + 1] = o.size
    BY <1>4, <1>6 DEF AmountsAsked
  <2>3. \A n \in DOMAIN verdicts : AmountsAsked'[n] = AmountsAsked[n]
    BY <1>6 DEF AmountsAsked
  <2> QED
    BY <1>3, <1>6, <2>1, <2>2, <2>3
<1>10. ASSUME NEW p \in Pools
       PROVE  /\ exposure'[p] = SumFunctionOnSet(AmountsAsked', ApprovedFor(p)')
              /\ exposure'[p] <= PoolLimit
  <2>1. /\ exposure[p] = SumFunctionOnSet(AmountsAsked, ApprovedFor(p)) /\ exposure[p] <= PoolLimit
    BY DEF LoansInv, VerdictsKeepLimits
  <2>2. IsFiniteSet(ApprovedFor(p)) /\ ApprovedFor(p) \subseteq DOMAIN verdicts
    BY VerdictsType DEF LoansInv
  <2>3. SumFunctionOnSet(AmountsAsked', ApprovedFor(p)) = SumFunctionOnSet(AmountsAsked, ApprovedFor(p))
    <3>1. \A n \in ApprovedFor(p) : AmountsAsked[n] \in Nat /\ AmountsAsked'[n] = AmountsAsked[n]
      BY <1>9, <2>2
    <3> QED
      BY <2>2, <3>1, SumSame
  <2>4. CASE given = "Approve" /\ o.pool = p
    <3>1. {n \in 1..(len + 1) : verdicts'[n].verdict = "Approve" /\ verdicts'[n].opp.pool = p}
            = {n \in 1..len : verdicts[n].verdict = "Approve" /\ verdicts[n].opp.pool = p} \union {len + 1}
      BY <1>4, <1>6, <2>4
    <3>2. ApprovedFor(p)' = ApprovedFor(p) \union {len + 1}
      BY <1>6, <3>1 DEF ApprovedFor, Given
    <3>3. /\ len + 1 \notin ApprovedFor(p)
          /\ \A n \in ApprovedFor(p) \union {len + 1} : AmountsAsked'[n] \in Nat
      BY <1>3, <1>6, <1>9, <2>2
    <3>4. SumFunctionOnSet(AmountsAsked', ApprovedFor(p) \union {len + 1})
            = AmountsAsked'[len + 1] + SumFunctionOnSet(AmountsAsked', ApprovedFor(p))
      BY <2>2, <3>3, SumAdd
    <3>5. exposure'[p] = exposure[p] + o.size /\ exposure[p] + o.size <= PoolLimit /\ exposure[p] \in Nat
      BY <1>1, <1>2, <1>3, <2>4
    <3>6. exposure'[p] = SumFunctionOnSet(AmountsAsked', ApprovedFor(p) \union {len + 1})
      BY <1>3, <1>9, <2>1, <2>3, <3>4, <3>5
    <3> QED
      BY <3>2, <3>5, <3>6
  <2>5. CASE ~(given = "Approve" /\ o.pool = p)
    <3>1. {n \in 1..(len + 1) : verdicts'[n].verdict = "Approve" /\ verdicts'[n].opp.pool = p}
            = {n \in 1..len : verdicts[n].verdict = "Approve" /\ verdicts[n].opp.pool = p}
      BY <1>4, <1>6, <2>5
    <3>2. ApprovedFor(p)' = ApprovedFor(p)
      BY <1>6, <3>1 DEF ApprovedFor, Given
    <3>3. exposure'[p] = exposure[p]
      BY <1>1, <1>3, <2>5
    <3> QED
      BY <2>1, <2>3, <3>2, <3>3
  <2> QED
    BY <2>4, <2>5
<1>11. \A n \in Given("Approve")' :
         MayAuthorize(verdicts'[n].opp.role) \/ verdicts'[n].opp.size <= MultisigAbove
  <2> SUFFICES ASSUME NEW n \in DOMAIN verdicts', verdicts'[n].verdict = "Approve"
               PROVE  MayAuthorize(verdicts'[n].opp.role) \/ verdicts'[n].opp.size <= MultisigAbove
    BY DEF Given
  <2>1. CASE n = len + 1
    BY <1>2, <1>4, <1>6, <2>1
  <2>2. CASE n \in DOMAIN verdicts
    BY <1>6, <2>2 DEF LoansInv, VerdictsKeepLimits, Given
  <2> QED
    BY <1>6, <2>1, <2>2
<1>12. \A n \in DOMAIN verdicts' :
         verdicts'[n].loss + Positive(verdicts'[n].opp.gas - verdicts'[n].opp.profit) > MaxLoss
           <=> n \in Given("Deny")'
  <2> SUFFICES ASSUME NEW n \in DOMAIN verdicts'
               PROVE  verdicts'[n].loss + Positive(verdicts'[n].opp.gas - verdicts'[n].opp.profit) > MaxLoss
                        <=> verdicts'[n].verdict = "Deny"
    BY DEF Given
  <2>1. CASE n = len + 1
    BY <1>2, <1>4, <1>6, <2>1 DEF ExceedsDailyLoss
  <2>2. CASE n \in DOMAIN verdicts
    BY <1>6, <2>2 DEF LoansInv, VerdictsKeepLimits, Given
  <2> QED
    BY <1>6, <2>1, <2>2
<1>13. blocked' = Cardinality(Given("Deny")')
  <2>1. /\ blocked = Cardinality(Given("Deny")) /\ IsFiniteSet(Given("Deny"))
        /\ len + 1 \notin Given("Deny")
    BY <1>6, VerdictsType DEF LoansInv, VerdictsKeepLimits, Given
  <2>2. Given("Deny")' = IF given = "Deny" THEN Given("Deny") \union {len + 1} ELSE Given("Deny")
    <3>1. {n \in 1..(len + 1) : verdicts'[n].verdict = "Deny"}
            = IF given = "Deny" THEN {n \in 1..len : verdicts[n].verdict = "Deny"} \union {len + 1}
              ELSE {n \in 1..len : verdicts[n].verdict = "Deny"}
      BY <1>4, <1>6
    <3> QED
      BY <1>6, <3>1 DEF Given
  <2>3. Cardinality(Given("Deny") \union {len + 1}) = Cardinality(Given("Deny")) + 1
    BY <2>1, FS_AddElement
  <2>4. CASE given = "Deny"
    BY <1>1, <1>3, <2>1, <2>2, <2>3, <2>4
  <2>5. CASE given # "Deny"
    BY <1>1, <1>3, <2>1, <2>2, <2>5
  <2> QED
    BY <2>4, <2>5
<1>14. VerdictsKeepLimits'
  BY <1>10, <1>11, <1>12, <1>13 DEF VerdictsKeepLimits
<1>15. FirstRequestApproved' /\ LoansAreAccounted'
  BY <1>1 DEF LoansInv, FirstRequestApproved, LoansAreAccounted, executorVars
<1> QED
  BY <1>8, <1>14, <1>15 DEF LoansInv

(* A step that leaves the verdicts alone. *)
LEMMA VerdictsUntouched ==
  ASSUME VerdictsKeepLimits, UNCHANGED <<exposure, verdicts, blocked>>
  PROVE  VerdictsKeepLimits'
<1>1. /\ \A v : Given(v)' = Given(v)
      /\ \A p : ApprovedFor(p)' = ApprovedFor(p)
      /\ AmountsAsked' = AmountsAsked
  BY DEF Given, ApprovedFor, AmountsAsked
<1>2. \A p \in Pools : /\ exposure'[p] = SumFunctionOnSet(AmountsAsked', ApprovedFor(p)')
                       /\ exposure'[p] <= PoolLimit
  BY <1>1 DEF VerdictsKeepLimits
<1>3. blocked' = Cardinality(Given("Deny")')
  BY <1>1 DEF VerdictsKeepLimits
<1>4. /\ \A n \in Given("Approve")' :
           MayAuthorize(verdicts'[n].opp.role) \/ verdicts'[n].opp.size <= MultisigAbove
      /\ \A n \in DOMAIN verdicts' :
           verdicts'[n].loss + Positive(verdicts'[n].opp.gas - verdicts'[n].opp.profit) > MaxLoss
             <=> n \in Given("Deny")'
  BY <1>1 DEF VerdictsKeepLimits
<1> QED
  BY <1>2, <1>3, <1>4 DEF VerdictsKeepLimits

(* The requests that were approved. *)
Approved == {n \in DOMAIN exceptions : exceptions[n].approved}

LEMMA ExceptionsType ==
  ASSUME LoansVarsOK
  PROVE  /\ Len(exceptions) \in Nat /\ DOMAIN exceptions = 1..Len(exceptions)
         /\ \A n \in DOMAIN exceptions : exceptions[n] \in ExceptionRequest
         /\ IsFiniteSet(Approved) /\ Cardinality(Approved) \in Nat
<1>1. Len(exceptions) \in Nat /\ DOMAIN exceptions = 1..Len(exceptions)
  BY LenProperties DEF LoansVarsOK
<1>2. \A n \in DOMAIN exceptions : exceptions[n] \in ExceptionRequest
  BY <1>1, ElementOfSeq DEF LoansVarsOK
<1>3. IsFiniteSet(1..Len(exceptions)) /\ Approved \in SUBSET (1..Len(exceptions))
  BY <1>1, FS_Interval DEF Approved
<1>4. IsFiniteSet(Approved)
  BY <1>3, FS_Subset
<1> QED
  BY <1>1, <1>2, <1>4, FS_CardinalityType

LEMMA RequestKeeps ==
  ASSUME LoansInv, NEW o \in Opportunities, RequestException(o)
  PROVE  LoansInv'
<1> DEFINE rec == [id |-> o.id, approved |-> FALSE]
<1>1. /\ exceptions' = Append(exceptions, rec)
      /\ UNCHANGED <<exposure, runningLoss, verdicts, blocked, approvals, realised, executorVars>>
  BY DEF RequestException
<1>2. rec \in ExceptionRequest /\ rec.id = o.id /\ ~rec.approved
  BY DEF ExceptionRequest
<1> HIDE DEF rec
<1>3. PICK len \in Nat : len = Len(exceptions)
  BY ExceptionsType DEF LoansInv
<1>4. /\ exceptions' \in Seq(ExceptionRequest)
      /\ DOMAIN exceptions = 1..len /\ DOMAIN exceptions' = 1..(len + 1)
      /\ exceptions'[len + 1] = rec /\ \A n \in 1..len : exceptions'[n] = exceptions[n]
  <2>1. exceptions \in Seq(ExceptionRequest)
    BY DEF LoansInv, LoansVarsOK
  <2>2. /\ exceptions' \in Seq(ExceptionRequest) /\ Len(exceptions') = len + 1
        /\ exceptions'[len + 1] = rec /\ \A n \in 1..len : exceptions'[n] = exceptions[n]
    BY <1>1, <1>2, <1>3, <2>1, AppendProperties
  <2> QED
    BY <1>3, <2>1, <2>2, LenProperties
<1>5. LoansVarsOK'
  BY <1>1, <1>4 DEF LoansInv, LoansVarsOK, executorVars
<1>6. VerdictsKeepLimits' /\ LoansAreAccounted'
  BY <1>1, VerdictsUntouched DEF LoansInv, LoansAreAccounted, executorVars
<1>7. {n \in DOMAIN exceptions' : exceptions'[n].approved} = {n \in DOMAIN exceptions : exceptions[n].approved}
  BY <1>2, <1>4
<1>8. \A n, m \in DOMAIN exceptions' :
        n < m /\ exceptions'[n].id = exceptions'[m].id => ~exceptions'[m].approved
  <2> SUFFICES ASSUME NEW n \in 1..(len + 1), NEW m \in 1..(len + 1), n < m,
                      exceptions'[n].id = exceptions'[m].id
               PROVE  ~exceptions'[m].approved
    BY <1>4
  <2>1. CASE m = len + 1
    BY <1>2, <1>4, <2>1
  <2>2. CASE m # len + 1
    <3>1. n \in DOMAIN exceptions /\ m \in DOMAIN exceptions
      BY <1>4, <2>2
    <3>2. exceptions'[n] = exceptions[n] /\ exceptions'[m] = exceptions[m]
      BY <1>4, <3>1
    <3> QED
      BY <3>1, <3>2 DEF LoansInv, FirstRequestApproved
  <2> QED
    BY <2>1, <2>2
<1>9. FirstRequestApproved'
  BY <1>1, <1>7, <1>8 DEF LoansInv, FirstRequestApproved
<1> QED
  BY <1>5, <1>6, <1>9 DEF LoansInv

LEMMA LoanApproveKeeps ==
  ASSUME LoansInv, NEW o \in Opportunities, NEW role, ApproveException(o.id, role)
  PROVE  LoansInv'
<1> DEFINE asked == {n \in DOMAIN exceptions : exceptions[n].id = o.id}
<1>1. /\ asked # {}
      /\ exceptions' = [exceptions EXCEPT ![Min(asked)].approved = TRUE]
      /\ approvals' = approvals + 1
      /\ UNCHANGED <<exposure, runningLoss, verdicts, blocked, executorVars>>
  BY DEF ApproveException
<1>2. PICK first \in asked : first = Min(asked) /\ \A k \in asked : first <= k
  <2>1. asked \in SUBSET Nat
    BY ExceptionsType DEF LoansInv
  <2>2. \E n \in asked : \A k \in asked : n <= k
    BY <1>1, <2>1, LeastNatural
  <2> QED
    BY <2>2 DEF Min
<1>3. PICK len \in Nat : len = Len(exceptions)
  BY ExceptionsType DEF LoansInv
<1>4. /\ DOMAIN exceptions = 1..len /\ first \in 1..len /\ exceptions \in Seq(ExceptionRequest)
      /\ exceptions[first] \in ExceptionRequest /\ exceptions[first].id = o.id
  BY <1>2, <1>3, ExceptionsType DEF LoansInv, LoansVarsOK
<1> DEFINE rec == [exceptions[first] EXCEPT !.approved = TRUE]
<1>5. rec \in ExceptionRequest /\ rec.id = o.id /\ rec.approved
  BY <1>4 DEF ExceptionRequest
<1>6. exceptions' = [exceptions EXCEPT ![first] = rec]
  BY <1>1, <1>2
<1> HIDE DEF rec
<1>7. /\ exceptions' \in Seq(ExceptionRequest) /\ DOMAIN exceptions' = 1..len
      /\ exceptions'[first] = rec /\ \A n \in (1..len) \ {first} : exceptions'[n] = exceptions[n]
  <2>1. exceptions' \in Seq(ExceptionRequest)
    BY <1>3, <1>4, <1>5, <1>6, ExceptSeq
  <2> QED
    BY <1>4, <1>6, <2>1
<1>8. LoansVarsOK'
  <2>1. approvals' \in Nat
    BY <1>1 DEF LoansInv, LoansVarsOK
  <2> QED
    BY <1>1, <1>7, <2>1 DEF LoansInv, LoansVarsOK, executorVars
<1>9. VerdictsKeepLimits' /\ LoansAreAccounted'
  BY <1>1, VerdictsUntouched DEF LoansInv, LoansAreAccounted, executorVars
<1>10. Cardinality(Approved') <= approvals'
  <2>1. {n \in 1..len : exceptions'[n].approved} = {n \in 1..len : exceptions[n].approved} \union {first}
    BY <1>4, <1>5, <1>7
  <2>2. Approved' = Approved \union {first}
    BY <1>4, <1>7, <2>1 DEF Approved
  <2>3. IsFiniteSet(Approved) /\ Cardinality(Approved) \in Nat /\ Cardinality(Approved) <= approvals
        /\ approvals \in Nat
    BY ExceptionsType DEF LoansInv, LoansVarsOK, FirstRequestApproved, Approved
  <2>4. Cardinality(Approved \union {first}) <= Cardinality(Approved) + 1
        /\ Cardinality(Approved \union {first}) \in Nat
    BY <2>3, FS_AddElement
  <2> QED
    BY <1>1, <2>2, <2>3, <2>4
<1>11. ASSUME NEW n \in 1..len, NEW m \in 1..len, n < m, exceptions'[n].id = exceptions'[m].id
       PROVE  ~exceptions'[m].approved
  <2>1. exceptions'[n].id = exceptions[n].id /\ exceptions'[m].id = exceptions[m].id
    BY <1>4, <1>5, <1>7
  <2>2. m # first
    <3>1. m = first => n \in asked
      BY <1>4, <1>11, <2>1
    <3> QED
      BY <1>2, <1>11, <3>1
  <2>3. exceptions'[m] = exceptions[m]
    BY <1>7, <2>2
  <2> QED
    BY <1>4, <1>11, <2>1, <2>3 DEF LoansInv, FirstRequestApproved
<1>12. FirstRequestApproved'
  BY <1>7, <1>10, <1>11 DEF FirstRequestApproved, Approved
<1> QED
  BY <1>8, <1>9, <1>12 DEF LoansInv

LEMMA RealizedKeeps ==
  ASSUME LoansInv, NEW lost \in Losses, RecordRealizedPnl(lost)
  PROVE  LoansInv'
<1>1. /\ runningLoss' = runningLoss + lost /\ lost \in Nat
      /\ UNCHANGED <<exposure, verdicts, blocked, exceptions, approvals, executorVars>>
  BY LoansAssumption DEF RecordRealizedPnl
<1>2. LoansVarsOK'
  BY <1>1 DEF LoansInv, LoansVarsOK, executorVars
<1>3. VerdictsKeepLimits' /\ FirstRequestApproved' /\ LoansAreAccounted'
  BY <1>1, VerdictsUntouched DEF LoansInv, FirstRequestApproved, LoansAreAccounted, executorVars
<1> QED
  BY <1>2, <1>3 DEF LoansInv

(* The executor's books: the calls that run, and those that still spin. *)
Running == IF loan = "none" THEN 0 ELSE 1
Waiting == IF loan = "spinning" THEN 1 ELSE 0

(* What every step of the executor leaves: its own types and its two sums.   *)
BooksKept ==
  /\ UNCHANGED governorVars
  /\ tally' \in [executions : Nat, successes : Nat, failures : Nat]
  /\ ended' \in [refused : Nat, dropped : Nat]
  /\ loan' \in {"none", "spinning", "out"} /\ loanQueue' \in 0..LoanQueue
  /\ tally'.executions
       = (tally'.successes + tally'.failures) + ended'.refused + ended'.dropped + Running'
  /\ loanQueue' + Waiting' = (tally'.successes + tally'.failures) + ended'.dropped + Running'

LEMMA ExecutorKeeps ==
  ASSUME LoansInv, LoanExecutorNext
  PROVE  LoansInv'
<1>1. /\ tally \in [executions : Nat, successes : Nat, failures : Nat]
      /\ ended \in [refused : Nat, dropped : Nat]
      /\ loan \in {"none", "spinning", "out"} /\ loanQueue \in 0..LoanQueue /\ LoanQueue \in Nat
  BY LoansAssumption DEF LoansInv, LoansVarsOK
<1>2. /\ tally.executions \in Nat /\ tally.successes \in Nat /\ tally.failures \in Nat
      /\ ended.refused \in Nat /\ ended.dropped \in Nat /\ loanQueue \in Nat
  BY <1>1
<1>3. /\ tally.executions = (tally.successes + tally.failures) + ended.refused + ended.dropped + Running
      /\ loanQueue + Waiting = (tally.successes + tally.failures) + ended.dropped + Running
  BY DEF LoansInv, LoansAreAccounted, Running, Waiting
<1>4. ASSUME NEW o \in Opportunities, RefuseLoan(o)
      PROVE  BooksKept
  <2>1. /\ loan = "none" /\ UNCHANGED <<governorVars, loanQueue, loan>>
        /\ tally' = [tally EXCEPT !.executions = tally.executions + 1]
        /\ ended' = [ended EXCEPT !.refused = ended.refused + 1]
    BY <1>4 DEF RefuseLoan
  <2>2. /\ tally' \in [executions : Nat, successes : Nat, failures : Nat]
        /\ tally'.executions = tally.executions + 1
        /\ tally'.successes = tally.successes /\ tally'.failures = tally.failures
    BY <1>1, <2>1
  <2>3. /\ ended' \in [refused : Nat, dropped : Nat]
        /\ ended'.refused = ended.refused + 1 /\ ended'.dropped = ended.dropped
    BY <1>1, <2>1
  <2>4. Running = 0 /\ Waiting = 0 /\ Running' = 0 /\ Waiting' = 0
    BY <2>1 DEF Running, Waiting
  <2>5. /\ tally'.executions
             = (tally'.successes + tally'.failures) + ended'.refused + ended'.dropped + Running'
        /\ loanQueue' + Waiting' = (tally'.successes + tally'.failures) + ended'.dropped + Running'
    BY <1>2, <1>3, <2>1, <2>2, <2>3, <2>4
  <2> QED
    BY <1>1, <2>1, <2>2, <2>3, <2>5 DEF BooksKept
<1>5. ASSUME NEW o \in Opportunities, StartLoan(o)
      PROVE  BooksKept
  <2>1. /\ loan = "none" /\ loan' = "spinning" /\ UNCHANGED <<governorVars, loanQueue, ended>>
        /\ tally' = [tally EXCEPT !.executions = tally.executions + 1]
    BY <1>5 DEF StartLoan
  <2>2. /\ tally' \in [executions : Nat, successes : Nat, failures : Nat]
        /\ tally'.executions = tally.executions + 1
        /\ tally'.successes = tally.successes /\ tally'.failures = tally.failures
    BY <1>1, <2>1
  <2>3. Running = 0 /\ Waiting = 0 /\ Running' = 1 /\ Waiting' = 1
    BY <2>1 DEF Running, Waiting
  <2>4. /\ tally'.executions
             = (tally'.successes + tally'.failures) + ended'.refused + ended'.dropped + Running'
        /\ loanQueue' + Waiting' = (tally'.successes + tally'.failures) + ended'.dropped + Running'
    BY <1>2, <1>3, <2>1, <2>2, <2>3
  <2> QED
    BY <1>1, <2>1, <2>2, <2>4 DEF BooksKept
<1>6. ASSUME QueueLoan
      PROVE  BooksKept
  <2>1. /\ loan = "spinning" /\ loanQueue < LoanQueue /\ loanQueue' = loanQueue + 1 /\ loan' = "out"
        /\ UNCHANGED <<governorVars, tally, ended>>
    BY <1>6 DEF QueueLoan
  <2>2. Running = 1 /\ Waiting = 1 /\ Running' = 1 /\ Waiting' = 0
    BY <2>1 DEF Running, Waiting
  <2>3. /\ tally'.executions
             = (tally'.successes + tally'.failures) + ended'.refused + ended'.dropped + Running'
        /\ loanQueue' + Waiting' = (tally'.successes + tally'.failures) + ended'.dropped + Running'
        /\ loanQueue' \in 0..LoanQueue
    BY <1>1, <1>2, <1>3, <2>1, <2>2
  <2> QED
    BY <1>1, <2>1, <2>3 DEF BooksKept
<1>7. ASSUME NEW success \in BOOLEAN, FinishLoan(success)
      PROVE  BooksKept
  <2>1. /\ loan = "out" /\ loan' = "none" /\ UNCHANGED <<governorVars, loanQueue, ended>>
        /\ \/ tally' = [tally EXCEPT !.successes = tally.successes + 1]
           \/ tally' = [tally EXCEPT !.failures = tally.failures + 1]
    BY <1>7 DEF FinishLoan
  <2>2. /\ tally' \in [executions : Nat, successes : Nat, failures : Nat]
        /\ tally'.executions = tally.executions
        /\ tally'.successes + tally'.failures = (tally.successes + tally.failures) + 1
    <3>1. CASE tally' = [tally EXCEPT !.successes = tally.successes + 1]
      BY <1>1, <3>1
    <3>2. CASE tally' = [tally EXCEPT !.failures = tally.failures + 1]
      BY <1>1, <3>2
    <3> QED
      BY <2>1, <3>1, <3>2
  <2>3. Running = 1 /\ Waiting = 0 /\ Running' = 0 /\ Waiting' = 0
    BY <2>1 DEF Running, Waiting
  <2>4. /\ tally'.executions
             = (tally'.successes + tally'.failures) + ended'.refused + ended'.dropped + Running'
        /\ loanQueue' + Waiting' = (tally'.successes + tally'.failures) + ended'.dropped + Running'
    <3>1. tally'.successes + tally'.failures \in Int
      BY <2>2
    <3>2. loanQueue' = loanQueue /\ ended' = ended
      BY <2>1
    <3> QED
      BY <1>2, <1>3, <2>2, <2>3, <3>1, <3>2
  <2> QED
    BY <1>1, <2>1, <2>2, <2>4 DEF BooksKept
<1>8. ASSUME DropLoan
      PROVE  BooksKept
  <2>1. /\ loan = "out" /\ loan' = "none" /\ UNCHANGED <<governorVars, loanQueue, tally>>
        /\ ended' = [ended EXCEPT !.dropped = ended.dropped + 1]
    BY <1>8 DEF DropLoan
  <2>2. /\ ended' \in [refused : Nat, dropped : Nat]
        /\ ended'.refused = ended.refused /\ ended'.dropped = ended.dropped + 1
    BY <1>1, <2>1
  <2>3. Running = 1 /\ Waiting = 0 /\ Running' = 0 /\ Waiting' = 0
    BY <2>1 DEF Running, Waiting
  <2>4. /\ tally'.executions
             = (tally'.successes + tally'.failures) + ended'.refused + ended'.dropped + Running'
        /\ loanQueue' + Waiting' = (tally'.successes + tally'.failures) + ended'.dropped + Running'
    <3>1. /\ loanQueue' = loanQueue
          /\ tally'.executions = tally.executions /\ tally'.successes + tally'.failures = tally.successes + tally.failures
      BY <2>1
    <3>2. /\ tally.executions = (tally.successes + tally.failures) + ended.refused + ended.dropped + 1
          /\ loanQueue + 0 = (tally.successes + tally.failures) + ended.dropped + 1
      BY <1>3, <2>3
    <3>3. /\ tally.executions
               = (tally.successes + tally.failures) + ended'.refused + ended'.dropped + 0
          /\ loanQueue + 0 = (tally.successes + tally.failures) + ended'.dropped + 0
      BY <1>2, <2>2, <3>2
    <3> QED
      BY <2>3, <3>1, <3>3
  <2> QED
    BY <1>1, <2>1, <2>2, <2>4 DEF BooksKept
<1>9. BooksKept
  BY <1>4, <1>5, <1>6, <1>7, <1>8 DEF LoanExecutorNext
<1>10. LoansVarsOK'
  BY <1>9 DEF BooksKept, LoansInv, LoansVarsOK, governorVars
<1>11. VerdictsKeepLimits' /\ FirstRequestApproved'
  BY <1>9, VerdictsUntouched DEF BooksKept, LoansInv, FirstRequestApproved, governorVars
<1>12. LoansAreAccounted'
  BY <1>9 DEF BooksKept, LoansAreAccounted, Running, Waiting
<1> QED
  BY <1>10, <1>11, <1>12 DEF LoansInv

LEMMA LoansStep == LoansInv /\ [FlashLoansNext]_loanVars => LoansInv'
<1> SUFFICES ASSUME LoansInv, [FlashLoansNext]_loanVars
             PROVE  LoansInv'
  OBVIOUS
<1>1. CASE LoanGovernorNext
  BY <1>1, EvaluateKeeps, RequestKeeps, LoanApproveKeeps, RealizedKeeps DEF LoanGovernorNext
<1>2. CASE LoanExecutorNext
  BY <1>2, ExecutorKeeps
<1>3. CASE UNCHANGED loanVars
  <2>1. VerdictsKeepLimits'
    BY <1>3, VerdictsUntouched DEF LoansInv, loanVars, governorVars
  <2> QED
    BY <1>3, <2>1 DEF LoansInv, LoansVarsOK, FirstRequestApproved, LoansAreAccounted,
                      loanVars, governorVars, executorVars
<1> QED
  BY <1>1, <1>2, <1>3 DEF FlashLoansNext

(* What is approved for a pool is what its exposure says and stays within    *)
(* the pool's limit, no large amount is approved for anyone but the          *)
(* treasury, a denial is given exactly when the loss would pass the cap, of  *)
(* several requests for an opportunity only the first is approved, and every *)
(* call of the executor is accounted for (m135_flash_loan_governor.rs,       *)
(* m137_flash_loan_executor.rs).                                             *)
THEOREM FlashLoansAreSound == FlashLoansSpec => []FlashLoansSound
<1>1. LoansInv => FlashLoansSound
  <2>1. LoansVarsOK => \A n \in DOMAIN verdicts : verdicts[n].verdict \in {"Approve", "Exception", "Deny"}
    <3>1. LoansVarsOK => \A n \in DOMAIN verdicts : verdicts[n] \in Verdict
      BY VerdictsType, ElementOfSeq DEF LoansVarsOK
    <3> QED
      BY <3>1 DEF Verdict
  <2> QED
    BY <2>1 DEF LoansInv, LoansVarsOK, FlashLoansSound, LoansTypeOK
<1> QED
  BY <1>1, LoansInitially, LoansStep, PTL DEF FlashLoansSpec
=============================================================================
