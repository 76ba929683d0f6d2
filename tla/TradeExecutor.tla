----------------------------- MODULE TradeExecutor -----------------------------
(***************************************************************************)
(* The trade executor and the bundles it sends                             *)
(* (backend/m025_trade_executor.rs, flashbots_mev_protection.rs).          *)
(*                                                                         *)
(* execute_with_gate applies the Commander's settings to the request,      *)
(* validates, queues and records the trade, and then submits a bundle at   *)
(* an await, where the task can be dropped.  The executor and the server   *)
(* are its own (&mut), the settings are environment variables that others  *)
(* change; the limit on slippage is also read once, when the executor is   *)
(* made, and what FLEET_CAPACITY gives is left as it is.  The relay's      *)
(* client is there and enabled.  Profits and gas are multiplied by twenty, *)
(* for a growth rate in tenths and the half that a low stability adds.     *)
(***************************************************************************)
EXTENDS Integers, Sequences

CONSTANTS
  Requests,      \* records [size, profit, slippage, gas]
  Modes,         \* RISK_MODE: the slippage each allows
  Growths,       \* GROWTH_RATE in tenths
  MaxTradeSize,  \* the vault's share given by FLEET_CAPACITY, in tenths
  MinProfit,     \* min_profit_eth
  TradeQueue,    \* capacity of trade_queue, 65536 in the code
  MaxTrades,     \* bound: calls of execute_with_gate
  MaxSettings    \* bound: changes of the settings

ASSUME TradeAssumption ==
  /\ Requests \subseteq [size : Nat, profit : Int, slippage : Nat, gas : Nat]
  /\ Modes \subseteq Nat /\ Growths \subseteq Nat
  /\ MaxTradeSize \in Nat /\ MinProfit \in Nat /\ TradeQueue \in Nat \ {0}

VARIABLES
  settings,    \* the environment: [mode, growth, unstable]
  changes,     \* changes of the settings so far
  slippageCap, \* max_slippage_bps of the executor
  relayDryRun, \* dry_run of the relay's client
  trade,       \* the call under way
  metrics,     \* ModuleMetrics of the executor
  tradeQueue,  \* length of trade_queue
  submitted,   \* length of submitted_trades
  ledger,      \* what the server has recorded: [size, net, slippage, asked]
  bundles,     \* ModuleMetrics of the relay's client
  lostBundles  \* history: dry bundles, and bundles whose task was dropped

tradeVars == <<settings, changes, slippageCap, relayDryRun, trade, metrics, tradeQueue,
               submitted, ledger, bundles, lostBundles>>

NoTrade == [at |-> "none"]

TradeInit ==
  /\ settings \in [mode : Modes, growth : Growths, unstable : BOOLEAN]
  /\ changes = 0
  /\ slippageCap = settings.mode
  /\ relayDryRun \in BOOLEAN
  /\ trade = NoTrade
  /\ metrics = [executions |-> 0, successes |-> 0, failures |-> 0]
  /\ tradeQueue = 0 /\ submitted = 0 /\ ledger = <<>>
  /\ bundles = [submitted |-> 0, included |-> 0, failed |-> 0]
  /\ lostBundles = [dry |-> 0, dropped |-> 0]

ChangeSettings ==
  /\ changes < MaxSettings
  /\ changes' = changes + 1
  /\ settings' \in [mode : Modes, growth : Growths, unstable : BOOLEAN]
  /\ UNCHANGED <<slippageCap, relayDryRun, trade, metrics, tradeQueue, submitted, ledger, bundles, lostBundles>>

-----------------------------------------------------------------------------
Smaller(a, b) == IF a < b THEN a ELSE b

(* Mutant: the size is capped before the growth rate is applied. *)
AdjustedCapFirst(r) ==
  [size     |-> Smaller(r.size * 10, MaxTradeSize) * settings.growth,
   net      |-> r.profit * settings.growth * (IF settings.unstable THEN 3 ELSE 2) - r.gas * 20,
   slippage |-> Smaller(r.slippage, settings.mode),
   asked    |-> r]

(* The settings: growth scales size and expected profit, the risk mode cuts  *)
(* the slippage, low stability scales the profit (the comment speaks of the  *)
(* floor), the vault caps the size.  The gas is the predictor's where there  *)
(* is one.                                                                   *)
Adjusted(r) ==
  [size     |-> Smaller(r.size * settings.growth, MaxTradeSize),
   net      |-> r.profit * settings.growth * (IF settings.unstable THEN 3 ELSE 2) - r.gas * 20,
   slippage |-> Smaller(r.slippage, settings.mode),
   asked    |-> r]

IsRejected(t) == t.slippage > slippageCap \/ t.net < MinProfit * 20

RejectTrade(r) ==
  /\ trade = NoTrade /\ metrics.executions < MaxTrades
  /\ IsRejected(Adjusted(r))
  /\ metrics' = [metrics EXCEPT !.executions = @ + 1, !.failures = @ + 1]
  /\ UNCHANGED <<settings, changes, slippageCap, relayDryRun, trade, tradeQueue, submitted, ledger, bundles, lostBundles>>

AcceptTrade(r) ==
  /\ trade = NoTrade /\ metrics.executions < MaxTrades
  /\ ~IsRejected(Adjusted(r))
  /\ metrics' = [metrics EXCEPT !.executions = @ + 1]
  /\ trade' = [at |-> "spinning", order |-> Adjusted(r)]
  /\ UNCHANGED <<settings, changes, slippageCap, relayDryRun, tradeQueue, submitted, ledger, bundles, lostBundles>>

(* Once the queue takes it, the trade is kept, counted and recorded, and its *)
(* bundle handed to the relay, all without an await.                         *)
QueueTrade ==
  /\ trade.at = "spinning" /\ tradeQueue < TradeQueue
  /\ tradeQueue' = tradeQueue + 1
  /\ submitted' = submitted + 1
  /\ metrics' = [metrics EXCEPT !.successes = @ + 1]
  /\ ledger' = Append(ledger, trade.order)
  /\ bundles' = [bundles EXCEPT !.submitted = @ + 1]
  /\ IF relayDryRun
     THEN trade' = NoTrade /\ lostBundles' = [lostBundles EXCEPT !.dry = @ + 1]
     ELSE trade' = [at |-> "relay"] /\ UNCHANGED lostBundles
  /\ UNCHANGED <<settings, changes, slippageCap, relayDryRun>>

RelayAnswers(accepted) ==
  /\ trade.at = "relay"
  /\ bundles' = IF accepted THEN [bundles EXCEPT !.included = @ + 1]
                            ELSE [bundles EXCEPT !.failed = @ + 1]
  /\ trade' = NoTrade
  /\ UNCHANGED <<settings, changes, slippageCap, relayDryRun, metrics, tradeQueue, submitted, ledger, lostBundles>>

DropTrade ==
  /\ trade.at = "relay"
  /\ trade' = NoTrade
  /\ lostBundles' = [lostBundles EXCEPT !.dropped = @ + 1]
  /\ UNCHANGED <<settings, changes, slippageCap, relayDryRun, metrics, tradeQueue, submitted, ledger, bundles>>

TradeNext ==
  \/ ChangeSettings
  \/ \E r \in Requests : RejectTrade(r) \/ AcceptTrade(r)
  \/ QueueTrade
  \/ \E accepted \in BOOLEAN : RelayAnswers(accepted)
  \/ DropTrade

TradeSpec == TradeInit /\ [][TradeNext]_tradeVars

-----------------------------------------------------------------------------
TradeTypeOK ==
  /\ trade.at \in {"none", "spinning", "relay"}
  /\ tradeQueue \in 0..TradeQueue
  /\ settings \in [mode : Modes, growth : Growths, unstable : BOOLEAN]

(* Whatever the settings were changed to meanwhile, no recorded trade is     *)
(* larger than the vault's share, above the slippage the executor was made   *)
(* for, or below its floor by the profit it was recorded with.               *)
TradesWithinLimits ==
  \A n \in DOMAIN ledger :
    /\ ledger[n].size <= MaxTradeSize
    /\ ledger[n].slippage <= slippageCap
    /\ ledger[n].net >= MinProfit * 20

(* Queue, list of submitted trades, ledger and counters agree, also when     *)
(* tasks are dropped; each trade has one bundle, which was included, failed, *)
(* dry, dropped or is still with the relay; a call that was neither counted  *)
(* as success nor as failure spins.                                          *)
TradesAreRecorded ==
  /\ tradeQueue = submitted /\ submitted = Len(ledger) /\ submitted = metrics.successes
  /\ bundles.submitted = Len(ledger)
  /\ bundles.submitted = bundles.included + bundles.failed + lostBundles.dry + lostBundles.dropped
                           + (IF trade.at = "relay" THEN 1 ELSE 0)
  /\ metrics.executions = metrics.successes + metrics.failures
                           + (IF trade.at = "spinning" THEN 1 ELSE 0)

(* Both. *)
TradesSound == TradeTypeOK /\ TradesWithinLimits /\ TradesAreRecorded
=============================================================================
