---------------------------- MODULE AutoTransfer ----------------------------
(***************************************************************************)
(* The profit sweeper of backend/auto_transfer_scheduler.rs.  A periodic   *)
(* task and the callers of POST /api/auto-transfer/trigger each decide     *)
(* under the state's mutex, release it, await the contract call, and take  *)
(* the mutex again to account for the transfer.  A request's task is       *)
(* dropped, at whatever it awaits, when its client disconnects.            *)
(*                                                                         *)
(* Amounts are whole units.  The cooldown is kept as the time left of it.  *)
(* The events and the timestamps shown to the dashboard are left out.      *)
(***************************************************************************)
EXTENDS Integers, FiniteSets

CONSTANTS
  Timer,          \* the task running run_periodic_check
  Clients,        \* callers of the trigger endpoint
  Profits,        \* net profits of trades (negative for losses)
  threshold_eth,
  max_transfer_eth,
  Cooldown,       \* config.cooldown_secs, in clock ticks
  MaxProfit,      \* bound: the accumulated profit, either way
  MaxMoved        \* bound: what it transfers in all once a request was dropped

ASSUME SweepAssumption ==
  /\ Timer \notin Clients
  /\ IsFiniteSet(Clients)
  /\ Profits \subseteq Int
  /\ {threshold_eth, max_transfer_eth} \subseteq Nat \ {0}
  /\ {Cooldown, MaxProfit, MaxMoved} \subseteq Nat

VARIABLES
  accumulated,  \* the sum of TRADE_RECORDS.net_profit_eth
  cached,       \* state.cached_accumulated_eth
  swept,        \* state.swept_profit_eth
  cooldown,     \* what is left of the cooldown since last_transfer_at
  call,         \* the sweep each caller is in, and its amount
  moved,        \* what the contract has transferred
  mishaps       \* history: what has happened so far of Mishaps

vars == <<accumulated, cached, swept, cooldown, call, moved, mishaps>>

(* A sweep started while another was under way; a client disconnected in its *)
(* sweep; a trade lost money.                                                *)
Mishaps == {"overlap", "dropped", "loss"}

Callers == Clients \union {Timer}

Idle == [pc |-> "idle", amount |-> 0]

Init ==
  /\ accumulated = 0
  /\ cached = 0
  /\ swept = 0
  /\ cooldown = 0
  /\ call = [c \in Callers |-> Idle]
  /\ moved = 0
  /\ mishaps = {}

Quiet == \A c \in Callers : call[c].pc = "idle"

(* The unswept delta against a value of the accumulated profit, never        *)
(* negative, and the amount a sweep moves of it.                             *)
Unswept(earned) == IF earned > swept THEN earned - swept ELSE 0

Amount(earned) ==
  IF Unswept(earned) < max_transfer_eth THEN Unswept(earned) ELSE max_transfer_eth

Decide(c, earned) ==
  /\ call' = [call EXCEPT ![c] = [pc |-> "send", amount |-> Amount(earned)]]
  /\ mishaps' = IF Quiet THEN mishaps ELSE mishaps \union {"overlap"}

-----------------------------------------------------------------------------
(* A trade is recorded. *)
Trade(earned) ==
  /\ accumulated + earned \in -MaxProfit..MaxProfit
  /\ accumulated' = accumulated + earned
  /\ mishaps' = IF earned < 0 THEN mishaps \union {"loss"} ELSE mishaps
  /\ UNCHANGED <<cached, swept, cooldown, call, moved>>

(* Mutants: the cooldown is ignored; the cached sum is not refreshed. *)
CheckInCooldown ==
  /\ call[Timer].pc = "idle"
  /\ cached' = accumulated
  /\ IF Unswept(accumulated) >= threshold_eth
     THEN Decide(Timer, accumulated) ELSE UNCHANGED <<call, mishaps>>
  /\ UNCHANGED <<accumulated, swept, cooldown, moved>>

CheckStale ==
  /\ call[Timer].pc = "idle"
  /\ IF Unswept(cached) >= threshold_eth /\ cooldown = 0
     THEN Decide(Timer, cached) ELSE UNCHANGED <<call, mishaps>>
  /\ UNCHANGED <<accumulated, cached, swept, cooldown, moved>>

(* check_and_trigger_auto_transfer, first critical section (enabled) *)
Check ==
  /\ call[Timer].pc = "idle"
  /\ cached' = accumulated
  /\ IF Unswept(accumulated) >= threshold_eth /\ cooldown = 0
     THEN Decide(Timer, accumulated) ELSE UNCHANGED <<call, mishaps>>
  /\ UNCHANGED <<accumulated, swept, cooldown, moved>>

(* manual_trigger, first critical section: no threshold, and the cached sum  *)
Trigger(c) ==
  /\ call[c].pc = "idle"
  /\ cooldown = 0
  /\ Unswept(cached) > 0
  /\ Decide(c, cached)
  /\ UNCHANGED <<accumulated, cached, swept, cooldown, moved>>

(* get_status refreshes the cached sum. *)
RefreshAccumulated ==
  /\ cached' = accumulated
  /\ UNCHANGED <<accumulated, swept, cooldown, call, moved, mishaps>>

-----------------------------------------------------------------------------
(* execute_transfer: the contract call ... *)
Send(c) ==
  /\ call[c].pc = "send"
  /\ moved' = IF "dropped" \in mishaps /\ moved + call[c].amount > MaxMoved
              THEN MaxMoved ELSE moved + call[c].amount
  /\ call' = [call EXCEPT ![c].pc = "account"]
  /\ UNCHANGED <<accumulated, cached, swept, cooldown, mishaps>>

SendFails(c) ==
  /\ call[c].pc = "send"
  /\ call' = [call EXCEPT ![c] = Idle]
  /\ UNCHANGED <<accumulated, cached, swept, cooldown, moved, mishaps>>

(* Mutant: the swept sum only holds the last amount. *)
AccountLastOnly(c) ==
  /\ call[c].pc = "account"
  /\ swept' = call[c].amount
  /\ cooldown' = Cooldown
  /\ call' = [call EXCEPT ![c] = Idle]
  /\ UNCHANGED <<accumulated, cached, moved, mishaps>>

(* ... and the accounting, second critical section *)
Account(c) ==
  /\ call[c].pc = "account"
  /\ swept' = swept + call[c].amount
  /\ cooldown' = Cooldown
  /\ call' = [call EXCEPT ![c] = Idle]
  /\ UNCHANGED <<accumulated, cached, moved, mishaps>>

(* The request's task is dropped inside the contract call, before or after   *)
(* the transfer happened.                                                    *)
Disconnect(c) ==
  /\ call[c].pc # "idle"
  /\ call' = [call EXCEPT ![c] = Idle]
  /\ mishaps' = mishaps \union {"dropped"}
  /\ UNCHANGED <<accumulated, cached, swept, cooldown, moved>>

Tick ==
  /\ cooldown > 0
  /\ cooldown' = cooldown - 1
  /\ UNCHANGED <<accumulated, cached, swept, call, moved, mishaps>>

Next ==
  \/ \E earned \in Profits : Trade(earned)
  \/ Check
  \/ RefreshAccumulated
  \/ \E c \in Clients : Trigger(c) \/ Disconnect(c)
  \/ \E c \in Callers : Send(c) \/ SendFails(c) \/ Account(c)
  \/ Tick

Spec == Init /\ [][Next]_vars

(* The interval fires for ever, the runtime resumes the periodic task and    *)
(* every request, time passes, and a contract call that is tried again and   *)
(* again succeeds in the end.                                                *)
Fairness ==
  /\ WF_vars(Check)
  /\ \A c \in Callers : SF_vars(Send(c)) /\ WF_vars(Account(c))
  /\ WF_vars(Tick)

FairSpec == Spec /\ Fairness

-----------------------------------------------------------------------------
TypeOK ==
  /\ accumulated \in Int
  /\ cached \in Int
  /\ swept \in Nat
  /\ cooldown \in 0..Cooldown
  /\ call \in [Callers -> [pc : {"idle", "send", "account"}, amount : Nat]]
  /\ moved \in Nat
  /\ mishaps \subseteq Mishaps

(* "Sweep accounting (prevents double-sweep)": while trades only add profit, *)
(* sweeps do not overlap and no request is dropped in one, no more is moved  *)
(* than was earned, whatever calls fail and however stale the cached sum is. *)
NoDoubleSweep == mishaps = {} => moved <= accumulated

(* "cooldown_secs ... (anti-double-sweep)": while sweeps do not overlap,     *)
(* nothing is moved during the cooldown of an earlier transfer, not even by  *)
(* a request that took over from a dropped one.                              *)
CooldownKept ==
  [][moved' # moved /\ "overlap" \notin mishaps => cooldown = 0]_vars

(* The accounting catches up: with no sweep under way, and none ever         *)
(* dropped, the swept sum is what was moved, through overlaps and losses.    *)
SweptIsMoved == Quiet /\ "dropped" \notin mishaps => swept = moved

SweepSound == TypeOK /\ NoDoubleSweep /\ SweptIsMoved

(* Profit above the threshold is swept in the end, whatever trades, status   *)
(* requests, manual sweeps, failing calls and disconnects come in between.   *)
ProfitIsSwept ==
  Unswept(accumulated) >= threshold_eth ~> Unswept(accumulated) < threshold_eth

=============================================================================
