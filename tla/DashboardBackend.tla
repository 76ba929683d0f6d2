-------------------------- MODULE DashboardBackend --------------------------
(***************************************************************************)
(* The Node process behind the dashboard, backend/server.js.  Handlers run *)
(* one at a time; only those that scan the exchanges are left and resumed, *)
(* at the await of the scan.  Every request passes the rate limit first.   *)
(* The books and the cache live in the process, the settings in a file.    *)
(* Left out: routes that answer constants, the wallet's balances and the   *)
(* deployment stage, which are written by a request and read by no other.  *)
(***************************************************************************)
EXTENDS Integers, Sequences, FiniteSets

CONSTANTS
  Addresses,      \* where requests come from
  RateLimit,      \* requests per window and address: 120
  RateWindow,     \* length of a window: a minute
  Visits,         \* requests that may be scanning at the same time
  ScanTTL,        \* how long a scan is served: 20 seconds
  Reports,        \* what is posted as a trade
  Keys,           \* the settings
  SettingValues,  \* the values they are given
  Preset,         \* the value a setting has before it is chosen
  NoEntry, NoScan, NoVisit, Offline, NoSettings, TornFile,
  MaxClock        \* bound on the clock

ASSUME DashboardAssumption ==
  /\ RateLimit \in Nat \ {0} /\ RateWindow \in Nat /\ ScanTTL \in Nat /\ MaxClock \in Nat
  /\ \A r \in Reports : r.profit \in Int
  /\ NoEntry \notin [count : Nat, start : Nat]
  /\ {NoSettings, TornFile} \intersect [Keys -> SettingValues \union {Preset}] = {}

VARIABLES
  clock,
  limiter,      \* rateLimitMap: count and start of each address's window
  admitted,     \* history: when each address's requests passed the guard
  scanCache,    \* _scanCache with _scanCacheAt, and when it was begun and finished
  visit,        \* the scans under way
  served,       \* history: the scan served last, and when
  totals,       \* trades, profit, detected and failed
  booked,       \* history: profit posted and profit transferred by this process
  console,      \* what a connected dashboard was sent last
  outdated,     \* history: profit was transferred since the last message
  consoleSettings, settingsFile,
  asked,        \* history: the settings the user was last told of
  unwritten       \* history: the file does not hold the settings

serveVars    == <<clock, limiter, admitted, scanCache, visit, served>>
bookVars     == <<totals, booked, console, outdated>>
settingsVars == <<consoleSettings, settingsFile, asked, unwritten>>
dashboardVars == <<serveVars, bookVars, settingsVars>>

EmptyLedger == [trades |-> 0, profit |-> 0, detected |-> 0, failed |-> 0]
Defaults == [k \in Keys |-> Preset]

DashboardInit ==
  /\ clock = 0
  /\ limiter = [a \in Addresses |-> NoEntry]
  /\ admitted = [a \in Addresses |-> <<>>]
  /\ scanCache = NoScan /\ served = NoScan
  /\ visit = [v \in Visits |-> NoVisit]
  /\ totals = EmptyLedger
  /\ booked = [posted |-> 0, transferred |-> 0]
  /\ console = Offline /\ outdated = FALSE
  /\ consoleSettings = Defaults /\ settingsFile = NoSettings
  /\ asked = Defaults /\ unwritten = FALSE

-----------------------------------------------------------------------------
(* rateGuard: a window that is over starts again with this request; requests *)
(* beyond the limit are counted, here up to the first, and refused.          *)
Counted(a) ==
  LET open == limiter[a] # NoEntry /\ clock - limiter[a].start <= RateWindow
  IN IF open THEN [limiter[a] EXCEPT !.count = @ + 1] ELSE [count |-> 1, start |-> clock]

Refused(a) ==
  /\ Counted(a).count > RateLimit
  /\ limiter' = [limiter EXCEPT ![a].count = RateLimit + 1]
  /\ UNCHANGED <<clock, admitted, scanCache, visit, served, bookVars, settingsVars>>

Pass(a) ==
  /\ Counted(a).count <= RateLimit
  /\ limiter' = [limiter EXCEPT ![a] = Counted(a)]
  /\ admitted' = [admitted EXCEPT ![a] = Append(@, clock)]
  /\ UNCHANGED clock

-----------------------------------------------------------------------------
(* /api/arbitrage/telemetry and /api/opportunities share the cached scan.    *)
CacheIsFresh == scanCache # NoScan /\ clock - scanCache.at <= ScanTTL

Routes == {"telemetry", "opportunities"}

ServeCached(a) ==
  /\ CacheIsFresh
  /\ Pass(a)
  /\ served' = [scan |-> scanCache, time |-> clock]
  /\ UNCHANGED <<scanCache, visit, bookVars, settingsVars>>

(* Mutant: the cache is dated before the await and replaced after it. *)
StartScanDatesCache(a, v, route) ==
  /\ ~ CacheIsFresh
  /\ visit[v] = NoVisit
  /\ Pass(a)
  /\ visit' = [visit EXCEPT ![v] = [route |-> route, begun |-> clock]]
  /\ scanCache' = IF scanCache = NoScan THEN NoScan ELSE [scanCache EXCEPT !.at = clock]
  /\ UNCHANGED <<served, bookVars, settingsVars>>

StartScan(a, v, route) ==
  /\ ~ CacheIsFresh
  /\ visit[v] = NoVisit
  /\ Pass(a)
  /\ visit' = [visit EXCEPT ![v] = [route |-> route, begun |-> clock]]
  /\ UNCHANGED <<scanCache, served, bookVars, settingsVars>>

(* The await is over: the scan is cached, whatever the cache holds by now,   *)
(* and served.  Telemetry dates it from the request, the other route from    *)
(* its end.                                                                  *)
FinishScan(v) ==
  /\ visit[v] # NoVisit
  /\ scanCache' = [begun |-> visit[v].begun, finished |-> clock,
                   at |-> IF visit[v].route = "telemetry" THEN visit[v].begun ELSE clock]
  /\ served' = [scan |-> scanCache', time |-> clock]
  /\ visit' = [visit EXCEPT ![v] = NoVisit]
  /\ UNCHANGED <<clock, limiter, admitted, bookVars, settingsVars>>

Tick ==
  /\ clock < MaxClock
  /\ clock' = clock + 1
  /\ UNCHANGED <<limiter, admitted, scanCache, visit, served, bookVars, settingsVars>>

-----------------------------------------------------------------------------
(* POST /api/trades: the ledger grows, and the connected dashboards are sent *)
(* the totals when one of the two they show has changed.                     *)
One(b) == IF b THEN 1 ELSE 0

Broadcast(now) ==
  IF now.trades # totals.trades \/ now.profit # totals.profit
  THEN /\ console' = IF console = Offline THEN Offline
                     ELSE [trades |-> now.trades, profit |-> now.profit]
       /\ outdated' = FALSE
  ELSE UNCHANGED <<console, outdated>>

PostTrade(a, report) ==
  /\ Pass(a)
  /\ totals' = [trades |-> totals.trades + One(report.executed),
                profit |-> totals.profit + report.profit,
                detected |-> totals.detected + One(report.detected),
                failed |-> totals.failed + One(report.failed)]
  /\ booked' = [booked EXCEPT !.posted = @ + report.profit]
  /\ Broadcast(totals')
  /\ UNCHANGED <<scanCache, visit, served, settingsVars>>

(* POST /api/execute *)
LogExecution(a) ==
  /\ Pass(a)
  /\ totals' = [totals EXCEPT !.detected = @ + 1]
  /\ UNCHANGED <<scanCache, visit, served, booked, console, outdated, settingsVars>>

(* POST /api/wallet/transfer-profit: settled out, and nobody is told *)
TransferProfit(a) ==
  /\ Pass(a)
  /\ booked' = [booked EXCEPT !.transferred = @ + totals.profit]
  /\ totals' = [totals EXCEPT !.profit = 0]
  /\ outdated' = (outdated \/ totals.profit # 0)
  /\ UNCHANGED <<scanCache, visit, served, console, settingsVars>>

(* A dashboard connects, and is sent the totals, or leaves. *)
Connect ==
  /\ console = Offline
  /\ console' = [trades |-> totals.trades, profit |-> totals.profit]
  /\ outdated' = FALSE
  /\ UNCHANGED <<serveVars, totals, booked, settingsVars>>

Disconnect ==
  /\ console # Offline
  /\ console' = Offline
  /\ UNCHANGED <<serveVars, totals, booked, outdated, settingsVars>>

-----------------------------------------------------------------------------
(* POST /api/settings: merged, written over the file in place, answered with *)
(* ok.  A write that fails is caught and forgotten, and leaves the old file, *)
(* or a torn one.                                                            *)
UpdateSettings(a, key, choice) ==
  /\ Pass(a)
  /\ consoleSettings' = [consoleSettings EXCEPT ![key] = choice]
  /\ asked' = consoleSettings'
  /\ \/ settingsFile' = consoleSettings' /\ unwritten' = FALSE
     \/ settingsFile' \in {settingsFile, TornFile} /\ unwritten' = TRUE
  /\ UNCHANGED <<scanCache, visit, served, bookVars>>

Stored == IF settingsFile \in {NoSettings, TornFile} THEN Defaults ELSE settingsFile

(* The process ends and is started again.  What was not saved is lost. *)
ProcessRestart ==
  /\ limiter' = [a \in Addresses |-> NoEntry]
  /\ admitted' = [a \in Addresses |-> <<>>]
  /\ scanCache' = NoScan /\ served' = NoScan
  /\ visit' = [v \in Visits |-> NoVisit]
  /\ totals' = EmptyLedger
  /\ booked' = [posted |-> 0, transferred |-> 0]
  /\ console' = Offline /\ outdated' = FALSE
  /\ consoleSettings' = Stored
  /\ asked' = IF unwritten THEN consoleSettings' ELSE asked
  /\ unwritten' = FALSE
  /\ UNCHANGED <<clock, settingsFile>>

ScanNext ==
  \/ \E a \in Addresses : Refused(a) \/ ServeCached(a)
  \/ \E a \in Addresses, v \in Visits, route \in Routes : StartScan(a, v, route)
  \/ \E v \in Visits : FinishScan(v)
  \/ Tick

BookNext ==
  \/ \E a \in Addresses, report \in Reports : PostTrade(a, report)
  \/ \E a \in Addresses : LogExecution(a) \/ TransferProfit(a)
  \/ \E a \in Addresses, key \in Keys, choice \in SettingValues : UpdateSettings(a, key, choice)
  \/ Connect \/ Disconnect
  \/ ProcessRestart

DashboardNext == ScanNext \/ BookNext

DashboardSpec == DashboardInit /\ [][DashboardNext]_dashboardVars

-----------------------------------------------------------------------------
DashboardTypeOK ==
  /\ clock \in 0..MaxClock
  /\ \A a \in Addresses : limiter[a] # NoEntry => limiter[a].count \in 1..(RateLimit + 1)
  /\ consoleSettings \in [Keys -> SettingValues \union {Preset}]

(* However requests fall on the edges of the guard's windows, no interval as *)
(* long as a window lets more than twice the limit through.                  *)
Within(times, from) ==
  {k \in DOMAIN times : from <= times[k] /\ times[k] <= from + RateWindow}
RateIsBounded ==
  \A a \in Addresses, from \in 0..clock :
    Cardinality(Within(admitted[a], from)) <= 2 * RateLimit

(* Two routes date the shared scan differently and overwrite each other's:   *)
(* still nobody is served a scan that ended longer than its time to live     *)
(* ago, and the date lies within the scan.                                   *)
ServedIsFresh ==
  served # NoScan =>
    /\ served.time - served.scan.finished <= ScanTTL
    /\ served.scan.begun <= served.scan.at /\ served.scan.at <= served.scan.finished

(* The profit on display is what was posted less what was transferred, and a *)
(* connected dashboard shows the ledger, but for a transfer since its last   *)
(* message.                                                                  *)
BooksBalance ==
  /\ totals.profit = booked.posted - booked.transferred
  /\ console # Offline =>
       /\ console.trades = totals.trades
       /\ ~ outdated => console.profit = totals.profit

(* "Persisted to disk so the Commander console survives restarts": the       *)
(* process runs on the settings it last acknowledged, in this life and the   *)
(* next, unless a write failed and was not made good by a later one.         *)
SettingsSurvive ==
  /\ consoleSettings = asked
  /\ ~ unwritten => Stored = consoleSettings

DashboardSound ==
  DashboardTypeOK /\ RateIsBounded /\ ServedIsFresh /\ BooksBalance /\ SettingsSurvive

=============================================================================
