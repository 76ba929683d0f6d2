---------------------------- MODULE MCOperations ----------------------------
(***************************************************************************)
(* Constants for model checking the operational components: nonces, the    *)
(* module registry under the Copilot's probes, flash loans, trades, the    *)
(* vault, the AI providers and the dashboard's backend.  They share no     *)
(* state; a behaviour of the model is a behaviour of the component in      *)
(* focus, from any of its initial states, while the others stay in one of  *)
(* theirs.                                                                 *)
(***************************************************************************)
EXTENDS NonceManager, CopilotAccess, FlashLoans, TradeExecutor, EnvVault, ProviderRegistry,
        DashboardBackend

CONSTANTS n1, n2, l1, w1, w2

VARIABLE focus

OneMinor   == {[major |-> 1, minor |-> 0]}
TwoMinors  == {[major |-> 1, minor |-> 0], [major |-> 1, minor |-> 1]}

Opp(i, w, amount, gain, cost, tooSteep, by) ==
  [id |-> i, pool |-> w, size |-> amount, profit |-> gain, gas |-> cost,
   steep |-> tooSteep, role |-> by]

SampleOpportunities ==
  {Opp(1, w1, 2, 1, 0, FALSE, "Operator"), Opp(1, w1, 3, 0, 2, FALSE, "Treasury"),
   Opp(2, w2, 3, 2, 1, FALSE, "Operator"), Opp(2, w2, 1, 1, 1, TRUE, "Operator")}

SampleRequests ==
  {[size |-> 4, profit |-> 1, slippage |-> 30, gas |-> 0],
   [size |-> 6, profit |-> 3, slippage |-> 120, gas |-> 2]}

Posted(gain, done, seen, lost) ==
  [profit |-> gain, executed |-> done, detected |-> seen, failed |-> lost]

SampleReports ==
  {Posted(2, TRUE, TRUE, FALSE), Posted(0, FALSE, FALSE, TRUE), Posted(-1, TRUE, FALSE, FALSE)}

(* Two names that are hashed to the same shard. *)
OneShard == [n \in ProviderNames |-> 1]

SampleDotenv == [k \in SecretKeys |-> IF k = "PRIVATE_KEY" THEN "d" ELSE NoValue]

nonceVars == vars

Components == {"nonce", "registry", "copilot", "loans", "loanexec", "trades", "vault",
               "providers", "scans", "books"}

(* The registry is explored with two versions of each module and without     *)
(* probes; the probes over the later life of one module that is in place.    *)
FocusInit ==
  /\ focus = "registry" => /\ access = "Full" /\ disk.runner /\ disk.env /\ ~disk.http
                           /\ disk.vars = RequiredVars /\ disk.paths = CriticalPaths
  /\ focus = "copilot" => /\ modules[n2] = NoModule
                          /\ modules[n1] \in {Active(v) : v \in OneMinor}
                          /\ disk.vars \in {{}, RequiredVars} /\ disk.runner = disk.env /\ ~disk.http
  /\ focus \notin {"registry", "copilot"} =>
       /\ access = "Full" /\ disk.runner /\ disk.env /\ ~disk.http
       /\ disk.vars = RequiredVars /\ disk.paths = CriticalPaths
       /\ modules = [n \in Names |-> NoModule]
  /\ focus # "trades" => /\ \A m \in Modes : settings.mode <= m
                         /\ \A g \in Growths : settings.growth <= g
                         /\ ~settings.unstable /\ relayDryRun

OperationsInit ==
  /\ focus \in Components
  /\ Init /\ CopilotInit /\ FlashLoansInit /\ TradeInit /\ VaultInit /\ ProvidersInit
  /\ DashboardInit
  /\ FocusInit

(* With the probes in focus the registry is called once, by one caller, for  *)
(* n1 and for the version it started with.                                   *)
CopilotFocus ==
  /\ CopilotNext
  /\ swaps' <= 1
  /\ \A t \in Loaders : loader'[t] # Resting =>
       t = l1 /\ loader'[t].name = n1 /\ loader'[t].version \in OneMinor

(* The dashboard's scans and its books share the rate limit and the clock    *)
(* only; with the books in focus the clock stops when one window has passed. *)
BooksFocus == (BookNext \/ Tick) /\ clock' <= RateWindow + 1

OperationsNext ==
  /\ UNCHANGED focus
  /\ focus # "nonce" => UNCHANGED nonceVars
  /\ focus \notin {"registry", "copilot"} => UNCHANGED registryVars
  /\ focus # "copilot" => UNCHANGED copilotVars
  /\ focus \notin {"loans", "loanexec"} => UNCHANGED loanVars
  /\ focus # "trades" => UNCHANGED tradeVars
  /\ focus # "vault" => UNCHANGED vaultVars
  /\ focus # "providers" => UNCHANGED providerVars
  /\ focus \notin {"scans", "books"} => UNCHANGED dashboardVars
  /\ \/ focus = "nonce" /\ Next
     \/ focus = "registry" /\ HotSwapNext
     \/ focus = "copilot" /\ CopilotFocus
     \/ focus = "loans" /\ LoanGovernorNext
     \/ focus = "loanexec" /\ LoanExecutorNext
     \/ focus = "trades" /\ TradeNext
     \/ focus = "vault" /\ VaultNext
     \/ focus = "providers" /\ ProvidersNext
     \/ focus = "scans" /\ (ScanNext \/ ProcessRestart)
     \/ focus = "books" /\ BooksFocus

operationsVars ==
  <<focus, nonceVars, registryVars, copilotVars, loanVars, tradeVars, vaultVars, providerVars,
    dashboardVars>>

OperationsSpec == OperationsInit /\ [][OperationsNext]_operationsVars
=============================================================================
