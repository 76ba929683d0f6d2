# A verification project for the AllBright backend

This directory holds TLA+ models of the parts of this repository that carry
its own concurrent and stateful logic, TLC configurations that check them on
small instances, and theorems about them whose proofs TLAPS checks for every
value of the constants. Each definition is translated from the source (Rust,
Solidity, JavaScript); `PROJECT.json` maps it to the lines it stands for.

1. [Inventory](#1-inventory)
2. [Modules and code](#2-modules-and-code)
3. [Runs](#3-runs)
4. [Assumptions and fairness](#4-assumptions-and-fairness)
5. [Theorems](#5-theorems)
6. [Disagreements between code and documentation](#6-disagreements-between-code-and-documentation)
7. [What is not modelled, and what is left](#7-what-is-not-modelled-and-what-is-left)

## 1. Inventory

The program is an API server (`backend/main.rs`, axum and tonic on tokio) around
a few hundred modules, a governance daemon (`crates/governance`), a Node process
behind the dashboard (`backend/server.js`), contracts, and a dashboard. Most
modules compute numbers or wrap external services. The following hold state
that several tasks, threads, callers or process lives touch.

| component | state it keeps | operations | how it meets the others | what makes it correct |
|---|---|---|---|---|
| Deployment workflow, `backend/deployment.rs` | `DEPLOYMENT_STATE` (authorization, mode, stage, errors, backend mode) behind one tokio `RwLock` | authorize, run the workflow (preflight, simulation, live), diagnose and fix, reset | started by three routes of `main.rs`; asks the pause flag of m300, an environment variable for the kill switch and one for the approval | a stage runs under its own guard, in order; live needs approval; Manual does not fix; a run ends |
| Copilot system access, `copilot_system_access.rs` | access level, probe log; it reads and edits `.env`, `runner.yaml` and other files | preflight, simulation and live check, each a row of probes | probes the hot-swap registry; its verdict gates a deployment | a passed check means what it says; only full access writes |
| Hot-swap registry, `hot_swap_module.rs` | loaded modules and previous versions behind two `RwLock`s | register, load, swap, roll back, unload, fail | filled by `main.rs`; probed by the Copilot | what serves was validated; no module is left rolling back |
| Governance executor, `m300_governance_executor.rs` | proposals, votes, a pause flag, each behind its own `RwLock` | create, vote, execute, cancel, pause, two queue runs | its pause flag gates deployments | only a proposal that passed, waited and is in time is executed; an outcome is final; votes on record are counted |
| Timelock, `m301_timelock.rs` | entries, the pending list, two counters | queue, execute, cancel, list pending | takes m300's proposal types; no caller yet | executions in their window; open entries pending |
| On-chain governor, `contracts/AllBrightGovernance.sol` | voting-power checkpoints, proposals, receipts | propose, vote, execute, cancel, set powers | counterpart of m300 | tallies are receipts; status moves forward; executed once and lawfully |
| Cross-chain sync, `m302_cross_chain_sync.rs` | a governance state per chain, processed ids | create a message, process it, force a sync | no caller yet; mirrors m300's events | a message is applied once; in order, nothing older wins |
| Slashing, `m303_slashing_conditions.rs` | records, jail, offence counts, appeals | record an offence, ask for jail, release, appeal, decide | no caller yet | jail is served; totals are records; one appeal |
| Ethics engine, `shield_guardrails.rs` | day's profit and loss, losing streak, halts, loss limit, profit cap | authorize a trade, record its outcome, halt, resume, reset the day, set the limits | asked by the Copilot loop, which only logs a refusal (`main.rs:1267`), and by `constitution_guard.rs:109`, which nobody calls; outcomes and limits are set by tests and benchmarks only, so every order of calls is taken to be possible | a day exceeds its limits by no more than what was outstanding, unexpected or lowered |
| Trade executor, `m025_trade_executor.rs`, and relay, `flashbots_mev_protection.rs` | queue, submitted trades, counters | execute a trade, submit its bundle | the lock-free queue; the settings in the environment | every trade within the limits, recorded once |
| Flash loans, `m135`, `m137` | exposure, losses, exceptions; queue and metrics | verdict, loss, exception; borrow and trade | both beside m025; neither calls the other | limits hold over a sequence of verdicts; every call is accounted for |
| Fleet records, `main.rs`, `instrumentation.rs` | trade ledger and its global mirror, runners' metrics, counters (DashMaps) | record a trade, push metrics, kill, resume | gRPC and REST | mirror equals ledger; counters add up; no metric is lost |
| Sovereign and Commander audit, `m133`, `m134` | profile, pause and shutdown flags, signed trail; reviews and statistics | evaluation cycles, directives, reports, reviews | two mutexes, taken one after the other by the routes | the state is what the trail says; every directive is reviewed |
| Environment vault, `m055_env_vault.rs`, `env-migrate.rs` | one encrypted file; handles on it | create, open, set a secret, migrate | the server's start takes keys from it | what was acknowledged is stored; the key in use has a source |
| AI providers, `ai/provider_registry.rs`, `ai/manager.rs` | a DashMap of configurations | register, remove, ask | routes of `main.rs`; holds a shard lock across the provider's answer | a call uses the entry as registered; workers are not exhausted |
| Nonce manager, `nonce_manager.rs` | a cached counter and its SQLite row | next, synchronise with the chain, reset, load | owned by `AppState` behind a tokio mutex | a nonce is issued once, also across failures and restarts |
| Auto-transfer, `auto_transfer_scheduler.rs` | config, cooldown, swept and cached profit behind a mutex | periodic check, manual trigger, status | reads the trade records; calls the sweep contract outside of the mutex | profit is swept once, outside of the cooldown, and in the end |
| Lock-free queue, `submicron/lock_free_queue.rs` | ring, head, tail (atomics) | push, pop | m025 and m137 push | it is a bounded FIFO |
| SPSC ring, `crates/micropath` | ring, two cursors (atomics) | try_push, pop_busy | a feed thread and a strategy thread | it is a bounded FIFO |
| Memory pool, `submicron/memory_pool.rs` | offset and watermark (atomics) | allocate, reset | low-latency paths | blocks disjoint, aligned, inside; watermark is the peak |
| Fixed-point pipeline, `upgrade4_sim` | step array, bid matrix, transaction template | execute a packet | a simulator of its own | shifts and tables compute what the formulas say |
| Governance plane, `crates/governance` | the audit log on disk and in memory, verdicts, cards | submit an observation (judge, append, record, publish), replay at start | a daemon of its own; the dashboard reads its cards | only verified observations are shown; decisions are in the log |
| Dashboard backend, `server.js` | request counts per address, a cached scan, the ledger's totals, settings and their file | scan, post a trade, transfer, change a setting, broadcast | Express handlers of one thread, WebSocket clients | limits hold at window edges; no stale scan; books balance; settings survive |

Pure computation (optimisers, AI agents, learning, simulators), adapters that
wrap external contracts, user interfaces, packaging and vendored code have no
state machine of their own; section 7 and `PROJECT.json` give the reasons.

What is hard here, and where a unit test hardly reaches:

* *Interleaved handlers.* Axum runs every request as a task. A handler that
  takes a lock, releases it and takes it again (the workflow, m300's
  `create_proposal`, m301's `queue_proposal`, a swap, an offence, a relayed
  message) meets every other handler in between.
* *Dropped tasks.* A client that disconnects drops its task at whatever await
  it has reached, in the middle of a stage, between a contract call and its
  accounting, or between a directive and its review.
* *Old readings.* m300 and m301 read the clock before they wait for a lock; the
  guardrails authorize against counters that authorized trades have not reached;
  settings change between two reads of one trade.
* *Restarts.* The nonce row, the audit log, the vault and the dashboard's
  settings outlive the process, the rest does not; a kill can come between two
  writes of one line or a truncation and its write.
* *Messages* late, repeated, out of order and processed twice at once (m302).
* *Locks* that are not re-entrant, that are taken in two orders, that are held
  across an await, and a blocking read inside the runtime.
* *Atomics.* The queue, the ring and the pool decide on values other threads
  have changed.
* *Words that wrap*, at cursors, products and powers of two.

`PROJECT.json` lists these hazards at their lines, with the properties that
would notice if the code got them wrong.

## 2. Modules and code

One module per component, an `MC` module with what TLC needs of a group of
components (model values, samples, symmetry, which component a behaviour is
about), and a `_proofs` module where there are theorems. An action is named
after the function, or the part of a function between two awaits, two locks or
two atomic operations, that it stands for. Operators marked "Mutant" are wrong
versions of the definition below them; no specification uses them, they serve to
confirm that the properties can fail. A property named `...Sound` is the
conjunction of a component's type invariant and its named safety invariants,
each with its own comment in the module.

### Deployment and what surrounds it

**Deployment** (`deployment.rs`, routes of `main.rs`, the pause of m300).
`auth` is `DEPLOYMENT_STATE`, `lock` its write guard, `phase` the place of each
request: `StoreContext`, `Authorize`, `PauseGate`, one `EnterStage` and one
`FinishStage` for preflight and simulation each, `ReadBackend`, `EnterLive`,
with `AfterStage` naming what follows a stage. A Manual run reads the pipeline
toggle after its first stage, which panics (`PipelineToggle`): the task ends, or,
with the release profile's `panic = "abort"`, the whole process and its state.
A guard's release and the next acquisition are separate steps, so every other
endpoint fits in between; a stage that keeps its guard is two steps, so that a
disconnect can come inside it. A failing check of an Autonomous run goes to the
phase `diagnose`, which it never leaves: `diagnose_and_fix` waits for a guard its
caller holds. The checks' own measurements are a free choice. Error entries
keep what control depends on: whether the code is auto-fixable and whether it
is marked fixed. `disturbed` is a history variable: a second workflow, a reset
or an authorization while a workflow was running.

**HotSwap** (`hot_swap_module.rs`). One action per section under a lock.
`hot_swap` keeps the read guard of the modules while it waits for the previous
versions, and `rollback` keeps those while it waits to write the modules: a
loader at "peeked" or "restoring" holds a lock, and two such loaders wait for
each other for good. `vetted` remembers what was registered or validated,
`unsaved` the modules whose swap found nothing to go back to.

**CopilotAccess** (`copilot_system_access.rs`) extends HotSwap: the three checks
are sequences of probes, with an await between two, over the registry's modules
and a record `disk` of the files, which swaps and the operator go on changing.
Every probe is an action with its own rules of what it reports and, with full
access, repairs. `quiet` says that nothing but the check itself happened since
it began.

**EnvVault** (`m055_env_vault.rs`, `env-migrate.rs`, the server's start). The
vault is one file that is read and rewritten as a whole, truncation first; the
key comes from the password and the salt in the file, so a vault is its salt
and its secrets, and a handle of an older salt cannot read a newer file.
`set_secret` is a read, a truncation and a write, and handles of several
processes interleave. The start takes `PRIVATE_KEY` from the vault or from
`.env`.

### Governance

**ProposalLife** is the abstract specification of a governance component: votes
only add to the tally of an open proposal, execution happens once and only on a
tally that carries, a closed proposal's tally is final. `Carries` is a parameter.

**GovernanceExecutor** (`m300`). `proposals` and `votes` are the two maps;
`creating` counts the proposals whose vote map is still to be inserted. Every
handler that reads the clock first decides on a reading up to `MaxWait` old.
Ids are handed out in order, so the map of proposals is a sequence. `StatusAt`
is `check_proposal_status`, called by a vote inside its own critical section;
the two queue runs are one action each. `ExecutorKeepsPromise` states that it
implements ProposalLife.

**Governor** (`AllBrightGovernance.sol`). A transaction is one action in the
current block. `StateOf` is `state()`, `MayExecute` the requirements of
`execute`; the contract spells the two out separately, and `QueuedIsExecutable`
says that they agree. A power is kept twice, as `votingPower` and as the newest
checkpoint, and an administrator may set it while votes run; `PowerAt` is the
search through the checkpoints, which `castVote` gives a timestamp for a block.
`VoteCarriesPower` says that a vote nevertheless weighs what its account has at
that moment. `GovernorKeepsPromise` states that it implements ProposalLife.
**MCGovernance** puts both implementations into one run.

**Timelock** (`m301`). `queueing` holds the proposal between the two halves of
`queue_proposal`. The order of the pending list is never used, so it is kept as
a count per proposal. The program has no caller yet; the operations are called
in every order the types allow.

**CrossChainSync** (`m302`). `process_message` is three actions: the duplicate
check, the application, the mark. Any relay may deliver any message that was
ever created, at any time, so messages are late, repeated, reordered and raced.
`applied` and `accepted` are histories, `racedIds` the ids two relays had in
hand at once.

**Slashing** (`m303`). Clones of the engine share its maps; `record_offense`
is a step per lock, `is_jailed` two. `excused` remembers the offenders whose
terms overlapped or who were released while another call was jailing them.

**AuditTrail** (`reflection.rs`, `gatekeeper.rs`, `audit.rs`, the daemon).
`file` is the sequence of the texts and line feeds the writes left, a torn text
included; `Replay` is what `AuditStore::open` reads back. Opening the log and
each write can fail, and `Restart` can come at any step.

**SovereignAudit** (`m133`, `m134`, their routes). A request takes the Sovereign
engine's mutex and then the Commander layer's; between the two it can meet
others or be dropped (`abandoned`). Grades stand for the measured values.

### Trading

**Guardrails** (`shield_guardrails.rs`). An authorization (`Approve`, with `Room`
its tests) and the record of a trade's outcome are separate calls, and several
trades may be open. The loss limit and the profit cap are variables, lowered and
raised by `SetDailyLossLimit`, `SetDailyProfitCap` (ten times the cap that is
asked for, as in the code: `CapScale`) and `InitializeFromCapital`. `excess` is a
history of what no authorization is asked about: what was outstanding at one,
what went beyond its expectation, and what a lower limit took away since the day
began. `DayWithinLimits` bounds the day by its limits and that.

**TradeExecutor** (`m025`, `flashbots_mev_protection.rs`). `Adjusted` applies the
Commander's settings to a request, then come validation, the queue, the record
and the bundle at the relay, at whose await the task can be dropped. Settings
change between and during calls.

**FlashLoans** (`m135`, `m137`). The governor's verdicts, exposure, losses and
exception requests, and the executor's call with its policy, queue and loan. The
two share no state, as in the code.

**Fleet** (`main.rs`, `instrumentation.rs`). Each operation on a DashMap is a step;
`raced` holds the hashes and runners two calls wrote at once.

**AutoTransfer**. `call` is each caller's sweep: decided under the mutex,
`Send` for the contract call outside of it, `Account` for the second critical
section. `moved` is what the contract really moved; `mishaps` is a history of
overlaps, dropped requests and losses.

**NonceManager**. Each method is its awaits: read the cache, `Persist` the row,
`Publish` in the cache; `PersistFails` and `Restart` come anywhere. A reset
starts the numbers again on purpose, so it starts the history `issued` again.

**ProviderRegistry** (`provider_registry.rs`, `manager.rs`). A prompt keeps its
entry borrowed, and the shard's lock with it, until the provider answers. A
registration or removal that meets the lock blocks its worker thread without
yielding; every step of another task needs a worker that is free.

**DashboardBackend** (`server.js`). Handlers run one at a time and are left only
at the await of a scan. `scanCache` carries when its scan began and ended beside
the date the code gives it. The settings' file can be missing, old or torn.

### Low latency

**LockFreeQueue** and **BoundedFifo**. One action per atomic operation or slot
access. `BoundedFifo` is what a queue promises; `LockFreeQueue` maps its ring
and indices to it (`Contents`, `Fifo == INSTANCE BoundedFifo WITH ...`) and
`ImplementsFifo` is checked as a property. The difference of
the indices is taken modulo `IndexWord`, as in a release build.

**SpscRing** (`crates/micropath`). One action per access of the other thread's
cursor or of a slot; cursors wrap modulo `Word`; a slot read while it is written
gives `Torn`. `RingImplementsFifo` states that it implements `BoundedFifo`.

**MemoryPool**. One action per atomic access of `allocate`; the weak exchange
may fail spuriously (`Retry`), and `Reset` may come anywhere.

**CriticalPath** (`upgrade4_sim`). Integer square root, step array, sign mask,
base-fee estimate, bid tiers and template patching as operators on words of
`Bits` bits that wrap, and a packet's way through them.

### Composition

CopilotAccess is checked over the HotSwap registry it probes. Deployment
contains the pause flag of m300 and the kill switch. The other components share
no state in the program: m300 and m301 do not call each other, m135 and m137
neither, m302 and m303 have no caller. The `MC` modules that hold several
components therefore let one of them take steps per behaviour (`focus`), from
any of its initial states: their product would multiply the states and show
nothing more.

## 3. Runs

Every run finishes within three minutes on two TLC workers.

| run | states | shows |
|---|---|---|
| `deploy_workflows` | 1 068 000 | Two workflow requests, every endpoint, disconnects, pauses, aborts: a stage runs under its own guard, no fixed error in Manual mode, live is authorized, stages come in order, and a workflow ends unless a stage is stuck in `diagnose_and_fix`. |
| `deploy_deadlock` | violation | An Autonomous run with one failing check never ends. |
| `governance_life` | 1 253 000 | A proposal's whole life, in m300 and in the contract: executed means passed, waited and in time; what is on record was counted; both implement ProposalLife; a vote in the contract carries the power of its account; the contract's status only moves forward. |
| `governance_record` | violation | A repeated vote is counted twice, recorded once. |
| `sweep_fair` | 534 000 | Timer and a client, gains and losses, sweeps that are capped, failing calls, disconnects: no double sweep, cooldown kept, the accounting catches up, profit is swept in the end. |
| `audit_faults` | 745 000 | Two threads, every fault of the log, kills anywhere: only verified, recorded observations are shown; the log keeps its order and only grows. |
| `audit_torn` | violation | An acknowledged entry is lost after a torn line. |
| `operations` | 945 000 | Nonces, the module registry and the probes over it, flash loans, trades, the vault, the AI providers, the dashboard's scans and books. |
| `oversight` | 1 062 000 | Guardrails, fleet records, slashing, cross-chain sync, the audit layers, the timelock. |
| `low_latency` | 379 000 | Three threads on the pool; three producers on the queue; the ring; the fixed-point pipeline. The queue and the ring are the bounded FIFO. |
| `queue_unwritten` | violation | A pop that overlaps a push returns a slot nobody has written. |
| `path_wraps` | violation | With a reserve whose square does not fit a word the input is not the optimal one. |

*Bounds.*

* Deployment: two requests suffice, because every step of a workflow only tells
  "another request" from "me", and resets and authorizations come from outside
  without a bound.
* Proposals: one proposal with two voters and three votes allows a repeated
  vote, a vote from each side, and a vote in the window of `create_proposal`;
  proposals do not influence each other except through the pause. The contract
  has two accounts with weights around the quorum, two checkpoints each, and
  blocks up to the one in which a queued ballot can be executed; a power can be
  set before a ballot, while it runs, and twice in one block.
* Timelock: delays of 1 and 2 ticks, the type's own ones and a custom one of 3
  (the emergency's part of the minimum is below it, the custom one above the
  maximum), a grace period of one tick and four ticks of clock reach the minimum,
  the maximum, the last instant of the window and the instant after it.
* Sweep: threshold 2, cap 3 and gains of 1 and 3, up to 5 in all, reach the
  threshold exactly, pass it, and exceed what one sweep moves: what a capped
  sweep leaves is itself at the threshold.
* Audit log: three submissions give an entry before and after a torn one and a
  restart between.
* Nonces: five of them, with chain counts that are behind, level and ahead.
* Registry and probes: two modules, two versions, two loaders are enough for the
  two locks to be taken in both orders. The probes are checked over one module
  that one loader swaps once, over files that may each be missing, with one edit
  by the operator.
* Loans: a pool of 4 with loans of 1 to 3 is passed by two loans; a loss cap of
  3 is met and passed. Verdicts and calls are two foci: they share no variable.
* Trades: a queue of two that four trades fill; one change of settings between
  any two reads.
* Vault: two holders and two vaults, so that a handle outlives its vault.
* Providers: three askers against two workers, two names in one shard.
* Dashboard: a limit of two requests in a window of two ticks, so that a window
  ends while requests are counted; a cache of one tick, two scans at once.
* Guardrails: two trades with amounts of 0 to 2 against loss limits of 2 and 3 and
  caps of 0 and 3, so that one trade fits, two may not, one is authorized beside
  another or after it, and every limit can be raised and lowered; one losing trade
  makes a streak; one day's end. More trades are the theorem's.
* Fleet: two callers, two hashes, one runner with two metrics.
* Slashing: two clones, terms of one and two blocks, three offences: a term can
  end, be prolonged, and be cut short by a later shorter one.
* Sync: two relays, two messages, four applications: every message late, twice,
  and in both orders.
* Audit layers: two clients, three records: a cycle between a directive and its
  review.
* Low latency: a pool of 8 bytes with blocks of 1 and 3 and alignments of 1 and
  2 pads, fits exactly and overflows. A queue of two slots with three producers
  has two claims beyond its capacity outstanding. A ring of two slots whose
  cursors wrap at 4 wraps within seven offers. The pipeline's words have 8 bits, so
  that a product of two of them wraps, with baselines up to the largest word; its
  changes lie on either side of the table's entries and of its end, its
  densities at powers of two. `path_wraps` has one baseline of 200, whose square
  does not fit, as the square of the program's 10^18 does not fit 64 bits.

*Properties with a condition.* Where the code makes no provision for an event,
a property holds up to that event and says so through a history variable: for
`LiveIsAuthorized` a reset or a second workflow (`disturbed`), for `SweepSound`
an overlap, a dropped request or a loss (`mishaps`), for the log's order a line
that is joined to a torn one, for `CopilotSound` a change under a check
(`quiet`), for `FleetSound` two calls on one key (`raced`), for `SlashingSound`
overlapping terms (`excused`) and a second decision (`reopened`), for
`CrossChainSound` two relays with one message (`racedIds`) and delivery out of
order (`InOrder`), for `VaultSound` a write that was overtaken, cut off or over
another file (`disrupted`), for `RegistrySound` a module without a previous
version (`unsaved`), for `DashboardSound` a failed write of the settings
(`unwritten`) and a transfer that no message has told yet (`outdated`). The events
themselves stay in the model, so everything up to them, and every property
without the condition, is checked among them; but the property does not catch
the event, and the notes of the hazards in `PROJECT.json` say so. `GuardrailsSound`
excuses nothing and bounds by how much a day may go wrong (`excess`). In
`CriticalPathSound` the input is the root of the wrapped product for every
reserve (`InputIsRoot`); it is the optimal one only where the product fits a
word, which the program's only reserve does not, and a fee is bounded where an
eighth more of it fits.

`operations` sets `Serial`: a nonce is asked for when no other call is under way.
`AppState` holds the manager behind a tokio mutex (`main.rs:459`); the manager
itself would not rule overlaps out, and the model has them with `Serial = FALSE`,
where a nonce is issued twice.
`low_latency` sets `Phased`: while items are popped nothing is pushed. Without
it the run `queue_unwritten` shows what happens.

Deadlock is not checked: in every run the bounds, a stuck stage, two loaders
that wait for each other or requests that are submitted once end a behaviour.
Where a wait without an end is a fault, a property says so (`WorkflowEnds`).

## 4. Assumptions and fairness

* The system clock does not go back. Readings may be old by a bounded time.
* Atomics are sequentially consistent. The code's orderings (`AcqRel`,
  `Acquire`, `Release`) are weaker; the properties concern single locations and
  their order within a thread, but this stays an assumption.
* Tokio drops a request's task when its client disconnects, at an await only.
* A write to a file that is not interrupted is visible to the next reader;
  one that is leaves the file empty, old or torn.
* `Deployment!FairSpec`: weak fairness of each request's own steps, since the
  runtime keeps polling a task that can proceed. A request waiting for the guard
  gets it without a stronger assumption, because there are finitely many requests
  and no endpoint keeps the lock. Nothing forces a client to submit, disconnect,
  reset or kill.
* `AutoTransfer!FairSpec`: the interval fires for ever, time passes, and a task
  resumes after its contract call (weak fairness). A contract call may fail
  again and again but not for ever (strong fairness of `Send`): without it the
  code, which only retries, can promise nothing.

The other specifications state no fairness: their properties are safety.

The constants' assumptions are the modules' `ASSUME`s: numbers are naturals and
sets of numbers are such; the governor's voting period and delay are positive, as
its constants are (3 days, 24 hours). Sets of names, accounts, callers,
offenders, producers and secrets are finite. A torn line is no entry, and the values
that stand for nothing (`NoEntry`, `NoSettings`, `Nothing`, `Uninit`) are none of the values
they stand beside. The array queue is pushed to less often than its words count.

## 5. Theorems

Seven modules hold theorems, by the group of components they are about, and
`SumLemmas` the lemmas on sums and powers of two that they share. Each theorem is of the form
`Spec => []Inv`, `Spec => [][A]_vars` or `Spec => Abstract!Spec`, from the
`ASSUME`s of the components' modules alone; the three about the array queue
assume `Phased`, as the run does.

| module | theorem | argument |
|---|---|---|
| `Deployment_proofs` | `TypeCorrect`, `StageUnderGuardHolds`, `ManualNeverFixesHolds`, `DeploymentSoundHolds` | Type correctness is inductive. The guard is free or held by exactly one request inside a stage, and nothing that needs the guard writes the stage meanwhile; every action that leaves Autonomous mode also clears the errors. |
| | `LiveIsAuthorizedHolds`, `StageOrderHolds` | `Undisturbed`, one part per kind of disturbance: without an overlap at most one request is inside the workflow; without that or a reset, the backend it stored is the one it reads back and goes live with; without a reset the authorization stays; and with none of them a request about to enter a stage finds the state in the stage before. |
| | `VaultIsSound` | `VaultInv`: a handle that is about to write holds what its callers were told, up to the key it is setting (`WritesAreSound`), and whatever is in the file was stored by some handle (`FileIsStored`); so an unharmed vault has every acknowledged secret, and a key read at the start has a source. |
| `Governance_proofs` | `TypeCorrect`, `ExecutedLawfullyHolds` | The property is strengthened to every status after voting: a proposal that is timelocked, executable or executed passed on its present tally, and one that is executable or executed sat out its delay. Tallies change only while voting, which is what keeps the strengthening true under later votes. |
| | `ExecutorRefinesLife` | The step simulation of the executor by `ProposalLife`: a handler's step decides the proposal it is given, or leaves every life alone. The abstract tallies are those at closing, so the invariant above says that a decision reads the final one. |
| | `GovernorTypeCorrect`, `QueuedIsExecutableHolds`, `StateMovesForwardHolds`, `GovernorRefinesLife` | `GovernorInv`: voting ends after it starts, and nothing is executed before it has ended. With it, a block mined, a vote, a cancellation or an execution moves what `state()` says forward only, and each of them simulates a step of the same `ProposalLife` or none. |
| | `RecordedIsCountedHolds` | A vote adds its power to the count and one record to a finite set: the sum over the records grows by at most what the count grows by, and a vote cast again replaces the record and is counted again. A proposal that is being created has no votes on record (`RecordKept`). |
| | `GovernorIsSound` | `ReceiptsKept`: a vote changes one receipt, from none, so the sum over the receipts with its support grows by its weight and the two others stay. |
| | `VoteCarriesPowerHolds` | `NewestIsCurrent`: an account's newest checkpoint holds its power, also when a power is set twice in a block. `StartsAreTimes`: a ballot's start is above every block's number, so the search for it finds the newest checkpoint. |
| `GovernanceModules_proofs` | `TimelockTypeCorrect`, `OpenIsPendingHolds`, `TimelockSoundHolds`, `WithinWindowHolds` | `WithinWindow` needs `DelaySeparates`: the execution time of an entry is its queueing time plus a delay within the bounds. |
| | `CrossChainIsSound` | `EffectsOK`: what is marked or accepted was applied; what was applied is marked or about to be; and an id that no two relays held at once has one holder, who has not applied it before. Messages are numbered as they are sent (`SentOK`), so what is applied in order leaves the last one's value. |
| | `SlashingIsSound` | The total with the amounts that clones still have to add equals the sum of the records with what was overwritten; an offence moves one amount from a clone to the total. `AppealsStand`: a record that was appealed stays so until it is replaced. |
| | `SovereignIsSound` | The pause and the profile are read off the last record that decides each (`StateIsOnRecord`). `PendingOK`: a directive awaiting its review has one client, so a review adds one element to a set that did not have it, and the statistics are cardinalities of sets of reviews. |
| `LowLatency_proofs` | `PoolTypeCorrect`, `BlocksDisjointHolds`, `WatermarkIsPeakHolds`, `PoolSoundHolds` | `Below`: every block ends at or below `current`, so a block whose start was computed from a value that equals `current` at the exchange is disjoint however stale it was. `MarkOnItsWay`: the peak is the watermark, or a thread still on its way to it. |
| | `RingRefinesFifo` | The step simulation of the ring by BoundedFifo, for every capacity `N` that divides the word. `Handover`: the cursors are the counts of what was pushed and popped modulo the word, at most `N` apart, and every slot between them holds its item. A slot is written only outside of that stretch, and read only inside. |
| | `QueueTypeCorrect`, `QueueRefinesFifo`, `RefusedOnlyWhenFullHolds` | `QueueInv`: while nobody pops, the claims within the capacity are distinct and below the head, and the claims beyond it are exactly as many as the head is ahead of a full queue (`Counted`): each refused producer gives one of them back. So a claim within the capacity is an `Enqueue`, a refused one a stutter at a full queue, and the consumer's last step a `Dequeue`. |
| | `CriticalPathIsSound` | `RootSoFar`, the invariant of integer_sqrt's loop: with the digits down to a bit `b` decided, the state is the root so far times `b` and what its square leaves of the number, which the next root would exceed. So the root is rounded down for every word (`RootIsFloor`), and an entry of the step array is the root of the product as the word holds it, less the reserve, which adding the reserve brings back (`WrapBack`): for every reserve, and the optimal input only where nothing wrapped. A tier is a logarithm because the leading zeros bracket a density between two powers; a smaller shift gives a larger fee. `PathInv` carries the results of the last packet, and that a template never built has no fees. |
| `AuditTrail_proofs` | `PublishedIsVerifiedHolds` | What a worker carries to its publication is the decision about its own observation; an approval means that no criterion failed. |
| | `TrailOnlyGrows`, `TrailIsInOrder`, `PublishedIsAuditedHolds` | `Replay` is stated by rank: its k-th entry is on the line with k parsed lines up to it. From that, what one more part of a line does to the replay, and that an entry whose line feed followed is replayed whatever comes after it, need no induction over the log. `TrailInv`: the mutex covers everything from the number to the verdict; what is answered, acknowledged or shown with a number has its line feed; the numbers acknowledged rise while no line was left unfinished; and between the acknowledgement and the verdict the entry that explains it is the last in memory. |
| `Capital_proofs` | `DaysStayWithinLimits` | For limits and a cap set anew at any time. `RoomForOpen`: the day's loss, profit and streak, with what the open trades may add, are within the limits and the `excess`. An authorization finds room for its own trade and raises the excess to what else is outstanding; a record moves its trade's share from what is open to the day, and what is beyond it to the excess; a lowered limit adds the difference. |
| | `SweepTypeCorrect`, `CooldownKeptHolds`, `NoDoubleSweepHolds` | `OneSweep`: until an overlap is recorded at most one caller is past its decision, and it decided outside the cooldown. `Covered`: until a mishap, what is in flight and what was swept together are covered by what was earned. |
| | `SweepIsSound` | While no request was dropped, what was moved is what is in the books with what callers have moved and not booked (`Booked`, a sum over the callers of which a step changes one term); the rest are the theorems above. |
| | `TradesAreSound` | An order that passed the validation is within the limits for good, since the executor's cap is fixed when it is made; the counters, the queue, the ledger and the bundles differ by the call under way only (`TradesAreRecorded`). |
| | `FlashLoansAreSound` | A verdict adds one approved size, or none, to the sum of its pool; a denial is appended with the running loss it was decided on. Of the requests for an opportunity the first is approved and the others are not touched again. |
| `Operations_proofs` | `NonceTypeCorrect`, `SerialIssuesOnce`, `SerialPersisted`, `SerialSound` | `IInv`: at most one call is under way; the row and the cache agree when none is; a call that issues or synchronises carries a value above the cache, and everything issued is at most the cache. Assumes `Serial`. |
| | `ProvidersStaySound`, `HungForEver` | A borrowed entry cannot be replaced, so a call uses the entry as registered; a task that blocks on a shard takes one of finitely many workers. Once every worker waits for a shard whose borrower needs a worker, no step is left: the server stays hung. |
| | `RegistrySoundHolds` | `RegistryInv`: a version about to be registered or restored was vetted (`AboutToServe`); a swap past its save has a saved version, unless it was evicted or taken (`CanGoBack`); a module marked as rolling back has a swap on its way, or is among those with nothing to restore (`MarkedHasSwap`). The read lock a swap keeps across its wait is what rules an unload in between out. |
| | `CopilotIsSound`, `OnlyFullAccessWrites` | `AuditKnows`: as long as the preflight is undisturbed and nothing was refused, every probe that is done has left what it vouches for (`KnownSoFar`). Every probe that touches a module is a step of the registry, whose `RegistryInv` says that what serves was vetted. |
| | `DashboardIsSound` | `WindowOK`, per address: the window holds no more requests than it counted and than the limit, and neither does the stretch as long as a window before its start; any interval of that length is within the two. The rest follows the ledger and the settings through the awaits. |
| | `FleetIsSound` | `WritersAlone`: a hash or a runner that no two calls wrote at once has one writer, whose record is the ledger's, or whose copy is still the runner's. Counters and calls under way are cardinalities that one step changes by one. |

*Sums and counts.* `SumLemmas` proves what `SumFunctionOnSet` of the community
modules computes when an element is added, removed or changed. The function it
is defined by recursion on is unfolded once (the definition of a recursive
function over the finite subsets, from a well-founded order), and a claim about
all finite sets is proved by taking a smallest set on which it fails, since
the induction theorems of the library take an operator as a parameter.

*Powers and the root.* A power of two is the number of subsets, which is how its
double is proved from the library's theorems. The loop of integer_sqrt is a fold;
it is unfolded like the sums, and its invariant holds because there is no least
number of passes after which it fails.

Only model-checked: the liveness properties and everything under fairness
(`WorkflowEnds`, `AutonomousRunEnds`, `ProfitIsSwept`), which the prover does
not treat. Every invariant of a passing run is stated by a theorem. The array
queue's types are the one thing that is proved and not also a property of a run.

## 6. Disagreements between code and documentation

Shown by a run, and listed under `findings`:

* The first failing check of an Autonomous run blocks the workflow for good
  (`deployment.rs:270`), which its doc says "fixes errors in real-time".
* A voter who votes twice is counted twice (`m300:316`).
* `pop` can return a slot that was claimed and not yet written
  (`lock_free_queue.rs:51`).
* An entry appended after a torn line is acknowledged and lost (`audit.rs:86`).
* The step array is built from a product that wraps from reserves of 2^32 on, so
  with the program's only reserve no entry is what the comment says is "computed
  exactly" (`upgrade4_sim/src/main.rs:48`–51, 293).

Met while modelling; the models have the code's behaviour where the component is
modelled, no run is spent on them.

*Deployment and the server*

* The approval gate reads a backend mode another request may have replaced
  (`deployment.rs:456`); the kill switch is asked on one of three routes
  (`main.rs:3045`); `get_pipeline_toggle` blocks inside the runtime and panics
  (`deployment.rs:522`); so does `SecurityGate::new` (`security_gate.rs:304`).
* The Copilot "applies fixes in real time"; for `.env` it opens the file and
  writes nothing (`copilot_system_access.rs:439`), and it reports an http
  endpoint as upgraded without writing it (line 790).
* `hot_swap` and `rollback` take the registry's two locks in opposite orders
  (`hot_swap_module.rs:125`–170), and the cap on previous versions can evict the
  one just saved.
* The decision loop's RED threshold (0.6) is tested after YELLOW's (0.45) and is
  unreachable; the loop itself is never called, though a comment near
  `main.rs:3238` says agents run from it every five seconds.
* `set_autonomy_settings` sets the auto-transfer from `allow_strategy_tuning`
  (`main.rs:1588`); the global of the runners' metrics is a deep copy
  (`main.rs:534`), which no later push reaches.
* The shutdown's phases are never entered: nothing triggers them, SIGTERM is not
  handled, and "draining connections" drains nothing. The emergency sweep's time
  lock is never asked for.
* `env-migrate` says "Creating new encrypted vault" and writes plain lines that no
  vault can open (`env-migrate.rs:27`, 85, 97). The comment at `main.rs:561`
  promises the fallback to `.env`; a vault that opens without `PRIVATE_KEY` gives
  none. The default paths of the vault differ (`main.rs:538`, 2741).
* A provider registered with capitals is looked up in small letters and missed
  (`provider_registry.rs:4`, `manager.rs:61`).

*Governance*

* `queue_proposal` raises an emergency's delay of a 24th of the minimum back to
  the minimum (`m301:74`), though the comment announces the shorter delay (line 68).
* `execute_queued` does not look at `executed`, so an entry can be executed
  again, or cancelled by its expiry after it (`m301:104`).
* Only a vote evaluates a proposal's outcome (`m300:356`), and votes are refused
  after the voting period: unless a vote comes in its very last millisecond a
  proposal stays Active for ever. The quorum each proposal type asks for
  (`min_quorum`, line 42) is never read.
* A vote cast before `create_proposal` inserts the vote map is counted, and its
  record wiped by that insertion (`m300:273`).
* `castVote` passes `voteStart`, a timestamp, where `getVotingPower` expects a
  block number (`AllBrightGovernance.sol:198`, 311), so a power set while a vote
  runs counts at once, and the checkpoints kept "for historical voting power"
  (line 74) serve no purpose.
* `append`'s error is dropped, and the observation published without an entry
  (`gatekeeper.rs:138`).
* Every report of the Sovereign engine is RED, since nothing sets the liquidity,
  and locks the profile down. Its pause and shutdown flags are read by nobody
  outside of `m133`, and the shutdown is never cleared. A directive in small
  letters is executed, and reviewed as not aligned.
* The Copilot auditor's `boundary_violations` is never raised, its validated
  integrity is discarded, a fraction is compared with a percentage, and
  `get_latest_audit` looks a copilot's id up among uuids.

*Trading*

* A sweep that overlaps another, or whose request is dropped after the contract
  call, moves the same profit twice (`auto_transfer_scheduler.rs:217`, 154).
* An approved exception is never consulted and exposure never released (`m135`);
  `m137` asks `m135` nothing and does not report its losses to it.
* `set_daily_profit_cap` scales by 10 000 what the constructor scales by 1000
  (`shield_guardrails.rs:158`): ten times the cap asked for is in force.
* `m025` multiplies a trade's profit at low stability, where the comment speaks
  of raising the floor; the slippage limit is read once and again per call.
* A success rate of the instrumentation can exceed 100 %. The wallet engine's
  sweep adds a percentage to an amount, in a loop nothing starts.
* `server.js`: a failed report can make the successful trades negative and a
  broadcast the execution rate exceed 100 %; "no stale cached numbers" stands
  above a cache of twenty seconds, which also keeps failures; errors of writing
  the settings are swallowed; two routes are registered twice, and the second of
  each is dead.
* The RPC consensus's Stale verdict is unreachable; the pool dispatcher drops the
  data `update_pool_data` is given; completed experiments still count as running.

*Low latency*

* A pop between a claim and its retraction leaves the tail ahead of the head,
  and the wrapped difference makes the queue look full (`lock_free_queue.rs:56`).
* `allocate` pads between blocks, so 100 and 200 bytes at 64-byte alignment give
  328, where a test says 300 (`memory_pool.rs:69`, 224).
* The step array's test expects `lookup(100) > 0` at granularity 8, whose entry is
  0 (`upgrade4_sim/src/main.rs:293`). `BidMatrix` underflows at density 0. The
  template is never built, so patching it does nothing.
* `eval_scalar` is documented to give 0 when the net profit is at most 0; a profit
  of 0 passes the gate.
* The batch search shifts by its length, which overflows at 64 items, reads one
  triangle of the penalties, and never reads `max_batch_size`.

## 7. What is not modelled, and what is left

*No program to model.* `AllBrightTimelock.sol` and `FlashLoanArbitrage.sol` call
functions their bases do not have and do not compile; neither does the
monolith. `c2_redundancy`, `secret_rotation`, `two_factor_auth`, `ip_whitelist`,
`audit_logging`, `health_checks`, `env_validation`, `rolling_window`, the signer
and m140 to m143 are in no build.

*No state is reached.* `SecurityGate::new` panics in the async handlers that are
its only users. Nothing calls the decision loop, the Copilot auditor's
evaluation, the wallet engine's loop, the graceful shutdown, the intrusion
detection, the transaction batcher, the batch optimizer or the
champion-challenger; `ZeroCopyRingBuffer` can be neither sent nor shared and is
unused.

*No state to speak of.* The AI agents are constructors and one-line
assessments. m057, m059 and m136 are pure functions or capped lists. The
governance crate's deployment, acceptance and benchmark checks, `kpi_telemetry`,
the chaos lab, the build guard and the balance simulator compute a verdict from
their arguments. The desktop shell and the dashboard's `server.ts` forward HTTP or
answer constants.

*Out of a finite model's reach.* The optimisers, the learning code, the
prediction tables and the pricing kernels are floating-point numerics. Sweeps,
backups and adapters are sequences of external I/O whose answers would be all
there is. Ciphers and signatures are abstracted where a component uses them.

*The rest of the modelled files* is unit tests, display and serialisation, routes
that answer constants, and the server's floating-point indicators (`main.rs`
1088–1400). It holds no state of its own, which is why the map covers little of
`main.rs` and `server.js`.

*Left out of modelled components*, because no property would tell the
difference: texts and logs, scores and lessons, latencies, hashes, statistics
that are only reported; m302's outgoing queue, from which nothing takes, and its
voting-power messages, which are the delay's over again; the guardrails' hourly
counter; the contract's role administration and `_executeTransaction`, which is
not in the repository; `server.js`'s wallet balances and deployment stage.

*Left to prove*: nothing of what the prover treats, among the properties of the
runs; what a later extension of the partly modelled components adds.
