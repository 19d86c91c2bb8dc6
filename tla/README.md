# NeoEthos: TLA+ models, model checks and proofs

NeoEthos is a desktop trading system: it searches strategies, promotes the ones
that survive validation, and runs them live against one cTrader account, under
risk limits that must hold whatever crashes, is delayed or is clicked twice.
This directory models the parts of it that decide *whether real money moves and
how often*, and the parts that decide *who may use the machine*, in TLA+. TLC
checks the models on small instances; TLAPS proves every safety property of them for
every instance.

## 1. Inventory

**The gate in front of live trading.** At this commit
`BrokerFinancialTruthCapabilityV1::require` (`neoethos-broker-truth/src/gate.rs:93-102`)
returns an error for every operation. `live_trading::start` (`live_trading.rs:275-278`)
therefore starts no engine, and `reconcile_best_effort` (`journal_reconcile.rs:146-155`)
writes no journal row. The models of the live engine describe the code *behind* that gate,
as it runs once the gate grants its permit: `EntryAuthority`, `AccountRisk` and `KillSwitch`
without saying so in a guard, `LossLedger` and `LivePosition` with the constant `GateOpen`, a
guard of the start and of the journal bridge, which their runs set to `TRUE`. With the gate
shut fewer things happen, so the safety properties hold of the code as it is, too; for most
of them that is then no achievement. The two liveness properties about this code,
`BadBrokerStopsOrders` and `FlatIsReleased`, assume nothing of a start: what they ask for
concerns a watchdog or an engine that already runs. The permit broker, the coordinator
and the pending actions are not behind the gate. Jobs start, but discovery and training ask it
for the costs they evaluate with (`discovery.rs:1013`, `training_orchestrator.rs:3050`) and
are refused: `JobControl` has this as `Refuse` or as an unsuccessful child, and the successes
belong to the code behind the gate.

### 1.1 The modelled components

**Durable entry authority** (`neoethos-app/src/app_services/account_risk.rs`,
`live_trading.rs`, `broker_api_entry.rs`, `neoethos-core/src/storage/json.rs`).
*State:* one `AccountEntryAuthority` per broker account, shared by all live
engines of the process: accounting day, entries counted on it, the unresolved
intent, the last confirmed order; the marker that ties the intent to a running
attempt; the same as a checkpoint file that is replaced atomically.
*Operations:* `acquire_entry` (restore or migrate), `prepare_day`,
`try_reserve_entry`, `release_entry`, `begin_submission`,
`release_unsent_entry`, `confirm_verified_opening`, `record_unresolved_*`.
*Interaction:* each engine's `run` loop calls these under a mutex, between
awaits of the broker. *Hard:* engines interleave at the awaits; writes fail; the
process dies between intent, send and confirmation; midnight passes anywhere.
*Correct when:* an order of unknown fate is never forgotten and never joined by
a second one; no day sees more orders than its cap; the count never misses an
order; unused reservations come back; the portfolio budget bounds open risk.

**CPU permit broker** (`neoethos-execution-budget/src/lib.rs`).
*State:* free permits, free auxiliary slots, a deque of waiters (child before
local requests, then FIFO), cancellation tokens with the list of brokers they
were registered with. *Operations:* `acquire`, `acquire_cancellable`,
`try_acquire`, composite acquisition, `split`, transfer and `accept`, drops,
`CancellationToken::cancel`. *Interaction:* one mutex and one condition
variable; every compute-heavy subsystem takes its threads from it. *Hard:* lost
wakeups, overtaking, cancel racing registration, leases dropped in any order.
*Correct when:* permits and slots are conserved, nobody sleeps through its turn,
grants follow the queue, cancelled waiters wake, queued requests are served.

**Execution admission coordinator**
(`neoethos-app/src/app_services/execution_admission.rs`).
*State:* an mpsc command channel, two queues, one oneshot per request, the
thread's place in its loop. *Operations:* `submit`, `submit_import`, `wait`, drop
of a pending handle, drop of an admitted lease, `shutdown`; `run_coordinator`
with `handle_command`, `grant_ready_requests` and the 25 ms recheck.
*Interaction:* async callers on one side, `try_acquire` of the permit broker on
the other. *Hard:* a handle dropped between grant and delivery, requests that
arrive behind `Shutdown`, permits that come back without a command.
*Correct when:* capacity is conserved, nobody waits on a stopped coordinator, a
request is in one place at a time, every request is answered.

**Pending actions** (`neoethos-app/src/app_services/pending_actions.rs`,
`server/pending_actions.rs`).
*State:* a bounded queue of trade actions the AI helper proposed, with status and
time, and an append-only audit file. *Operations:* propose (with sweep and
eviction), list, confirm, reject, complete; the confirm handler around its await.
*Interaction:* any number of HTTP requests race for one row; the confirmed one
calls the broker or an MCP tool. *Hard:* double clicks, clicks after expiry,
eviction under a click, the client leaving during the call.
*Correct when:* an action is sent at most once and only if the operator confirmed
it in time, the queue is bounded, and every confirmed action gets its outcome.

**Account risk authority** (`account_risk.rs`, `neoethos-core/src/domain/risk.rs`,
`live_trading.rs`).
*State:* one prop-firm risk manager per account: the balance at the start of the
firm's day and month, the peak equity, the latched profit target and circuit
breaker, and its checkpoint. *Operations:* `acquire`, `prepare_period`,
`gate_and_size`, `record_closed_trade`; `prepare_account_risk_period` around them.
*Hard:* check, await, lock again; midnight between snapshot and period; failed
writes; a restart or another policy that reads the checkpoint. *Correct when:* the
day's anchor is the balance the day began with, a latched refusal is final.

**Kill switch and margin watchdog** (`risky_mode_persistence.rs`, `margin_call.rs`,
`server/bridge.rs`, `live_trading.rs`).
*State:* a timestamp in `risky_mode_state.json`, a sticky halt of the process, a
failure count, the watchdog thread. *Operations:* trip, cooldown gate, clearing of an
expired trip, `poll_once`, `arm`, `ensure_spawned`, the halt check of every order
route. *Hard:* the file has no lock and three writers; the flag is raised in two
steps while orders pass. *Correct when:* a saved trip refuses for its cooldown across
restarts, a bad broker eventually stops all orders.

**Loss ledgers and trade journal** (`neoethos-core/src/domain/risky_mode.rs`,
`journal_store.rs`, `journal_reconcile.rs`, `live_trading.rs`).
*State:* daily, weekly, monthly loss accumulators per engine; an append-only journal
and its seen set. *Operations:* start, roll, raise, judge, book a close, journal a
deal. *Hard:* several engines and manual trades on one account; the journal lags,
loses rows, cannot be read; periods end between two reads of the clock. *Correct
when:* the caps bind on the account, no loss counts twice, a loss once in the journal
stays in it.

**Live engine: the open position** (`live_trading.rs`, `broker_deal_economics.rs`,
`strategy_blacklist.rs`, `ctrader_account.rs`).
*State:* the tracked position, the observed closing deals, the trail, the loss streak,
the blacklist file. *Operations:* reconcile, book, weekend close, trail, retire.
*Hard:* partial closes, snapshots cut by a fill or at 100 rows, lost answers to amends, two engines
writing the blacklist. *Correct when:* money is booked once and exactly, a flat
position is released, the stop never loosens, a retired strategy stays out.

**Jobs and engine control** (`server/engines_control.rs` and its
`typed_execution_v1.rs`, `server/state.rs`, `canonical_native_discovery.rs`, `jobs.rs`,
`neoethos-search/src/process_execution_lease_v1.rs`).
*State:* the one process execution lease with its token and kind, the status slots of
discovery, training and native research with their cancellation flags, a worker, a child
job and an observer per run. *Operations:* start, admission, drain, the chain from
discovery to training, terminal report, observe, stop, native install and relay. *Hard:*
observers of an ended run write while the next one computes; a stop in any phase; a worker
that panics; a client that leaves. *Correct when:* only the lease's run computes, a run that
computes is shown and can be stopped, a stop is carried out.

### 1.2 Not modelled

| Component | State and operations | Why not |
|---|---|---|
| CPU budget resolution | `resolve_*` in `neoethos-execution-budget`, none kept | pure arithmetic on environment values |
| Promotion and demo gates | thresholds over metrics, none kept | predicates over floating-point numbers, no steps |
| cTrader execution backend | connections, request/response matching, token refresh | seen from its callers as a send followed by any answer or none, which is how the models treat it |
| Live spot cache and streamer | subscriptions, last quotes | quotes are free choices in the models that read them |
| Supervisor and federation | prompts, HTTP calls | what changes trading goes through the pending actions, what computes through `JobControl` |
| HTTP server | routes, shared state | routing and serialisation; handlers with state are modelled with their services |
| Strategy search | populations, back-tests | floating-point data, no protocol; its lease is in `JobControl` |
| Feature data and GPU kernels | arrays, device buffers | numeric pipelines |
| Machine-learning models | weights | numeric training code |
| Desktop shell, CLI, sidecars | windows, child processes | user interface and pass-through I/O |

Of the modelled components, these parts are left out as well: the split of an admitted
lease and the end of the request ids (coordinator); position sizes, the recovery multiplier
and the migration of old files (account risk); the stages of the risky ladder; a failed
append of an audit row (pending actions: it is logged and changes nothing else); the
rolling win rate and the experience rows (live engine); the rediscovery queue; equity
samples (journal); progress and counters of a slot (jobs).

The repository has about 525 000 lines of implementation. Nearly all of them are the
last rows of the table: indicator kernels in CUDA and on the CPU, the genetic search,
feature stores, model training. Their results are floating-point arrays; there is no
small instance whose states TLC could enumerate and no protocol between the steps. The
share of lines this project maps is therefore small and stays small: the models cover
the state machines that decide on orders, money and machine time.

### 1.3 How the parts meet

```
 AI helper --propose--> pending actions --confirm--> broker call (close / MCP tool)
 live engine, one bar:
   reconcile, trail, retire            LivePosition   --blacklist file-->
   cooldown gate                       KillSwitch     --risky_mode_state.json-->
   day, reservation, intent            EntryAuthority --checkpoint file-->
   prop-firm period and gate           AccountRisk    --checkpoint file-->
   loss ledgers and tiers              LossLedger     <--journal-- bridge
   halt check, one order per intent    KillSwitch, EntryAuthority --> cTrader
 start endpoints, rediscovery, federation, validation --lease--> JobControl
 search, training, imports --submit--> admission coordinator --try_acquire--> permit broker
                          \------------- acquire, split, transfer ------------/
```

A bar is cut along these lines because the parts share nothing but the order of the
calls and the broker: each has its own file and its own lock (or none). A gate that
belongs to another part may end a bar at any point, which every module allows
(`Abandon`, `RefuseReserved`, the refusal without a trip in `Verdicts`, the second disjunct
of `Submit`).

The list of everything in this code that is hard to test, with its line and the
property aimed at it, is under `hazards` in `PROJECT.json`.

## 2. Modules

| Module | What it is |
|---|---|
| `EntryAuthority` | the entry authority, its checkpoint and the entry path of the engines |
| `MCEntryAuthority` | symmetry sets for TLC |
| `SerialOrders` | what the entry authority promises: orders one after the other |
| `EntryAuthorityProofs` | proofs, and the proof of the refinement |
| `PermitBroker`, `MCPermitBroker`, `PermitBrokerProofs` | the broker, its symmetry, proofs |
| `AdmissionCoordinator`, `MCAdmissionCoordinator`, `AdmissionCoordinatorProofs` | the coordinator, its kinds of request, proofs |
| `PendingActions`, `PendingActionsProofs` | the confirmation queue, proofs |
| `AccountRisk`, `MCAccountRisk`, `AccountRiskProofs` | the prop-firm authority, its symmetry, proofs |
| `KillSwitch` | kill switch, margin watchdog, order routes |
| `LossLedger`, `MCLossLedger` | loss ledgers and journal, periods and caps |
| `RiskyModeProofs` | proofs about the ledgers and the kill switch |
| `LivePosition`, `LivePositionProofs` | the open position of one engine, proofs |
| `JobControl`, `JobControlProofs` | process lease, workers, observers and status slots of long jobs, proofs |
| `Units` | the sum of a function as a number of units |

Definitions whose comment begins with "Mutant:" are deliberately wrong variants of
the definition below them, each the shape of a plausible bug. `PROJECT.json` pairs
each with the property that must catch it; no specification uses them.

### 2.1 EntryAuthority

| Code | Model |
|---|---|
| `AccountEntryAuthority` fields | `mem`; the file's content is `disk`, its format `file` |
| `current_submission_marker` | `marker` |
| `write_json_atomic` and the rollback of every caller | `Persist`, `RolledBack`: the file is the old or the new one |
| `acquire_entry`, migration of the V1/V2 files | `AcquireEntry`, `Restorable`, `Start` |
| `prepare_day` at start and on each bar | `StartupPrepare`, `PrepareEntryDay` |
| the sampled day and the awaited entry context | `SampleDay` (`wday`, `seen`) |
| `try_reserve_entry` / `release_entry` | `TryReserveEntry` / `ReleaseEntry` inside `RefuseReserved` |
| gates between reservation and send, portfolio budget | `RefuseReserved`, `BeginSubmit` |
| `submit_with`, `final_check`, `begin_submission`, the backend call | `FinalCheck`, `BeginSubmission`, `RefuseUnsent`, `Send` |
| `release_unsent_entry` | `ReleaseUnsentEntry` inside `FinishUnsent` |
| the answers | `ReplyVerified` (`Confirm`, `ConfirmFailed`), `ReplyUnresolved` |
| the reconciled close | `FinalizeClose` |
| broker, clock, crash (external) | `BrokerStep`, `NextDay`, `Crash` |

One action is the code between two points at which another engine can run: the
authority's mutex is held for a whole call, and the engine yields at its awaits.
Abstractions: a checkpoint field that no property distinguishes (symbol, side,
prices, volumes, schema numbers) is left out; a volume mismatch is one of the
reasons `ConfirmFailed` may happen. The portfolio budget is counted in units of
one entry's base risk, as the code multiplies the number of open positions by one
percentage. `sentDay`, `verified` and `wentBack` are history variables: nothing reads
them but the properties and the freshness of a clientOrderId. `wentBack` notes that
`prepare_day` was given a day before the one it already had, the one event after
which the count of the later day is lost (section 5).

`SerialOrders` is the abstract specification: a set of sent and a set of verified
orders; the next is sent when every earlier one is verified. `EntryAuthority` implements
it with `sent` the orders that have a day in `sentDay` (`ImplementsSerialOrders`).

### 2.2 PermitBroker

A thread is idle, registered (its token knows the broker), entering (before the
mutex), awake or asleep in the queue, or holding. `Pass` is one turn of the loop in
`acquire_resources_inner`; `Enqueue` is the first turn, `Recheck` a later one,
`SpuriousWake` a wakeup nobody caused. The deque is the set of waiting threads
ordered by their ids, which only grow, so that no recursion and no sequence is
needed. Calls that return without touching the broker are stuttering steps. A
thread here does not acquire while it holds: the code rejects that inside a lease
scope, and outside a scope it is the caller's error. Releasing poisoned mutexes is
left out.

`CancellationToken::cancel` takes two steps, as in the code: it copies the list of
registered brokers (`CancelList`), then sets the flag under the mutexes of the
copies (`CancelSet`). A token may or may not be registered with this broker from an
earlier acquisition; a cancel whose copy did not have the broker ends as "missed".

### 2.3 AdmissionCoordinator

What a request asks for (child or not, import or not, how many permits) is chosen from
`Asks` when it is submitted. `chan`, `children` and `local` are sequences, `reply` and `open` the two ends of
each oneshot. A dropped handle is two steps, because the oneshot receiver and the
handle's destructor are dropped one after the other, in either order (`Close` and
`PostCancel`). The drop of a lease is two steps as well: the permits return
(`ReturnLease`), then the coordinator is told (`PostReturned`). `GrantNext` is one
turn of `grant_ready_requests`, `Deliver` its reply. A thread that uses the broker
directly is reduced to three actions (`Direct*`), bounded by `MaxDirect`.
Abstractions: an import lease returns its slot and its permits in one step,
`AdmittedCpuLease::split` and the exhaustion of the request ids are left out (the
component is therefore marked "partly"). `Retain` is `VecDeque::retain`, which
`discard_closed` calls, and stands for the removal of one entry in `cancel` too; it is a
recursive function, so that it can be proved about. `PermitBroker` is not instantiated: the
coordinator only uses `try_acquire`, whose promise `CanAcquire` states (enough of
both resources, and nobody queued at the broker).

### 2.4 PendingActions

Each critical section of the queue's mutex is one action. The confirm handler after
`mark_confirmed` is a small process of its own (`handler`), because it awaits the
blocking close or the MCP call; `Disconnect` drops it at that await, as the server
does when the client goes away, while the call goes on. Ids grow, so the oldest row
is the one with the smallest id. The audit file is the set of rows written; every append
succeeds.
Abstraction: the two kinds of action (close, MCP call) differ only in the early
failure of a close without a volume (`RefuseVolume`); the call's outcome is any.

### 2.5 AccountRisk

| Code | Model |
|---|---|
| `AccountRiskAuthority`, `RiskManager` | the record `mgr`; the checkpoint is `disk` |
| `roll_periods`, `on_equity_update`, `check_trade_allowed` | `RollPeriods`, `OnEquityUpdate`, `Verdict`, `Judged` |
| `persist` | `Commit`: memory always changes, the file if the write succeeds |
| `AccountRiskRegistry::acquire` | `Acquire` (live, restored, fresh, or another policy: refused) |
| start-up of `run` | `StartSnapshot`, `StartAcquire`, `StartPeriod` |
| `prepare_account_risk_period` | `CheckPeriod`, `FetchEvidence`, `PreparePeriod` |
| `gate_and_size`, the send | `GateAndSize`, `Submit` |

Balances are small naturals, percentages integers, so every comparison of the code is
one of integers. Sizes, confidence, session and revenge rules are choices
(`revenge`, `other`), because they only refuse. `startOf`, `told` and `crossed` are
history: the true balance at each midnight, the latched refusals an engine was told,
and whether a midnight cut a start-up between its snapshot and its period. `rewound`
is history too: an engine that slept through a midnight prepared its old day
(section 5, item 15).

### 2.6 KillSwitch and LossLedger

`KillSwitch` has one clock and one file. A trip is one step although it is a load and
a save, because what it writes does not depend on what it read (the other fields of the
file are not modelled); the clearing is two steps. `arm` is three: the reason, the flag, the durable trip. Any tier
of the ladder may trip (`PresendCheck`); which one does is the subject of
`LossLedger`, where a deal wins or loses one unit and a cap is a number of losing
deals; the net loss of a position is what its losing deals exceed its winning ones by.
Every ledger is a function over the periods day, week, month. The
stages of the ladder scale the size of an order and are left out; `Verdicts` has the order
of the tiers: those that judge the order come first and refuse without a trip, then day and
week, then the retreat below a reached stage (a free choice, as it depends on the bankroll
alone), then the month. `BridgeStep` is one deal of one snapshot in
`reconcile_best_effort`. What that function leaves out takes no step and so may happen to
any deal for ever: a shut gate, no data directory, a missing money component, no contract
size, no symbol catalog, a row beyond the 100 of the list. Nothing therefore promises that a
close reaches the journal. `rows` is the journal as `query_closed_trades` reads it: of two
lines of a position the last one counts.

### 2.7 LivePosition

One engine, one position at a time, closed in up to `Volume` fills. `Ask` builds the
requests of a snapshot, with the deals known and inside the look-back at that moment, or
any part of them: the request asks for 100 rows and whether there were more is discarded;
the answer shows the open positions of a later moment. A fill carries its money, its
age and whether its evidence builds. Prices are integers in points; `Snap` is the
rounding to the pip grid, written for positive prices. Amends are applied in the order
sent, and the operator does not move the stop by hand. The second writer of the blacklist is
`SiblingRetires`. The closed volume of a set of fills is a `Total` of module `Units`, as are
the leased permits in `PermitBroker`: the sum of the values of a function is the number of
pairs below its graph, which TLC counts and about which the laws of finite cardinality can
be used in proofs, where a fold would need an induction. Each proof module states the laws
it needs (`TotalUpdate`, `TotalExtend`, `TotalZero`, `TotalWhole`).

### 2.8 JobControl

| Code | Model |
|---|---|
| `ProcessExecutionLeaseV1`, its acquire, transition and drop | `active`, `leaseKind`, `nextToken`; `Start`, `ContinueToTraining`, `ReleaseLease` |
| the worker of `typed_execution_v1.rs` | `pc`: `InstallPhase`, `Refuse`, `StartChild`, `ForwardCancel`, `DrainTerminal`, `Abandon`, `Report`, `End` |
| the child job and its own flag | `child`, `childCancel`, `ChildEnds` |
| `install_engine`, `update_engine_snapshot`, `cancel_engine` | `Install`, `Update`, `Stop` on `engine` |
| start endpoint, detached observer, callers that keep the handle | `watcher`: `Detach`, `RejectAdmission`, `AdmissionRefused`, `Observe`, `HolderCancels`, `Disconnect` |
| native research: install, relay, second terminal write, cancel | `InstallNative`, `RelayRead`, `RelayWrite`, `NativeFinal`, `StopNative` on `native` |

A run is named by its lease token. Outcomes are `Succeeded` or `Unsuccessful` (degraded,
failed, cancelled), as only success continues a chained run. Progress events of the legacy
engines change nothing the properties see and are left out; a native snapshot does replace
the slot, and reading it and writing it under the lock are two steps. A start refused as busy
is a stuttering step.

## 3. What TLC checks

| Run | Instance | What it shows |
|---|---|---|
| `entry_shared` | 2 engines, 4 orders, 3 days, cap 2, budget 1, prop-firm days, faults | `TypeOK`, `SentIsDurable`, `OneUnresolvedOrder`, `UncertaintyKept`; `CountCoversSent`, `DailyCapRespected` as long as no day went back; `PortfolioOvershootBounded`; `ImplementsSerialOrders` |
| `broker_safety` | 3 threads, 1 cancel, limit 2, 1 slot, 3 ids | conservation, slots, no lost wakeup, cancel wakes, grants in order |
| `broker_liveness` | 3 threads, limit 2, 1 slot, 2 ids, fair | `QueuedRequestsServed` |
| `admission` | 2 requests of 4 kinds, limit 2, 1 slot, 1 direct acquisition, fair | capacity, shutdown, one place per request, `EveryRequestSettles` |
| `job_control` | 2 runs of every kind in a row, 1 panic, disconnects, fair | `LeaseCoversWork`, `ComputingIsShownAndStoppable`, `StopIsCarriedOut` |
| `pending_queue` | 3 actions, queue of 2, clock 0..3, disconnects, fair | at most one call, only fresh confirmed, bounded, outcome stamped unless the client left during the call |
| `account_risk` | 2 engines, 2 days of one month each, balances 9 and 10, 2 deals, 1 fault | the anchor is true, the daily loss stops entries, latched refusals are final, the checkpoint never forgives |
| `kill_switch` | 2 engines and the operator, cooldown 2, budget of 2 failures, clock 1..4, 2 faults, fair | `CooldownHolds`, `BadBrokerStopsOrders` |
| `loss_ledger` | 1 engine and manual positions, 2 positions, 2 days across a week's end, 2 faults, gate open | the caps bind on the account, no phantom trip, the journal keeps its rows |
| `live_position` | 2 positions of 2 units, look-back 0, lists cut at any row, 1 malformed deal, long and short, gate open, fair | exact money, release, trail, retirement |

Two runs show a disagreement between the code and what it says of itself; section 5.

`TypeOK` is an invariant of the runs of `EntryAuthority` and `PermitBroker`. The other
modules state theirs as documentation of the variables and as the base of the proofs;
their runs are spent on the properties above.

*Bounds.* Two engines are enough for every race on the authority, as each of its
operations involves at most the caller and one other owner of the intent. Three
orders let one be unresolved, one be refused and one be tried; cap 2 is the smallest
that can be half used; three days let a count be reset, forgotten and met again.
Three threads on two permits and one slot let one hold, one wait wide and one try to
overtake; two ids (three in the safety run) let the sequence run out while somebody
waits. Two requests and the direct thread are three users of the broker: a grant, a
refusal and a queue; the kinds include a child wider than what is free and two imports that
contend for the slot, so the recheck is needed. Two tokens let the tasks of an ended run meet the next
run; a third would meet the same two. A queue of two with three actions evicts. `TTL = 1`,
`Retention = 2`, `MaxTime = 3` let a row be fresh, late, swept and pruned.
With two balances the daily limit is exactly reached, never missed by rounding, and
one engine can lose what another's snapshot still shows; two days are one rollover,
each of its own month, so both anchors move. A cooldown of two ticks can be met,
half over and over; four ticks let a second trip follow a cleared one. One engine with
manual positions is enough for the ledgers: an engine reads of its siblings only what
the journal has of them, as it has of manual trades (two engines exceed the time a run may
take; the theorems hold for any number). Caps of 2, 2 and 3 deals let each period
be the one that trips. A position of two units closes at once, in two fills, and in two fills
with a snapshot between them; with a look-back of 0 a deal is listed until the next tick,
after which it has aged out; moves of 0, 6 and 10 points engage the trail, move it, and
leave the pip grid; a cull after two losses needs both positions.
Every bound is a named constant in a guard. Symmetry is used only in runs of
safety properties, over engines, orders or threads, which are interchangeable in
the models.

*Deadlock.* A run of `AdmissionCoordinator` ends, with every request settled and the
thread joined, one of `LivePosition` when its strategy is retired, one of `JobControl`
when its tokens are used up, so these do not check for deadlock. All others do.

*Fairness.* Broker: a thread that can take the mutex eventually does (weak fairness
of its steps; the standard mutex is assumed not to starve), and leased work ends
(weak fairness of the drops). Nothing is assumed of acquisitions, of splits or of
spurious wakeups. Coordinator: its thread runs, destructors run to their end, the
runtime polls a future whose answer is there, leased work ends; nothing is assumed
of callers, who may drop their handle at any time or never, nor of the owner.
Pending actions: the runtime polls a handler, and a call returns or times out
(60 s for MCP, the backend's own timeout for a close); nothing is assumed of the
operator, of the helper or of the clock. Kill switch: the watchdog thread loops once it
exists and a blocking submit returns; nothing is assumed of engines, of the bridge or of
the broker. Live position:
bars keep coming (`Ask`), the loop goes on after an answer (`Manage`), a request is
answered or times out, and a broker asked for ever answers properly again and again
(strong fairness of `AnswerOk`); nothing is assumed of stops, of the market or of the weekend.
Job control: the runtime polls ready tasks, and a computation told to stop does (both jobs
look at their flag); nothing is assumed of one that is not told, of users or of clients.

## 4. What TLAPS proves

For every set of engines, orders, threads, tokens and slots, every cap, limit, cooldown,
distance and volume, and every bound of the runs:

| Theorem | Statement |
|---|---|
| `EntryAuthorityProofs!TypeCorrect` | `Spec => []TypeOK` |
| `EntryAuthorityProofs!SentOrdersAreDurable` | `Spec => []SentIsDurable` |
| `EntryAuthorityProofs!AtMostOneUnresolved` | `Spec => []OneUnresolvedOrder` |
| `EntryAuthorityProofs!UncertaintyIsKept` | `Spec => UncertaintyKept` (an action property) |
| `EntryAuthorityProofs!ImplementsSerial` | `Spec => ImplementsSerialOrders` (the refinement) |
| `EntryAuthorityProofs!CountCoversEverySend` | `Spec => []CountCoversSent` |
| `EntryAuthorityProofs!CapIsRespected` | `Spec => []DailyCapRespected` |
| `EntryAuthorityProofs!OvershootIsBounded` | `Spec => []PortfolioOvershootBounded`, if `RiskCap # 0` |
| `PermitBrokerProofs!BrokerTypes` | `Spec => []TypeOK` |
| `PermitBrokerProofs!WakeupsAreNotLost` | `Spec => []NoLostWakeup` |
| `PermitBrokerProofs!SlotsStayPartitioned` | `Spec => []SlotsPartitioned` |
| `PermitBrokerProofs!PermitsAreConserved` | `Spec => []PermitsConserved` |
| `PermitBrokerProofs!CancelsWakeWaiters` | `Spec => []CancelWakesWaiters` |
| `PermitBrokerProofs!GrantsFollowQueue` | `Spec => GrantsInOrder` (an action property) |
| `PendingActionsProofs!SentAtMostOnce` | `Spec => []AtMostOneCall` |
| `PendingActionsProofs!SentOnlyFresh` | `Spec => []OnlyFreshConfirmedSent` |
| `PendingActionsProofs!PendingStaysBounded` | `Spec => []PendingBounded` |
| `AdmissionCoordinatorProofs!AdmissionTypes` | `Spec => []TypeOK` |
| `AdmissionCoordinatorProofs!CapacityIsConserved` | `Spec => []CapacityConserved` |
| `AdmissionCoordinatorProofs!NobodyWaitsForStopped` | `Spec => []StoppedLeavesNobodyWaiting` |
| `AdmissionCoordinatorProofs!RequestsQueuedOnce` | `Spec => []QueuedOnce` |
| `RiskyModeProofs!LedgerTypes` | `Spec => []TypeOK` |
| `RiskyModeProofs!AccountCapIsKept` | `Spec => AccountCapHolds` (an action property) |
| `RiskyModeProofs!TripsAreReal` | `Spec => NoPhantomTrip` (an action property) |
| `RiskyModeProofs!RowsAreKept` | `Spec => JournalKeepsRows` (an action property) |
| `RiskyModeProofs!SwitchTypes` | `Kill!Spec => []Kill!TypeOK` |
| `RiskyModeProofs!CooldownIsKept` | `Kill!Spec => Kill!CooldownHolds` (an action property) |
| `JobControlProofs!JobTypes` | `Spec => []TypeOK` |
| `JobControlProofs!LeaseCovers` | `Spec => []LeaseCoversWork` |
| `JobControlProofs!ShownAndStoppable` | `Spec => []ComputingIsShownAndStoppable` |
| `AccountRiskProofs!RiskTypes` | `Spec => []TypeOK` |
| `AccountRiskProofs!AnchorIsTruthful` | `Spec => []DayAnchorTruthful` |
| `AccountRiskProofs!DailyLossIsEnforced` | `Spec => []DailyLossStopsEntries` |
| `AccountRiskProofs!CheckpointIsKept` | `Spec => CheckpointNeverForgives` (an action property) |
| `AccountRiskProofs!LatchedIsFinal` | `Spec => LatchedRefusalIsFinal` (an action property) |
| `LivePositionProofs!MoneyIsExact` | `Spec => []BooksExactMoney` |
| `LivePositionProofs!ProfitStaysLocked` | `Spec => []LockedProfitWithinHalfPip` |
| `LivePositionProofs!StopRatchets` | `Spec => StopNeverLoosens`, if `2 * (SlDist + LockDist) >= Pip` |
| `LivePositionProofs!RetirementIsFinal` | `Spec => RetiredStaysOut` (an action property) |

The assumptions are the named `ASSUME` of each module (finite sets of actors, natural
limits), which TLC evaluates in every run, and the two hypotheses in the table. With a
budget of zero no engine sends, but an order of an earlier configuration may be open.
The condition on the stop is item 16 of section 5. `RiskyModeProofs` extends `LossLedger` and
instantiates `KillSwitch` as `Kill`, over variables of its own; an instance does not bring the
`ASSUME` of its module, so the theorems about it have `Kill!KillSwitchConstants`, the same
assumption, as hypothesis.

*Entry authority: uncertainty.* `SentIsDurable` is not inductive: whether `Send` may happen
depends on what is on disk, and that on what the other engines may have written in
between. `DurabilityInv` adds that nothing runs before the first V2 file and that a
restorable older file has no order behind it (`LegacyQuiet`), that the disk's intent
is the one in memory (`DiskIntentInMemory`; memory may hold one more after a failed
write), that the attempt between the durable write and the answer owns both
(`AttemptOwnsIntent`), and that attempts have distinct ids (`OrdersDistinct`). The
lemma `KeepsIntent` covers all the operations that change day and count only. The
refinement needs the same invariant: `Send` is a `SendOrder` because the intent on disk is
the sender's own and every other order sent is verified; every other step that touches the
mapped sets is a `VerifyOrder`.

*Entry authority: counting.* The count alone is not inductive, because a reservation is
counted long before its order is sent, and may be sent after the day has changed.
`CountInv` therefore counts, for each day, the orders sent and the workers that hold a
reservation (`Reserved`): on the prepared day the two together are covered by the durable
count, on every day they stay within the cap, and nothing is sent or held on a day that was
not prepared yet. A reservation adds one on both sides, a release takes one off both, a
send moves one from held to sent, a new day starts from two empty sets. A day that goes
back breaks the last of these, which is why `wentBack` is in the properties.

*Entry authority: budget.* `BudgetInv` bounds the live orders (sent or open) *plus* the
poised workers, those that read a number below the budget and have not sent. A send moves
one from poised to live. A worker that samples has seen every live order except one that
is still in flight; as at most one order is unresolved, there is at most one such, and its
sender waits for the answer and is not poised itself. The sum does not stay bounded when an
order of unknown fate is left behind by its sender (`Stuck`), but then nobody sends again
(`StuckStays`).

*Permit broker.* `NoLostWakeup` rests on two observations: every step that could make
a sleeping waiter's request grantable (a return, a grant or a departure that changes
who is eligible) notifies everybody, and a step that does not notify leaves queue,
permits and slots alone (`QueueUntouched`) or appends a waiter behind the others
(`PassKeeps`). `BrokerInv` carries the types of the queue, that only holders own
resources, and the partition of the slots. `PermitInv` adds that an empty hand has no lease
(`LeasesHeld`), so that a grant adds its width to a summand that was zero; the sum is moved
by the law `TotalUpdate`. `CancelInv` adds that a cancel past its first step has a token.

*Admission coordinator.* `PlaceInv` says where a request can be: in the channel as its
`Enqueue` (`SentIn`), in one of the two queues, in the hand of the thread, or answered. The
places exclude each other and none holds a request twice (`QueuesApart`, `OnePlace`); a
request that may still be answered is in one of them; each stage of a caller admits some of
these places (`CallersConsistent`), and each phase of the thread some contents of the queues
(`ThreadConsistent`: behind the acknowledged shutdown they are empty, after the end the
channel is too). Capacity then moves with the set of granted requests: `PoolInv` is
conservation, kept because a grant adds a request that was not in that set and a return takes
one out that was, and `TotalUpdate` turns this into the sums. What `Retain` keeps
(`RetainLaw`: the same requests that lie in the set, no repetition, no new ones) needs an
induction over the length of the queue. The provers cannot instantiate the library's
induction theorems, so it is made by hand: were the law false for some prefix, it would be
false for a shortest one (`Smallest`, from the well-foundedness of the naturals), which is
not empty, and the prefix before it contradicts that.

*Pending actions.* `DispatchInv` says that a row with a call has a handler past
dispatch, that a pending row never had a handler, that a handler exists only for an
action confirmed in time and never refused, and that ids not yet handed out are
untouched. `PendingBounded` needs of a proposal at the limit that the row it evicts exists
and is pending: the smallest id of a finite set (`Smallest`).

*Loss ledgers.* `AccountCapHolds` follows from the types: what passes was raised to at least
the journal's losses. `NoPhantomTrip` needs to know that a ledger, fed by own closes and by
the journal, counts no deal twice. `LedgerInv` bounds every ledger by the number of deals it
may have counted (`Countable`): losing, since the period its cursor stands on, and *not of a
position the engine still tracks*. Booking a close moves the deals of its position into that
set and adds at most their number; raising to the journal happens only at an entry, when the
engine tracks nothing (`HoldsWhenIdle`), so that every journalled deal is in the set already. A
close deal is never older than the cursor (`HeldSince`, `CursorNotAhead`; periods follow the
days, `PeriodLaw`). A deal of a later day than the sampled one would be in the set as well,
so the judged ledger needs the sharper bound, by the losses of its own period: it holds at
the sample (`SampleBacked`), nothing is booked between sample and check, and so it holds at the
check (`RolledBacked`). That deals are finitely many is proved from their being at most two
for a position (`DealsBounded`). `JournalKeepsRows` rests on `SeenCovers`: unless the set was
seeded from an unreadable file, every position with a row is in the seen set, so no second
line of it is written.

*Kill switch.* `TripKept`: while the cooldown of the last saved trip runs, no clearing is
between its load and its save, and the file is unreadable, of a newer schema, or carries a
trip at least as young. The gate refuses in all of these but the second.

*Job control.* `JobInv` says where each part of a run can be: tokens are handed out once
(`FreshTokens`), a live worker has the lease with the kind of its phase, a child that
computes has a worker that drains it or panicked, and from the install to the terminal
snapshot the slot of the phase names the run (`SlotIsInstalled`). A late observer therefore
meets a slot with another token, and `Update` leaves it alone.

*Account risk.* The anchor is true because a balance changes only with a deal or a cash
flow of the day (`BalanceKept`), so that clean evidence vouches for the snapshot taken
before it (`SnapshotTruthful`). The latches are final because the file holds what was
reported (`FinalKept`, `MonthKept`) and memory is never behind the file (`MemoryAhead`),
which a restart reads. The arithmetic of the limits is not opened: the proofs hold for any
rule that compares a balance with an equity.

*Live position.* `Ratchet`: a stop that was moved keeps the locked profit up to half a pip,
and no later candidate snaps behind it; neither mentions the local trail, which lags after
a lost answer, so a lost answer needs no case of its own. `BookInv`: observed fills are
fills, and what is left plus what was closed is the volume; a complete set of observed fills
is then all of them (`TotalWhole`), and its money is the position's. `EntryKept` (in
`GraveInv`): a written retirement is in the file and in the list of a sibling that is
writing, until somebody overlaps.

*Only model-checked.* The liveness properties, as fairness and ENABLED are outside the
prover's reach: `QueuedRequestsServed`, `EveryRequestSettles`, `OutcomeStampedOrLeft`,
`StopIsCarriedOut`, `BadBrokerStopsOrders`, `FlatIsReleased`. Every
safety invariant, every action property and the refinement that a passing run checks is proved.

## 5. Where code and comment disagree

Two runs end with a violation:

1. **The count of a day can be lost** (`entry_stale_day`). `prepare_day` accepts an
   earlier day and resets the count. An engine that sampled the day before midnight
   and awaited the broker prepares the old day again, after a sibling already sent on
   the new one; the next preparation of the new day starts from zero. That window is
   the only one (and at this commit it lies behind the shut gate): `CountCoversEverySend` and `CapIsRespected` prove that the count covers
   every order, and the cap holds, as long as no day went back.
2. **A native run can lose its stop** (`native_stop_lost`). Unlike
   `update_engine_snapshot`, `update_canonical_native_research_v1` compares no lease token.
   The observer of an ended run writes its terminal a second time after the lease is free,
   and a start endpoint may install late; either replaces the slot of the run that computes
   now and takes its cancellation token out of it. After the observer's write a cancel of
   the new run answers a token mismatch, and from the new run's next progress event on, which
   puts its snapshot back but not its token, that nothing runs; after a late install it
   answers a token mismatch, or cancels the run that is over. The test
   `native_status_is_nested_and_cancellation_stays_active_until_terminal`
   (`canonical_native_discovery_tests.rs:75`) is named for the promise.

The other limits met while modelling are built into the properties, as the exact bound
or as a named exception:

3. Two engines that wake on the same bar both see room for one position: the budget can
   be exceeded, by at most one position per further engine (`PortfolioOvershootBounded`).
4. `release_entry` refuses while a sibling's intent is unresolved and the caller only
   logs it: the reservation stays counted. The direction is safe.
5. A client that leaves during the broker call takes the confirm handler with it, so the
   action stays "confirmed" (`OutcomeStampedOrLeft`).
6. A start-up takes its snapshot before it resolves the period; a midnight in between
   makes the closed day's evidence vouch for the wrong balance (`crossed`).
7. `clear_expired_kill_switch` can erase a trip saved between its load and its save;
   a state file of a newer schema reads as no trip (`CooldownHolds`). `arm` does not
   repeat a trip that failed to save, and a second halt of the same kind does not renew
   the cooldown. `clear_halt` and `record_push_event_halt` have no callers.
8. The journal marks a position as seen before its row is appended, and knows positions,
   not deals: a failed append or the second deal of a partial close is missing from the
   account's loss, as is every deal the bridge refuses (section 2.6); an unreadable journal
   reads as empty. `AccountCapHolds` is about a complete journal that could be read. An
   unreadable file also seeds an empty seen set, after which a second line of a position may
   displace the first (`blind` in `JournalKeepsRows`).
9. A flat position stays tracked when its last fill falls between the two requests of one
   snapshot after a partial close was seen, when it is beyond the 100 rows of the list (after
   a partial close was seen once is enough, otherwise every time), when it left the 24 h
   look-back (the reconcile runs only on new bars, and there are none over a weekend), or
   after a malformed deal (`FlatIsReleased`).
10. Snapping to the pip grid can take up to half a pip of the locked profit
    (`LockedProfitWithinHalfPip`).
11. Two overlapping retirements, or a damaged file, bring a retired strategy back
    (`RetiredStaysOut`); a restart resets the loss streak.
12. The brokers of a token are copied before its flag is set: a waiter that registers and
    checks the flag between the two sleeps until somebody returns permits, and a second
    cancel does nothing (the exception in `CancelWakesWaiters`).
13. A chained run cannot be stopped from its slot between the terminal update of discovery
    and the install of training. A worker that panics leaves its child computing without
    the lease, and its slot "Running" when nobody observes it (`LeaseCoversWork`,
    `StopIsCarriedOut`). A client that leaves during the native install leaves a native run
    without a slot (`NativeStopStaysActive` speaks of installed runs).
14. `config.rs:390-391` says that `0.0` disables the portfolio cap,
    `live_trading.rs:3232-3241` then refuses every entry.
15. `prepare_period` has no check that days only grow. An engine that slept through a
    midnight at the end of a month prepares the old day, `roll_periods` (`risk.rs:718-732`)
    goes back to the old month, and the next roll forward starts the current one afresh:
    the monthly target, after which `risk.rs:846` says "no further entries until the next
    month", is forgotten. `LatchedRefusalIsFinal` therefore excludes it (`rewound`); the two
    latches that end an account are final without exception.
16. The trail loop does not compare its first stop with the initial one. When the initial stop
    is nearer than half a pip less the locked profit, snapping may put the first trailed stop
    behind it. The configured floor (`sl_min_pips`, 6 pips by default, `config.rs:1925`)
    excludes that; the ATR-scaled floor of `evolution_math.rs:804` alone would not.
    `StopRatchets` has it as hypothesis.

## 6. What stays open

1. Liveness is checked on the instances of section 3 only.
2. An abstract specification of grants within a capacity, of which `PermitBroker` and
   `AdmissionCoordinator` would both be refinements. Its content is proved already, as
   `PermitsConserved`, `SlotsPartitioned` and `CapacityConserved`; what it would add is one
   statement for both.
3. `AdmittedCpuLease::split` in the coordinator, and the rediscovery queue behind `JobControl`.
