# Verification of the OKX agent trade kit

TLA+ models of the parts of the kit that decide whether an order is sent,
whether it is known to have been filled, whether its position is closed and
protected, who may trade and how much, what an operator approves and sees, and
which market data a decision may use. TLC checks
the models on small instances; TLAPS proves their safety properties for every
size, and that the entry side implements its abstract specification.

`PROJECT.json` has the machine-readable side: the line map from definitions to
source, the runs, one mutant per checked property, the findings, the hazards
and the theorems. Paths below are relative to `src/`.

## 1. Inventory

| component | state it keeps | operations | talks to |
|---|---|---|---|
| order states (`execution/order_state.py`) | none | the transition table, the managed and active sets | order manager |
| order manager, entries (`execution/order_manager.py`) | none; reads and writes the store | `submit`, `submit_automatic`, `reconcile_plan`, `recover_active_orders`, `cancel_pending_entries`, `cancel` | trade store, executor, backend |
| order manager, exits (same file) | none | `flatten_managed_positions`, `reconcile_managed_positions`, `reconcile_flatten_intent`, protection clean-up | the same |
| trade store (`storage/trade_store.py`) | SQLite: plans, `order_lifecycle`, `managed_positions`, `trades`, `flatten_attempts`, `reconciled_exit_fills` | one transaction per call | every process on the database file |
| targeted reconciler (`execution/targeted_reconciler.py`) | none | a bounded series of lookups with growing delays | backend |
| demo executor (`execution/demo_executor.py`) | none | guard, number formatting, `place_order` | backend |
| MCP backend (`execution/mcp_backend.py`) | a child process, a request counter, a lock | JSON-RPC calls with timeouts | the exchange |
| session controller (`trading_agent/session_controller.py`) | the control row | START, PAUSE, STOP, FLATTEN, `continue_flatten`, `degrade` | store, service |
| trading service (`trading_agent/service.py`) | `_action_lock`, a one-thread executor, scheduler and market threads, event queue and keys | control requests, `runtime_tick`, `_handle_confirmed_candle`, `_final_entry_guard`, failure handling | all of the above |
| control state (`control_state.py`, `storage/control_store.py`, `state.py`) | the persisted row and its mirror in the core | compare, transition, safe startup | service, orchestrator |
| orchestrator (`trading_agent/orchestrator.py`) | `AgentState` | analyse, approve, automatic execution, recover, flatten | order manager, risk |
| account synchroniser (`trading_agent/account_synchronizer.py`) | a running flag, the last projection | `synchronize` (single flight), `close` | trading service |
| realtime market data (`data/realtime/*`) | candle buffers, stream states, sockets | bootstrap, apply rows, readiness, watchdog, reconnect | exchange sockets, service |
| risk and sizing (`risk/*`) | none; reads rows and the wallet | `RiskManager.evaluate`, exposure, sizing, quantisation, revalidation | orchestrator, trade store |
| decision, strategies, indicators | none | pure formulas | orchestrator |
| web API and security (`trading_agent/web_api/*`) | browser sessions, their sockets, approval challenges | session, preview, approve, websocket and pass-through routes | service |
| backtest, monitoring, scripts, frontend | their own | offline or display | - |

What is hard here:

* **Partial knowledge.** An order request can time out after the exchange took
  it. The kit never resends; it looks the client id up and reconciles.
* **Commits that are not one transaction.** A reconciliation writes the order
  row, then asks for the protection, then writes position and trade; an exit
  writes the attempt, then its fill, then the close, then cleans up. The
  process can die between any two.
* **Threads.** Browser requests, the scheduler and the market worker share one
  lock and a one-thread executor; some reads are made without the lock.
* **Several sellers of one position.** Exit attempts, a protective order on the
  exchange, and an entry whose rest may still buy.
* **A feed that reconnects**, with a bootstrap that shows the newest candle
  while it is still forming, lost, repeated and late rows, and a bounded queue.
* **Decisions on figures read apart.** The risk gate adds a wallet to rows it
  reads later; an operator approves a preview whose market has moved; a browser
  combines a snapshot with events that were emitted while it was taken.

The `hazards` list in `PROJECT.json` gives each of these at its line with the
properties that cover it, or the reason none does yet.

## 2. The modules

```
OrderStates  <-- EntryLifecycle  <-- EntrySettlement (INSTANCE Settlement)
                                       <-- MCEntryLifecycle, EntryLifecycleProofs
                                 <-- Admission
                                       <-- MCAdmission,      AdmissionProofs
                                           (also extends EntryLifecycleProofs)
                 FlattenLedger   <-- MCFlattenLedger,  FlattenLedgerProofs
                 SessionControl  <-- MCSessionControl, SessionControlProofs
                 MarketFeed      <-- MCMarketFeed,     MarketFeedProofs
                 McpChannel      <-- MCMcpChannel,     McpChannelProofs
Sizing       <-- ApprovalFlow    <-- MCApprovalFlow,   ApprovalFlowProofs
                 DashboardFeed   <-- MCDashboardFeed,  DashboardFeedProofs
```

Granularity everywhere: one database transaction, one exchange call or one
critical section is one step. Everything else of the system may run between
two steps, and a process death may fall there.

### OrderStates
The states and the table of `order_state.py`, the sets derived from it, and
`_map_state`, its last branch included: a row without a recognised state and
without fills is taken for SUBMITTED.

### EntryLifecycle
The life of an entry order from approval to a settled row, a managed position
and a trade. `order`, `pos` and `trade` are the rows of the three tables;
`ex` is the exchange's order for the plan's client id (with a request that may
still be travelling), `sl` whether the exchange holds matching TP/SL, `placed`
counts the requests sent. A worker (`wk`) is the core thread of one process:
its `pc` is the line it is about to execute, the other fields are the local
variables of the call (the row it read, whether a cancel was requested when it
started, the verdict on the protection, the snapshot of rows a loop iterates).
Two workers are the server and a command-line process on one database; they
meet only in the store's compare-and-set. `Task(w)` begins an operation,
`WorkerStep(w)` continues it, `Exchange(p)` moves the exchange, and `Failure(w)`
is what may go wrong: a process dies, a lookup returns a row without a
recognised state (which raises in an OPEN order), a filled row has no average
price (no trade is written), the protection query raises. All count as faults.
The matching rules that decide whether a TP/SL order protects a
position are abstracted to their verdict, which may also be raised as an error.

### Settlement and EntrySettlement
`Settlement` is what the entry side promises, without tables or lookups: a
plan is sent once or dropped before it is sent; what was sent buys until it
ends; the agent concludes once, about an order that has ended, with the quantity
that was bought; what it owns only grows and never exceeds what was bought.
`EntrySettlement` gives the mapping (stage and quantity from the exchange's
order, verdict from the order row, ownership from the managed position), and
`EntriesSettle` states that `EntryLifecycle` implements it.

### Admission
The risk gate composed with the entry side: `EntryLifecycle`'s `Submit` happens
only as the end of an approval, on the same core thread. `ask` is the approval
a worker is in, with the wallet it read before the rows; `rules` the limits;
`sold` and `trades` the way out (an exit sells, `close_trade` records a result
that may be unknown). Quantities are lots of one price: a lot is a plan and a
number up to the order size, `Held` are the lots bought and not sold, `Reserved`
those of the rows that may still buy, and `get_balance` and
`reserved_entry_notional` are the sizes of these sets. Market, signal, spread
and funds checks refuse or not.

### Sizing
Quantisation, position size, executable plan and preview comparison, as integer
operators in a unit smaller than tick and lot. Prices are rounded with decimals
in the code, and exactly here. The size is a quotient of binary floats that is
floored to lots: a quotient may come out one unit lower or higher than the exact
one (`FloorsOf`), so `PositionSizes` and `Executable` are sets and an exact
multiple of the lot may lose one lot (entry 100.3, stop 100.1, budget 2.5, lot
0.1 gives 12.4). They have no state and are evaluated inside `ApprovalFlow`.

### ApprovalFlow
The manual way to an order: the session table (a set of cookies; `created` keeps
their order, from which the one to evict is taken), sockets
and their two registrations (session manager and service), challenges, HTTP
handlers with one step per await, plans and the market. Ages (8 hours, 8 and 15
seconds) are flags that time sets. A consumed challenge stays in the model as
history, so that the order can be compared with what was shown.

### DashboardFeed
From the account to the browser: the single-flight synchroniser in its critical
sections, the unlocked compare, assign and emit of `_synchronize_account`, the
bounded event log, and the websocket handler with its snapshot, its loop and its
two registrations. The account is a version number; all other events are one
value. `client.behind` counts the events the handler has not sent (the
difference of two sequence numbers), `client.whole` says that none was lost.

### FlattenLedger
One managed position being closed. `att`/`fills` are the attempts and the
exit fills of the ledger, `xo` the exchange's exit orders, `oco` the protective
order, `entry` the entry with an unfilled rest that may still buy. The worker
runs a round of `continue_flatten`: recover the entry, reconcile protective
exits, cancel pending entries, clean up, then decide for the position between
waiting, cancelling the working attempt, closing, and preparing a new attempt.
Positions of different plans use disjoint rows and orders, so one is enough.
`pos.ids` says whether the position's row still names the protective order: a
failed protection or instrument query, or an order that has triggered, replaces
the ids by none. `Failure` and the steps that call `Fault` are what may go
wrong: deaths, lost or failed requests, failed protection queries, rows without
an average price (`ReconcileSeenNoAverage`) or a recognised state
(`ReconcileUnrecognised`), and a clean-up whose answer is lost or refuses in its
payload (`CleanupMisread`).
Sums of quantities are counts of lots (`Lots`, `Sum`), so that they can be
reasoned about.

### SessionControl
`ctl` is the persisted control row, `core` its mirror in `AgentState`, `lock`
the action lock, `thr` what the operator, scheduler and market threads do next,
`job` an entry between the final guard and its submission. A read made without
the lock is a step of its own, which is how stale reads arise. The deprecated
mode, arm, auto and approval endpoints are included when `Compat` is TRUE.
The order manager appears as `entry`: none, submitted and not yet reached by a
cancel pass, or asked to cancel. The recovery in front of a FLATTEN's cancel pass
may raise (`RecoverFails`), and so may the pass itself, or it may leave an entry
unasked (`CancelFails`); both count as faults.

### MarketFeed
One symbol and its one-minute buffer. `buf` is `CandleBuffer` (candles,
confirmed ones, the ones already announced, complete or not), `st` the stream
state with its readiness inputs, `cl` the client's loop and the bootstrap it
fetched, `events` the bounded queue and the keys that suppress repeats, `handling` the
candle under evaluation. The clock has two ticks a minute, because freshness
allows one interval and five seconds. A row out of its turn is at most
`MaxLate` minutes late, and `LatenessAssumption` relates that to the number of
keys: `2 * MaxLate <= KeyCap + 1`.

### McpChannel
The JSON-RPC pipe below the backend, shared by the core thread and the thread
that bootstraps market data. A call takes the request lock, an id, writes, and
reads lines until its own comes, the deadline passes or the child is gone.
`stdout` is what `select` sees, `partial` says that the child has begun a line,
`buffer` is what `readline` has fetched ahead, and `blocked` the call that waits in
`readline` for the rest of a line, which no deadline ends. Requests wait in
`stdin`, a pipe of `PipeCap` requests on which a write can wait too, and `work`;
`taken` are the orders the exchange accepted, `result` what `place_order` told its
caller. The child answers in any order, adds lines of its own and may die; an
order it passed on may be accepted after that. A line may be JSON and no object:
the reader then raises something that is no `MCPError` (`"raised"`). That an error
answer means that the order was refused is the contract of the tool, which
`place_order` relies on and the kit cannot check. This module justifies the
outcomes `EntryLifecycle` lets a submission have: acknowledged, refused and dead,
or unknown; the `"raised"` one is in section 4.

## 3. Runs that pass

| run | bounds | distinct states | shows |
|---|---|---|---|
| `entry` | 2 plans, 1 process, 2 lots, 2 lookups, 1 fault | 2.46 million | nothing is sent twice; CANCELLED, FILLED and POSITION_UNPROTECTED are the exchange's word with its quantity; positions stay within fills; no observation with a recognised state is refused by the transition table; as long as nothing failed every known fill is managed between tasks; an acknowledged cancel is not forgotten; all of it implements `Settlement` (`EntriesSettle`) |
| `entry_liveness` | 1 plan, 1 fault | 10 thousand | uncertain submissions and cancels (`EntriesResolved`), complete fills and lost protection are resolved |
| `admission` | 2 plans, 2 lots, 1 lookup, 1 fault, 3 rule sets that each make another limit bind | 2.15 million | wallet plus everything that may still buy stays within the exposure limit; slots are not exceeded while nothing failed; a lost day or streak admits nothing |
| `approval` | 2 cookies for a table of 1, 1 socket, 2 challenges, 2 requests, 1 plan, 3 markets | 3.52 million | an order is what its session was shown, within the tolerances; a challenge serves once; registered sockets have a session; figures keep their budgets after rounding and float division |
| `dashboard` | 2 threads, 2 account versions, a log of 2 events | 1.29 million | one load at a time and no sleeper at an open gate; a browser with snapshot and events shows the account; a stream without a session is cleared |
| `flatten` | 2 lots, 3 attempts, 2 lookups, an entry rest, 2 trigger lots, 1 fault | 6.38 million | one exit works at a time; the ledger confirms and closes only what was sold (`LedgerIsTrue`); the protection outlives the position; without a fault the attempts never oversell; with no fault and no trigger FLAT leaves no exit and no protective order (`FlatIsClean`) |
| `flatten_liveness` | 2 attempts, no fault, no rest, no trigger | 4 thousand | a FLATTEN ends with FLAT and the protection is cleaned up |
| `session` | deprecated endpoints on, 1 failed recovery or cancel pass | 925 thousand | the kill switch blocks; every row can be mirrored; the core follows the row; after PAUSE, STOP, kill or disarm returned nothing is about to be submitted; PAUSE and FLATTEN reach every entry unless a recovery or cancel pass failed |
| `session_liveness` | sessions only, 1 failed recovery or cancel pass | 110 thousand | no control action waits for ever |
| `market` | 6 minutes, bootstrap 2, capacity 3, queue 1, 3 keys, 1 failure, 1 odd row at most 2 minutes late | 777 thousand | a decision sees gap-free fresh candles and a book of the present connection (`SnapshotSound`); each candle is evaluated at most once; an unusable feed (gap, socket down, or silent on live sockets) ends a RUNNING session |
| `mcp_channel` | 2 threads, 2 requests, 2 foreign lines, a pipe of 1 request | 480 thousand | what `place_order` reports is true; no call reads the answer another waits for; every call returns, if the child finishes its lines and reads its pipe |

Two processes on one database are not in a run (one plan and two workers give
1.3 million states and `PlacedOnce`, `TerminalIsRemote` and
`ManagedWithinFills` hold there): the theorems of section 5 are about any
number of processes. `EntriesSettle`, `ObservationsAccepted`, `FillsManaged`
and `CancelRemembered` are about the supported deployment, one process.

Why the bounds suffice for the cases that matter. Two lots distinguish
unfilled, partly and completely filled. Two plans let one plan's reconciliation
run between the steps of a loop over both; plans share no rows, so a third
adds no new interaction. Two lookups give a lookup that misses and one that
finds. Three attempts let an attempt follow one that itself followed another.
One fault at any step is the single-failure assumption; every step of every
operation is a place where it falls. Two requests and two foreign lines
let the answer to a call that timed out meet the next call, behind foreign,
malformed and unfinished lines, and fill the pipe (three requests give 3.5
million states, in which `OutcomeIsTrue` and `NoResponseStolen` hold too).
Six minutes with a capacity of three let
the buffer wrap, the queue overflow and a reconnect meet a half-formed candle.
The list of three keys is full after three candles, and a row up to two minutes
late may still confirm one again: the largest lateness `LatenessAssumption`
admits. Without that assumption the property fails (one key, rows four minutes
late). The code keeps 256 keys for all symbols and timeframes, so one symbol
alone would have to get a row more than two hours late.
In `admission` two plans of two lots make the exposure limit bind before, at and
after a second order. Each rule set lets one limit bind: one slot and a streak
of one, a daily loss of one with an exposure that admits one and a half orders,
and an exposure that admits exactly one. In `approval` two cookies compete for a
table of one session, so that a session is evicted at every point of a request;
two challenges and two requests let one be replayed, crossed or used by the
other session; the markets move prices within and beyond each tolerance, one has
its size limited by the cap, one by the risk budget, and one an exact number of
lots, where a float may floor to one lot less. In
`dashboard` two versions and two threads let an older projection meet a newer
one, and a log of two events overflows behind a slow browser.

Deadlock is checked in every run.

### Fairness

* `EntryLifecycle`: the worker thread runs what it was given. `runtime_tick`
  queues `recover_active_orders` every three seconds on a first-in first-out
  executor, so it runs again whatever else is queued (strong fairness). The
  exchange settles what it accepted, cancels what it was asked to cancel, and a
  query that can be answered infinitely often is answered some time.
* `FlattenLedger`: the same scheduler and exchange, and an operator who asks for
  FLATTEN again after a restart (the code waits for the operator there).
* `SessionControl`: threads run, the executor is first-in first-out, so a task
  waiting for it is not passed over for ever. Nothing obliges the operator to
  ask or candles to come.
* `McpChannel`: callers run and deadlines pass; the child owes nothing.
  `CallsReturn` has the child's part as its condition: no line stays unfinished
  and the pipe does not stay full (each alone is necessary, section 4).
* `DashboardFeed`: the event loop gives the websocket handler its turn
  (`wait_for` returns after a second). Nothing obliges a thread to synchronise,
  a browser to connect or an account to change.
* `Admission` and `ApprovalFlow` state safety only and need no fairness.
* `MarketFeed`: the scheduler ticks and the event worker handles what it has.
  The network owes nothing.

## 4. Where code and documentation disagree

The run `session_flatten_lost` checks one sentence of the documentation
("只有 managed exposure 确认归零后才会报告 FLAT，否则保持 FLATTENING /
FLATTEN_INCOMPLETE", `README.md:52-53`), and TLC finds a behaviour of the code
that violates it: a failed tick, or a degrade that read RUNNING before the
FLATTEN, writes DEGRADED over FLATTENING (`service.py:956-964`). `README.md:95-96`
asks for DEGRADED after any critical failure; the two sentences disagree about a
failure while flattening.

The models also show the following. They explain why the passing properties
carry the conditions they carry. Each formula, added to the module and to a
copy of its configuration with the constants named, gives the trace.

| behaviour | formula that fails | where |
|---|---|---|
| CANCELLED is committed before the managed position; a process death in between leaves the filled part unmanaged, because CANCELLED rows are not recovered (`README.md:76`: "若 race 中成交则建立托管仓位并立即复核 SL/TP") | `\A p \in Plans : (ex[p].st = "canceled" /\ ex[p].filled > 0) ~> (pos[p].qty = ex[p].filled)` | EntryLifecycle, FairSpec, MaxFaults 1 |
| the position of an entry cancelled after a partial fill is never verified again (`docs/architecture.md:117-119`: "Missing ... protection becomes POSITION_UNPROTECTED") | `\A p \in Plans : <>[](pos[p].qty > 0 /\ ~sl[p]) => <>[](~pos[p].prot)` | EntryLifecycle, FairSpec |
| death between an attempt's terminal row and its exit fill, then a lookup that finds nothing: the next attempt sells the filled part again (`README.md:78-80`) | `AttemptsNeverOversell` | FlattenLedger, MaxFaults 1 |
| `daily_state` leaves out trades whose fees are unknown, so a losing day goes on (`docs/risk-management.md:32-33`) | `LossesStopEntries` without the condition on `known` | Admission |
| a PARTIALLY_FILLED entry closed while its rest still buys is in no sum; the exposure limit is exceeded | `ExposureBounded` without the condition on `Orphan` | Admission |
| after the death of the first row above the unmanaged inventory holds no slot | `SlotsBounded` without `faults = 0` | Admission, MaxFaults 1 |
| the synchroniser opens its gate before it keeps the projection: an older one is kept after a newer one | `[][sync'.last >= sync.last]_vars` | DashboardFeed |
| two overlapping emissions send their events in the other order, and the browser keeps the older account until the next change | `ViewConverges` without `~raced` | DashboardFeed |
| after `snapshot.error`, or when the log dropped events behind a slow browser, nothing tells the browser to take a new snapshot | `ViewConverges` without `client.whole` | DashboardFeed |
| the position and the row of a PARTIALLY_FILLED entry are closed and FLAT is reported while the rest can still buy | `session = "FLAT" => ~entry.live` | FlattenLedger, MaxWorking 1, no faults |
| exit attempt and protective order are both live and sell the same lots | `Sold <= entry.bought` | FlattenLedger, MaxTriggers 2 |
| a trigger that sells part of what the entry bought, or a death between `close_trade` and the clean-up, ends in FLAT over a live protective order | `session = "FLAT" => oco.st # "live"` | FlattenLedger, MaxTriggers 2 or MaxFaults 1 |
| a close refused because the entry is CANCEL_REQUESTED is later made by `reconcile_managed_positions`, which marks no attempt for clean-up; the protective order stays | `CleanupHappens` | FlattenLedger, FairSpec, MaxWorking 1 |
| an attempt that failed locally is FAILED without `terminal_confirmed`; none follows it | `att[1].st = "FAILED" ~> last > 1 \/ pos.st = "CLOSED"` | FlattenLedger, FairSpec, Q 1, MaxFaults 1 |
| PAUSE writes its row first and returns at once when already PAUSED, so a failed cancel pass cannot be repeated by PAUSE | `ctl.session = "PAUSED" /\ entry = "fresh" ~> ctl.session # "PAUSED" \/ entry # "fresh"` | SessionControl, FairSpec with SF on Pause, MaxFaults 1 |
| `continue_flatten` runs without the action lock: a START and an entry fit between its reads and the write of FLAT | `[][\A t \in Threads : At(t, "confirm") /\ At(t, "sync")' => entry = "none"]_vars` | SessionControl |
| the market thread and the guard test RUNNING and ARMED, not the mode | `At("market", "place") /\ lock = "free" => ctl.mode = "AUTO"` | SessionControl, Compat |
| a row without a recognised state and without fills maps to SUBMITTED (`order_manager.py:44`), which an OPEN or PARTIALLY_FILLED order refuses: `reconcile_plan` raises INVALID_ORDER_TRANSITION | `ObservationsAccepted` without the condition on `"other"` | EntryLifecycle, MaxFaults 1 |
| the clean-up reads no sCode (`order_manager.py:1241-1242`, unlike lines 752, 920, 984 and 1280): a cancel refused in the payload is recorded as done and the protective order keeps working (`docs/architecture.md:141-142`: "failures persist as `PROTECTION_CLEANUP_INCOMPLETE` for background retry") | `[][At("cleaned") /\ wk' # wk /\ faults' = faults /\ pos.ids /\ oco.st = "live" => att'[wk.k].st = "PROTECTION_CLEANUP_INCOMPLETE"]_vars` | FlattenLedger, Q 1, MaxFaults 1 |
| a failed protection or instrument query replaces the protective ids by none (`order_manager.py:241-252`, `208-211`); the clean-up then has nothing to cancel and is complete | `session = "FLAT" /\ ~pos.ids => oco.st # "live"` | FlattenLedger, Q 1, MaxFaults 1 |
| the ids are also replaced once the protective order has triggered and is no longer listed; its sale is then never booked | `oco.filled > 0 ~> fills[0] = oco.filled` | FlattenLedger, FairSpec, Q 1, MaxTriggers 1 |
| a clean-up whose cancel took effect while its answer was lost is tried again against an order that is gone; if the exchange answers with an error each time the attempt stays PROTECTION_CLEANUP_INCOMPLETE | `att[1].st = "PROTECTION_CLEANUP_INCOMPLETE" /\ oco.st = "cancelled" ~> session = "FLAT"` | FlattenLedger, FairSpec, Q 1, MaxFaults 1 |
| an exit attempt seen FILLED without an average price books no fill and is never looked up again (`order_manager.py:1020`, `1069`); the position stays open | `att[1].st = "FILLED" ~> pos.st = "CLOSED"` | FlattenLedger, FairSpec, Q 1, MaxFaults 1 |
| the recovery in front of FLATTEN's cancel pass raises (`session_controller.py:88`), and the request returns with no entry asked to cancel | `PauseReachesEntries` without `faults = 0` | SessionControl, MaxFaults 1 |
| a line that is JSON and no object raises `AttributeError` (`mcp_backend.py:126`) after a placement was sent, and `order_manager.py:107-112` records the order as rejected (`docs/execution-backends.md:24-26`: "only failures that may have reached OKX are stored as `SUBMISSION_UNKNOWN` ... Local guards and explicit upstream rejections become `PRE_SUBMIT_REJECTED`/`REJECTED`") | `\A i \in Ids : result[i] \in {"rejected", "raised"} => i \notin taken \cup InFlight` | McpChannel |
| `readline` waits for the rest of a line beyond the deadline, and `_write` for a full pipe | `CallsReturn` without either of its conditions | McpChannel, FairSpec |
| the float quotient of an exact number of lots is floored one lot lower (`position_sizing.py:68-76`) | `FiguresSound` with `~Fits(f.size + Lot)` | ApprovalFlow |
| a candle fetched while forming and confirmed before the subscription stays unconfirmed inside a buffer that is called complete | `[][Evaluates => \A t \in Min(buf.conf)..Max(buf.conf) : t \in buf.conf]_vars` | MarketFeed |
| an answer that `readline` fetched behind another line is not seen by `select`, and its call times out | `At(c, "read") /\ stdout = <<>> => call[c].id \notin {l.id : l \in LinesOf(buffer)}` | McpChannel, MaxNoise 1 |

Two more are seen by reading only. `recover_active_orders` catches nothing
(`order_manager.py:469-472`): a plan whose row raises at every tick, such as one
without a recognised state, keeps the plans after it from being recovered.
`dashboard_snapshot` reads the control row
before the sequence (`service.py:877-881`), so a `control.state` event between
the two is in neither the snapshot nor the stream.

## 5. Proofs

Eight modules hold theorems. Each theorem is for every value of the constants
that the named assumptions admit: sets of plans, processes, callers, threads,
cookies and requests are arbitrary, bounds on minutes, versions, lots, lookups,
attempts and faults are any natural numbers. No set is assumed finite except
an interval and, in `Admission`, the set of plans (`PlansAssumption`: limits are
compared with the number of rows). Each invariant was first checked by TLC at the bounds
of the module's run. Every proof has the same shape: `Init => IInv`, one lemma
per action for `IInv /\ [Next]_vars => IInv'`, and the property from `IInv`.

| module | theorem | states |
|---|---|---|
| EntryLifecycleProofs, any number of processes | `TypeCorrect`, `EntryPlacedOnce`, `TerminalStatesAreRemote`, `PositionsWithinFills` | `TypeOK`, `PlacedOnce`, `TerminalIsRemote`, `ManagedWithinFills` |
| EntryLifecycleProofs, one process | `NoObservationRefused`, `EveryFillManaged`, `CancelNeverForgotten`, `EntrySideSettles` | `ObservationsAccepted`, `FillsManaged`, `CancelRemembered`, the refinement `EntriesSettle` |
| AdmissionProofs | `ExposureWithinLimit`, `SlotsWithinLimit`, `NoEntryAfterLosses` | `ExposureBounded`, `SlotsBounded`, `LossesStopEntries` |
| FlattenLedgerProofs | `ExitsOneAtATime`, `LedgerBooksSales`, `OnlyFaultsOversell`, `ProtectionLasts`, `FlatLeavesNothing` | `OneLiveExit`, `LedgerIsTrue`, `OversellNeedsFault`, `ProtectionOutlivesPosition`, `FlatIsClean` |
| SessionControlProofs | `KillSwitchBlocks`, `RowsMirrorable`, `CoreMirrorsRow`, `NoLateEntry`, `PausesReachEntries` | `KillBlocks`, `RowsAreMirrorable`, `CoreFollowsControl`, `NoEntryAfterReturn`, `PauseReachesEntries` |
| ApprovalFlowProofs | `OneApprovalPerChallenge`, `RegisteredSocketsHaveSessions`, `OrdersAreWhatWasShown`, `OrderFiguresSound` | `ChallengeUsedOnce`, `SocketsHaveSessions`, `ApprovedAsShown`, `FiguresSound` |
| DashboardFeedProofs | `GateLetsOneLoad`, `BrowserConverges` | `SingleFlight`, `ViewConverges` |
| McpChannelProofs | `ReportsAreTrue`, `OwnResponseOnly` | `OutcomeIsTrue`, `NoResponseStolen` |
| MarketFeedProofs | `StrategySeesSoundData`, `CandleEvaluatedOnce` | `SnapshotSound`, `EvaluatedOnce` |

### Entries, any number of processes

None of the properties is inductive, for one reason: a worker acts on a row it
read some steps ago. `IInv` therefore says what a held row still means.

* `ExchangeOK(p)`: nothing exists on the exchange before it was placed, nothing
  is filled before it rests there, and an order is filled exactly when its whole
  size is.
* `OrderOK(p)`: a row that is still PLANNED or APPROVED was not placed; a terminal
  row states the exchange's end; position and trade stay within the fills.
* `WorkerOK(r)`: the row a worker holds is an earlier state of the exchange's
  order, so its quantity is a lower bound, and a terminal row is the present
  state; a worker that applied a terminal row left the order in that state; a
  worker about to send has not sent.
* `OneSender`: two workers are never about to send the same plan. This is where
  the compare-and-set of `approve_and_create_order` enters, and why `PlacedOnce`
  holds for any number of processes.

Steps of the exchange preserve `WorkerOK` because filled quantities only grow
and ended orders stay ended.

### Entries, one process

The theorems of the second part of `EntryLifecycleProofs` assume `OneProcess`, the supported
deployment: one server with a one-thread executor (`service.py:98`). Two
processes can write an older observation over a newer one, so the assumption is
needed. Crashes and restarts of that process are included. On top of `IInv`,
`SoloInv` says:

* `TableOK`: an order row is behind the exchange, never ahead of it, and is
  REJECTED only for an order the exchange does not have;
* `SubmitOK`, `FreshOK`, `ApplyOK`, `CancelOK`: with nobody else writing, the
  rows are where the worker's own last write left them, and a row it has just
  looked up is at least as new as all three tables. That is why the transition
  table accepts every observation that has a recognised state;
* `SnapOK`: an entry that `active_orders()` showed as unsent still is;
* `ManagedOK`: without a fault the three tables agree about each plan, unless a
  worker is between the first and the last write of `_apply_remote_order`.

The refinement: initial states map to initial states, and each step either
leaves a plan's abstract record alone (`PlanStays`) or moves one plan by one
abstract step (`PlanMoves`). The request that reaches the exchange is `Send`; the
exchange's fill, cancel and refusal are its steps; the write that makes a row
terminal is the conclusion, correct because a terminal row held by the worker is
the exchange's present state; the upsert of a position is the growth of what is
owned; a row given up before it was sent is the drop. All lookups, retries,
cancel requests, protection checks and crashes stutter.

### Admission

The gate adds a wallet it read earlier to rows that are behind the exchange, so
neither limit is inductive. The argument is by lots. `Limit(p)` is how many lots
plan `p` can come to: what its row knew if it is closed, the whole order while
it may still buy or be sent, what was bought otherwise. `Claimed` are the unsold
lots up to that limit, `Occupied` the plans that have or may get inventory.

* `ClaimsShrink`: no step except an admission adds a claimed lot. Fills turn
  what may be bought into what was bought, ends and sales take lots away.
* `AskOK`: while an approval is under way, every claimed lot was in the wallet
  it read or is in a row it will read. It holds when the wallet is read, because
  a plan that may still buy has a row that reserves its rest (`PendingReserves`),
  and until the decision because the core thread is in the approval: the only
  row written meanwhile is that of a plan rejected before it was sent. When the gate decides, the claimed lots are therefore at
  most the sum it compared with the limit, and the admitted order adds at most
  its size.
* `OccupiedHasSlot`: when the core thread is free and nothing failed, an occupied
  plan has an active order row or a managed position (`FillsManaged`), so it is
  among the slots the gate counts.
* `GateInv` carries these together with `AccountOK` (what was sold was bought, a
  position is closed with its order). `Admission` adds `close_trade` to the entry
  side, so `IInv` and `SoloInv` are shown again for a step that closes rows
  (`CloseTradeEntry`); all other steps are the entry side's own lemmas.

`ExposureWithinLimit` and `SlotsWithinLimit` assume `OneProcess`: another process
could admit, fill and book an entry between this one's wallet read and its
decision, and that entry would be in neither. `NoEntryAfterLosses` needs no such
assumption. It shows that `daily_state`'s streak counts every loss of a run of
losses that ends the day (`StreakCounts`); the sum of the day stays the sum over
the same rows.

### Flatten ledger

`PosOK`: what is closed, cleaned up or called FLAT was confirmed sold.
`OrderOK(k)`: attempts before the last have ended and are booked, later ones do
not exist, and booked <= recorded <= sold <= asked. `WorkerOK`: what the worker's
position in the round implies about the attempt in its hand. `PlanOK` is the
argument against overselling: without a fault, what the last attempt asks for
and what the others sold is together at most the position (`Plan`); preparing
an attempt keeps it because the remainder is computed from booked fills, and
`BookedOK` says that without a fault these are all recorded fills, except
between the two commits of a reconcile. `LinkKnown`: without a fault and without
a trigger the position's row names a live protective order, so that the clean-up
has something to cancel. `CleanupAhead`: while a sold position's
protective order is live, somebody is still on the way to cancel it. Sums are
counts of lots, so that one comparison of sets replaces an induction.

### Session control

`RowOK` (what a written row satisfies), `LockOK` (who holds the action lock and
where its holder goes on), `CoreOK` (the core mirrors the row unless the call that
tells it is still to come), `JobOK` (an entry past the guard is still admitted by
the row, unless the cancelling call is still to come), `PauseOK` (while paused, a
submitted entry is waiting for a cancel pass). The two-step writes of
`_transition` (row, then core) are what makes the plain properties
non-inductive.

### Approvals

`ChallengeOK` (only a popped challenge was accepted, once), `RequestOK` (a handler
past the pop carries the figures of its record, although the record is gone from
the table), `OrderOK` (an order's figures come from an executable market and are
within tolerance of its record). `MarketsAssumption`: prices are natural numbers
of the unit. The rounding lemmas are about integer division for any tick, lot
and budget: rounding down is the largest multiple below, and the size is, up to
the unit a float quotient may be off, within both budgets and at most one lot
below the largest that is.

### Dashboard

`LoaderOK` names the loader instead of counting it. `EmitOK`: an emission that met
no other carries what is shown. `ViewOK` generalises the property to every moment
of the handler: while no emission is under way, either nothing the handler has
not fetched carries an account and the browser has the shown one, or the last
account it has not fetched is the shown one (`Quiet`, `Latest`).

### MCP channel

`HolderOK`: only the lock's owner has a request id, and nobody was told anything
about it. `IdsOK` and `OnceOK`: an id is in one place, request or answer.
`AnswersOK`: the answer to a placement says whether the exchange took it; this is
where the tool's contract enters (`Answer` gives an error only for an order that
was not taken). A late answer to an earlier call is therefore never taken for the
present one. `FlagsMove` and `FlagsHold` say that unfinished lines and blocked
reads move neither requests nor answers. `OutcomeIsTrue` is silent about a
`"raised"` outcome, which is no report of `place_order`; that the order manager
takes it for a rejection is in section 4.

### Market data

`StreamOK`: a connected stream has two live sockets and a complete buffer, a
complete buffer has no gap (`Convex`), a book belongs to the present connection.
For `EvaluatedOnce`, `PlacesOK` has each candle in one of queue, worker and
history, and `SpentOK` says that a candle given to the worker is behind the feed's
cursor, and that its key is held as long as a late row may confirm it again, with
only candles at most `MaxLate` older behind it. The key is not evicted before
that: at that moment all keys and the new candle would be different candles
less than `MaxLate` away from it, one more than there are (pigeonhole, from
`LatenessAssumption`).

### What stays with TLC

* Liveness under fairness and ENABLED, which the installed provers do not handle:
  `EntriesResolved`, `FilledBecomesManaged`, `LossNoticedWhenFilled`,
  `FlattenEnds`, `CleanupHappens`, `LockReleased`, `GapStopsSession`,
  `CallsReturn` and `DeadStreamsCleared`.

Every invariant and every action property of a passing run is a theorem, and so is
the refinement.

## 6. Not modelled

* The polling fallback `_auto_execute` used without realtime data, read-only
  queries and the sanitising of responses: the service is `partly`.
* The lazy start of the MCP child (two first calls can start two children), its
  handshake and the arguments of its tools.
* The matching rules for protective orders, and the paging of fills: the models
  take their verdict, complete or not, matching or not, as a free choice.
* Strategies, indicators and backtests: floating-point formulas without a
  protocol. Of the risk checks the cooldown, spread, volatility and balance
  checks, which only refuse, and `cap_position_size`, used by the demo verifier.
* CSRF, origin and loopback checks, which have no state, and the routes that
  pass a request through.
* Values of candles and books; only presence, order and age decide readiness.
* The queue overflow that calls `degrade` on the event loop (`service.py:422`):
  the product of `MarketFeed` and `SessionControl` is too large for a run.
* Memory and timing: the back-off of the websocket client and the growth of
  `_emitted_confirmed` with uptime.

## 7. Plan

1. `ProtectionMatch` and `FillPages`: matching and paging as operators checked
   against a reference definition.
