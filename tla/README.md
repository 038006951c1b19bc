# Codexon in TLA+

Codexon (`src/cachemonitor`) is a desktop monitor for the Codex client. It puts
a local relay between the client and the model service, observes the traffic
that passes through it, collects usage records, reads account quotas, and
presents the results. This directory holds TLA+ models of the parts of Codexon
that run concurrently, survive crashes or hand work over to each other, the TLC
configurations that check them on small instances, and proofs that TLAPS checks.

`tlc -config X.cfg M` runs a configuration, `tlapm MProofs.tla` checks a module of
proofs. `PROJECT.json` lists the runs, the source lines of each definition, the
mutants, the findings, the hazards and the theorems.

## 1. Inventory

Every component, the state it keeps, how it is used, what is hard about it and
what makes it correct. All paths are under `src/cachemonitor`.

### Relay process

| Component | State | Operations | Hard because | Correct when |
|---|---|---|---|---|
| Observation writer (`evidence_writer.py`) | a queue of bounded size, one pending gap interval, `closed`/`stopping`, the writer thread's store | `write` (event loop), `prepare` (start-up), `run` (thread), `close` (worker thread, and `main`) | four threads, no lock around the queue and the flags, storage that fails at any call | every observation is stored or inside a reported gap; `close()` is true only when that is durable; the thread ends |
| Relay server (`model_proxy.py`) | `health`, `active_relays`, one `Tracker` per connection, the control file | `handle`, `relay` (two tasks per WebSocket), `apply_control`, `watch` | frames of several lanes in both directions, disconnection at every await, drain and forced stop | requests are never replayed or cut off by a drain; each response is recorded with its own request |
| WebSocket admission and retirement (`proxy_websocket.py`) | `Activity` per connection; the budget's `entries`, `waiting`, `draining` | `begin`, `delivered`, `reserve`, `connected`, `release`, `reap`, `close` | a connection is retired on an inference from frames about what is still running; waiters race releases and retirements | no connection is retired with work on it, none is kept for ever, limits hold, no wake-up is lost |
| HTTP lease pool (`proxy_http.py`) | a semaphore, `waiting`, the idle clients | `lease` | waiters at the limit, cancellation at every await, and again while closing | a slot always comes back once; a client with an unread response is never reused |
| Managed relay process (`managed_proxy.py`) | its control file, the preparation deadline | `allowed`, `tick`, `serve` | notices, or does not notice, that its owner is gone | drains only when nothing routes to it; its receipt is true |

The event loop of the relay calls the writer; the writer's `status()` feeds
`/health`. The control file is written by the exit, the updater and the managed
process itself, and read by `watch` and `tick`.

### Desktop application

| Component | State | Operations | Hard because | Correct when |
|---|---|---|---|---|
| Application exit and resume (`app_services.py`, `shutdown_state.py`) | `app-services.json`, `ExitControl` | `stop`, `stop_proxy`, `commit_route`, `resume_proxy`, `save`, `disable_resume` | four files and one lock shared by five processes; a crash between any two writes; cancel and force from the UI | the route never names a relay that refuses; a direct route is remembered; Off and edits win; an exit ends |
| Relay drain (`proxy_drain.py`, `proxy_target.py`) | `force_sent`, the captured source | `run`, `released`, `stopped`, `enabled` | the relay may be gone, or be another instance | only the captured instance is stopped; no invented flush |
| Connection settings (`observer_control.py`, `observer_state.py`, `connection_recovery.py`) | Codex configuration, `observer-state.json` | `enable`, `turn_off`, `recover_direct`, `restore`, `attach_supervisor` | also run by a second process and by a stand-alone tool | the configuration returns to what it was |
| Proxy replacement (`proxy_update.py`) | `proxy-update.json` | `begin_switch`, `replace`, adoption, rollback, cancellation | restarts between journal writes | exactly one relay owns the route after every outcome |
| Quota observation backlog (`quota_backlog.py`) | the `pending` table, the budget row, one unsaved slot, one reservation | `append`, `flush`, `available`, `reserve_fetch`, `cancel_fetch`, `first`, `acknowledge` | item and byte limits kept by triggers, failing writes, restarts | what was accepted is applied once, in order |
| Quota service (`quota_service.py`) | the switches, `monitoring_revision`, the issue flags, the ledger | `supply_local`, `set_tracking_enabled`, `set_paused`, `run`, `stop` | GUI thread against service thread, a fetch under way while a switch moves | the ledger agrees with the switches; nothing is fetched for ever or never |
| Quota calculation worker (`quota_worker.py`, `quota_cancellation.py`) | coalesced requests, a command queue, the process and its phase, `committed` in the child | `request`, `retry`, `_run`, `execute`, `close` | three threads of control and a process that dies; a commit must not be killed; results of superseded requests | a confirmed edit is in the ledger and in the report shown; nothing asked for is forgotten |
| Application update, client restart (`app_update.py`, `update_state.py`, `client_restart.py`, ...), installation (`installation.py`, `install_*.py`) | `app-update.json`, receipts | `begin`, `cancel`, `begin_switch`, `proxy_result`, `retry_proxy`, `reconcile_update`, activation, cleanup | results arrive late, twice or from an earlier attempt; process replacement in the middle | each operation ends with one result, and an accepted cancellation is final |
| Usage collection (`usage_collection.py`, `collection_*.py`, `event_stream.py`, ...) | the live publication, the durable snapshot and its bodies, the reader's caches and checkpoint | `prepare`, `publish`, `request`, `read`, `poll` | one collector that restarts, loads by and by and evicts; readers that switch between two sources and receive only differences | a reader decodes everything it is sent, confirms only what is exact; nothing is deleted without proof |
| Session index (`index.py`, `core.py`) | file offsets, loaded and selected sessions | `poll`, `admit_demand` | truncation and rotation, demand that narrows | what it shows is what the files say |
| Prepared store and analysis delivery (`prepared_*.py`, `analysis_*.py`) | generations, the publisher's rows, a one-place mailbox, the receiver's rows, queries and demand | convert, adopt, publish, receive, query, cancel | pages of one generation over three threads and a pipe; a child that dies; queries bound to generations that pass | the window shows committed generations whole and in order; the last query is answered, from a generation complete for it |
| Quota calculations, statistics, desktop interface, Windows integration | | | numerical, visual or operating-system code | not modelled, see section 7 |

## 2. Modules

| Module | Models | Role |
|---|---|---|
| `EvidenceWriter` | observation writer | component |
| `ExitLifecycle` | exit, resume, drain, the relay process, Off, edits, the updater's cutover | composition of the processes around the route |
| `QuotaBacklog` | backlog and the part of the service that feeds and drains it | composition of two threads and the durable tables |
| `RelaySocket` | one WebSocket connection: relay tasks, `Activity`, `Tracker`, retirement | component |
| `RelayAdmission` | the request handlers of both transports, `WebSocketBudget`, `HTTPRelayPool`, drain and forced stop | composition on one event loop |
| `Capacity` | a bounded resource with a bounded queue | abstract specification, implemented twice by `RelayAdmission` |
| `ProxyUpdate` | the updater and its journal, the operation journal, the requests of the application, relay processes | composition of three processes and two files |
| `QuotaWorker` | the requesting half of the quota service, the transport thread, the child process | composition |
| `SnapshotDelivery` | prepared writer, publisher, mailbox, pipe, receiver, bridge | composition |
| `CommittedView` | the generations a window may show | abstract specification, implemented by `SnapshotDelivery` |
| `QueryDelivery` | window, bridge, dispatcher, query actor, demand on the writer | composition |
| `UsageChannel` | collector, live publication, durable snapshot, one reader | composition of two processes and the database |
| `ExitLifecycleProofs`, `RelayAdmissionProofs`, `RelaySocketProofs`, `QuotaWorkerProofs`, `UsageChannelProofs`, `ProxyUpdateProofs` | | inductive invariants and theorems about the module named before `Proofs` |
| `ObservationProofs` | | the same for the two stores of observations, `QuotaBacklog` and `EvidenceWriter` |
| `AnalysisDeliveryProofs` | | the same for the two ways to the window, `SnapshotDelivery` and `QueryDelivery` |
| `MC...` | | what TLC runs; constants are in the `.cfg` files |

Operators named `X_something` next to a definition `X` are mutants: `X` as a
plausible mistake would have it. Nothing in a specification uses them.

### 2.1 EvidenceWriter

A step is one queue operation, one region under `self.lock`, one read of a
shared flag or one database call. `ppc` is the event loop inside `write()`
(`WriteCheck` reads `closed`, `WritePut`/`WriteFull` are the two outcomes of
`put_nowait`, `WriteLost` is `lost()`); `prep` the thread in `prepare()`; `wpc`
the writer thread with `ctx` naming which of its three calls of `flush_gap` it
is in; `cpc` the thread in `close()`, which may be called again. `FlushRead`,
`FlushSave`, `FlushClear` are separate because `flush_gap` releases the lock
around the database call. Every database call may fail.

`write()` tests `closed` without the lock, so `close()` may set it between that
test and `put_nowait`. `overtaken` is history: the one write that was there when
`closed` was set. `Leaving` says that the writer has tested its loop for the last
time; a record put after that stays in a queue nobody reads.

Left out: `errors`, `written` and the failure streak, which only feed
`status()`. The wall clock does not go backwards; a record is stamped when
`write()` is called, with a time that is not after the clock.

### 2.2 ExitLifecycle

Four files (`route`, `obs`, `session`, `control`), one cross-process lock, and
the processes that share them. `pc` names the next step of the GUI's operation
thread: `stop_proxy` from `waitUpdate` to `saveStopped`, `stop_collection`
(`collect`), the `except` clause, and `resume_proxy` from `resumePrep` to
`resumeActive`. Each write of a file is a step, so a crash (`GuiCrash`) or an
exception (`StopFails`, `ResumeFails`) can come between any two. Reads that the
code does without the lock are steps of their own (`SaveRead`, `ResumeRead`),
with the copy in `data`. `ctl` is `ExitControl`: `Checkpoint` and `Commit`
are its decision gate against `CancelRequest`.

The relay boots (`ManagedProxy.allowed`), admits and finishes work, drains by
command, by itself (`RelayNotice`) or because a preparation expired
(`RelayExpire`), and leaves a receipt, or not. The other process runs
`turn_off`, `restore` or `recover_direct`.

A busy relay has one unit of work. It is `responding`, which ends by itself, or
`unknown`: a WebSocket whose frames no longer tell what runs on it (`RelayBlur`).
Unknown work ends when its client closes the connection (`ClientCloses`), when the
user forces the exit, or with the relay.

Off and edits come at any step of any operation. `overlooked` is history: the
overrides made while the GUI held a value it had read before and would act on
later, an Off in `HoldsJournal`, an edit in `HoldsRoute`.

Abstractions: process and file identity checks are exact; polling periods are
arbitrary and time-outs of the lock are failures of the step that takes it; the
updater is its cutover record and its end, and replaces the relay in one step, so
`RoutedRelayServes` says nothing about the relay an update drains; the collector
half of an exit succeeds or fails as one step; `set_url` compares and writes in
one step; the two-process branch for relays of old versions and the updater's
source fallback are left out. A GUI that hands over to a newer process while
running is a GUI that dies running.

### 2.3 QuotaBacklog

The GUI thread's calls are single steps, since they hold `ingress_lock`
throughout. The service thread (`pc`) goes through `LoopTop`, `save_pending`
(`First`, `Apply`, `acknowledge`), `Observe`, `reserve_fetch`, the fetch, and
`Close`. `append` covers `_store`, the limits, the triggers that keep the budget
row (`Insert`) and the unsaved slot. `Exit` is the end of the process after the
shutdown or in the middle of anything; `gone` remembers what a slot took with it.
The table and the ledger survive, and `Start` opens them again.

Sizes are units instead of bytes: controls and local items take one, an account
reply one of `ReplySizes`, of which one is larger than the whole table. The
ledger is the set of applied items and its last tracking control. An error of
WAL housekeeping is one of the reasons a write fails. `stale` stands for a
`monitoring_revision` that differs from the one the loop read.

### 2.4 RelaySocket

The two `relay()` tasks share an event loop and interleave only where they
await, while a frame is being sent on: `OutRead`/`OutDone` and `InRead`/`InDone`
are the halves of one iteration before and after that await; the second half
includes the `budget.reap()` it ends with (`reaped`). `Reap` is the same scan
called by `watch` or for another connection. The seven variables of `Activity`
and the three of `Tracker` are kept apart as in the code, because their
bookkeeping differs. `saved` is the last status stored for each record, with
`-r` for the record of a response without a request. `Close` stands for
`WebSocketClose`, the disconnection of a peer and the `finally` clause.

The server is external. It answers the requests of a lane in order, with
a response or an error without an identifier, answers a cancel that finds
nothing to cancel with an error, repeats terminal frames the client already has,
and sends frames of unknown type. A request's number is also the number of the
response that answers it; the relay's definitions do not use that, the
properties do. `response.steer` is left out: `Activity` counts it as a request,
`Tracker` does not, and nothing in the repository says how it is answered.
Models, service tiers, latencies and efforts of a record are data the control
does not depend on. Why a connection is due (age, idle time, idle limit,
pressure) is arbitrary unless the relay drains.

`cancelled` and `erring` are history: the lanes that have seen a cancel and an
error. A lane with both is *ambiguous*: an error without an identifier may
answer the cancel or a request, and no relay could tell. The properties are
stated for lanes that are not; what the code does in the others is in section 5.

### 2.5 RelayAdmission

One event loop, so a step is the code between two awaits. A WebSocket handler is
refused, waits in `reserve()` (`blocked`, or `woken` by `changed.set()`),
connects, is open and ends; an HTTP handler waits for the semaphore, sends, reads,
and closes its response and its client. `Retired` is the arithmetic of `reap()`
(drain, age, idle limit, pressure), and every action that calls `reap()` in the
code contains it. `older` gives, for each idle socket, those with an earlier
`idle_since`, the order the code sorts by; how many of them there are is what the
loop has counted when it comes to the socket. Handlers are cancelled at each
await; `HttpCleanup`, `HttpResponseClosed` and `HttpClientClosed` are the awaits
of the `finally` clauses, with the lease ended by `EndLease` in whichever is last.
`Watch` is `watch()`: read the control file, scan, stop when idle or force. A
socket is idle, busy or unknown here; what it carries is `RelaySocket`.

`WebSocketBudget` and `HTTPRelayPool` are unrelated classes that promise the
same; `Capacity` says it once, and both refinement mappings are checked.

### 2.6 ProxyUpdate

`J` is `proxy-update.json`, `A` is `app-update.json`. `upc` is the updater's
place in `run`/`replace`/`rollback`/`ProxyDrain.run`; a publish writes `J` and
leaves the result in `pend`, which `Deliver` passes to the app journal, so a
death between the two loses it. `begin_switch` is three steps under the control
lock (`bs1` to `bs3`) because it writes both files. `Crash` may strike at every
place; the task scheduler (`Start`) starts the updater again while `watchdog`
says so. `fenced` and `stale` stand for the comparison of `updated_at`: a retry
fences off everything written before it. The application begins, retries,
cancels, turns off, reconciles and attaches. `Activate` is the start of
`activate_proxy`, with its three ends: nothing routed (`Settles`), a relay that
answers and is to be updated (`UpdateProxy`, under the control lock, which also
recovers an interrupted journal without a relay), and no relay, in which case one
is launched and awaited (`ActivateEnds`). Relays boot well or badly, drain,
die, or lose their receipt. `unknown` are the relays with a WebSocket whose state
cannot be told: such a relay is not ready to drain, and does not finish a drain,
until its client closes (`ClientCloses`); `AwaitsClient` is the drain that
publishes `close_client` and loops.

Abstractions: the application part of an update has succeeded before the proxy
part begins; `needs_exit` and `partial` are written as `waiting` and `failed`;
`require_stopped()` of the client succeeds or fails; executable digests match.
One assumption is about time: no `activate_proxy` runs from its start to its end
between the two writes of `begin_switch` (`writingCutover`), which follow one
another in `proxy_update.py:140-150` while `activate_proxy` launches processes or
asks the relay.

### 2.7 QuotaWorker

`spc` is the turn of `QuotaService.run` (settings, results, the next request),
`tpc` the transport thread, `cst` the child. `request` and `retry` are the
queues: reports and charts coalesce, edits queue. Charts stand for charts,
previews and queries; an edit is an exclusion, a restoration or a cleared cycle.
`TFail` covers a dead child and the limit of restarts, `TBreak` a pipe that
breaks while the child lives: the child is terminated, unless it may be writing;
then it becomes one of the `orphans`, which commit or fail by themselves
(`OrphanEnds`) while the next child already works. `CCrash`
is death at any point, the commit included. A report is the set of edits it was
calculated with; `CPartial` is the partial report a process may send before its
first whole one (`prepared`). The observations, the other half of `run()`, are
`QuotaBacklog`: the halves share only the pause switch.

### 2.8 SnapshotDelivery

A row is the generation that last changed it. `Convert` commits batches (the
last one makes a generation ready), `Install` adopts, `Publish`/`PutPage` send
pages through the one-place mailbox, `Forward` and the pipe carry them, `Read`
is `SnapshotReceiver.receive` with the bridge's answer to a `ValueError` (a new
receiver and a sync). Budgets are faults that may strike where the code tests
them: adopting, building a page, the publication. `CommittedView` is what the
window may see: committed generations, whole, never an older one after a newer.

### 2.9 QueryDelivery

A query waits for a publication that is complete for it (`Dispatchable`), is bound
to that generation, and comes back stale when the store moved on (`Retried`).
`Round` is the rest of one turn of the dispatcher after `wait()`, which handles
only what was ready when it began. The writer publishes the current generation
unless its publication was tried and did not fit (`blocked`): `InstallPrepared`
covers the adoption, with rows that fit or do not, `PublicationFails` the budget
of the publication. A block ends with the next generation, or with a snapshot the
user asks for (`RequestSnapshot`, `TakeResync`). The actor keeps the newest
request of a kind; archive pages share it and are bound to no generation. The
bridge re-issues the last query and the open page to a new child (`Reissued`).
Left out: the pages of a publication that failed half-way, and the error message,
neither of which the dispatcher looks at; that the window has heard of the error
when it asks for a snapshot is the guard of `RequestSnapshot`.

### 2.10 UsageChannel

A publication is an epoch and a sequence number. `Poll` is one `poll()` of the
collector with what the index then shows: all sessions or the selected ones,
loaded or not yet. `Prepare` is the live difference bookkeeping, `Commit` the
transaction of `CollectionChannel.publish`, `GoLive` the live publication that
follows it, so a death can come between. The reader keeps rows of one source;
`ReadLive` is request and reply of protocol 5 with the checkpoint that lets the
server omit bodies, `ReadDurable` the fallback in one read transaction. Bodies
are digests; the volatile fields are one flag.

## 3. Runs

| Run | Instance | States | Shows |
|---|---|---|---|
| `evidence_writer` | 3 records, queue of 1, clock 0..1 | 327 954 | `Accounted`, `CleanClose`, the type invariant, and under fairness `CloseEndsWriter` |
| `exit_lifecycle` | 2 GUI processes, 2 relay instances, 2 exits, 1 disturbance | 830 838 | the properties of an exit |
| `quota_backlog` | table of 2 + 1 items, 2 + 1 units, 2 GUI calls, 1 fetch, 2 processes | 743 814 | the safety properties of the backlog, and `Settles` |
| `relay_socket` | 2 lanes, 3 client frames (create, cancel, unknown), 1 repeat or notice | 1 382 996 | the properties of retirement and of recording |
| `relay_admission` | 3 WebSocket and 2 HTTP handlers, budget 2, 1 waiter, pool of 1 | 154 654 | the properties of admission, two refinements of `Capacity`, `ShutdownEnds` |
| `proxy_update` | 3 relay instances, 2 operations or retries, 1 death, 1 fault, cancel and Off | 318 746 | the properties of a replacement |
| `quota_worker` | 1 edit, 1 chart, 1 report, 1 switch, 1 fault, 2 deaths of the child | 2 296 528 | `AnsweredEditsShown`, `CommitNotKilled` |
| `quota_settled` | 1 edit, 1 report, 1 switch, 1 fault, 1 death of the child | 464 034 | `RequestsSettled` |
| `snapshot_delivery` | 2 sessions, 2 generations, 1 sync, 1 fault, 1 restart | 255 904 | the refinement of `CommittedView`, `GenerationSettled` |
| `query_delivery` | 2 queries, 1 page, 3 user actions, 2 generations, 1 fault, 1 restart | 702 531 | the properties of queries and pages |
| `usage_channel` | 2 sessions (symmetric), 3 bodies, 2 epochs of 2 polls, 2 changes | 2 093 312 | `NeverUnreadable`, `ReadExact`, `DeletionsProven` |
| `usage_revision_reuse` | 1 session, 2 epochs of 3 polls, 1 change | violation | `CorrectionAdvances` fails, section 5 |

Why the bounds are enough for what the runs ask:

* *Writer.* A queue of one is full after one record; the second is being put
  or lost while the third or the sentinel arrives. Two timestamps make a gap
  that grows while it is saved. The safety part is proved for all values.
* *Exit.* Every journal phase is entered from every other one with two GUI
  processes (the one that left and the one that resumes) and two exits (one that
  was interrupted and one that begins on top of it). The second relay instance
  is the one a resume starts. The disturbance is a crash, an Off, an edit, an
  update or the death of the relay, at any step. Two of them (an Off
  after a crash) are 3.8 million states, which were checked for the safety
  properties while the model was written; these are proved for any number.
* *Backlog.* With two items and one in reserve both limits, the slot and the
  control reserve are reached by three calls; the second process replays what
  the first left.
* *Socket.* Two requests in one lane and one in another, or three in one lane,
  is the least at which an error is ambiguous while another lane works; one
  repeated terminal frame is enough to consume a wrong request.
* *Admission.* Two sockets fill the budget and the third waits; a fourth request
  (a handler is reused) is refused. Pressure starts at the budget, so a scan
  chooses between an idle socket and one just connected. One client in the pool
  makes every reuse of an unfinished response visible to the next request.
* *Update.* Source, new relay and the old one restarted are three instances. One
  death suffices to separate any two writes; the second try is either a retry of
  the first operation or a new one.
* *Quota worker.* A report, a chart and an edit are one of each queue; the child
  may die around the commit and once more after its restart, and the fault may be
  the broken pipe. `quota_settled` does without the chart: what it adds is a second
  way to be cancelled, which the pause has too.
* *Snapshots.* Two sessions give publications of two pages, so one can fail or
  be cut off between them; the second generation changes, removes or adds.
* *Queries.* The second query supersedes the first, or follows a cancellation:
  three user actions are ask, cancel, ask again, or a query, a page and the snapshot
  that lifts a block. A second generation makes the first stale and lifts a block. The
  fault is a block, a partial collection or the death of the child. Two faults were
  checked with two user actions, and, for the safety properties, with three (2.9
  million states).
* *Usage.* Two epochs are a checkpoint and the collector that reuses it; two
  polls of each give a partial and a complete catalog, or a publication and a
  difference. One session is shown while the other is loading or evicted.

Deadlock is checked for the writer, where only the end of all threads would
stop the system and the clock and `close()` may always go on. The others may
stop: at their bounds, after the exit, when the connection is closed, when
nobody asks anything.

## 4. Properties

Each module states its type in `TypeOK` (`WriterTypeOK`, `QueryTypeOK`), the start
of an inductive invariant (`SnapshotDelivery` and `QueryDelivery` are proved with
the types alone, without the bounds of the instance that their `TypeOK` contains).
Section 6 says which properties are proved and which are only checked.

*Writer.* `Accounted`: each record whose `write()` returned is stored, inside a
gap, or on its way to a writer that still reads; the overtaken one may be in the
dead queue. `CleanClose`: `close()` returning True means stored or inside a gap
for everything handed over before it, with that exception. `CloseEndsWriter`.

*Exit.* `DirectRouteHasResumeIntent`: the exit never strands a direct route
without its intent to resume. `RoutedRelayServes`: clients are not sent to a
relay that refuses them; the state `starting` is the one excepted, reached when
a resume ends between its last two writes and its preparation expires.
`CleanExitFlushed`: no clean result without the flush of the instance stopped.
`CancelKeepsServices`: an accepted cancellation is final. `CutoverExclusive`: an
update and an exit do not both own the route. `CommittedExitEnds`:
a committed exit does not wait for ever, unless it waits for a client to close a
connection with unknown work. `OverridesStick`: Off and the user's own
edits, at any step, win over the intent to resume, but for those made while the
GUI holds what it read before (`overlooked`).

*Backlog.* `AcceptedKept`, `AppliedInOrder`, `BudgetExact`, `ControlAgrees`.
`Settles`: again and again no reservation is held and all that was accepted has
been applied.

*Socket.* `ActivityExact`: a connection chosen for retirement has delivered
every answer, and one that has delivered every answer counts as idle: the
inference of `Activity` from frames is exact, unless it declared itself
`unknown` or the lane is ambiguous. `RecordsSound`: a response is recorded under
the request it answers, or alone, and the end of a connection leaves no record
open. `DrainCompletes`.

*Admission.* `NoLostWakeup`: a handler sleeps in `reserve()` only while the
budget is full and the relay is not draining. `ReapKeepsUp`: idle sockets are
retired as the limits ask, but for the one a scan spared. `PoolSound`: no
reused client has an unread response, no slot is lost or released twice, on any
path of cancellation. `StopQuiet`: the stop event is set only when nothing is
active. `ImplementsCapacity`: the budget and the pool are bounded resources with
bounded queues. `ShutdownEnds`: a drain ends what it can classify, a forced
shutdown everything.

*Update.* `SourceAccounted`: an update that ended before its cutover has not
drained the relay, and a complete or restored one has not left its source running.
`CancelPreventsCutover`. `JournalEnds`: through deaths and restarts of the
updater, unless it waits for a client to close a connection of unknown state.
`CutoverResultConsumed`: a terminal result reaches the app journal.

*Quota worker.* `AnsweredEditsShown`: an edit confirmed is in the ledger, and in
the report held after it, partial reports included. `CommitNotKilled`: not even when
the pipe breaks in the middle of a commit. `RequestsSettled`: edits are
answered and report requests end, so the service never waits for what nobody
will send.

*Snapshots.* `ShowsCommittedViews` (refinement): whole generations, in order.
`GenerationSettled`: each is shown, superseded, or its failure reported.

*Queries.* `ResultsCovered`: a result comes from a generation complete for its
query. `NoObsoleteAnswer`. `LastAskedAnswered`: over stale generations, partial
collections, cancelled rivals, failed publications and restarts; a query waits as
long as the publication of its generation is blocked, a page does not.

*Usage.* `NeverUnreadable`: no reply leaves out a body the reader does not have.
`ReadExact`: what a read confirms is what the publication holds. `DeletionsProven`:
a stored body is deleted only when its recording has none any more.

Fairness, and why the code gives it:

* *Writer:* threads inside a call are scheduled, and database calls return
  (SQLite has a busy time-out). Nothing makes the relay write or close.
* *Exit:* the operation thread, the relay's one-second loop and the recovery
  process run. A response that is followed ends and an update settles: both have
  time-outs of their own. Work of unknown state has none: the relay keeps serving
  it until the client closes or the user forces (`docs/lifecycle.md:18-20`,
  `proxy_drain.py:47-53`), so `ClientCloses`, `ForceRequest` and `CancelRequest`
  get no fairness, and a wait for them is excepted in the property.
* *Backlog:* the service thread runs. Strong fairness on `First`, `Apply(TRUE)`
  and `acknowledge(TRUE)`: storage does not fail for ever. Without it the
  back-off of `run()` would retry for ever, as it should.
* *Socket:* the loop runs, the server answers, `watch` scans a draining relay
  every `check_seconds`, and a close ends because `WebSocketClose` aborts the
  transports after `close_seconds`. Nothing makes a client send.
* *Admission:* `watch` runs, and each handler leaves the await it is in: waits
  and closes have time-outs, an exchange ends or is cancelled. A socket that is
  unknown or idle is not made to end, except by its retirement.
* *Update:* the scheduler repeats the updater while asked to, the updater and
  the application run, relays finish booting and draining what they can follow. Weak
  fairness of `DrainFails` is the 30-second deadline. A relay with unknown work is
  not ready for a drain and does not end one, and `ClientCloses` has no fairness.
* *Quota worker:* both threads and the child run. Strong fairness on
  `SvcTimeout` is the deadline of an edit, tested at every turn. Reports are
  asked for by the clock, charts by the user, and an orphan need not end: no fairness.
* *Snapshots, queries:* each thread runs; the source, the user and the faults
  need not act, in particular not ask for a snapshot that lifts a block. A bridge
  that has used its restarts is excepted in the properties.

## 5. Findings and known deviations

Checked as a violation run:

* `usage_revision_reuse`: the comment in `usage_collection.py:808-809` says
  "Every correction must advance the stored body's identity." Line 810 does so only for
  sessions of the last publication. A session restored under the revision of its
  checkpoint, dropped from the shown set when the demand narrows
  (`index.py`, `admit_demand`), corrected, and shown again is stored under the
  bare sequence number, which may be the revision the same epoch gave its earlier
  body. A durable reader that holds that row compares revisions only
  (`_durable_sessions`) and keeps the old body. `NeverUnreadable` and `ReadExact`
  are stated for runs of the system where this has not happened.

Disagreements found while modelling, stated as properties next to the others and
left out of the runs. Each is reproduced by checking the property named with the
constants given (the rest as in the module's `.cfg`):

* `GapRetried` (`EvidenceWriter`). `evidence_writer.py:76-77`: "Healthy idle
  storage has no polling duty; only an unsaved gap needs a retry clock." The retry is
  guarded by `if store and self.pending_gap`; when the store was never opened, or
  when `lost()` runs while the writer waits in `get(timeout=None)`, the gap stays
  unsaved until another record arrives.
* `OffOverrides` (`ExitLifecycle`, `MaxRuns = 1`, `MaxOps = 1`).
  `docs/lifecycle.md:38-39`: "Explicit Off and an external connection-setting edit
  override saved resume intent." `resume_proxy` reads the journal without the lock
  (`app_services.py:697, 722`) and decides at 724, under the lock, on that copy: a
  `recover_direct()` in between clears `resume` in the file and disables the
  connection, and the resume then starts the relay and routes to it (757). The same
  happens when `save()` writes back a journal it read before the Off. An edit is
  overwritten likewise: the configured address is compared once (724) and written
  after a readiness wait of up to 30 seconds. `OverridesStick` holds of every
  override outside these windows, which `HoldsJournal` and `HoldsRoute` name.
* `AdmittedKept` (`QuotaBacklog`, `ReplySizes = {1}`, `MaxRuns = 1`).
  `docs/capacity.md:32`: "Preserve one admitted in-flight response through the
  existing unsaved slot." A local observation whose write fails takes the slot
  (`quota_backlog.py:164-165`), and the admitted reply is refused at line 154.
* `ReadsResume` (`QuotaBacklog`, `MaxRuns = 1`). `docs/capacity.md:32`: "Pause new
  reads at backlog capacity and resume after replay." A refused append latches
  `observation_issue` (`quota_service.py:83, 365, 380`) and nothing clears it;
  `can_observe` (353) stays false until the application is reopened.
* `ActivityExact`, `RecordsSound` in an ambiguous lane
  (`RelaySocket`, without `~ambiguous`). `proxy_websocket.py:132`: "Only retire after
  the client received the last terminal frame." The error that answers a late
  cancel is taken for the answer of the next request (lines 148-154), and the
  connection may be closed while that request runs. `Tracker.response`
  (`model_proxy.py:110-114`) marks the oldest waiting record failed on such an
  error, although `tests/test_proxy_websocket.py:101-102` pins that `Activity`
  keeps its request; later responses are recorded one request off. And a lane that
  stays in `cancelling` ignores a later rejection, whose request never leaves.
* `ResultConsumed` (`ProxyUpdate`). `docs/lifecycle.md:55-57`: "A terminal proxy
  result remains consumable after a crash between journal writes." The updater dies
  between `UpdateState.begin_switch` and its own journal
  (`proxy_update.py:140-150`), the user turns the proxy off, and the restarted
  updater publishes `cancelled`, which `proxy_result` refuses because the app
  journal has the cutover (`update_state.py:222-224`): it stays `switching`.
  `CutoverResultConsumed` excepts exactly this.
* `CommittedNotReplayed` (`QuotaWorker`, `MaxRestarts = 2`, `MaxCrashes = 0`, the
  other bounds 1). `quota_service.py:187`: "A failed user edit stops retrying;
  committed edits are never replayed." The set of committed requests lives in the
  child; when the transport is released after a commit and the edit is retried, a
  new child executes it again. For the edits modelled the ledger refuses the
  repetition.

Observed, promised by no document: a `write()` that tests `closed` just before
`close()` sets it (`evidence_writer.py:41-43`) may put its record after the writer's
last look at the queue. That record is lost without a gap, and `close()` returns
True; `Accounted` and `CleanClose` except this one write, and the theorems prove
that it is the only one. The report that a pause asks for is lost when
an urgent chart cancels it, since `paused_report_due` is cleared when it is
sent; a query asked while the publication of the current generation is blocked
by its budget waits for the next generation, or for the user to ask for a snapshot
(excepted in `LastAskedAnswered`); the drain command can overwrite the stopped
receipt of a relay that drained itself first (`proxy_drain.py:75`), and the exit
then warns although the flush succeeded; the failure path of an account read
compares the revision without the lock (`quota_service.py:370`).

## 6. Proofs

Every theorem below is about the specification of its component, for every value of the
constants that the assumptions of that component allow, and all leaves are
checked. Each proof has the same plan: `IInv` is a conjunction of named parts, one
lemma for the initial state and one per part (or per actor) for the steps,
`Invariance` combines them, and the theorems are consequences. The parts were
checked with TLC on the instance of section 3 before they were proved.

Every safety property that a passing run checks, be it an invariant, an action property
or a refinement, is stated by one of these theorems.

`ObservationProofs` and `AnalysisDeliveryProofs` extend two components each, which
share nothing but the module, so the names of `EvidenceWriter` and `QueryDelivery`
are their own: their specifications are `WriterSpec` and `QuerySpec`, their proofs
have `HandOffInv` and `QueryInv` for `IInv`.

| Module | Theorem | States |
|---|---|---|
| `ObservationProofs`, of `EvidenceWriter` | `HandOffTypes`, `NothingVanishes`, `CloseIsClean` | `WriterTypeOK`, `Accounted`, `CleanClose` |
| `RelayAdmissionProofs` | `NoWakeupIsLost`, `ScansKeepUp`, `StopsQuietly`, `PoolStaysSound` | `NoLostWakeup`, `ReapKeepsUp`, `StopQuiet`, `PoolSound` |
| | `BothImplementCapacity` | `ImplementsCapacity`, both refinements |
| `ObservationProofs`, of `QuotaBacklog` | `BudgetIsExact`, `AcceptedIsKept`, `LedgerOrder`, `LedgerAgrees` | `BudgetExact`, `AcceptedKept`, `AppliedInOrder`, `ControlAgrees` |
| `ExitLifecycleProofs` | `CutoverStaysExclusive`, `ServesWhileRouted`, `CleanExitHasReceipt`, `IntentIsKept` | `CutoverExclusive`, `RoutedRelayServes`, `CleanExitFlushed`, `DirectRouteHasResumeIntent` |
| | `CancelledExitKeepsServices` | `CancelKeepsServices`, an action property |
| | `OverridesAreFinal` | `OverridesStick`, for overrides at any step |
| `QuotaWorkerProofs` | `AnswersAreTrue` | `AnsweredEditsShown` |
| | `CommitsAreNotKilled` | `CommitNotKilled`, an action property |
| `UsageChannelProofs` | `ReadersDecode` | `NeverUnreadable` |
| | `ReadsAreExact`, `OnlyProvenDeletions` | `ReadExact`, `DeletionsProven`, action properties |
| `ProxyUpdateProofs` | `SourceIsAccounted` | `SourceAccounted` |
| | `CancelledIsNotSwitched` | `CancelPreventsCutover`, an action property |
| `RelaySocketProofs` | `ActivityIsExact`, `RecordsAreSound` | `ActivityExact`, `RecordsSound` |
| `AnalysisDeliveryProofs`, of `SnapshotDelivery` | `WindowShowsCommitted` | `ShowsCommittedViews`, the refinement of `CommittedView` |
| `AnalysisDeliveryProofs`, of `QueryDelivery` | `AnswersCovered` | `ResultsCovered` |
| | `NoObsolete` | `NoObsoleteAnswer`, an action property |

**EvidenceWriter.** Assumed: the capacity is positive, timestamps are naturals,
and the sentinel, the preparation request and the "nothing" values are not
records or gaps. Neither `Accounted` nor `CleanClose` is inductive. `HandOffInv` adds
what each thread knows where it stands. `ProducerInv`: the record `write()`
holds has begun and not returned, and no record is stamped later than now (so
widening the gap to now covers it). `HeldInv`: what is queued was handed over.
`WriterInv`: which locals each line of `run` and `flush_gap` works with, in
particular that the gap being cleared has been saved, which is what makes
clearing it safe when the comparison with `pending_gap` succeeds. `PrepareInv`:
the one preparation request is in one place and counted once. `CloseInv`: once
the writer leaves its loop, the queue holds no record but the overtaken one; the
loop is left only after `stopping` and an empty queue, `stopping` follows
`closed`, and whoever is inside `put_nowait` once `closed` is set had been there
when it was.

**RelayAdmission.** Assumed: the two kinds of handlers are finite sets without a
common member, there are at least as many clients as the pool may lease, limits
are naturals, the pool and the idle limit positive. `NoLostWakeup` is inductive
with the types of the handlers. The pool needs more: `QueueInv` (the semaphore's
waiters are the queued handlers, each once), `LeaseInv` (a handler has a client of
its own exactly in the states of `Holding`; a client is dirty while it is leased
and its response not complete; free slots and holders add up to the limit) and
`PoolInv` (a pooled client is there once and with nobody). A slot that came back
twice would break the sum in `LeaseInv`, a client returned with an unread
response the equation for `dirty`. `StopInv` says that a stopped relay drains,
so that nothing is admitted after the test of `watch`. `SocketInv`: the idle
sockets stand in the order of `idle_since`, and idle and closing sockets are
different connected ones. For `ReapKeepsUp`, `ScanFacts` takes the socket a scan
leaves with the fewest before it: all before it are retired, so its place is at
most the number of retired ones, which is what the loop of `reap()` counts. The
refinement needs, besides, how many handlers wait and hold before and after each
step.

**QuotaBacklog.** Assumed: limits are naturals, those of ordinary items and the
control's bytes positive. `BudgetInv` says that the byte count is the sum of the
rows, as the existence of a function of prefix sums, which an insert extends
and a delete shifts. `OrderInv`: rows are in the order of their `append`, and
the slot is the last. `KeptInv`, `LostInv`: where every accepted item is, and that
each ended process took one item at most. `ServiceInv`: what the service thread
holds between `first()` and `acknowledge()` is still the first in line, although
the GUI thread appends meanwhile. `ControlInv`: the state the ledger will have once
everything in line is applied (`Destined`) is what the switches show; for
`ControlAgrees` nothing is in line.

**ExitLifecycle.** Assumed: the bounds are naturals, those of instances and
processes positive. The parts say who holds
the lock at which line (`LockInv`), whose operation the journal records and that
a committed exit's journal stays `closing` while its owner lives (`OpInv`,
`ClosedInv`), that a relay is told to leave, by any of the three signals, only
with the route off it, and that a resume works with a relay that was not told
(`ServeInv`), that a `stopped` receipt follows a flush (`FlushInv`), that a
cancellation and a commit exclude each other (`CancelInv`), and what the journal
and the copies the GUI works with hold unless recording was turned off
(`JournalInv`, `CallInv`). `OverrideInv` says of an Off that nobody overlooked
that neither the journal nor the copy the GUI holds asks for the route any more and
that no resume is past its decision, and of such an edit that no resume is about
to overwrite the route. It makes no assumption on when the overrides come.

**QuotaWorker.** Assumed: the bounds are naturals. `GuardInv` relates the
transport to the child: when the transport waits for nothing (`Free`), the child
has nothing to do; when it waits (`Busy`), the child has its request and no other,
and from before an edit is sent until its commit has ended `phase` is one of those
in which the child is not killed. `CommitNotKilled` follows from it in every
branch that ends the child, and for a broken pipe says that a child in its commit
is left as an orphan. A partial report or the news of a commit does not end the
waiting (`Final`); an orphan only adds its own edit to the ledger (`OrphanShape`).
`IdInv` says that an id carried anywhere stands for the first edit in line or for
one that was answered, whichever child it went to, and `OrderInv` that results,
partial or whole, are in the order in which they were calculated, wherever they
are, so no report shown later is older.

**UsageChannel.** Assumed: the bounds are naturals. `ViewInv`: no revision is
later than its publication, and the candidate differs from the live publication
only in rows it marks as changed. `StoreInv`: the table holds the bodies of the
manifest under their revisions. `SameBodies`: one publication has one set of
bodies, whether candidate, live, durable or in the checkpoint of a collector
that restarted, which is why a checkpoint confirmed by one source may be offered
to the other. `ReaderInv`: what the reader holds is what the publication it
names had (`Seen`), the checkpoint of its next request proves the bodies it has
(`Knows`), and a body it caches is the one its revision stands for
(`CacheSound`). `reused`, the premise of `NeverUnreadable` and `ReadExact`, is
the deviation of section 5.

**ProxyUpdate.** Assumed: the bounds are positive naturals. `OneRelay`: the
address has one relay at a time. `PlaceInv`: at each line of `replace`, `rollback`
and `ProxyDrain.run`, in which phases the journal is and whether it names a source
and has the cutover, also for an updater that was killed between two writes and
started again. `SwitchInv`: between the two writes of `begin_switch` the app
journal alone has the cutover and can no longer be cancelled, which is what makes
`CancelPreventsCutover` hold: the second write is the only step that gives the
proxy journal the cutover (`CutKept`). `DrainInv`: while the route is on, only a
cutover drains a relay, and its journal is one the next attempt recovers.
`SourceInv` is `SourceAccounted` in every phase, not only the terminal ones: an
uncut journal's source was not drained, a restored or completed one's is gone.

**RelaySocket.** Assumed: kinds, frames and lanes are as the definitions need
them (bounds are naturals, "no lane" is not a lane). The invariant relates four
views of a request: the wire, the queue of the server, `Tracker` and `Activity`.
`ForwardInv`: a task sending a frame on counts as work. `OpenInv`: a record left
open is one `Tracker` still works with, so that `finish` reaches it. `ClearInv`
holds while the connection is open and no lane is ambiguous. In it `LineInv` is
the heart: the requests of a lane that are on the wire, in the server's queue
and on the way back are those that wait in `Tracker`, in the same order, which
is why an answer without an identifier is assigned to the right one. `StartedInv`:
a terminal frame comes after the one that began its response. `StageInv`,
`HandInv`, `WaitingInv`, `KeptInv`, `AnsweredInv` and `ActiveInv` say where each
request stands for both bookkeepers; `Activity` lags by the frame being sent on.
`CountInv`: the requests `Activity` counts as pending are those waiting in
`Tracker`, unless the connection is unknown. `EndInv` and `ClosingInv` state what
the end of the handler and the choice for retirement leave behind.

**SnapshotDelivery.** Assumed: the sessions are a finite set, and the bounds are
naturals. What the window shows is put together from
pages that have crossed a mailbox, a pipe and a receiver, while the store has moved
on, so the invariant has to say what a page was made for. It does so with a
numbering `C`, quantified in `IInv`: `C[epoch][sequence]` are the rows once that
page is applied, `NoRows` is before the first. `Content` is what a page must have to
do with it: it leads from the rows of its predecessor to its own, it resets exactly
if it is the first of its epoch, and the last page of a publication leaves the rows of a
committed generation. `ContentInv` says so of every page in the pipe, in the
mailbox and still to be put, and that the receiver holds `C` at the number it
accepted last and the publisher at the last one it planned. A publication extends
`C` by its pages (`Extended`), at numbers nobody has seen: `NumbersInv` and
`PagesInv`. `PublisherInv` makes the last page right: rows the publisher did not
read again are those of the store, because whatever changed since is in `changed`
or `removed`, over batches and failed attempts. `TokensInv` keeps the order: pages
travel by generation, none behind the window, so a shown generation is never older
than the one before it. `StoreInv`: a ready store is the generation committed last.

**QueryDelivery.** Assumed: the number of queries is a natural. Both properties
are about a place at the end of a chain, and neither is inductive. `Fits` relates
a query and a generation from which it may be answered (that a writer about to
publish has the current generation, past the block, is part of `WriterInv`); the
invariant carries it from the publication (`WriterInv`) through the dispatcher
(`DispatcherInv`) and the actor's three places (`ActorFits`) to the pipe
(`SentInv`). `OnlyLatest` says that what the actor was asked, and not told to
forget, is the dispatcher's latest query, which is why a completion can be sent
without looking; it needs `OneEach`, that of each kind at most one request waits,
is read or is completed, since a cancellation removes only one. `MailInv` is the
same of the bridge's commands. What is taken out of those sequences is therefore
always at most one item, which is how the model states it (`Dropped`).

What stays with TLC:

* All liveness properties (`CloseEndsWriter`, `CommittedExitEnds`, `Settles`,
  `DrainCompletes`, `ShutdownEnds`, `JournalEnds`, `CutoverResultConsumed`,
  `RequestsSettled`, `GenerationSettled`, `LastAskedAnswered`): fairness and
  `ENABLED` are outside the prover's reach.
* `CommittedNotReplayed`, `AdmittedKept`, `ReadsResume`, `CorrectionAdvances`,
  `ResultConsumed`, `OffOverrides`, `GapRetried`: false, section 5.

## 7. Not modelled

* Parsing of frames, logs and archives, and JSON streaming observers: data
  without control; the models take a frame as its classification and a body as
  its digest.
* `prepared_store.py`, `quota_cycles.py`, `quota_tracking_store.py` and the
  other calculations on SQLite tables: single-threaded transactions over large
  tables, whose correctness is numerical. The models take them as committed
  generations and as the ledger.
* Statistics and pricing: floating-point series.
* Widgets, tray, task bar, overlay, Windows calls: the models use the answers of
  the operating system (a process lives, a port is free, a lock is held).
* Scanning of log files (`index.py`): which sessions are loaded is nondeterministic.
* Installation, client restart and `enable`: long sequences of file and process
  operations under one lock, without a rival.
* The catalog protocol for single owners, activity pages and wake pipes of the
  collector; the actor of selected details, a second instance of `QueryActor`.
* `tools/` and the benchmarks.

Together these are most of the repository's lines: calculations, presentation
and tooling. The modelled files are the ones in which threads, processes or
files meet; `PROJECT.json` gives the lines of each definition.

## 8. Plan

1. Wider coverage of the collector (activity pages, single owners) and of the
   prepared store's append and ledger paths, where threads or crashes meet the
   files; calculations stay outside, section 7.
2. A composition of `SnapshotDelivery` and `QueryDelivery` over one child process:
   an answer and the generation the window shows meet only in the window.
