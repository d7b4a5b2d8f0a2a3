# Formal models of Rieko

Rieko watches a Lightning node and its neighbours (BTCPay Server, Bitcoin Core,
LND), turns what it sees into *findings*, recommends *actions* an operator may
approve, and alerts. This directory holds TLA+ models of the parts of it whose
correctness depends on the order in which several actors act, on failures
between two steps, or on a long history of calls; TLC configurations that check
them on small instances; and TLAPS proofs of the main results for every value
of the constants. Paths below are relative to `src/crates/`.

## 1. Inventory

### The system's parts

| Part | State it keeps | Operations | Talks to |
|---|---|---|---|
| Webhook route `rieko-api/src/routes.rs` (`btcpay_webhook`), `app.rs` (`block_storage`, `request_timeout`) | none of its own; holds the storage mutex while its blocking closure runs | look up the delivery, enqueue, wake the worker, answer | SQLite, the wake-up channel |
| Settlement worker `rieko-cli/src/agent.rs` 1053-1228 | window of recent events, batch of pending records | rebuild the window, drain, evaluate, persist, wait | SQLite, the channel |
| Storage `rieko-storage/src/sqlite.rs` | the database, the flag `in_transaction` | one method per statement group; `begin`, `commit`, `rollback` | everyone |
| Finding lifecycle (`resolve_findings_for_scope`, `save_finding`, `sync_recommendation_lifecycles`) | `findings`, `recommendations`, `audit` | one committed cycle per pipeline run | scan, monitor, agent |
| Action approval `rieko-cli/src/commands/actions.rs`, `rieko-execution/src/lib.rs` | `recommendations.stage`, `audit` | approve, reject (execute is interlocked) | SQLite, from a process of its own |
| Monitor `rieko-cli/src/commands/monitor.rs`, `rieko-alerts/src/dedup.rs` | `alert_state`; the cycle in memory | ingest with retries, persist, alert, sleep | LND, SQLite, the alert sink |
| Agent pollers `agent.rs` 483-1008 and `rieko-status` | the `operational_state` row, snapshots | attempt, success, failure per source; correlation detectors | BTCPay, Core, LND, SQLite |
| Analysis pipeline `monitor.rs`, `scan.rs`, `common.rs`, `rieko-graph/src/history.rs` | the history of local ratios per channel, in memory; `channel_snapshots` | normalize, warm up, detect, recommend, persist, clean up | LND, SQLite |
| Detectors `rieko-detectors`, recommendation engine `rieko-recommendations`, normalization `rieko-ingest-lnd` | none | pure functions | the pipelines |
| Channel graph `rieko-graph` | channels and an adjacency index | upsert, find a cheapest path | the pipelines, route projection |
| Simulations `rieko-simulation`, `rieko-simulation-app`, two generations of API routes | `simulations` and its event log | create or reuse, list, compare | API, CLI |
| Writer lock `sqlite.rs` 1769-1870 | an advisory file lock | acquire, drop at the end of `run` or `run_until` | monitor or agent |
| Migrations `migrations.rs` | `user_version` and the schema | all pending steps in one transaction at open | everyone |
| Retention `sqlite.rs`, `retention.rs`, `common.rs` | snapshot tables, the stamp of the last cleanup | prune by age and count when due | monitor, scan |
| Storage traits `storage.rs`: `MemoryStorage` beside `SqliteStorage` | the same tables twice | every call of three traits | tests on one, the program on the other |
| Telegram `telegram.rs` | none; retries a post whose answer is lost | send | the alert sink |
| Ingestion clients, LLM, read API, dashboard, CLI views | none | HTTP and formatting | outside |

### What is hard here

* **Interleavings.** Two HTTP handlers of one delivery pass the duplicate check
  together; three pollers and a worker share one connection; CLI processes write
  the database while the agent runs.
* **Cancellation.** A 10 s request timeout drops a handler, but not the blocking
  closure it has started, which still owns the storage mutex and still commits.
* **Crash and restart.** Between the commit and the answer, between the delivery
  of an alert and its record, between two steps of a migration, in a warm-up.
* **Partial failure.** A failed commit in mid-batch; a rollback that fails
  because SQLite has already rolled back, after which the connection refuses
  every transaction until a restart; a failed COMMIT that nobody rolls back,
  after which later writes are acknowledged inside a transaction that is lost.
* **Order and time.** Rows are ordered by a wall clock; observations are replayed;
  the cooldown is a difference of times, and the clock may step back.
* **Unreliable delivery.** An alert arrives and its answer does not; the post is
  repeated, and the cooldown is never recorded.
* **Staleness.** A stored projection answers a request of a later time; a trend is
  computed from a history a restart has emptied, or that remembers rows a cleanup
  has deleted; a channel nobody could classify must not count as a channel without
  a problem.
* **Two implementations.** What the upper layers are tested on is not what they
  run on.
* **Hysteresis.** Two UPDATEs with one threshold, a cascade before the upsert, and
  an upsert that ignores older observations.

`PROJECT.json` lists each of these under `hazards`, at its line, with the
properties that watch it.

### What makes each part correct

* Hand-off: an acknowledged delivery is never lost, drives one detector cycle and
  no more, in order of acceptance, and is eventually processed.
* Lifecycle: a finding closes after three complete cycles without it and never
  before; its times bound its observations; advice is closed with it and created once.
* Approval: the audit trail is complete and legal; only humans approve; pipelines
  never undo a decision.
* Alerts: the cooldown state is what the operator was told; repeats are a cooldown
  apart; Critical gets through.
* Operational state: no source is shown connected against its last recorded
  outcome; an outage is open exactly while it lasts; correlations use only sources
  that last succeeded.
* Analysis: every finding is one the engine accepts, its evidence can be looked up
  for as long as the stricter retention policy keeps it, its advice follows its condition, unknown data closes nothing, and the two sides
  of a channel are judged alike.
* Simulations: no stale projection is served unasked, a repetition is answered, the
  record and its events stay together, and a projection promises what the detector
  will say.
* Path finding: a route is found exactly if there is one, and none is cheaper.
* Database access: a migration is applied once and whole, one locker works at a
  time (but for the last calls of an agent that ends), what was reported written is
  in the database.
* Backends: MemoryStorage and SqliteStorage hold and return the same, but for
  differences that are known and named.

## 2. Modules

```
state machine            uses, refines                              proofs                  run module
WebhookHandoff           refines DurableQueue                       WebhookHandoffProofs    MCWebhookHandoff
FindingLifecycle                                                    FindingLifecycleProofs  MCFindingLifecycle
ActionApproval                                                      FindingLifecycleProofs  MCActionApproval
MonitorAlerts                                                       MonitorAlertsProofs     MCMonitorAlerts
OperationalState         refines FindingLifecycle                   OperationalStateProofs  MCOperationalState
AnalysisPipeline         refines FindingLifecycle; uses             AnalysisPipelineProofs  MCAnalysisPipeline
                         RecommendationEngine > Detectors >
                         LightningChannel
Simulations              RecommendationEngine, RedistributionModel  SimulationsProofs       MCSimulations
ChannelGraph                                                                                MCSimulations
DatabaseAccess           SchemaMigrations                           DatabaseAccessProofs    MCDatabaseAccess
StorageBackends          FindingTables, SnapshotTables,             StorageBackendsProofs   MCStorageBackends
                         SimulationTables, EventTables, StateTables
                         (all five on Listings)
```

Definitions named "Faulty variant" in a comment are not part of any
specification: they are bugs a careless change could introduce, used to confirm
that each property notices one (`mutants` in `PROJECT.json`).

### WebhookHandoff

State: the tables `webhook_deliveries` (`deliveries`) and `webhook_events`
(`rows` in query order, `processed`); the process's volatile state (handlers,
channel, the worker with its batch and window, the `in_transaction` flag that
a failed ROLLBACK leaves set as `wedged`); `acked` and `cycles` record what
clients were told and which detector cycles committed.

| Action | Code |
|---|---|
| `Receive`, `AlreadyProcessed`, `NotYetProcessed` | the route up to the durable hand-off; a failed lookup counts as not processed |
| `Admit`, `EnqueueCommits`, `EnqueueFails`, `WakeAndAck` | `block_storage` takes the mutex, the closure runs the transaction, then `try_send` and 200, or 500 |
| `TimeOut` | `request_timeout`: before admission the request vanishes; afterwards the closure runs on (`orphan`) and nobody wakes the worker |
| `Reconstruct`, `FetchPending`, `Evaluate`, `PersistCommits`, `PersistFails`, `Recv` and the failing reads | the worker loop |
| `BeginShutdown`, `DropSenders`, `Exit`, `Crash`, `Restart` | `run_until` and the outside world |

A storage call is one step because the mutex is held across it; the step is
blocked while a handler's closure holds the mutex (`MutexFree`). `accepted_at` is
abstracted to the place a row takes in query order: last, or anywhere when the
clock may step back. `DurableQueue` is the abstract specification: a FIFO queue
without handlers, faults or restarts, with the mapping
`log <- rows, done <- processed, answered <- acked \ Legacy`.

### FindingLifecycle

One action, `Cycle`: a committed transaction of one pipeline, which covered some
of its scopes completely and observed some findings at an arbitrary time. It
applies, in the code's order, the two UPDATEs of `resolve_findings_for_scope`
(`CountAbsence`), the cascade and the upsert with the creation of advice. A
transaction that fails changes nothing and needs no action. `seen` and `missed`
record the observation history the properties speak of. `Unprovenanced` holds the
scopes whose detector runs with `source: None` and a network: in the code, the
webhook settlement detector. All runs of the module use that value.

### ActionApproval

`ReadAndCheck` is `run_transition` up to `begin_transaction`; `WriteTransition` is
its transaction; `CommandFails` its failures; `Recommend` is `persist_cycle_locked`
for a new action. The two halves of `run_transition` interleave with those of
other processes, since the CLI takes no lock between them. `contended` records the
actions two commands held at once.

### MonitorAlerts

The monitor's thread, step by step: ingestion attempts, the commit, one alert per
finding with the most severe first, and inside `PersistentDedupingSink::send` the
decision, the delivery and the record as separate steps, since a crash or a
failed write can fall between them. Telegram posts a message again when no answer
comes: `Arrives` without `Delivered` is a message the operator has read and the
program does not know of, and when the tries are used up the sink reports a
failure (`SinkFails`). A scan in another process takes the same steps on the same
rows (`ScanSends` to `ScanEnds`). `Tick` and `StepBack` move the wall clock. `told`
is what reached the operator, `unrecorded` the keys whose last message was not
written down, `contested` those that both processes had under way.

### OperationalState

The three polling loops of the agent and a `rieko scan` in another process on the
one `operational_state` row. A loop is three steps, between which it holds
nothing: `Attempt` (`record_*_attempt`, whose failure is only logged), `Record`
(the poll's outcome, with `persist_greenfield_snapshot` in a transaction of its
own) and `Evaluate` (the detector reads the row and commits its cycle under one
hold of the mutex). Core and LND evaluate only after a success, Greenfield after
every recorded outcome. `RecordFails` and `EvaluateFails` are failed storage
calls; a failed COMMIT may leave `in_transaction` set (`wedged`), after which
transactions are refused while `update_operational_state` goes on working. A scan
is `ScanAttempt`, `ScanIngests` or `ScanIngestFails`, `ScanCycle`, and may die
anywhere. `Detects`, `IsComplete` and `ObservedAt` are the three detectors.
Through `Life` the detectors' cycles are shown to be cycles of
`FindingLifecycle`, whose operators `Evaluate` uses on the rows.

### LightningChannel, Detectors, RecommendationEngine, AnalysisPipeline

The first three are operators without state. `NormalizeChannel` makes of an entry
of LND's channel list what Rieko stores: the status from the bits of
`chan_status_flags`, the local ratio, the imbalance that is unknown for a channel
without capacity or with more balance than capacity. `LiquidityRun`, `DriftRun` and
`SettlementRun` are the detectors, with the scopes they call complete;
`Accepts` and `Recommend` are what the engine requires and answers. A capacity is
0 or 100, so that a balance is its own percentage; thresholds are the code's.

`AnalysisPipeline` runs them: `Start`, `Ingest` or `IngestFails`, then
`PersistCommits` or `PersistFails`, with `Crash` in between. `Ingest` pushes the
snapshots into the capped history and warms it from the tables in the first cycle,
in the code's order; `PersistCommits` saves them in the cycle's transaction. The
history is kept per channel, the table `disk` per channel and node, since a
monitor reads back only the rows of the node it was configured with. `Scan`
is a scan of another process, which has no history; `Settle` a cycle of the
agent's settlement detector, which has no graph. A finding the engine refuses rolls
the cycle back and ends the monitor (`Stop`). `Lifecycle` maps the rows to
`FindingLifecycle`.

Monitor and scan both end with `run_cleanup_if_due`: `CleanupSkipped`, `CleanupRuns`
or `CleanupFails` after a commit, `ScanCleans` or `ScanEnds` after a scan, each with
its own policy (`Retention`, `DefaultRetention`) and one stamp, `cleaned`, for both.
`Retained` is what a pass leaves, in one step: it is one transaction, whose
statements `SnapshotTables` has one by one. A due cleanup may run at any time, since
a stamp that cannot be read counts as none. `EvidenceIsKept` says which rows it may
have deleted under a stored finding.

### RedistributionModel, Simulations

`RedistributionModel` has the validation and the arithmetic of both projections:
`Validate`, `Simulate` with its deltas and warnings, and the older `Project` and
`ProjectRebalanceRoute`. `Simulations` is the service around it: a request is one
transaction and one step (`CreateSimulation`), whose outcome is a refusal before
anything is stored (`CreateRefused`), a reused run (`ReuseExisting`) or a stored
run with its two events, completed or refused by the model (`EvaluateAndPersist`).
`CreateFails` and `RollbackFails` are faults of its storage calls; after a failed
ROLLBACK the API's handle is stuck until `RestartApi`, while a command has a
connection of its own. Between requests `Tick`, `Observe`, `Resolve` and `Prune`
change the clock, the snapshots, the finding and what retention leaves.

### ChannelGraph

`Upsert` is `upsert_channel` with the adjacency index it maintains; `FindPath` is
Dijkstra's algorithm as the code has it, with outdated entries left on the heap and
the stop at the first pop of the target, and `ReconstructPath`. Nothing else reads
or writes the graph while it is searched, so the run `simulations` explores the
upserts beside the service without interleaving them.

### SchemaMigrations, DatabaseAccess

`SchemaMigrations` is the list of 17 steps, each with the tables and columns it
needs and adds. `DatabaseAccess` is the processes: `Start`, `ReadVersion` (the fast
path without a lock), `BeginMigration` (BEGIN IMMEDIATE and the version again),
`ApplyStep`, `CommitMigration` or `OpenFails`, `TakeWriterLock` or `LockRefused`,
`DropLock` (`run_until` returns and drops the guard while storage calls that nobody
waits for still run on blocking threads: the process is then one of `closing`),
and then operations of the kinds the program has: a cycle, whose COMMIT error is
followed by a ROLLBACK; the Greenfield snapshot, whose is not; the update of the
operational state, in a transaction of its own that does not use `in_transaction`;
and single statements. `CommitFails`, `WriteFails`, `BeginFails` have each way the
code leaves a connection; `Crash` may happen anywhere. `Databases` are those
found at the first start and `Schemas` the stages on their way to the current
version; `SchemaAssumption` says that each stage allows the next step, which TLC
evaluates for databases of four releases. `faults` records which kind
of fault has happened, `flag` is `in_transaction`, `holder` the open transaction,
`acked` what a process was told is written.

### Listings, FindingTables, SnapshotTables, SimulationTables, EventTables, StateTables, StorageBackends

The five tables have each operation twice: on MemoryStorage's vectors and on
SqliteStorage's rows, with the columns enumerations are written to and parsed back
from. What both return is a list: `Listings` has ORDER BY (`Listed`), LIMIT and
`take` (`First`), and `iter().filter()` forwards and backwards (`Kept`,
`LastFirst`), without recursion. `StorageBackends` makes the same call on both, alone
or in a transaction that commits or rolls back; each behaviour looks at one part of
the database (`focus`). Pruning is the exception to one call, one step: SqliteStorage deletes
row by row in a transaction of its own (`PruneBegins`, `PruneDeletes`,
`PruneAdvances`, `PruneCommits`, `PruneFails`), MemoryStorage in one step.
A pass that is asked for inside a transaction is `PruneNested`: SQLite refuses to
begin it, memory prunes. Runs, simulations, events and audit entries may carry an id
that is taken, and runs and events a status the validation refuses, since only
SqliteStorage looks at either. `noted` and `skewed` record that a call has met one of
the known differences (section 7); the properties say what holds without them, and
`ResultsAgree` that only the calls in `RefusedBySqlite` are answered differently.

## 3. Runs

| Run | Bounds | Shows |
|---|---|---|
| `handoff_safety` | 3 deliveries, 2 handlers, channel of 1, window of 2, timeouts, 1 fault, 1 crash | all safety invariants, and the refinement of `DurableQueue` |
| `handoff_recover` | 3 deliveries, one of them older than the event table, 1 handler, window of 1, timeouts, a clock that steps back, 1 fault, 1 crash | durability and exactly-once without a monotone clock; every stored event is processed unless a call fails or an admitted request times out; a drain after the faults reaches every pending row |
| `lifecycle` | 2 pipelines, 3 scopes with a finding each, 3 times | hysteresis in both directions, times, cascade, one creation row |
| `approval` | 2 actions, 2 operators, 5 commands | audit, human approval, decisions survive, legal histories |
| `approval_race` | the same, 3 commands | **violated**: a rejected action becomes approved |
| `monitor` | 1 key, times 0-2 with a cooldown of 2, 2 ingestion attempts, 2 posts, 1 alert of a scan, steps back of the clock, 2 faults, 1 crash | truthful state, spacing, Critical gets through |
| `operational` | agents with 4, 0, 0 or 2, 1, 0 or 1, 2, 1 polls of BTCPay, Core and LND, 2 ticks, 1 upset (failed call, restart or scan) | all safety properties, and the refinement of `FindingLifecycle` |
| `analysis` | 2 channels in 4 reports and 2 fixtures, a window of 3 snapshots with a minimum of 2, a history of 3, 4 ticks, 1 invoice window, a policy of the monitor with a cap of 1 row and one of the scan with ages of 2 and 0 | the properties of detectors, engine, evidence and advice, and the refinement of `FindingLifecycle` |
| `analysis_restart` | 1 channel at 50, 20 or 4 %, a window of 4, a history of 5, 5 ticks | **violated**: a restarted monitor misses a decline that is on disk |
| `simulations` | 2 channels, 4 reports, 6 requests, freshness and age of 1, 2 ticks, 2 observations, 2 stored runs, 1 fault; beside it graphs of 4 nodes and up to 4 channels out of 15, 2 amounts | the service's and the projections' properties; the index and the cheapest route |
| `backends` | 2 findings, 2 channels, 3 times, 3 snapshots, 4 policies, 10 runs, 3 simulations of the first kind, 5 events, 2 deliveries, transactions of 2 calls and none once the two count a finding differently, 9 focuses | what both backends hold, list and answer is the same, but for the named differences |
| `startup` | monitor, agent and scan on databases of version 0, 1, 9 and 16; the agent started twice and operating twice, the others once | migrations, exclusion, durability, stuck connections, release of the lock |

Several properties are conjunctions of named parts, each with its own comment:
`HandoffIsSafe`, `AdviceIsConsistent`, `DecisionsAreAudited`, `RowIsTrue`,
`DetectorsAreSound`, `SilenceIsNotAbsence`, `RunsAreCoherent`,
`ProjectionsAreSound`, `PathsAreCheapest`, `LifecycleAgrees`, `RetentionAgrees`,
`RecordsAgree`, `MigrationsAreWhole`. The type invariants of `analysis`, `simulations` and `backends` are checked by the
runs, those of the other modules are only proved; `AcceptanceOrder` is part of what
`QueueSpec` says and is proved on its own.

Why the bounds suffice. The hand-off's interesting cases need a racing pair of
handlers of one delivery, a backlog longer than the channel and than the window
(three deliveries against one and two, or one), a fault inside a batch, and a
restart afterwards. A lifecycle needs three consecutive absences and one
observation on either side of the stored time; findings interact only through a
shared scope or pipeline, and both occur. The approval race needs two commands on
one action and a third that reads the result. The monitor needs a delivery, a
repeat inside the cooldown and one at its boundary, two ingestion failures to give
a cycle up, two posts to lose an answer and repeat, one alert of a scan to contend
for the row, and a crash anywhere; keys share nothing but the loop, so one of them
is enough. The operational state needs a failed poll and three good ones for an
outage and its end, and a success of each source with a later failure of Core
between them for the correlations; an agent of its own is configured for each,
since the loops share nothing but the row.

The pipeline needs two snapshots for a trend, a third to push one out of the
history, three further cycles to close a finding, and a second channel that
makes a cycle incomplete; for the cleanup a trend of three rows of which the cap
keeps one, and ages that end within the four ticks, so that the newer row for which
a cap has deleted another can go first (without that case in `MayBeGone` TLC finds
`EvidenceIsKept` violated). The simulation service needs two runs for a repetition
and a comparison, a freshness bound the clock can pass, and observations before and
after it. A graph needs a route of two hops that is cheaper than a direct channel,
a third hop that is cheaper again, and a channel that moves; four nodes have them.
The backends need two rows to order or prune, a third time between or beyond them,
and a transaction in which the second call sees the first. Startup needs two
processes that have both read the old version, one of them killed or failing in
the migration, and a daemon that goes on after a fault with a second operation. The
proofs remove the bounds for everything but the path search and the liveness
properties.

Deadlock is checked except where a budget ends what the system does: `approval`
and `approval_race` (commands), `operational` (cycle limits), `simulations` (ticks,
observations and runs), `backends` (calls) and `startup` (starts and operations).

### Fairness

* Hand-off (`FairSpec`): weak fairness of each handler's steps, of the worker, of
  the end of a graceful shutdown and of the restart. tokio polls every task that
  is ready, `spawn_blocking` closures run to completion, and the agent is run
  under a supervisor. Nothing is assumed of clients, timeouts, faults or crashes.
  Admission is only weakly fair: the mutex is FIFO (tokio), and no property needs
  more of it.
* `EventuallyProcessed` is claimed only of behaviours without a failed call and
  without a timeout of an admitted request (`[]Healthy`), because the code does not
  promise more: after a failed drain, a failed reconstruction or a
  wake-up lost with a dropped handler, a row waits for the next wake-up or
  restart. `NextDrainRecovers` states what holds then.
* Monitor: weak fairness of the loop's steps and of the restart; faults, scans and
  crashes are bounded, the clock need not advance. `CriticalGetsThrough`
  supposes that the finding keeps being observed, and excepts a clock that is
  behind the last alert.
* Database access: weak fairness of each process's opening (`Opening`) and of an
  operation that has begun (`Working`): straight-line code that waits for nothing
  but the busy timeout, after which it fails. New operations, starts, faults and
  crashes are not fair. `LockIsReleased` needs no more.

## 4. Proofs

All theorems hold for every value of the constants admitted by the `ASSUME`s:
any finite set of deliveries, any number of handlers, operators, findings,
scopes, keys, channels and processes, any reports and fixtures, any window, buffer,
history, cooldown and freshness bound, any snapshots, retention policies, stored
runs and events, and any bounds on faults and crashes.

* **WebhookHandoffProofs.** `HandoffInvariant` proves `TypeOK /\ SafetyInv`
  inductive. Durability alone is not: a handler at its wake-up must have a
  committed row (`HandlersSafe`), the two tables must agree and hold no duplicate
  (`TablesAgree`), and what the worker holds in memory must still be pending
  (`BatchIsPending`), or a commit could run a cycle twice. From it:
  `TypeCorrect`, `AckedOnceAndForAll`. With a clock that does not step
  back (`ClockMonotone`, an assumption of the theorems that need it), `OrderInv`
  is inductive too: the batch is a frontier, with every older row processed or in
  it, and the record in flight is its oldest. From it: `ProcessingOrder`, and
  `HandoffRefinesQueue`, every step is a step of the queue or a stutter. On top of
  both, `WindowInv`: the processed rows are the first ones of the table, and while a
  record is being persisted the window is the saved one with that record pushed, so
  a failure that restores it and a restart that rebuilds it meet. From it:
  `WindowSurvives`. No induction over the filter in its definition is needed: the
  newest processed rows are a tail of a prefix (`NewestIsTail`).
* **FindingLifecycleProofs.** `LifecycleInvariant`: `consecutive_absent` equals the
  number of missed cycles of an active finding (`CounterIsExact`), a row exists
  exactly for the findings that were seen, and advice exactly for those of
  recommending pipelines (`RowExists`). From it: `LifecycleTypeCorrect`,
  `NoEarlyResolution`, `NoMissedResolution`, `SeenInterval`, `AdviceFollowsFinding`.
  For ActionApproval, in the same module, `ApprovalInvariant` adds that a command past its checks
  holds a legal transition of an existing action (`ChecksPassed`). From it:
  `ApprovalTypes`, `AuditTrailIsComplete`, `DecisionsAreKept`. For
  `UncontendedHistoryIsLegal` one more: as long as no second command has held the
  action, the stage a command has read is the stage stored (`ReadIsCurrent`).
* **MonitorAlertsProofs.** `MonitorInvariant`: an alert on its way was due by the
  stored state, and the alert being recorded is the one delivered
  (`SendJustified`), for the monitor and, on the same rows, for a scan
  (`ScanJustified`), as long as the two did not have the same key under way. From
  it: `MonitorTypes`, `DedupStateIsTruthful`, `AlertsAreSpaced`.
* **OperationalStateProofs.** `OperationalStep` proves `TypeOK /\ OperationalInv`
  inductive: a source's connection is its last recorded outcome
  (`NoFalseConnection`), every time in the row is past (`TimesArePast`), and so the
  latest attempt, with which findings are stamped, only moves forward
  (`ObservedAtGrows`). From it: `OperationalTypes`, `SourcesAreNotConfused`,
  `RowStaysTrue`, `CorrelationsAreJustified`. The clock is assumed not to
  step back. `OutageIsTracked` counts good polls since the last failed one, so its
  invariant `OutageInv` ties that count to `consecutive_absent` of an open finding,
  in each phase of the loop (`OutageShape`), and the row's last observation to the
  observations made (`LastIsSeen`); it gives `OutageIsFollowed`.
  `OperationalRefinesLifecycle`: an evaluation is a cycle of `FindingLifecycle` by
  one pipeline, every other step a stutter; the row's types do the rest.
* **DatabaseAccessProofs.** `AccessInvariant`: whoever migrates or is in an
  operation has the write transaction and nobody else does, but for a connection on
  which a fault has left one open (`TransactionIsHeld`, `IdleHolderIsLeftOpen`);
  lockers hold the lock from their opening until they close (`LockersHoldLock`); and the
  copy the transaction works on is never behind what was reported (`WorkIsAhead`).
  None of the properties is inductive without these: `OneWriter` needs the lock,
  durability needs that the commit publishes a copy nobody else has changed. From
  it: `AccessTypes`, `WritersExclude`, `ConnectionsAreClean`, `ReportedIsDurable`.
  `MigrationInv` adds that the committed and the working schema are both stages of
  `Schemas`, that a process in its migration stands at the working version, and that
  nobody is past its opening before the current version is committed. From it:
  `MigrationsHappenOnce`, that nobody applies a step twice or fails at one, in
  company any more than alone. That migrating alone works is the assumption
  `SchemaAssumption`: a fact about 17 pieces of SQL and the databases found, for TLC
  to evaluate.
* **AnalysisPipelineProofs.** The lemmas about operators come first: what
  normalization makes of any entry (`NormalizedIs`), what a finding of each detector
  looks like (`LiquidityFindingIs`, `TrendFindingIs`), that exchanging
  the balances exchanges the verdicts (`SidesAreAlike`), and what a committed cycle
  does to each table (`PersistEffect`, `AdviceIs`). `PipelineInv` is what the
  properties need of each other: `EvidenceIsKept` is not inductive, because a trend
  refers to the history in memory, so `HistoryIsKnown` says that every entry of the
  history is accounted for (a row, or one retention may have deleted) or belongs to
  the graph that the next commit saves. What is accounted for must stay so: with
  more rows and time (`AccountedGrows`), and through a pass (`PassAccounts`). For the
  latter the cap is the difficult part, since it counts rows that are deleted
  themselves: of the rows newer than some row a cap deletes none or leaves as many as
  it is (`NewestIs`, by a newest deleted one), and one that has outlived an age
  has outlived it with every older row;
  `WorseWindowIsNotMilder` compares the stored settlement finding with windows of one
  failed invoice more and no settled one more, so `SettlementIsDegraded` says which counts it was made from. From
  it: `PipelineTypes`, `DetectorsStaySound`, `EvidenceOutlivesCleanup`,
  `AdviceFollowsCondition`, `SilenceIsNotCounted`, and `PipelineRefinesLifecycle`: a
  commit, a scan or a settlement is one cycle (`PersistIsCycle`), stamped no earlier
  than what was seen before (`ObservedByNow`). Reports and fixtures are
  assumed to be entries LND can send (`RawEntries`: a capacity is 0, negative or
  `Whole`, balances are any integers).
* **SimulationsProofs.** The arithmetic first: a projection conserves funds
  (`ProjectionConserves`), it says cleared exactly when the detector is silent
  on the projected state (`ProjectionClears`), and each hop of a route carries the
  amount (`RouteHopsCarry`). `StoredInv` then holds through every request and
  fault: the run that answers a repetition is found by its input hash because the
  newest run of an input exists and a projected run is the last of its input
  (`NewestRunExists`, `ProjectedRunIsLast`), and all routes show it with one status
  because the snapshots of one input are of one time. From it: `SimulationTypes`,
  `ServedIsFresh`, `StoredRunsAreCoherent`, `ProjectionsKeepTheirPromise`. Commands
  are assumed to be of the types the CLI parses, reports to hold integers.
* **StorageBackendsProofs.** The properties compare what reads return, after lists
  were sorted, cut and parsed; that says too little of the tables the next call works
  on, so none is inductive. `IInv` relates the tables
  themselves: a vector holds the records of a set of rows, column for column, up to
  what `noted` and `skewed` say (`Related`); the state saved at the start of a
  transaction is related with no finding skewed (`SavedInv`), from which
  `RollbackTransaction` follows although memory keeps its counters. Each call keeps
  the relation of each table, then each action keeps `IInv`, then each read
  is shown equal on related tables. Two arguments carry most of it:
  * *A linear order determines the list.* A list without repetition that is sorted by
    a linear order on its members is the `Listed` one (`SortedIsListed`: consider
    the first position at which the two differ); so what memory keeps sorted, filters or
    reverses is what the query with that ORDER BY returns (`KeptIsListed`,
    `LastFirstIsListed`, `ReverseIsListed`).
  * *A pruning pass does not depend on which rows it picks.* While a loop runs, the
    rows left lie between those the stage keeps and those it found (`PassR`). Each
    DELETE stays within this (`AgeDeletes`, `CapDeletes`, `TotalDeletes`), a stage
    with nothing left to delete has exactly the rows to keep (`AgeEnds`, `CapEnds`,
    `TotalEnds`), and so the commit leaves what memory keeps in one step
    (`PassEnds`). A failure anywhere restores the rows before.

  TLC has checked `IInv` on the instance of the run `backends`. From it:
  `TypeCorrect`, `LifecycleHolds`, `RetentionHolds`, `RecordsHold`. As in the run, a
  behaviour ends where a recorded difference has voided the comparison
  (`Comparable`): the theorems say nothing of what the storages hold after it.
  `BackendsAssumption`: times of observations are positive, findings finitely many,
  channels distinct and in the order of their keys (a `BTreeMap`), policies natural
  numbers or `None` (unsigned integers and options), runs, simulations and events
  records of their types. Nothing is assumed of ids and statuses.

Only model-checked:

* the liveness properties (`EventuallyProcessed`, `NextDrainRecovers`,
  `CriticalGetsThrough`, `LockIsReleased`): the prover has no rule for fairness;
* `PathsAreCheapest`: the search is recursive, and that it finds a cheapest route is
  an induction over its steps, in a module with RECURSIVE operators.

The assumptions about constants (`ASSUME` in the modules) are evaluated by TLC in
every run.

## 5. What is not modelled, and why

* An operating-system crash: with `synchronous = NORMAL` a power cut may lose
  commits SQLite has reported. The models take a commit as durable.
* Requests refused before any storage call; payload parsing; wording, logging and
  formatting anywhere.
* The verdict of health: a function of the row, of freshness and of the optional
  components (LLM, sink, cleanup).
* A monitor restarted with other retention arguments, and a total cap on the
  cleanup's schedule, which no command sets (`SnapshotTables` prunes with one). The
  clock of `AnalysisPipeline` does not step back.
* Two releases of the program on one database at once, and a database newer than
  the binary.
* What only SQLite can refuse in a value: an amount beyond 63 bits, a ratio that is no
  number. `StorageBackends` has values both store, and faults of the database only in
  a pruning pass; those of the other calls are in `DatabaseAccess`.
* Amounts that leave 64 bits: balances are percentages in the models, so the
  saturating sums of the path search are not reached.
* The forward and payment lists of the graph and its per-source ledger, which no
  detector reads.
* `last_status` of an alert, which is written and never read.
* The LND executor, unreachable behind the interlock of `actions execute`; the LLM
  client, whose text is wording; the read API, dashboard and CLI views, which
  change nothing.

## 6. Plan

1. *Done*: every component of the inventory that keeps state, as modules and runs.
2. *Done*: proofs of every safety property and refinement of the hand-off, the
   lifecycle, approval, alerts, operational state, database access, analysis,
   simulations and storage backends.
3. The path search as a recursive function on steps, so that a proof can speak of
   it; its loop invariant is a set of settled nodes with cheapest distances.
4. The verdict of health as an operator on the row.
5. A composition of lifecycle and approval, in which advice of a closed finding is
   still approved.

## 7. Where the code and its documents differ

Two runs check what a document says and find it violated; `findings` in
`PROJECT.json` has the lines.

* `approval_race`: `run_transition` reads and checks the stage before its
  transaction (`actions.rs:144`), so an approve that read `Recommended` commits
  after a reject. `actions.rs:65` says "so it is never executed".
* `analysis_restart`: the first cycle pushes the current snapshot and appends the
  persisted ones behind it (`monitor.rs:248`). `monitor.rs:251` says the history is
  warmed "so drift detection survives a restart".

The models contain more such places as the code has them; their properties are
stated so that they hold beside them.

**Hand-off.** The request timeout exempts only simulations; an admitted enqueue
commits after the client has seen 408 and nobody wakes the worker (`TimeOut`).
`app.rs:305` says a dropped `spawn_blocking` "must not produce a timeout response
followed by a late commit".

**Findings.** A finding observed in the cycle that reaches its third count, or later,
is active again while its advice stays `resolved` (`ClosedFindingHasNoAdvice` is
therefore one-directional); `rieko-findings/src/action.rs:125` says `resolved` means
the linked finding has been resolved. Webhook findings carry no provenance
(`agent.rs:1158`), `sqlite.rs:572` never matches them, and no absence closes them
(`Unprovenanced`); `storage.rs:94` says active findings of the scope are resolved.

**Alerts.** The cooldown is written after the delivery, so a crash between the two
sends the alert again, and so does a post whose answer was lost (`unrecorded`);
`dedup.rs:13` says a crash cannot reset the cooldown. A Critical alert is
suppressed when the clock steps back behind a Warning that was sent after an
earlier Critical and not recorded (`CriticalGetsThrough` excepts that clock). `sink.rs` says the dedup key includes
the severity; it does not.

**Health.** The agent writes the attempt of a detector cycle in the transaction of its
success (`agent.rs:784`): when that is rolled back, or refused because the flag is
stuck, the row shows no attempt and health answers Healthy. `health.rs:28`
documents Degraded as "the latest detector-cycle attempt did not complete".

**Migrations and transactions.** `migrations.rs` says each step runs in a transaction
of its own; all pending steps run in one. The check against a newer version is not
repeated after the version is read again under the lock. A rollback by SQLite
itself makes the ROLLBACK that follows fail and leaves `in_transaction` set until
the process ends; a failed COMMIT in `persist_greenfield_snapshot` or
`update_operational_state` leaves the transaction open, and later writes are
reported and lost at the restart (`LeftOpen`).

**Writer lock.** The agent drops its lock when `run_until` returns, after 5 s at most
for each worker; a storage call of a request that timed out or of an aborted worker
goes on, and the runtime waits for it. A second daemon can therefore begin while the
first one still writes (`DropLock`, and `closing` in `OneWriter`); SQLite keeps their
transactions apart.

**Retention.** A scan prunes with the default policy and stamps the time the monitor's
schedule reads, so rows a monitor was told to keep longer are deleted
(`EvidenceIsKept` speaks of the stricter of the two policies). The history in memory
outlives the rows it was filled from, so a trend found after a cleanup may refer to
snapshots that can no longer be looked up.

**Settlement.** The detector counts webhooks, not invoices: one paid invoice sends
several events.

**Graph.** `reconstruct_path` charges each hop for an amount of 0, so the total cost of
a route leaves the proportional fee out, although `PathHop` documents the cost "for
routing `amount` through this hop"; the route itself is the cheapest for the amount
(`RouteIsCheapest`). An upsert of a known channel whose peer is unchanged enters it
in the index again, so `total_capacity_with_peer` counts it twice, although upserts
are documented as idempotent; `IndexFollowsChannels` compares sets for that reason.

**Backends.** Where MemoryStorage and SqliteStorage differ, and `StorageBackends`
notes it. Calls that only memory accepts (`RefusedBySqlite`):

* an event enqueued (`sqlite.rs:304`) or a pruning pass asked for (`sqlite.rs:1026`,
  `storage.rs:757`) inside a transaction;
* a webhook event marked a second time (`sqlite.rs:455`);
* an incoherent run (`sqlite.rs:1539`), and an event of a simulation with a status or a
  timestamp that is none (`sqlite.rs:1339`, `storage.rs:950`) or of a missing simulation;
* a run, a simulation of the first kind or an audit entry whose id is taken
  (`sqlite.rs:1191`, `1129` and `816`); runs and simulations share one key.

Calls that both accept, with another effect:

* absence counters, which memory keeps outside its transaction and clears for older
  observations; a recommendation saved again;
* a channel saved twice at one time (`INSERT OR REPLACE`, `sqlite.rs:890`; memory
  keeps both, `storage.rs:669`);
* the order of findings after a new observation, and of snapshots after a prune, or
  saved out of order; a total cap that cuts through one time, and a cap of zero;
* the lookup of a run by id, which finds a simulation of the first kind in
  SqliteStorage only (`sqlite.rs:1273`).
