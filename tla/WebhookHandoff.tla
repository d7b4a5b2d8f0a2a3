--------------------------- MODULE WebhookHandoff ---------------------------
(***************************************************************************)
(* The durable hand-off of BTCPay webhook deliveries to the settlement     *)
(* detector (docs/adrs/0007-durable-webhook-handoff.md):                   *)
(*                                                                         *)
(*   HTTP handlers  --enqueue-->  SQLite  <--drain/persist--  worker       *)
(*        \----------- best-effort wake-up channel ----------/             *)
(*                                                                         *)
(* Every storage call runs under one tokio Mutex, and a handler's write    *)
(* holds that mutex from its admission to the end of the blocking closure, *)
(* even when the 10 s request timeout has already answered the client and  *)
(* dropped the handler.  A storage call of the model is therefore one      *)
(* step, guarded by MutexFree.                                             *)
(*                                                                         *)
(* Data abstraction.  A delivery is its canonical id (originalDeliveryId,  *)
(* else deliveryId); its event payload is determined by it.  The table     *)
(* webhook_events is the sequence `rows' of ids in the order the queries   *)
(* use, (accepted_at, delivery_id); a wall clock that steps back inserts a *)
(* row before older ones.  Requests refused before any storage call        *)
(* (no secret 503, bad signature 401, malformed 400) change no state and   *)
(* are left out.                                                           *)
(***************************************************************************)
EXTENDS Naturals, Sequences, FiniteSets

CONSTANTS
    Deliveries,       \* canonical delivery identifiers
    Requests,         \* HTTP handlers that can be in flight at once
    Legacy,           \* ids recorded in webhook_deliveries before webhook_events existed
    EventBuffer,      \* BTCPAY_EVENT_BUFFER
    DetectorWindow,   \* BTCPAY_DETECTOR_WINDOW: window length and batch size
    Timeouts,         \* whether a request may outlive REQUEST_TIMEOUT
    ClockMonotone,    \* whether Utc::now() never steps back between two enqueues
    MaxFaults,        \* bound: storage calls that fail
    MaxCrashes        \* bound: process kills (and aborts of a slow worker)

ASSUME HandoffAssumption ==
    /\ IsFiniteSet(Deliveries)
    /\ Legacy \subseteq Deliveries
    /\ EventBuffer \in Nat \ {0}
    /\ DetectorWindow \in Nat \ {0}
    /\ Timeouts \in BOOLEAN
    /\ ClockMonotone \in BOOLEAN
    /\ MaxFaults \in Nat
    /\ MaxCrashes \in Nat

VARIABLES
    \* durable: SQLite
    deliveries,   \* table webhook_deliveries: ids
    rows,         \* table webhook_events: ids ORDER BY accepted_at, delivery_id
    processed,    \* ids of webhook_events whose processed_at IS NOT NULL
    \* volatile: the agent process
    phase,        \* "up", "stopping" (graceful shutdown), "closed" (senders dropped), "down"
    req,          \* the handlers: program counter and delivery id
    chan,         \* wake-ups queued in the mpsc channel (the payload is never read)
    wpc,          \* the worker's program counter
    lastDrain,    \* the worker saw the channel closed: this drain is its last
    batch,        \* records fetched and not yet evaluated
    cur,          \* the record being processed
    window,       \* the detector's event window
    saved,        \* previous_window
    wedged,       \* SqliteStorage::in_transaction is TRUE and no transaction is open: SQLite
                  \* rolled back by itself (disk full, I/O error), so the ROLLBACK failed
    \* observation
    acked,        \* ids a client was answered 200 for
    cycles,       \* detector cycles committed per id
    faults, crashes

durable  == <<deliveries, rows, processed>>
handlers == <<req, chan>>
worker   == <<wpc, lastDrain, batch, cur, window, saved>>
vars == <<deliveries, rows, processed, phase, req, chan, wpc, lastDrain, batch,
          cur, window, saved, wedged, acked, cycles, faults, crashes>>

NoDelivery == "none"
Idle == [pc |-> "idle", id |-> NoDelivery]

HandlerPCs == {"idle", "check", "enqueue", "writing", "orphan", "wake"}
WorkerPCs  == {"reconstruct", "fetch", "process", "persist", "recv", "dead", "stopped"}

Stored == {rows[i] : i \in 1..Len(rows)}

TypeOK ==
    /\ deliveries \subseteq Deliveries
    /\ rows \in Seq(Deliveries)
    /\ processed \subseteq Deliveries
    /\ phase \in {"up", "stopping", "closed", "down"}
    /\ req \in [Requests -> [pc : HandlerPCs, id : Deliveries \cup {NoDelivery}]]
    /\ chan \in 0..EventBuffer
    /\ wpc \in WorkerPCs
    /\ lastDrain \in BOOLEAN
    /\ batch \subseteq Deliveries
    /\ cur \in Deliveries \cup {NoDelivery}
    /\ window \in Seq(Deliveries) /\ Len(window) <= DetectorWindow
    /\ saved \in Seq(Deliveries) /\ Len(saved) <= DetectorWindow
    /\ wedged \in BOOLEAN
    /\ acked \subseteq Deliveries
    /\ cycles \in [Deliveries -> Nat]
    /\ faults \in 0..MaxFaults
    /\ crashes \in 0..MaxCrashes

-----------------------------------------------------------------------------
(* Storage queries and statements.                                         *)

\* The storage mutex is held by a handler whose blocking closure is running.
MutexFree == \A r \in Requests : req[r].pc \notin {"writing", "orphan"}

Fault == faults < MaxFaults /\ faults' = faults + 1

\* Faulty variant: ordered by delivery_id, whatever the clock said.
InsertAnywhere == 0..Len(rows)

\* Where a new row sorts: accepted_at is Utc::now() read under the mutex.
InsertPositions == IF ClockMonotone THEN {Len(rows)} ELSE 0..Len(rows)

InsertAt(p, d) ==
    [k \in 1..(Len(rows) + 1) |->
        IF k <= p THEN rows[k] ELSE IF k = p + 1 THEN d ELSE rows[k - 1]]

\* Faulty variant: INSERT OR REPLACE, which clears processed_at.
EnqueueReplaces(d) ==
    /\ deliveries' = deliveries \cup {d}
    /\ IF d \in Stored
       THEN UNCHANGED rows
       ELSE \E p \in InsertPositions : rows' = InsertAt(p, d)
    /\ processed' = processed \ {d}

\* enqueue_webhook_event: both INSERT OR IGNOREs of one transaction.
EnqueueWebhookEvent(d) ==
    /\ deliveries' = deliveries \cup {d}
    /\ IF d \in Stored
       THEN UNCHANGED rows
       ELSE \E p \in InsertPositions : rows' = InsertAt(p, d)
    /\ UNCHANGED processed

\* pending_webhook_events(DetectorWindow): the oldest unprocessed rows.  The
\* worker takes them oldest first, so the batch is kept as a set.
PendingPositions == {i \in 1..Len(rows) : rows[i] \notin processed}

PendingWebhookEvents ==
    {rows[i] : i \in {k \in PendingPositions :
        Cardinality({j \in PendingPositions : j <= k}) <= DetectorWindow}}

\* recent_processed_webhook_events(DetectorWindow), through push_settlement_event:
\* w lists the newest processed rows in acceptance order.
IsRecentHistory(w) ==
    LET P == {i \in 1..Len(rows) : rows[i] \in processed}
    IN  /\ Len(w) = IF Cardinality(P) <= DetectorWindow THEN Cardinality(P)
                                                        ELSE DetectorWindow
        /\ \A k \in 1..Len(w) : \E i \in P :
              /\ w[k] = rows[i]
              /\ Cardinality({j \in P : j >= i}) = Len(w) - k + 1

Windows == UNION {[1..n -> Deliveries] : n \in 0..DetectorWindow}

PushSettlementEvent(w, d) ==
    IF Len(w) = DetectorWindow THEN Append(Tail(w), d) ELSE Append(w, d)

-----------------------------------------------------------------------------
(* HTTP handlers: btcpay_webhook under the request_timeout middleware.     *)

Answer(r) == req' = [req EXCEPT ![r] = Idle]
Goto(r, pc) == req' = [req EXCEPT ![r].pc = pc]

\* BTCPay sends, or sends again, a delivery.
Receive(r, d) ==
    /\ phase = "up" /\ req[r].pc = "idle"
    /\ req' = [req EXCEPT ![r] = [pc |-> "check", id |-> d]]
    /\ UNCHANGED <<durable, phase, chan, worker, wedged, acked, cycles, faults, crashes>>

\* is_webhook_delivery_processed found the id: 200 already_processed.
AlreadyProcessed(r) ==
    /\ req[r].pc = "check" /\ MutexFree
    /\ req[r].id \in deliveries
    /\ Answer(r)
    /\ acked' = acked \cup {req[r].id}
    /\ UNCHANGED <<durable, phase, chan, worker, wedged, cycles, faults, crashes>>

\* A new id, or a failed lookup (unwrap_or(false)): go on and enqueue it.
NotYetProcessed(r) ==
    /\ req[r].pc = "check" /\ MutexFree
    /\ \/ req[r].id \notin deliveries /\ UNCHANGED faults
       \/ Fault
    /\ Goto(r, "enqueue")
    /\ UNCHANGED <<durable, phase, chan, worker, wedged, acked, cycles, crashes>>

\* block_storage takes the mutex and hands it to the blocking closure.
Admit(r) ==
    /\ req[r].pc = "enqueue" /\ MutexFree
    /\ Goto(r, "writing")
    /\ UNCHANGED <<durable, phase, chan, worker, wedged, acked, cycles, faults, crashes>>

\* The transaction commits.  A handler that timed out is gone, so nobody
\* sends the wake-up.
EnqueueCommits(r) ==
    /\ req[r].pc \in {"writing", "orphan"} /\ ~wedged
    /\ EnqueueWebhookEvent(req[r].id)
    /\ IF req[r].pc = "writing" THEN Goto(r, "wake") ELSE Answer(r)
    /\ UNCHANGED <<phase, chan, worker, wedged, acked, cycles, faults, crashes>>

\* Faulty variant: the persistence error is logged and the request accepted.
EnqueueErrorIgnored(r) ==
    /\ req[r].pc \in {"writing", "orphan"}
    /\ \/ wedged /\ UNCHANGED <<wedged, faults>>
       \/ ~wedged /\ Fault /\ wedged' \in BOOLEAN
    /\ IF req[r].pc = "writing" THEN Goto(r, "wake") ELSE Answer(r)
    /\ UNCHANGED <<durable, phase, chan, worker, acked, cycles, crashes>>

\* begin_transaction is refused, or a statement or COMMIT fails; where SQLite
\* has rolled back by itself, the explicit ROLLBACK that follows fails and
\* leaves in_transaction set.  Nothing was written either way.  500.
EnqueueFails(r) ==
    /\ req[r].pc \in {"writing", "orphan"}
    /\ \/ wedged /\ UNCHANGED <<wedged, faults>>
       \/ ~wedged /\ Fault /\ wedged' \in BOOLEAN
    /\ Answer(r)
    /\ UNCHANGED <<durable, phase, chan, worker, acked, cycles, crashes>>

\* try_send (a full or closed channel is only logged), then 200 accepted.
WakeAndAck(r) ==
    /\ req[r].pc = "wake"
    /\ chan' = IF chan < EventBuffer /\ wpc \notin {"dead", "stopped"}
               THEN chan + 1 ELSE chan
    /\ Answer(r)
    /\ acked' = acked \cup {req[r].id}
    /\ UNCHANGED <<durable, phase, worker, wedged, cycles, faults, crashes>>

\* 408: request_timeout drops the handler.  Before admission (also where
\* normalization answers 400) nothing was written; after it, the blocking
\* closure runs on as an orphan.
TimeOut(r) ==
    /\ Timeouts
    /\ \/ req[r].pc \in {"check", "enqueue"} /\ Answer(r)
       \/ req[r].pc = "writing" /\ Goto(r, "orphan")
    /\ UNCHANGED <<durable, phase, chan, worker, wedged, acked, cycles, faults, crashes>>

-----------------------------------------------------------------------------
(* The worker: run_btcpay_finding_loop.                                    *)

WorkerRuns == phase # "down" /\ MutexFree

\* Where drain_pending_webhook_events returns to, after success or an error.
AfterDrain == wpc' = IF lastDrain THEN "stopped" ELSE "recv"

\* Faulty variant: wait for a wake-up before the first drain.
ReconstructThenWait ==
    /\ wpc = "reconstruct" /\ WorkerRuns
    /\ \E w \in Windows : IsRecentHistory(w) /\ window' = w
    /\ wpc' = "recv"
    /\ UNCHANGED <<durable, phase, handlers, lastDrain, batch, cur, saved, wedged,
                   acked, cycles, faults, crashes>>

Reconstruct ==
    /\ wpc = "reconstruct" /\ WorkerRuns
    /\ \E w \in Windows : IsRecentHistory(w) /\ window' = w
    /\ wpc' = "fetch"
    /\ UNCHANGED <<durable, phase, handlers, lastDrain, batch, cur, saved, wedged,
                   acked, cycles, faults, crashes>>

\* The history query fails: the worker returns and drops its receiver.
ReconstructFails ==
    /\ wpc = "reconstruct" /\ WorkerRuns /\ Fault
    /\ wpc' = "dead" /\ chan' = 0
    /\ UNCHANGED <<durable, phase, req, lastDrain, batch, cur, window, saved, wedged,
                   acked, cycles, crashes>>

FetchPending ==
    /\ wpc = "fetch" /\ WorkerRuns
    /\ batch' = PendingWebhookEvents
    /\ IF batch' = {} THEN AfterDrain ELSE wpc' = "process"
    /\ UNCHANGED <<durable, phase, handlers, lastDrain, cur, window, saved, wedged,
                   acked, cycles, faults, crashes>>

FetchFails ==
    /\ wpc = "fetch" /\ WorkerRuns /\ Fault
    /\ AfterDrain
    /\ UNCHANGED <<durable, phase, handlers, lastDrain, batch, cur, window, saved, wedged,
                   acked, cycles, crashes>>

\* process_pending_webhook_event up to the persistence task: keep the old
\* window, push the event, evaluate the detector on the new window.
Evaluate ==
    /\ wpc = "process" /\ phase # "down"
    /\ \E i \in 1..Len(rows) :
          /\ rows[i] \in batch
          /\ \A j \in 1..Len(rows) : rows[j] \in batch => i <= j
          /\ cur' = rows[i]
    /\ batch' = batch \ {cur'}
    /\ saved' = window
    /\ window' = PushSettlementEvent(window, cur')
    /\ wpc' = "persist"
    /\ UNCHANGED <<durable, phase, handlers, lastDrain, wedged, acked, cycles,
                   faults, crashes>>

\* Faulty variant: one batch per wake-up.
PersistEndsDrain ==
    /\ wpc = "persist" /\ WorkerRuns /\ ~wedged
    /\ cur \in Stored \ processed
    /\ processed' = processed \cup {cur}
    /\ cycles' = [cycles EXCEPT ![cur] = @ + 1]
    /\ IF batch = {} THEN AfterDrain ELSE wpc' = "process"
    /\ cur' = NoDelivery /\ saved' = <<>>
    /\ UNCHANGED <<deliveries, rows, phase, handlers, lastDrain, batch, window, wedged,
                   acked, faults, crashes>>

\* persist_finding_cycle commits: the findings and processed_at together.
PersistCommits ==
    /\ wpc = "persist" /\ WorkerRuns /\ ~wedged
    /\ cur \in Stored \ processed
    /\ processed' = processed \cup {cur}
    /\ cycles' = [cycles EXCEPT ![cur] = @ + 1]
    /\ wpc' = IF batch = {} THEN "fetch" ELSE "process"
    /\ cur' = NoDelivery /\ saved' = <<>>
    /\ UNCHANGED <<deliveries, rows, phase, handlers, lastDrain, batch, window, wedged,
                   acked, faults, crashes>>

\* Faulty variant: the pushed window is kept.
KeepWindow == saved' = <<>> /\ UNCHANGED window

\* *events = previous_window, and the error ends this drain.
RestoreWindow == window' = saved /\ saved' = <<>>

\* The transaction is refused or rolled back (mark_webhook_event_processed
\* refuses a row that is gone or already processed).
PersistFails ==
    /\ wpc = "persist" /\ WorkerRuns
    /\ \/ (wedged \/ cur \notin Stored \ processed) /\ UNCHANGED <<wedged, faults>>
       \/ ~wedged /\ Fault /\ wedged' \in BOOLEAN
    /\ RestoreWindow
    /\ batch' = {} /\ cur' = NoDelivery
    /\ AfterDrain
    /\ UNCHANGED <<durable, phase, handlers, lastDrain, acked, cycles, crashes>>

\* receiver.recv().await: a wake-up, or None once every sender is dropped.
Recv ==
    /\ wpc = "recv" /\ phase # "down"
    /\ \/ chan > 0 /\ chan' = chan - 1 /\ UNCHANGED lastDrain
       \/ chan = 0 /\ phase = "closed" /\ lastDrain' = TRUE /\ UNCHANGED chan
    /\ wpc' = "fetch"
    /\ UNCHANGED <<durable, phase, req, batch, cur, window, saved, wedged, acked,
                   cycles, faults, crashes>>

-----------------------------------------------------------------------------
(* The process: run_until.                                                 *)

VolatileReset ==
    /\ req' = [r \in Requests |-> Idle]
    /\ chan' = 0
    /\ wpc' = "reconstruct" /\ lastDrain' = FALSE
    /\ batch' = {} /\ cur' = NoDelivery /\ window' = <<>> /\ saved' = <<>>
    /\ wedged' = FALSE

\* The shutdown signal: axum accepts no new request.
BeginShutdown ==
    /\ phase = "up"
    /\ phase' = "stopping"
    /\ UNCHANGED <<durable, handlers, worker, wedged, acked, cycles, faults, crashes>>

\* In-flight handlers have answered; axum::serve returns and drops the senders.
DropSenders ==
    /\ phase = "stopping"
    /\ \A r \in Requests : req[r].pc \in {"idle", "orphan"}
    /\ phase' = "closed"
    /\ UNCHANGED <<durable, handlers, worker, wedged, acked, cycles, faults, crashes>>

\* The worker stopped within WORKER_SHUTDOWN_TIMEOUT, or is aborted; dropping
\* the runtime waits for the blocking closures already running.
Exit ==
    /\ phase = "closed" /\ MutexFree
    /\ \/ wpc \in {"stopped", "dead"} /\ UNCHANGED crashes
       \/ crashes < MaxCrashes /\ crashes' = crashes + 1
    /\ phase' = "down"
    /\ VolatileReset
    /\ UNCHANGED <<durable, acked, cycles, faults>>

\* The process dies; SQLite rolls back what was not committed.
Crash ==
    /\ phase # "down"
    /\ crashes < MaxCrashes /\ crashes' = crashes + 1
    /\ phase' = "down"
    /\ VolatileReset
    /\ UNCHANGED <<durable, acked, cycles, faults>>

Restart ==
    /\ phase = "down"
    /\ phase' = "up"
    /\ UNCHANGED <<durable, handlers, worker, wedged, acked, cycles, faults, crashes>>

-----------------------------------------------------------------------------
Init ==
    /\ deliveries = Legacy /\ rows = <<>> /\ processed = {}
    /\ phase = "up"
    /\ req = [r \in Requests |-> Idle] /\ chan = 0
    /\ wpc = "reconstruct" /\ lastDrain = FALSE
    /\ batch = {} /\ cur = NoDelivery /\ window = <<>> /\ saved = <<>>
    /\ wedged = FALSE
    /\ acked = {} /\ cycles = [d \in Deliveries |-> 0]
    /\ faults = 0 /\ crashes = 0

HandlerStep(r) ==
    \/ AlreadyProcessed(r) \/ NotYetProcessed(r) \/ Admit(r)
    \/ EnqueueCommits(r) \/ EnqueueFails(r) \/ WakeAndAck(r)

WorkerStep ==
    \/ Reconstruct \/ ReconstructFails \/ FetchPending \/ FetchFails
    \/ Evaluate \/ PersistCommits \/ PersistFails \/ Recv

Next ==
    \/ \E r \in Requests : \/ \E d \in Deliveries : Receive(r, d)
                           \/ HandlerStep(r)
                           \/ TimeOut(r)
    \/ WorkerStep
    \/ BeginShutdown \/ DropSenders \/ Exit \/ Crash \/ Restart

Spec == Init /\ [][Next]_vars

\* tokio polls every ready task and runs every blocking closure; a supervisor
\* restarts the agent.  Nothing obliges a client to send, the clock to run
\* out, a call to fail or the process to die.
Fairness ==
    /\ \A r \in Requests : WF_vars(HandlerStep(r))
    /\ WF_vars(WorkerStep)
    /\ WF_vars(DropSenders) /\ WF_vars(Exit) /\ WF_vars(Restart)

FairSpec == Spec /\ Fairness

-----------------------------------------------------------------------------
(* Properties.                                                             *)

\* A delivery answered 200, "accepted" or "already_processed", is in
\* webhook_events (or predates that table): no crash, failed transaction,
\* timeout or lost wake-up loses an event the client will not send again.
AckedIsDurable == acked \subseteq Stored \cup Legacy

\* A delivery drives exactly one committed detector cycle when it is marked
\* processed and none before, whatever redeliveries race with the first
\* enqueue, whatever is retried after a failed transaction or a restart.
ProcessedExactlyOnce ==
    \A d \in Deliveries : cycles[d] = IF d \in processed THEN 1 ELSE 0

\* Deliveries are processed in the order they were accepted: no committed
\* cycle skips an older pending row, even after a failure in mid-batch.
AcceptanceOrder ==
    \A i, j \in 1..Len(rows) :
        i < j /\ rows[j] \in processed => rows[i] \in processed

(* The inductive strengthening of the invariants above.                    *)

\* The two tables are written together, and a delivery has at most one row.
TablesAgree ==
    /\ deliveries = Stored \cup Legacy
    /\ processed \subseteq Stored
    /\ \A i, j \in 1..Len(rows) : rows[i] = rows[j] => i = j

\* A handler that reached the wake-up has committed its event.
HandlersSafe ==
    \A r \in Requests :
        /\ req[r].pc # "idle" => req[r].id \in Deliveries
        /\ req[r].pc = "wake" => req[r].id \in Stored

InFlight == IF wpc = "persist" THEN {cur} ELSE {}

\* What the worker holds in memory is still pending in the database.
BatchIsPending ==
    /\ batch \cup InFlight \subseteq Stored \ processed
    /\ batch \cap InFlight = {}
    /\ wpc \notin {"process", "persist"} => batch = {}
    /\ wpc = "process" => batch # {}

\* What the worker holds is older than every other pending row, and the
\* record in flight is the oldest of it.
BatchIsFrontier ==
    \A i, j \in 1..Len(rows) :
        /\ i < j /\ rows[j] \in batch \cup InFlight
              => rows[i] \in processed \cup batch \cup InFlight
        /\ rows[i] \in InFlight /\ rows[j] \in batch => i < j

\* A 200 answer is given only for a stored event that is never lost again, and
\* every event drives one committed detector cycle when it is processed and
\* none before: however handlers of one delivery race, calls fail, requests
\* time out and the process dies, and whatever the wall clock does.
HandoffIsSafe == AckedIsDurable /\ ProcessedExactlyOnce

SafetyInv ==
    /\ TablesAgree /\ HandlersSafe /\ BatchIsPending
    /\ AckedIsDurable /\ ProcessedExactlyOnce

\* Holds when the wall clock never steps back.
OrderInv == AcceptanceOrder /\ BatchIsFrontier

\* Between two cycles the window in memory is the one a restart would rebuild
\* from the processed rows, so evidence is continuous across failures and
\* restarts (the window in `saved' while a record is in flight).
WindowMatchesHistory ==
    /\ wpc \in {"fetch", "process", "recv", "stopped"} => IsRecentHistory(window)
    /\ wpc = "persist" => IsRecentHistory(saved)

\* The hand-off is a durable first-in first-out queue.
Queue == INSTANCE DurableQueue WITH
            Items <- Deliveries, log <- rows, done <- processed,
            answered <- acked \ Legacy
QueueSpec == Queue!Spec

\* Unless a storage call fails or a request outlives its timeout, every
\* accepted delivery is eventually processed: a full wake-up channel, a
\* shutdown or a crash never strands it.
Healthy == faults = 0 /\ \A r \in Requests : req[r].pc # "orphan"
EventuallyProcessed ==
    []Healthy => \A d \in Deliveries : d \in Stored ~> d \in processed

\* A drain that starts once the faults and crashes are over reaches every row
\* that was pending, those stranded by an earlier failure included: the
\* "next wake-up or restart" of the route's comment.
Quiet == faults = MaxFaults /\ crashes = MaxCrashes /\ ~wedged
NextDrainRecovers ==
    \A d \in Deliveries :
        (Quiet /\ wpc = "fetch" /\ d \in Stored) ~> d \in processed
=============================================================================
