-------------------------- MODULE StorageBackends ---------------------------
(***************************************************************************)
(* The two implementations of the Storage trait side by side.  Everything  *)
(* above storage is tested on MemoryStorage and runs on SqliteStorage, so  *)
(* a difference between them is a behaviour no test of the upper layers    *)
(* sees.  Each step is one call of the trait made on both, alone or inside *)
(* a transaction, with the tables of modules FindingTables,                *)
(* SnapshotTables, SimulationTables, EventTables and StateTables.  Prune   *)
(* is the exception: SqliteStorage deletes row by row in an own            *)
(* transaction, each statement a step, and may fail at any; MemoryStorage  *)
(* takes its one step with the commit.                                     *)
(*                                                                         *)
(* The known differences are recorded when a call meets one (noted and     *)
(* skewed), and the properties say what holds without them.  A fault of    *)
(* SQLite itself (I/O, a lock held too long) is in modules DatabaseAccess  *)
(* and WebhookHandoff, not here.                                           *)
(***************************************************************************)
EXTENDS FindingTables, SnapshotTables, SimulationTables, EventTables, StateTables

CONSTANTS
    Focuses,     \* tables to look at: "findings", "advice", "snapshots", "runs",
                 \* "events", "queue", "operational", "alerts", "audit"
    Advised,     \* findings with a recommendation, while the findings are looked at
    Times,       \* times of observations and deliveries, positive
    SnapTimes,   \* times of snapshots
    Channels,    \* channels in the order of their keys
    Statuses,    \* channel statuses
    Policies,    \* retention: [age, closed_age, cap, total]
    Runs,        \* simulation records a caller may save
    Sims,        \* simulations of the first kind
    Events,      \* simulation events
    Deliveries,  \* delivery ids
    MaxSnapshots, MaxTxCalls, MaxAudit   \* bounds

ASSUME BackendsAssumption ==
    /\ IsFiniteSet(FindingIds) /\ Advised \subseteq FindingIds
    /\ SeverityAt \in [Times -> DOMAIN SeverityInt]
    /\ Times \subseteq Nat \ {0} /\ SnapTimes \subseteq Nat /\ Deliveries \subseteq Nat
    /\ Channels \in Seq(Range(Channels)) /\ IsInjective(Channels)
    /\ Statuses \subseteq DOMAIN StatusInt
    /\ \A p \in Policies :
          /\ p.age \in Nat /\ p.closed_age \in Nat
          /\ p.cap \in Nat \cup {None} /\ p.total \in Nat \cup {None}
    /\ \A r \in Runs : /\ r = Run(r.id, r.action, r.input, r.hash, r.status, r.projected, r.created)
                       /\ r.projected \in BOOLEAN /\ r.created \in Nat
    /\ \A s \in Sims : s = Simulation(s.id, s.action, s.created) /\ s.created \in Nat
    /\ \A e \in Events : e = Event(e.id, e.run, e.status, e.ts) /\ e.ts \in Nat
    /\ MaxSnapshots \in Nat /\ MaxTxCalls \in Nat /\ MaxAudit \in Nat

VARIABLES
    focus,   \* the tables this behaviour is about
    mem,     \* MemoryStorage
    sql,     \* SqliteStorage: the connection's view
    saved,   \* the state at the beginning of the open transaction, or NoTx
    calls,   \* calls made in it
    pass,    \* the pruning pass under way, or NoPass
    result,  \* whether each returned Ok from the last call
    noted,   \* differences met so far
    skewed   \* findings whose absence is counted differently

vars == <<focus, mem, sql, saved, calls, pass, result, noted, skewed>>

NoTx == [open |-> FALSE]
NoPass == [stage |-> "none"]
Agreed == [call |-> "any", mem |-> TRUE, sql |-> TRUE]
Differences == {"invalid", "resaved", "replaced", "taken", "pruned", "out_of_order", "tie", "zero_cap",
                "remarked", "nested", "orphan"}

TypeOK ==
    /\ focus \in Focuses
    /\ \A r \in Range(mem.findings.rows) : r.first <= r.last
    /\ \A id \in FindingIds : mem.findings.absent[id] \in 0..2 /\ sql.findings.absent[id] \in 0..2
    /\ Len(mem.snaps) <= MaxSnapshots /\ Cardinality(sql.snaps) <= MaxSnapshots
    /\ calls \in 0..MaxTxCalls
    /\ pass.stage \in {"none", "age", "cap", "total"}
    /\ noted \subseteq Differences /\ skewed \subseteq FindingIds

-----------------------------------------------------------------------------
(* Transactions.                                                           *)

\* Only calls whose results differ are told apart.
Called(call, memOk, sqlOk) ==
    result' = IF memOk = sqlOk THEN Agreed ELSE [call |-> call, mem |-> memOk, sql |-> sqlOk]

\* Bound: a behaviour ends once a difference has voided what it could show, and
\* begins no transaction once the backends count a finding differently.
Comparable ==
    /\ noted \subseteq {"pruned", "out_of_order"}
    /\ skewed # FindingIds

\* A call outside of a transaction, or inside while the bound allows it.
MayCall == pass = NoPass /\ Comparable /\ (saved.open => calls < MaxTxCalls)

CountCall == calls' = IF saved.open THEN calls + 1 ELSE 0

Quiet == CountCall /\ UNCHANGED <<focus, saved, pass>>

BeginTransaction ==
    /\ ~saved.open /\ pass = NoPass    \* a nested one is an error in both
    /\ Comparable /\ skewed = {}
    /\ saved' = [open |-> TRUE, mem |-> mem, sql |-> sql]
    /\ calls' = 0
    /\ Called("begin", TRUE, TRUE)
    /\ UNCHANGED <<focus, mem, sql, pass, noted, skewed>>

CommitTransaction ==
    /\ saved.open
    /\ saved' = NoTx /\ calls' = 0
    /\ Called("commit", TRUE, TRUE)
    /\ UNCHANGED <<focus, mem, sql, pass, noted, skewed>>

\* MemoryStorageState has every table but not finding_absent.
RollbackTransaction ==
    /\ saved.open
    /\ mem' = [saved.mem EXCEPT !.findings.absent = mem.findings.absent]
    /\ sql' = saved.sql
    /\ skewed' = skewed \cup {id \in FindingIds :
                                mem.findings.absent[id] # saved.mem.findings.absent[id]}
    /\ saved' = NoTx /\ calls' = 0
    /\ Called("rollback", TRUE, TRUE)
    /\ UNCHANGED <<focus, pass, noted>>

-----------------------------------------------------------------------------
(* Findings and recommendations.                                           *)

\* An older observation: MemoryStorage forgets the absence, SqliteStorage
\* does not.
SaveFinding(id, at) ==
    /\ focus = "findings" /\ MayCall
    /\ mem' = [mem EXCEPT !.findings = MemSaveFinding(@, id, at)]
    /\ sql' = [sql EXCEPT !.findings = SqlSaveFinding(@, id, at)]
    /\ skewed' = skewed \cup {i \in {id} : /\ sql.findings.absent[id] > 0
                                           /\ \E r \in sql.findings.rows : r.id = id /\ at < r.last}
    /\ Called("save_finding", TRUE, TRUE) /\ Quiet /\ UNCHANGED noted

ResolveFindings(complete) ==
    /\ focus = "findings" /\ MayCall
    /\ mem' = [mem EXCEPT !.findings = MemResolve(@, complete)]
    /\ sql' = [sql EXCEPT !.findings = SqlResolve(@, complete)]
    /\ Called("resolve_findings", TRUE, TRUE) /\ Quiet /\ UNCHANGED <<noted, skewed>>

\* The findings whose recommendations are looked at.
AdviceFocus == CASE focus = "findings" -> Advised [] focus = "advice" -> FindingIds [] OTHER -> {}

\* One saved again that has moved on, or that is not the newest, differs.
SaveRecommendation(id) ==
    /\ id \in AdviceFocus /\ MayCall
    /\ mem' = [mem EXCEPT !.advice = MemSaveRecommendation(@, id)]
    /\ sql' = [sql EXCEPT !.advice = SqlSaveRecommendation(@, id)]
    /\ noted' = IF mem.advice[id] \in {NoAdvice, NewAdvice(mem.advice, id)}
                THEN noted ELSE noted \cup {"resaved"}
    /\ Called("save_recommendation", TRUE, TRUE) /\ Quiet /\ UNCHANGED skewed

SetStage(id) ==
    /\ id \in AdviceFocus /\ MayCall
    /\ mem' = [mem EXCEPT !.advice = SetActionStage(@, id, "approved")]
    /\ sql' = [sql EXCEPT !.advice = SetActionStage(@, id, StageText["approved"])]
    /\ Called("set_action_stage", TRUE, TRUE) /\ Quiet /\ UNCHANGED <<noted, skewed>>

ResolveAdvice(id) ==
    /\ id \in AdviceFocus /\ MayCall
    /\ mem' = [mem EXCEPT !.advice = ResolveRecommendations(@, id)]
    /\ sql' = [sql EXCEPT !.advice = ResolveRecommendations(@, id)]
    /\ Called("resolve_recommendations", TRUE, TRUE) /\ Quiet /\ UNCHANGED <<noted, skewed>>

SyncAdvice ==
    /\ focus = "findings" /\ MayCall
    /\ mem' = [mem EXCEPT !.advice = MemSyncRecommendations(@, mem.findings)]
    /\ sql' = [sql EXCEPT !.advice = SqlSyncRecommendations(@, sql.findings)]
    /\ Called("sync_recommendations", TRUE, TRUE) /\ Quiet /\ UNCHANGED <<noted, skewed>>

-----------------------------------------------------------------------------
(* Snapshots.                                                              *)

\* A second one of a channel and time is kept next to the first in
\* MemoryStorage and takes its place in SqliteStorage.
SaveSnapshot(c, ts, status) ==
    LET mine == {r \in Range(mem.snaps) : r.channel = c}
    IN  /\ focus = "snapshots" /\ MayCall
        /\ Len(mem.snaps) < MaxSnapshots /\ Cardinality(sql.snaps) < MaxSnapshots
        /\ mem' = [mem EXCEPT !.snaps = Append(@, Snapshot(c, ts, status))]
        /\ sql' = [sql EXCEPT !.snaps = SqlSaveSnapshot(@, Snapshot(c, ts, status))]
        /\ noted' = noted \cup (IF \E r \in mine : r.ts > ts THEN {"out_of_order"} ELSE {})
                          \cup (IF \E r \in mine : r.ts = ts THEN {"replaced"} ELSE {})
        /\ Called("save_snapshot", TRUE, TRUE) /\ Quiet /\ UNCHANGED skewed

\* prune_channel_snapshots opens a transaction of its own, which SQLite refuses
\* inside another; MemoryStorage prunes.
PruneNested(policy, now) ==
    /\ focus = "snapshots" /\ saved.open /\ MayCall
    /\ mem' = [mem EXCEPT !.snaps = MemPrune(@, Channels, policy, now)]
    /\ noted' = noted \cup {"nested"}
    /\ Called("prune_nested", TRUE, FALSE) /\ Quiet /\ UNCHANGED <<sql, skewed>>

\* Outside it begins; of an empty table nothing is deleted.
PruneBegins(policy, now) ==
    /\ focus = "snapshots" /\ ~saved.open /\ MayCall /\ sql.snaps # {}
    /\ pass' = [stage |-> "age", policy |-> policy, now |-> now, before |-> sql.snaps]
    /\ UNCHANGED <<focus, mem, sql, saved, calls, result, noted, skewed>>

\* Rows the statement of the stage may delete.
Prunable ==
    CASE pass.stage = "age" -> SqlAged(sql.snaps, pass.policy, pass.now)
      [] pass.stage = "cap" -> SqlOverCap(sql.snaps, pass.policy)
      [] pass.stage = "total" -> SqlOverTotal(sql.snaps, pass.policy)

PruneDeletes ==
    /\ pass # NoPass
    /\ \E r \in Prunable : sql' = [sql EXCEPT !.snaps = @ \ {r}]
    /\ noted' = IF pass.stage = "total" /\ CutsTie(sql.snaps, pass.policy)
                THEN noted \cup {"tie"} ELSE noted
    /\ UNCHANGED <<focus, mem, saved, calls, pass, result, skewed>>

\* A statement deleted nothing: the next loop.
PruneAdvances ==
    /\ pass # NoPass /\ Prunable = {} /\ pass.stage # "total"
    /\ pass' = [pass EXCEPT !.stage = IF @ = "age" THEN "cap" ELSE "total"]
    /\ UNCHANGED <<focus, mem, sql, saved, calls, result, noted, skewed>>

PruneCommits ==
    /\ pass # NoPass /\ Prunable = {} /\ pass.stage = "total"
    /\ mem' = [mem EXCEPT !.snaps = MemPrune(@, Channels, pass.policy, pass.now)]
    /\ noted' = noted \cup {"pruned"}
                      \cup (IF 0 \in {pass.policy.cap, pass.policy.total} THEN {"zero_cap"} ELSE {})
    /\ pass' = NoPass
    /\ Called("prune", TRUE, TRUE)
    /\ UNCHANGED <<focus, sql, saved, calls, skewed>>

\* A fault: the transaction guard rolls back.  MemoryStorage, which has none,
\* is not called.
PruneFails ==
    /\ pass # NoPass
    /\ sql' = [sql EXCEPT !.snaps = pass.before]
    /\ pass' = NoPass
    /\ Called("prune", FALSE, FALSE)
    /\ UNCHANGED <<focus, mem, saved, calls, noted, skewed>>

-----------------------------------------------------------------------------
(* Simulations, their events and webhook events.                           *)

\* One table holds both kinds: an id of either kind is taken for both in
\* SqliteStorage only.
SaveRun(rec) ==
    LET m == MemSaveRun(mem.runs, rec)
        q == SqlSaveRun(sql.runs, rec)
        taken == \E s \in Range(mem.sims) : s.id = rec.id
    IN  /\ focus \in {"runs", "events"} /\ MayCall
        /\ mem' = [mem EXCEPT !.runs = m.table]
        /\ sql' = [sql EXCEPT !.runs = q.table]
        /\ noted' = noted \cup (IF ValidateRun(rec) THEN {} ELSE {"invalid"})
                          \cup (IF taken THEN {"taken"} ELSE {})
        /\ Called(CASE ~ValidateRun(rec) -> "save_invalid_run"
                     [] ValidateRun(rec) /\ rec \in sql.runs -> "save_run_again"
                     [] ValidateRun(rec) /\ rec \notin sql.runs ->
                           IF taken THEN "save_run_taken" ELSE "save_run", m.ok, q.ok)
        /\ Quiet /\ UNCHANGED skewed

\* MemoryStorage takes the same one, or one with the id of a run, again.
SaveSimulation(sim) ==
    LET q == SqlSaveSimulation(sql.runs, sim)
    IN  /\ focus = "runs" /\ MayCall
        /\ mem' = [mem EXCEPT !.sims = Append(@, sim)]
        /\ sql' = [sql EXCEPT !.runs = q.table]
        /\ noted' = IF q.ok THEN noted ELSE noted \cup {"taken"}
        /\ Called(IF q.ok THEN "save_simulation" ELSE "save_simulation_taken", TRUE, q.ok)
        /\ Quiet /\ UNCHANGED skewed

\* MemoryStorage takes an event of a simulation that is not there, and one
\* whose status no simulation has; that status stands for a timestamp that is
\* not RFC 3339 too.
AppendEvent(e) ==
    LET m == MemAppendEvent(mem.events, e)
        q == SqlAppendEvent(sql.events, sql.runs, e)
        orphan == \A r \in sql.runs : r.id # e.run
        invalid == ~ValidateStatus(e.status)
    IN  /\ focus = "events" /\ MayCall
        /\ mem' = [mem EXCEPT !.events = m.table]
        /\ sql' = [sql EXCEPT !.events = q.table]
        /\ noted' = noted \cup (IF orphan THEN {"orphan"} ELSE {})
                          \cup (IF invalid THEN {"invalid"} ELSE {})
        /\ Called(IF invalid THEN "append_invalid_event"
                  ELSE IF orphan THEN "append_orphan" ELSE "append_event", m.ok, q.ok)
        /\ Quiet /\ UNCHANGED skewed

\* SqliteStorage begins a transaction for it, which cannot be nested.
Enqueue(d, at) ==
    /\ focus = "queue" /\ MayCall
    /\ mem' = [mem EXCEPT !.queue = Enqueued(@, d, at), !.seen = MemDelivered(@, d, at)]
    /\ sql' = IF saved.open THEN sql
              ELSE [sql EXCEPT !.queue = Enqueued(@, d, at), !.seen = SqlDelivered(@, d, at)]
    /\ noted' = IF saved.open THEN noted \cup {"nested"} ELSE noted
    /\ Called(IF saved.open THEN "enqueue_nested" ELSE "enqueue", TRUE, ~saved.open)
    /\ Quiet /\ UNCHANGED skewed

\* record_webhook_delivery: the ledger alone.
RecordDelivery(d, at) ==
    /\ focus = "queue" /\ MayCall
    /\ mem' = [mem EXCEPT !.seen = MemRecordDelivery(@, d, at)]
    /\ sql' = [sql EXCEPT !.seen = SqlRecordDelivery(@, d, at)]
    /\ Called("record_delivery", TRUE, TRUE) /\ Quiet /\ UNCHANGED <<noted, skewed>>

MarkProcessed(d, at) ==
    LET m == MemMark(mem.queue, d, at)
        q == SqlMark(sql.queue, d, at)
        again == d \in Processed(sql.queue)
    IN  /\ focus = "queue" /\ MayCall
        /\ mem' = [mem EXCEPT !.queue = m.table]
        /\ sql' = [sql EXCEPT !.queue = q.table]
        /\ noted' = IF again THEN noted \cup {"remarked"} ELSE noted
        /\ Called(IF again THEN "mark_again" ELSE "mark", m.ok, q.ok)
        /\ Quiet /\ UNCHANGED skewed

-----------------------------------------------------------------------------
(* Operational state, alert state and audit log.                           *)

UpdateState(field, value) ==
    /\ focus = "operational" /\ MayCall
    /\ mem' = [mem EXCEPT !.state = Changed(@, field, value)]
    /\ sql' = [sql EXCEPT !.state = SqlWriteState(@, Changed(SqlReadState(@), field, value))]
    /\ Called("update_operational_state", TRUE, TRUE) /\ Quiet /\ UNCHANGED <<noted, skewed>>

WriteAlert(state) ==
    /\ focus = "alerts" /\ MayCall
    /\ mem' = [mem EXCEPT !.alert = state]
    /\ sql' = [sql EXCEPT !.alert = SqlWriteAlert(state)]
    /\ Called("write", TRUE, TRUE) /\ Quiet /\ UNCHANGED <<noted, skewed>>

\* The log of an action, each entry with the stage before it.  MemoryStorage
\* keeps two of one id.
AppendAudit(id, stage, ts) ==
    LET previous == IF mem.audit = <<>> THEN "none" ELSE Last(mem.audit).stage
        entry == Audit(id, previous, stage, ts)
        taken == AuditTaken(sql.audit, id)
    IN  /\ focus = "audit" /\ MayCall /\ Len(mem.audit) < MaxAudit
        /\ mem' = [mem EXCEPT !.audit = Append(@, entry)]
        /\ sql' = IF taken THEN sql ELSE [sql EXCEPT !.audit = Append(@, SqlAuditRow(entry))]
        /\ noted' = IF taken THEN noted \cup {"taken"} ELSE noted
        /\ Called(IF taken THEN "append_audit_again" ELSE "append_audit", TRUE, ~taken)
        /\ Quiet /\ UNCHANGED skewed

-----------------------------------------------------------------------------

Init ==
    /\ focus \in Focuses
    /\ mem = [findings |-> EmptyMemFindings, advice |-> EmptyAdvice, snaps |-> <<>>, runs |-> <<>>,
              sims |-> <<>>, events |-> <<>>, queue |-> <<>>, seen |-> <<>>, state |-> DefaultState, alert |-> NoAlert, audit |-> <<>>]
    /\ sql = [findings |-> EmptySqlFindings, advice |-> EmptyAdvice, snaps |-> {}, runs |-> {},
              events |-> {}, queue |-> <<>>, seen |-> {}, state |-> NoRow, alert |-> SqlWriteAlert(NoAlert), audit |-> <<>>]
    /\ saved = NoTx /\ calls = 0 /\ pass = NoPass
    /\ result = Agreed
    /\ noted = {} /\ skewed = {}

Next ==
    \/ BeginTransaction \/ CommitTransaction \/ RollbackTransaction
    \/ \E id \in FindingIds, at \in Times : SaveFinding(id, at)
    \/ \E complete \in BOOLEAN : ResolveFindings(complete)
    \/ \E id \in FindingIds : SaveRecommendation(id) \/ SetStage(id) \/ ResolveAdvice(id)
    \/ SyncAdvice
    \/ \E c \in Range(Channels), ts \in SnapTimes, status \in Statuses : SaveSnapshot(c, ts, status)
    \/ \E policy \in Policies, now \in SnapTimes : PruneBegins(policy, now) \/ PruneNested(policy, now)
    \/ PruneDeletes \/ PruneAdvances \/ PruneCommits \/ PruneFails
    \/ \E rec \in Runs : SaveRun(rec)
    \/ \E sim \in Sims : SaveSimulation(sim)
    \/ \E e \in Events : AppendEvent(e)
    \/ \E d \in Deliveries, at \in Times : Enqueue(d, at) \/ RecordDelivery(d, at) \/ MarkProcessed(d, at)
    \/ \E source \in Sources : UpdateState("source", source)
    \/ \E component \in Components : UpdateState("alert_sink", component)
    \/ \E state \in AlertStates(Times) : WriteAlert(state)
    \/ \E id \in 1..MaxAudit, stage \in DOMAIN StageText, ts \in Times : AppendAudit(id, stage, ts)

Spec == Init /\ [][Next]_vars

-----------------------------------------------------------------------------
(* Properties.                                                             *)

\* Both backends count absence alike, one in a map that the third cycle
\* empties, the other in a column with two statements: a finding has the same
\* times and severity always, and the same lifecycle and counter unless a rollback or an
\* observation older than the recorded one came in between.
FindingsAgree ==
    \A id \in FindingIds :
        LET m == {r \in Range(mem.findings.rows) : r.id = id}
            q == {RowToFinding(r) : r \in {x \in sql.findings.rows : x.id = id}}
        IN  /\ {<<r.first, r.last, r.severity>> : r \in m} = {<<r.first, r.last, r.severity>> : r \in q}
            /\ id \notin skewed => m = q /\ mem.findings.absent[id] = sql.findings.absent[id]

\* A recommendation has the same lifecycle and stage in both through
\* approvals, resolutions and rollbacks, unless its finding is counted
\* differently, and the lists of all and of the active ones show the same at
\* every limit; unless one that had moved on or was not the newest was saved
\* again.
AdviceAgrees ==
    "resaved" \notin noted =>
        /\ \A id \in FindingIds \ skewed : mem.advice[id] = RowToRecommendation(sql.advice[id])
        /\ skewed = {} =>
              \A active \in BOOLEAN, limit \in 1..2 :
                  MemLatestRecommendations(mem.advice, active, limit)
                      = SqlLatestRecommendations(sql.advice, active, limit)

\* A list of findings with a limit shows the same ones in both as long as the
\* order of insertion is that of the last observations; one seen again moves
\* to the front in SqliteStorage only.
ListsAgree ==
    LET rows == mem.findings.rows
        ordered == \A j, k \in DOMAIN rows : j < k => rows[j].last < rows[k].last
    IN  ordered /\ skewed = {} =>
          \A filter \in {"all", "active", "resolved"}, limit \in 1..2 :
              MemLatestFindings(mem.findings, filter, limit)
                  = SqlLatestFindings(sql.findings, filter, limit)

\* A pruning pass leaves the same snapshots in both: the three loops of
\* statements delete what the policy says whatever rows each statement
\* picks, and an error in any of them deletes nothing; unless a total cap
\* cuts through one time, a cap is zero, the pass was asked for inside a
\* transaction, or a channel was saved twice at one time.
SnapshotsAgree ==
    pass = NoPass /\ noted \cap {"tie", "zero_cap", "nested", "replaced"} = {} =>
        /\ \A c \in Range(Channels), ts \in SnapTimes :
              MemSnapshotAt(mem.snaps, c, ts) = SqlSnapshotAt(sql.snaps, c, ts)
        /\ Len(mem.snaps) = Cardinality(sql.snaps)

\* The history of a channel, and that of all, is read in the same order from
\* both until the first pruning pass, if it was saved in order.
HistoryAgrees ==
    noted = {} /\ pass = NoPass =>
        \A limit \in 1..2 :
            /\ \A c \in Range(Channels) : MemRecent(mem.snaps, c, limit) = SqlRecent(sql.snaps, c, limit)
            /\ (\A j, k \in DOMAIN mem.snaps : j < k => mem.snaps[j].ts < mem.snaps[k].ts) =>
                  MemRecentAll(mem.snaps, limit) = SqlRecentAll(sql.snaps, limit)

InCreationOrder(list) == \A j, k \in DOMAIN list : j < k => list[j].created < list[k].created

\* The runs are the same and every row can be read back; the lookup by input
\* finds in memory one that the query may return; the lists of replayable
\* runs leave the rows without input out before they are cut, so that the
\* simulations of the first kind in the same table do not change them; the
\* lookup by id finds one of those in SqliteStorage only, and the other lists
\* agree where there are none.  Unless a record SqliteStorage refuses was
\* saved, or an id that was taken.
RunsAgree ==
    noted \cap {"invalid", "taken"} = {} =>
        /\ Range(mem.runs) = {r \in sql.runs : r.model # "legacy"}
        /\ SqlLatestRuns(sql.runs, Cardinality(sql.runs)).ok
        /\ \A hash \in {r.hash : r \in Runs} :
              LET found == MemRunByInput(mem.runs, hash)
              IN  found \subseteq SqlRunByInput(sql.runs, hash)
                  /\ (found = {} => SqlRunByInput(sql.runs, hash) = {})
        /\ \A r \in Runs : /\ MemReplayableById(mem.runs, r.id) = SqlReplayableById(sql.runs, r.id)
                           /\ SqlRunById(sql.runs, r.id) =
                                 MemRunById(mem.runs, r.id)
                                    \cup {LegacyRow(s) : s \in {x \in Range(mem.sims) : x.id = r.id}}
        /\ InCreationOrder(mem.runs) =>
              /\ \A limit \in 1..2 : MemReplayable(mem.runs, limit) = SqlReplayable(sql.runs, limit).list
              /\ mem.sims = <<>> =>
                    /\ \A limit \in 1..2 : MemLatestRuns(mem.runs, limit) = SqlLatestRuns(sql.runs, limit).list
                    /\ \A r \in Runs : MemForAction(mem.runs, r.action) = SqlForAction(sql.runs, r.action).list

\* The simulations of the first kind are told apart from the runs in their
\* table: their lists agree whatever runs were saved in between, and the
\* counts of the status page add up to both.  Unless an id was taken.
SimulationsApart ==
    /\ "taken" \notin noted /\ InCreationOrder(mem.sims) =>
          /\ \A limit \in 1..2 : MemLatestRuns(mem.sims, limit) = SqlLatestSimulations(sql.runs, limit)
          /\ \A sim \in Sims :
                MemForAction(mem.sims, sim.action) = SqlSimulationsForAction(sql.runs, sim.action)
    /\ LET counts == SqlStatusCounts(sql.runs)
       IN  /\ counts.completed + counts.failed + counts.stale + counts.other = SqlCountSimulations(sql.runs)
           /\ noted \cap {"invalid", "taken"} = {} =>
                 SqlCountSimulations(sql.runs) = MemCountSimulations(mem.runs, mem.sims)

\* The events of a run are the same in both, in the same order if they were
\* appended in the order of their times, and SqliteStorage has no event that
\* its next read would refuse, nor one of a run it does not have, whatever was
\* rolled back.
EventsAgree ==
    /\ \A e \in sql.events : ValidateStatus(e.status) /\ \E r \in sql.runs : r.id = e.run
    /\ noted \cap {"invalid", "orphan"} = {} =>
          /\ Range(mem.events) = sql.events
          /\ (\A j, k \in DOMAIN mem.events : j < k => mem.events[j].ts < mem.events[k].ts) =>
                \A e \in Events : MemEvents(mem.events, e.run) = SqlEvents(sql.events, e.run)

\* The queue is the same and its two lists show the same events in the same
\* order at every limit, zero included; every event in it is also in the
\* ledger that answers repeated deliveries, which is the same.
QueueAgrees ==
    noted \cap {"remarked", "nested"} = {} =>
        /\ mem.queue = sql.queue
        /\ \A d \in Deliveries : MemIsProcessed(mem.seen, d) = SqlIsProcessed(sql.seen, d)
        /\ \A d \in DOMAIN sql.queue : SqlIsProcessed(sql.seen, d)
        /\ \A limit \in 0..2 :
              /\ MemPendingEvents(mem.queue, limit) = SqlPendingEvents(sql.queue, limit)
              /\ MemProcessedEvents(mem.queue, limit) = SqlProcessedEvents(sql.queue, limit)

\* What SQLite parses from its columns is the value MemoryStorage keeps,
\* whatever was in the row before and however often a transaction was rolled
\* back: no write leaves a row that the next read refuses.  The audit log is
\* listed the same if it was appended in the order of its times, unless an id
\* was taken.
StatesAgree ==
    /\ SqlReadState(sql.state) = mem.state
    /\ SqlReadAlert(sql.alert) = mem.alert
    /\ /\ "taken" \notin noted
       /\ \A j, k \in DOMAIN mem.audit : j < k => mem.audit[j].ts < mem.audit[k].ts
       => \A limit \in 1..2 : SqlRecentAudit(sql.audit, limit) = MemRecentAudit(mem.audit, limit)

\* Calls that MemoryStorage accepts and SqliteStorage refuses: it validates
\* runs and events, has primary and foreign keys (one for both kinds of
\* simulation), marks an event once, and nests no transaction.
RefusedBySqlite ==
    {"save_invalid_run", "append_invalid_event",
     "save_run_again", "save_run_taken", "save_simulation_taken", "append_audit_again", "append_orphan",
     "mark_again", "enqueue_nested", "prune_nested"}

\* A call that SqliteStorage accepts is accepted by MemoryStorage, and the
\* other way round but for those.
ResultsAgree ==
    result.mem # result.sql => result.mem /\ result.call \in RefusedBySqlite

\* The lifecycle is the same on both backends: findings, their absence counts,
\* their advice, and what their lists show.
LifecycleAgrees == FindingsAgree /\ AdviceAgrees /\ ListsAgree

\* So are the channel snapshots, and the histories read from them, through
\* retention that fails between any two statements.
RetentionAgrees == SnapshotsAgree /\ HistoryAgrees

\* So are runs and simulations, events, the queue, the rows of state, and the
\* results of all calls.
RecordsAgree ==
    /\ RunsAgree /\ SimulationsApart /\ EventsAgree
    /\ QueueAgrees /\ StatesAgree /\ ResultsAgree
=============================================================================
