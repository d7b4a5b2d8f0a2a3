---------------------------- MODULE StateTables -----------------------------
(***************************************************************************)
(* The rows of the operational state, of the alert state and of the audit  *)
(* log, and the columns SqliteStorage (sqlite.rs) writes their enumerations*)
(* to and parses them back from.  MemoryStorage (storage.rs) keeps the     *)
(* values.  Pure operators, which module StorageBackends uses.             *)
(*                                                                         *)
(* Data abstraction.  Of the operational state, the source and one         *)
(* component; one alert; an audit entry has its id, stages and time.       *)
(***************************************************************************)
EXTENDS Listings

Null == -1
Corrupt == "corrupt"

\* Severity, as the integer of a column.
SeverityInt == [Info |-> 0, Warning |-> 1, Critical |-> 2]

SeverityFromInt(n) ==
    IF n \in Range(SeverityInt) THEN CHOOSE s \in DOMAIN SeverityInt : SeverityInt[s] = n ELSE Corrupt

\* ActionStage, as its Debug name.
StageText ==
    [recommended |-> "Recommended", simulated |-> "Simulated", approved |-> "Approved",
     executed |-> "Executed", rejected |-> "Rejected", failed |-> "Failed"]

ParseActionStage(text) ==
    IF text \in Range(StageText) THEN CHOOSE s \in DOMAIN StageText : StageText[s] = text ELSE Corrupt

-----------------------------------------------------------------------------
(* Operational state.                                                      *)

\* SourceState: a fixture has no connection state of its own.
Sources ==
    {[kind |-> "fixture", connected |-> TRUE]} \cup [kind : {"lnd_rest", "btcpay_greenfield"}, connected : BOOLEAN]

\* ComponentState and its text.
ComponentStr ==
    [NotConfigured |-> "not_configured", Configured |-> "configured",
     Healthy |-> "healthy", Failing |-> "failing"]
Components == DOMAIN ComponentStr

ParseComponent(text) ==
    IF text \in Range(ComponentStr)
    THEN CHOOSE s \in Components : ComponentStr[s] = text ELSE Corrupt

DefaultState == [source |-> [kind |-> "fixture", connected |-> TRUE], alert_sink |-> "NotConfigured"]

\* No row yet.
NoRow == [source |-> "none"]

SourceConnected(source) ==
    IF source.kind = "fixture" THEN Null ELSE IF source.connected THEN 1 ELSE 0

\* write_operational_state: every column is replaced.
SqlWriteState(row, state) ==
    [source |-> state.source.kind, alert_sink |-> ComponentStr[state.alert_sink],
     connected |-> SourceConnected(state.source)]

\* A source and its connection state must fit.
ParseSource(kind, connected) ==
    CASE kind = "fixture" /\ connected = Null -> [kind |-> kind, connected |-> TRUE]
      [] kind \in {"lnd_rest", "btcpay_greenfield"} /\ connected \in {0, 1} ->
            [kind |-> kind, connected |-> connected = 1]
      [] OTHER -> [kind |-> Corrupt, connected |-> FALSE]

\* read_operational_state, with the default of a missing row.
SqlReadState(row) ==
    IF row = NoRow THEN DefaultState
    ELSE [source |-> ParseSource(row.source, row.connected), alert_sink |-> ParseComponent(row.alert_sink)]

\* The closure of update_operational_state: it sets one field.
Changed(state, field, value) ==
    IF field = "source" THEN [state EXCEPT !.source = value] ELSE [state EXCEPT !.alert_sink = value]

-----------------------------------------------------------------------------
(* Alert state and audit log.                                              *)

\* DeliveryStatus and its text.
StatusStr == [None |-> "none", Success |-> "success", Failed |-> "failed", Skipped |-> "skipped"]

ParseDeliveryStatus(text) ==
    IF text \in Range(StatusStr) THEN CHOOSE s \in DOMAIN StatusStr : StatusStr[s] = text ELSE Corrupt

AlertStates(times) ==
    [sent : {Null}, severity : {"none"}, status : {"None", "Failed", "Skipped"}]
    \cup [sent : times, severity : DOMAIN SeverityInt, status : {"Success", "Failed", "Skipped"}]

NoAlert == [sent |-> Null, severity |-> "none", status |-> "None"]

SqlWriteAlert(state) ==
    [sent |-> state.sent,
     severity |-> IF state.severity = "none" THEN Null ELSE SeverityInt[state.severity],
     status |-> StatusStr[state.status]]

SqlReadAlert(row) ==
    [sent |-> row.sent,
     severity |-> IF row.severity = Null THEN "none" ELSE SeverityFromInt(row.severity),
     status |-> ParseDeliveryStatus(row.status)]

Audit(id, previous, stage, ts) == [id |-> id, previous |-> previous, stage |-> stage, ts |-> ts]

\* The primary key.
AuditTaken(rows, id) == \E k \in DOMAIN rows : rows[k].id = id

SqlAuditRow(entry) ==
    [id |-> entry.id,
     previous |-> IF entry.previous = "none" THEN "none" ELSE StageText[entry.previous],
     stage |-> StageText[entry.stage], ts |-> entry.ts]

AuditOfRow(row) ==
    [id |-> row.id,
     previous |-> IF row.previous = "none" THEN "none" ELSE ParseActionStage(row.previous),
     stage |-> ParseActionStage(row.stage), ts |-> row.ts]

MemRecentAudit(list, limit) == First(Reverse(list), limit)

\* ORDER BY ts DESC LIMIT.
SqlRecentAudit(rows, limit) ==
    LET ks == DOMAIN rows
        newest == Listed(ks, {p \in ks \X ks : rows[p[1]].ts > rows[p[2]].ts})
        sorted == Picked(rows, First(newest, limit))
    IN  [k \in DOMAIN sorted |-> AuditOfRow(sorted[k])]
=============================================================================
