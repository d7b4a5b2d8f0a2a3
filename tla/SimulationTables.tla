-------------------------- MODULE SimulationTables --------------------------
(***************************************************************************)
(* Simulations and their events in MemoryStorage (storage.rs), which keeps *)
(* the first kind and the second kind (ADR-0005) in two vectors, and in    *)
(* SqliteStorage (sqlite.rs), which keeps both in one table.  Pure         *)
(* operators, which module StorageBackends uses.  An operation returns the *)
(* new table and whether the call was Ok.                                  *)
(*                                                                         *)
(* Data abstraction.  A run has its id and action, its model, its          *)
(* canonical input (or NoInput), the input its hash was made from, its     *)
(* status, whether it has a projection, and created_at; a simulation of    *)
(* the first kind its id, action and created_at.                           *)
(***************************************************************************)
EXTENDS Listings

Ok(table) == [table |-> table, ok |-> TRUE]
Error(table) == [table |-> table, ok |-> FALSE]

NoInput == "null"

Run(id, action, input, hash, status, projected, created) ==
    [id |-> id, action |-> action, model |-> "v2", input |-> input, hash |-> hash, status |-> status,
     projected |-> projected, created |-> created]

Simulation(id, action, created) == [id |-> id, action |-> action, created |-> created]

Event(id, run, status, ts) == [id |-> id, run |-> run, status |-> status, ts |-> ts]

InputTaken(runs, rec) ==
    /\ rec.input # NoInput /\ rec.projected
    /\ \E r \in runs : r.hash = rec.hash /\ r.input # NoInput /\ r.projected

ValidateStatus(status) ==
    status \in {"requested", "completed", "unsupported", "invalid_input", "stale", "failed"}

\* validate_simulation_record: the hash is that of the input, and the status
\* says whether there is a projection.
ValidateRun(rec) ==
    /\ ValidateStatus(rec.status)
    /\ rec.input # NoInput => rec.hash = rec.input
    /\ rec.status = "completed" => rec.projected
    /\ rec.status \in {"unsupported", "invalid_input", "failed"} => ~rec.projected

-----------------------------------------------------------------------------
(* MemoryStorage.                                                          *)

\* Not validated; the same record again is accepted.
MemSaveRun(list, rec) ==
    IF \E r \in Range(list) : r.id = rec.id
    THEN IF rec \in Range(list) THEN Ok(list) ELSE Error(list)
    ELSE IF InputTaken(Range(list), rec) THEN Error(list) ELSE Ok(Append(list, rec))

\* max_by_key: the last of the newest.
MemRunByInput(list, hash) ==
    LET mine == {k \in DOMAIN list : list[k].hash = hash /\ list[k].input # NoInput}
        newest == {k \in mine : \A j \in mine : list[j].created <= list[k].created}
    IN  IF mine = {} THEN {} ELSE {list[Max(newest)]}

MemReplayable(list, limit) ==
    First(LastFirst(list, {k \in DOMAIN list : list[k].input # NoInput}), limit)

MemReplayableById(list, id) == {r \in Range(list) : r.id = id /\ r.input # NoInput}

MemRunById(list, id) == {r \in Range(list) : r.id = id}

\* recent_simulations_v2, and recent_simulations of the other vector.
MemLatestRuns(list, limit) == First(Reverse(list), limit)

\* Those of one action, for either kind.
MemForAction(list, action) == LastFirst(list, {k \in DOMAIN list : list[k].action = action})

MemAppendEvent(events, e) ==
    IF \E x \in Range(events) : x.id = e.id THEN Error(events) ELSE Ok(Append(events, e))

MemEvents(events, run) == Kept(events, {k \in DOMAIN events : events[k].run = run})

\* The counts of the trait: the lists up to COUNT_CAP, no status.
MemCountSimulations(list, sims) == Len(list) + Len(sims)

-----------------------------------------------------------------------------
(* SqliteStorage.                                                          *)

\* The primary key, and the partial unique index on the input.
SqlSaveRun(runs, rec) ==
    IF ~ValidateRun(rec) \/ (\E r \in runs : r.id = rec.id) \/ InputTaken(runs, rec)
    THEN Error(runs) ELSE Ok(runs \cup {rec})

\* Defaults of the columns that save_simulation leaves out.
LegacyRow(sim) ==
    [id |-> sim.id, action |-> sim.action, model |-> "legacy", input |-> NoInput, hash |-> "",
     status |-> "completed", projected |-> TRUE, created |-> sim.created]

SqlSaveSimulation(runs, sim) ==
    IF \E r \in runs : r.id = sim.id THEN Error(runs) ELSE Ok(runs \cup {LegacyRow(sim)})

RowToSimulation(r) == [id |-> r.id, action |-> r.action, created |-> r.created]

\* row_to_simulation_v2 validates the record again; one that is refused
\* fails the whole query.
RowsToRuns(list) ==
    [ok |-> \A r \in Range(list) : ValidateRun(r), list |-> list]

ByCreated(runs) == Listed(runs, {p \in runs \X runs : p[1].created > p[2].created})

\* ORDER BY created_at DESC LIMIT 1: any of the newest.
SqlRunByInput(runs, hash) ==
    LET mine == {r \in runs : r.hash = hash /\ r.input # NoInput}
    IN  {r \in mine : \A s \in mine : s.created <= r.created}

SqlReplayable(runs, limit) ==
    RowsToRuns(First(ByCreated({r \in runs : r.input # NoInput}), limit))

SqlReplayableById(runs, id) == {r \in runs : r.id = id /\ r.input # NoInput}

SqlRunById(runs, id) == {r \in runs : r.id = id}

\* Every row of the table, those of the first kind too.
SqlLatestRuns(runs, limit) == RowsToRuns(First(ByCreated(runs), limit))

SqlForAction(runs, action) == RowsToRuns(ByCreated({r \in runs : r.action = action}))

SqlLatestSimulations(runs, limit) ==
    First(ByCreated({RowToSimulation(r) : r \in {x \in runs : x.model = "legacy"}}), limit)

SqlSimulationsForAction(runs, action) ==
    ByCreated({RowToSimulation(r) : r \in {x \in runs : x.model = "legacy" /\ x.action = action}})

\* Faulty variant: no foreign key.
SqlAppendOrphan(events, runs, e) ==
    IF ~ValidateStatus(e.status) \/ (\E x \in events : x.id = e.id)
    THEN Error(events) ELSE Ok(events \cup {e})

\* The primary key, and the foreign key to the simulation.
SqlAppendEvent(events, runs, e) ==
    IF ~ValidateStatus(e.status) \/ (\E x \in events : x.id = e.id) \/ ~\E r \in runs : r.id = e.run
    THEN Error(events) ELSE Ok(events \cup {e})

\* ORDER BY ts; the rows of one time are in any order.
SqlEvents(events, run) ==
    LET mine == {e \in events : e.run = run}
    IN  Listed(mine, {p \in mine \X mine : p[1].ts < p[2].ts})

\* COUNT(*) GROUP BY status.
SqlStatusCounts(runs) ==
    LET count(statuses) == Cardinality({r \in runs : r.status \in statuses})
        failed == {"failed", "invalid_input", "unsupported"}
    IN  [completed |-> count({"completed"}), failed |-> count(failed), stale |-> count({"stale"}),
         other |-> Cardinality({r \in runs : r.status \notin failed \cup {"completed", "stale"}})]

SqlCountSimulations(runs) == Cardinality(runs)
=============================================================================
