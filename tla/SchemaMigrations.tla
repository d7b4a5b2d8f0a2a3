-------------------------- MODULE SchemaMigrations --------------------------
(***************************************************************************)
(* The migration history of crates/rieko-storage/src/migrations.rs: what   *)
(* each step needs of a schema and makes of it.                            *)
(*                                                                         *)
(* Data abstraction.  A schema is a set of pairs <<table, v>>: the table   *)
(* exists (v = 1), and has the columns, indexes and triggers step v gives  *)
(* it.  Rows are kept by every step, but for the findings that step 11     *)
(* resolves.                                                               *)
(***************************************************************************)
EXTENDS Naturals, Sequences

CURRENT_SCHEMA_VERSION == 17

\* create: CREATE TABLE IF NOT EXISTS, with the columns the statement lists;
\* add: ALTER TABLE ADD COLUMN, or CREATE without IF NOT EXISTS.
Step(create, add) == [create |-> create, add |-> add]

Tables(names) == {<<t, 1>> : t \in names}

\* Version 1: the first release's tables.
FirstSchema == <<
    Step(Tables({"findings", "recommendations", "audit", "snapshots", "simulations", "alert_state",
                 "operational_state"}), {}) >>

\* Versions 2 to 9: metadata columns, added one table at a time.
MetadataSteps == <<
    Step({}, {<<"findings", 2>>}),
    Step({}, {<<"audit", 3>>}),
    Step(Tables({"operational_state"}), {}),
    Step({}, {<<"recommendations", 5>>}),
    Step({}, {<<"operational_state", 6>>}),
    Step(Tables({"snapshots"}), {<<"snapshots", 7>>}),
    Step({}, {<<"simulations", 8>>}),
    Step({}, {<<"findings", 9>>}) >>

\* Versions 10 and 11: snapshot identity, replayable simulations, networks.
IdentitySteps == <<
    Step({<<"snapshots", 1>>, <<"snapshots", 7>>},
         {<<"snapshots", 10>>, <<"simulations", 10>>, <<"simulation_events", 1>>}),
    Step({}, {<<"snapshots", 11>>, <<"findings", 11>>}) >>

\* Versions 12 to 17: hysteresis, webhooks, recommendation and agent state.
LatestSteps == <<
    Step({}, {<<"findings", 12>>}),
    Step(Tables({"webhook_deliveries"}), {}),
    Step(Tables({"recommendations"}), {<<"recommendations", 14>>}),
    Step(Tables({"webhook_events"}), {}),
    Step({}, {<<"operational_state", 16>>}),
    Step({}, {<<"operational_state", 17>>}) >>

MIGRATIONS == FirstSchema \o MetadataSteps \o IdentitySteps \o LatestSteps

\* IF NOT EXISTS: nothing of a table that is there.
Created(cols, create) == cols \cup {c \in create : <<c[1], 1>> \notin cols}

\* Steps 16 and 17 are left out of a database without operational state.
Skipped(v, cols) == v \in {16, 17} /\ <<"operational_state", 1>> \notin cols

\* SQLite refuses a column that exists, and one of a missing table.
Refuses(v, cols) ==
    LET made == Created(cols, MIGRATIONS[v].create)
    IN  /\ ~Skipped(v, cols)
        /\ \E c \in MIGRATIONS[v].add : c \in made \/ (c[2] # 1 /\ <<c[1], 1>> \notin made)

\* The schema a step makes of one.
Migrated(v, cols) ==
    IF Skipped(v, cols) THEN cols
    ELSE Created(cols, MIGRATIONS[v].create) \cup MIGRATIONS[v].add

\* apply: the step's SQL and user_version.
Applied(v, schema) ==
    [schema EXCEPT
        !.version = v,
        !.cols = Migrated(v, @),
        !.active = IF v = 11 THEN @ \ {"unknown_network"} ELSE @]

\* What the releases up to version v have made.
Release[v \in 0..CURRENT_SCHEMA_VERSION] ==
    IF v = 0 THEN [version |-> 0, cols |-> {}, active |-> {}]
    ELSE Applied(v, Release[v - 1])
=============================================================================
