--------------------------- MODULE DatabaseAccess ---------------------------
(***************************************************************************)
(* Processes that share one database file: monitor, agent, scan and the    *)
(* other commands.  Each opens the file and migrates it                    *)
(* (crates/rieko-storage/src/migrations.rs, sqlite.rs), takes the advisory *)
(* writer lock if it is a monitor or an agent with an integration          *)
(* (monitor.rs, agent.rs), and then writes: whole cycles in a transaction, *)
(* Greenfield snapshots in one, updates of the operational state in one of *)
(* their own, and single statements.  COMMIT and ROLLBACK may fail, SQLite *)
(* may roll a transaction back by itself on an error, and a process may be *)
(* killed at any step.                                                     *)
(*                                                                         *)
(* At most one write transaction is open in a WAL database, so one copy of *)
(* the database, work, is that of the holder.                              *)
(***************************************************************************)
EXTENDS SchemaMigrations

CONSTANTS
    Procs,       \* processes
    NoProc,      \* none of them
    Lockers,     \* those that take the writer lock
    Daemons,     \* those that go on after a storage error (the agent)
    Pollers,     \* those that persist Greenfield snapshots
    Databases,   \* databases found at the first start
    Schemas,     \* versions and schemas of databases, at rest and between two steps
    MaxStarts,   \* bound on the starts of each process
    MaxOps       \* bound on its operations after a start

ASSUME AccessAssumption ==
    /\ NoProc \notin Procs
    /\ Lockers \subseteq Procs /\ Daemons \subseteq Procs /\ Pollers \subseteq Procs
    /\ \A d \in Databases : d.version \in 0..CURRENT_SCHEMA_VERSION
    /\ MaxStarts \in [Procs -> Nat] /\ MaxOps \in [Procs -> Nat]

\* The migrations alone, one after the other, bring every database the
\* releases have left behind to the current schema.
ASSUME SchemaAssumption ==
    /\ \A d \in Databases :
          /\ <<d.version, d.cols>> \in Schemas
          /\ d.version >= 11 => "unknown_network" \notin d.active
    /\ \A s \in Schemas :
          IF s[1] = CURRENT_SCHEMA_VERSION
          THEN <<"operational_state", 1>> \in s[2] => s[2] = Release[CURRENT_SCHEMA_VERSION].cols
          ELSE /\ ~Refuses(s[1] + 1, s[2])
               /\ <<s[1] + 1, Migrated(s[1] + 1, s[2])>> \in Schemas

VARIABLES
    db,       \* committed: schema, active legacy findings, rows written by each process
    work,     \* the holder's view inside its transaction; the database if there is none
    holder,   \* the process whose connection has the write transaction, or NoProc
    flock,    \* the process with the writer lock, or NoProc
    closing,  \* those that have let go of it and still finish what has begun
    pc,       \* where each process is
    op,       \* the operation it is in
    seen,     \* the schema version it has read
    flag,     \* in_transaction of its SqliteStorage
    acked,    \* rows it was told are written
    refused,  \* whether a step met a schema that refuses it
    faults,   \* <<operation, fault>> that left a daemon's connection unclean
    starts, ops   \* counters

vars == <<db, work, holder, flock, closing, pc, op, seen, flag, acked, refused, faults, starts, ops>>

Kinds == {"cycle", "greenfield", "update"}

TypeOK ==
    /\ db.version \in 0..CURRENT_SCHEMA_VERSION /\ work.version \in 0..CURRENT_SCHEMA_VERSION
    /\ holder \in Procs \cup {NoProc} /\ flock \in Lockers \cup {NoProc} /\ closing \subseteq Procs
    /\ pc \in [Procs -> {"down", "reading", "behind", "migrating", "opened", "idle", "begun", "written"}]
    /\ op \in [Procs -> Kinds \cup {"none"}]
    /\ seen \in [Procs -> 0..CURRENT_SCHEMA_VERSION]
    /\ flag \in [Procs -> BOOLEAN]
    /\ acked \in [Procs -> Nat]
    /\ refused \in BOOLEAN
    /\ faults \subseteq Kinds \X {"commit_failed", "rollback_failed", "auto_rollback"}
    /\ starts \in [Procs -> Nat] /\ ops \in [Procs -> Nat]

Goes(p, where) == pc' = [pc EXCEPT ![p] = where]

\* The process ends, or is killed: its connection and its lock file close.
Gone(p) ==
    /\ Goes(p, "down")
    /\ holder' = IF holder = p THEN NoProc ELSE holder
    /\ work' = IF holder = p THEN db ELSE work
    /\ flock' = IF flock = p THEN NoProc ELSE flock
    /\ closing' = closing \ {p}
    /\ flag' = [flag EXCEPT ![p] = FALSE]
    /\ op' = [op EXCEPT ![p] = "none"]
    /\ seen' = [seen EXCEPT ![p] = 0]

-----------------------------------------------------------------------------
(* Opening.                                                                *)

\* SqliteStorage::open: the file and the settings of the connection.
Start(p) ==
    /\ pc[p] = "down" /\ starts[p] < MaxStarts[p]
    /\ Goes(p, "reading")
    /\ starts' = [starts EXCEPT ![p] = @ + 1]
    /\ ops' = [ops EXCEPT ![p] = 0]
    /\ UNCHANGED <<db, work, holder, flock, closing, op, seen, flag, acked, refused, faults>>

\* The version is read without a lock; a current database needs none.
ReadVersion(p) ==
    /\ pc[p] = "reading"
    /\ seen' = [seen EXCEPT ![p] = db.version]
    /\ Goes(p, IF db.version = CURRENT_SCHEMA_VERSION THEN "opened" ELSE "behind")
    /\ UNCHANGED <<db, work, holder, flock, closing, op, flag, acked, refused, faults, starts, ops>>

\* Faulty variant: the version read before the lock is used after it.
BeginWithStaleVersion(p) ==
    /\ pc[p] = "behind" /\ holder = NoProc
    /\ holder' = p /\ work' = db
    /\ Goes(p, "migrating")
    /\ UNCHANGED <<db, flock, closing, op, seen, flag, acked, refused, faults, starts, ops>>

\* BEGIN IMMEDIATE, and the version again inside the transaction.
BeginMigration(p) ==
    /\ pc[p] = "behind" /\ holder = NoProc
    /\ holder' = p /\ work' = db
    /\ seen' = [seen EXCEPT ![p] = db.version]
    /\ Goes(p, "migrating")
    /\ UNCHANGED <<db, flock, closing, op, flag, acked, refused, faults, starts, ops>>

ApplyStep(p) ==
    /\ pc[p] = "migrating" /\ seen[p] < CURRENT_SCHEMA_VERSION
    /\ ~Refuses(seen[p] + 1, work.cols)
    /\ work' = Applied(seen[p] + 1, work)
    /\ seen' = [seen EXCEPT ![p] = @ + 1]
    /\ UNCHANGED <<db, holder, flock, closing, pc, op, flag, acked, refused, faults, starts, ops>>

CommitMigration(p) ==
    /\ pc[p] = "migrating" /\ seen[p] = CURRENT_SCHEMA_VERSION
    /\ db' = work /\ holder' = NoProc
    /\ Goes(p, "opened")
    /\ UNCHANGED <<work, flock, closing, op, seen, flag, acked, refused, faults, starts, ops>>

\* Faulty variant: the migration is tried again on the same connection, whose
\* transaction nobody rolled back.
OpenRetriesUnrolled(p) ==
    /\ \/ pc[p] = "behind" /\ holder # NoProc
       \/ pc[p] = "migrating"
    /\ refused' = (refused \/ (pc[p] = "migrating" /\ seen[p] < CURRENT_SCHEMA_VERSION
                                /\ Refuses(seen[p] + 1, work.cols)))
    /\ Goes(p, "behind")
    /\ UNCHANGED <<db, work, holder, flock, closing, op, seen, flag, acked, faults, starts, ops>>

\* A busy timeout, a refused step, or another error: open fails, and the
\* guard rolls the transaction back.
OpenFails(p) ==
    /\ \/ pc[p] = "behind" /\ holder # NoProc
       \/ pc[p] = "migrating"
    /\ refused' = (refused \/ (pc[p] = "migrating" /\ seen[p] < CURRENT_SCHEMA_VERSION
                                /\ Refuses(seen[p] + 1, work.cols)))
    /\ Gone(p)
    /\ UNCHANGED <<db, acked, faults, starts, ops>>

\* Faulty variant: the lock file is opened but not locked.
TakeWriterLockAnyway(p) ==
    /\ pc[p] = "opened"
    /\ flock' = IF p \in Lockers THEN p ELSE flock
    /\ Goes(p, "idle")
    /\ UNCHANGED <<db, work, holder, closing, op, seen, flag, acked, refused, faults, starts, ops>>

\* WriterLock::acquire, by those that take it.
TakeWriterLock(p) ==
    /\ pc[p] = "opened"
    /\ p \in Lockers => flock = NoProc
    /\ flock' = IF p \in Lockers THEN p ELSE flock
    /\ Goes(p, "idle")
    /\ UNCHANGED <<db, work, holder, closing, op, seen, flag, acked, refused, faults, starts, ops>>

\* Another process has it: the command ends.
LockRefused(p) ==
    /\ pc[p] = "opened" /\ p \in Lockers /\ flock # NoProc
    /\ Gone(p)
    /\ UNCHANGED <<db, acked, refused, faults, starts, ops>>

\* run_until returns and drops the lock; storage calls it did not wait for
\* (of a request that timed out, of a worker that was aborted) still run on
\* blocking threads, and the process ends only when they have.
DropLock(p) ==
    /\ p \in Daemons /\ flock = p /\ pc[p] \in {"idle", "begun", "written"}
    /\ flock' = NoProc
    /\ closing' = closing \cup {p}
    /\ UNCHANGED <<db, work, holder, pc, op, seen, flag, acked, refused, faults, starts, ops>>

Crash(p) ==
    /\ pc[p] # "down"
    /\ Gone(p)
    /\ UNCHANGED <<db, acked, refused, faults, starts, ops>>

-----------------------------------------------------------------------------
(* Writing.  A cycle is persist_cycle of the commands, and the webhook     *)
(* worker, enqueue_webhook_event and create_simulation of the agent.       *)

MayWork(p, kind) ==
    /\ pc[p] = "idle" /\ ops[p] < MaxOps[p]
    /\ kind = "greenfield" => p \in Pollers

Counted(p) == ops' = [ops EXCEPT ![p] = @ + 1]

\* update_operational_state begins a transaction of its own unless
\* in_transaction says there is one; the others always begin one.
Begin(p, kind) ==
    /\ MayWork(p, kind) /\ ~flag[p] /\ holder = NoProc
    /\ holder' = p /\ work' = db
    /\ flag' = [flag EXCEPT ![p] = kind # "update"]
    /\ op' = [op EXCEPT ![p] = kind]
    /\ Goes(p, "begun") /\ Counted(p)
    /\ UNCHANGED <<db, flock, closing, seen, acked, refused, faults, starts>>

\* A write outside of a begun operation (an alert state, an audit entry, or
\* an update of the operational state that finds in_transaction set): in the
\* transaction that is open on the connection, if one is, else by itself.
WriteAlone(p) ==
    /\ MayWork(p, "update") /\ holder \in {NoProc, p}
    /\ IF holder = p THEN work' = [work EXCEPT !.rows[p] = @ + 1] /\ db' = db
       ELSE db' = [db EXCEPT !.rows[p] = @ + 1] /\ work' = db'
    /\ acked' = [acked EXCEPT ![p] = @ + 1]
    /\ Counted(p)
    /\ UNCHANGED <<holder, flock, closing, pc, op, seen, flag, refused, faults, starts>>

\* The operation returns an error with the connection as it is: a daemon
\* goes on with it, a command ends.
Returns(p, open, flagged, fault) ==
    /\ IF p \in Daemons
       THEN /\ Goes(p, "idle")
            /\ holder' = IF open THEN p ELSE NoProc
            /\ work' = IF open THEN work ELSE db
            /\ flag' = [flag EXCEPT ![p] = flagged]
            /\ op' = [op EXCEPT ![p] = "none"]
            /\ UNCHANGED <<flock, closing, seen>>
       ELSE Gone(p)
    /\ faults' = faults \cup {f \in {<<op[p], fault>>} : p \in Daemons /\ (open \/ flagged)}
    /\ UNCHANGED <<db, acked, refused, starts>>

\* BEGIN finds in_transaction set, a transaction left on the connection, or
\* another process's lock for longer than the busy timeout.
BeginFails(p, kind) ==
    /\ MayWork(p, kind)
    /\ (kind # "update" /\ flag[p]) \/ (~flag[p] /\ holder # NoProc)
    /\ IF p \in Daemons THEN UNCHANGED <<work, holder, flock, closing, pc, op, seen, flag>> ELSE Gone(p)
    /\ Counted(p)
    /\ UNCHANGED <<db, acked, refused, faults, starts>>

Write(p) ==
    /\ pc[p] = "begun"
    /\ work' = [work EXCEPT !.rows[p] = @ + 1]
    /\ Goes(p, "written")
    /\ UNCHANGED <<db, holder, flock, closing, op, seen, flag, acked, refused, faults, starts, ops>>

\* A statement fails.  All three operations send ROLLBACK, which fails if
\* SQLite has already rolled back; only a ROLLBACK that succeeds clears the
\* flag.
WriteFails(p) ==
    /\ pc[p] = "begun"
    /\ \/ Returns(p, FALSE, FALSE, "none")
       \/ Returns(p, TRUE, flag[p], "rollback_failed")
       \/ Returns(p, FALSE, flag[p], "auto_rollback")
    /\ UNCHANGED ops

Commit(p) ==
    /\ pc[p] = "written"
    /\ db' = work /\ holder' = NoProc
    /\ flag' = [flag EXCEPT ![p] = FALSE]
    /\ op' = [op EXCEPT ![p] = "none"]
    /\ acked' = [acked EXCEPT ![p] = @ + 1]
    /\ Goes(p, "idle")
    /\ UNCHANGED <<work, flock, closing, seen, refused, faults, starts, ops>>

\* Faulty variant: the cycle forgets to roll back too.
CommitFailsUnhandled(p) ==
    /\ pc[p] = "written"
    /\ \/ Returns(p, FALSE, FALSE, "none")
       \/ Returns(p, TRUE, flag[p], "commit_failed")
       \/ Returns(p, FALSE, flag[p], "auto_rollback")
    /\ UNCHANGED ops

\* Faulty variant: the error of COMMIT is ignored.
CommitErrorIgnored(p) ==
    /\ pc[p] = "written"
    /\ holder' = NoProc /\ work' = db
    /\ flag' = [flag EXCEPT ![p] = FALSE]
    /\ op' = [op EXCEPT ![p] = "none"]
    /\ acked' = [acked EXCEPT ![p] = @ + 1]
    /\ Goes(p, "idle")
    /\ UNCHANGED <<db, flock, closing, seen, refused, faults, starts, ops>>

\* COMMIT fails and leaves the transaction open, or SQLite has rolled it back.
\* A cycle sends ROLLBACK, persist_greenfield_snapshot and
\* update_operational_state return.
CommitFails(p) ==
    /\ pc[p] = "written"
    /\ \/ op[p] = "cycle" /\ Returns(p, FALSE, FALSE, "none")
       \/ op[p] = "cycle" /\ Returns(p, TRUE, flag[p], "rollback_failed")
       \/ op[p] # "cycle" /\ Returns(p, TRUE, flag[p], "commit_failed")
       \/ Returns(p, FALSE, flag[p], "auto_rollback")
    /\ UNCHANGED ops

-----------------------------------------------------------------------------

Init ==
    /\ db \in {[version |-> d.version, cols |-> d.cols, active |-> d.active,
                rows |-> [p \in Procs |-> 0]] : d \in Databases}
    /\ work = db
    /\ holder = NoProc /\ flock = NoProc /\ closing = {}
    /\ pc = [p \in Procs |-> "down"]
    /\ op = [p \in Procs |-> "none"]
    /\ seen = [p \in Procs |-> 0]
    /\ flag = [p \in Procs |-> FALSE]
    /\ acked = [p \in Procs |-> 0]
    /\ refused = FALSE /\ faults = {}
    /\ starts = [p \in Procs |-> 0] /\ ops = [p \in Procs |-> 0]

Opening(p) ==
    \/ ReadVersion(p) \/ BeginMigration(p) \/ ApplyStep(p) \/ CommitMigration(p) \/ OpenFails(p)
    \/ TakeWriterLock(p) \/ LockRefused(p)

Working(p) == Write(p) \/ WriteFails(p) \/ Commit(p) \/ CommitFails(p)

Next ==
    \E p \in Procs :
        \/ Start(p) \/ Opening(p) \/ Working(p) \/ DropLock(p) \/ Crash(p)
        \/ \E kind \in Kinds : Begin(p, kind) \/ BeginFails(p, kind)
        \/ WriteAlone(p)

\* A process that runs goes on with what it is in the middle of.
Fairness == \A p \in Procs : WF_vars(Opening(p)) /\ WF_vars(Working(p))

Spec == Init /\ [][Next]_vars /\ Fairness

-----------------------------------------------------------------------------
(* Properties.                                                             *)

\* Whatever the order in which processes open the file, and wherever one of
\* them was killed or failed, no step is applied to a schema that has it.
NoStepTwice == ~refused

\* A process that opened the database works on the whole current schema,
\* with no active finding of unknown network left from before.
OpenIsCurrent ==
    \A p \in Procs :
        pc[p] \in {"opened", "idle", "begun", "written"} =>
            /\ db.version = CURRENT_SCHEMA_VERSION
            /\ <<"operational_state", 1>> \in db.cols => db.cols = Release[CURRENT_SCHEMA_VERSION].cols
            /\ "unknown_network" \notin db.active

\* Migrations are applied once and whole, whoever opens the file, however many
\* at once and wherever they are killed.
MigrationsAreWhole == NoStepTwice /\ OpenIsCurrent

\* Two processes that take the writer lock never work at the same time, but
\* for an agent that finishes its last calls.
OneWriter ==
    \A p, q \in Lockers \ closing :
        pc[p] \in {"idle", "begun", "written"} /\ pc[q] \in {"idle", "begun", "written"} => p = q

\* A connection left between operations with the flag set or a transaction
\* open, in which nothing can be begun any more, belongs to a daemon, and one
\* of three things happened: SQLite had rolled back before ROLLBACK was sent,
\* ROLLBACK failed, or COMMIT failed where the caller does not roll back.
StuckOnlyByFault ==
    \A p \in Procs :
        pc[p] = "idle" /\ (flag[p] \/ holder = p) =>
            /\ p \in Daemons
            /\ \E f \in faults : f # <<"cycle", "commit_failed">>

\* A fault after which rows are reported written inside an open transaction.
LeftOpen == \E f \in faults : f[2] = "rollback_failed" \/ (f[2] = "commit_failed" /\ f[1] # "cycle")

\* A row that was reported written is in the database, however the processes
\* interleave and fail, unless a failed COMMIT or ROLLBACK left a transaction
\* open on the connection: then later rows are reported written inside it.
AckedIsDurable == \A p \in Procs : acked[p] > db.rows[p] => LeftOpen

\* The write lock is given back, unless such a fault has kept it: nobody takes
\* it over from another, so it is free in between.
LockIsReleased ==
    (holder # NoProc) ~> (holder = NoProc \/ \E f \in faults : f[2] # "auto_rollback")

(* The inductive strengthening of OneWriter, StuckOnlyByFault and          *)
(* AckedIsDurable.                                                         *)

\* Whoever migrates or writes has the write transaction; nobody else has it,
\* but for a connection on which a fault has left it open.
TransactionIsHeld ==
    \A p \in Procs :
        /\ pc[p] \in {"migrating", "begun", "written"} => holder = p
        /\ holder = p => pc[p] \in {"migrating", "begun", "written", "idle"}

\* in_transaction is set in an operation that has begun, and stays set only
\* on a stuck connection.
FlagIsOfOperation ==
    \A p \in Procs : flag[p] => pc[p] \in {"begun", "written", "idle"}

\* A locker has the writer lock from its opening until it closes.
LockersHoldLock ==
    \A p \in Lockers \ closing : pc[p] \in {"idle", "begun", "written"} => flock = p

\* An operation that has begun is known.
OperationIsKnown == \A p \in Procs : pc[p] \in {"begun", "written"} => op[p] \in Kinds

\* Rows are only added, and the last one of an operation is not yet reported.
WorkIsAhead ==
    \A p \in Procs :
        /\ db.rows[p] <= work.rows[p]
        /\ LeftOpen \/ acked[p] <= db.rows[p]
        /\ pc[p] = "written" => LeftOpen \/ acked[p] < work.rows[p]

\* An open transaction of an idle process is the work of such a fault.
IdleHolderIsLeftOpen ==
    \A p \in Procs : pc[p] = "idle" /\ holder = p => LeftOpen

AccessInv ==
    /\ TransactionIsHeld /\ FlagIsOfOperation /\ LockersHoldLock /\ OperationIsKnown
    /\ (holder = NoProc => work = db) /\ WorkIsAhead /\ IdleHolderIsLeftOpen
    /\ StuckOnlyByFault
=============================================================================
