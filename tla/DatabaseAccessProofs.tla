------------------------ MODULE DatabaseAccessProofs ------------------------
(***************************************************************************)
(* Proofs for DatabaseAccess: for any processes, databases and bounds, one *)
(* process that takes the writer lock works at a time, a connection is     *)
(* stuck only after one of three faults, and without a transaction left    *)
(* open by a fault every row that was reported written is in the database. *)
(***************************************************************************)
EXTENDS DatabaseAccess, TLAPS

\* A database counts the rows of each process, whatever its schema.
IsDatabase(d) ==
    /\ {"version", "rows"} \subseteq DOMAIN d
    /\ d.version \in 0..CURRENT_SCHEMA_VERSION
    /\ d.rows \in [Procs -> Nat]

\* The invariant the steps preserve.
Sound == TypeOK /\ IsDatabase(db) /\ IsDatabase(work) /\ AccessInv

\* The initial states satisfy the invariant.
LEMMA AccessInit == Init => Sound
<1> SUFFICES ASSUME Init PROVE Sound
  OBVIOUS
<1>1. PICK d \in Databases :
         db = [version |-> d.version, cols |-> d.cols, active |-> d.active,
               rows |-> [p \in Procs |-> 0]]
  BY DEF Init
<1>2. d.version \in 0..CURRENT_SCHEMA_VERSION
  BY AccessAssumption
<1>3. IsDatabase(db) /\ IsDatabase(work) /\ work = db /\ db.rows = [p \in Procs |-> 0]
  <2>1. /\ DOMAIN db = {"version", "cols", "active", "rows"}
        /\ db.version = d.version /\ db.rows = [p \in Procs |-> 0]
    BY <1>1
  <2>2. IsDatabase(db)
    BY <1>2, <2>1 DEF IsDatabase
  <2> QED
    BY <2>1, <2>2 DEF Init
<1>4. TypeOK
  <2>1. /\ db.version \in 0..CURRENT_SCHEMA_VERSION /\ work.version \in 0..CURRENT_SCHEMA_VERSION
        /\ seen \in [Procs -> 0..CURRENT_SCHEMA_VERSION]
    BY <1>3 DEF Init, IsDatabase, CURRENT_SCHEMA_VERSION
  <2>2. /\ faults \subseteq Kinds \X {"commit_failed", "rollback_failed", "auto_rollback"}
        /\ op \in [Procs -> Kinds \cup {"none"}]
    BY DEF Init
  <2> QED
    BY <2>1, <2>2 DEF Init, TypeOK
<1>5. AccessInv
  <2>1. \A p \in Procs : p # NoProc
    BY AccessAssumption
  <2>2. \A p \in Procs : acked[p] = 0 /\ db.rows[p] = 0 /\ work.rows[p] = 0
    BY <1>3 DEF Init
  <2> QED
    BY <1>3, <2>1, <2>2, AccessAssumption
    DEF Init, AccessInv, TransactionIsHeld, FlagIsOfOperation, LockersHoldLock,
        OperationIsKnown, WorkIsAhead, IdleHolderIsLeftOpen, StuckOnlyByFault
<1> QED
  BY <1>3, <1>4, <1>5 DEF Sound

\* A step of the migrations leaves the rows alone.
LEMMA AppliedKeepsRows ==
    ASSUME NEW d, IsDatabase(d), NEW v \in 0..CURRENT_SCHEMA_VERSION
    PROVE  IsDatabase(Applied(v, d)) /\ Applied(v, d).rows = d.rows
  BY DEF IsDatabase, Applied

\* One more row of a process.
LEMMA RowIsAdded ==
    ASSUME NEW d, IsDatabase(d), NEW p \in Procs
    PROVE  /\ IsDatabase([d EXCEPT !.rows[p] = @ + 1])
           /\ \A q \in Procs : [d EXCEPT !.rows[p] = @ + 1].rows[q] =
                                  IF q = p THEN d.rows[q] + 1 ELSE d.rows[q]
  BY DEF IsDatabase

\* A process that ends lets go of what it held and changes no row.
LEMMA GoneStep ==
    ASSUME Sound, NEW p \in Procs, Gone(p), UNCHANGED <<db, acked, faults, starts>>,
           refused' \in BOOLEAN, ops' \in [Procs -> Nat]
    PROVE  Sound'
<1> USE DEF Gone, Goes
<1>1. p # NoProc
  BY AccessAssumption
<1>2. TypeOK' /\ IsDatabase(db)' /\ IsDatabase(work)'
  <2>1. db' = db /\ work' \in {work, db}
    OBVIOUS
  <2>2. IsDatabase(db)' /\ IsDatabase(work)'
    BY <2>1 DEF Sound, IsDatabase
  <2>3. seen' \in [Procs -> 0..CURRENT_SCHEMA_VERSION]
    BY DEF Sound, TypeOK, CURRENT_SCHEMA_VERSION
  <2>4. holder' \in Procs \cup {NoProc} /\ flock' \in Lockers \cup {NoProc} /\ closing' \subseteq Procs
    BY DEF Sound, TypeOK
  <2>5. /\ pc' \in [Procs -> {"down", "reading", "behind", "migrating", "opened", "idle", "begun",
                             "written"}]
        /\ op' \in [Procs -> Kinds \cup {"none"}] /\ flag' \in [Procs -> BOOLEAN]
    BY DEF Sound, TypeOK
  <2> QED
    BY <2>2, <2>3, <2>4, <2>5 DEF Sound, TypeOK, IsDatabase
<1>3. /\ \A q \in Procs : q # p => pc'[q] = pc[q] /\ op'[q] = op[q] /\ flag'[q] = flag[q]
      /\ \A q \in Procs : q # p => (holder' = q <=> holder = q)
      /\ pc'[p] = "down" /\ ~flag'[p] /\ holder' # p
  <2>1. \A q \in Procs : q # NoProc
    BY AccessAssumption
  <2>2. \A q \in Procs : q # p => (holder' = q <=> holder = q)
    BY <1>1, <2>1
  <2>3. holder' # p
    BY <1>1
  <2>4. /\ \A q \in Procs : q # p => pc'[q] = pc[q] /\ op'[q] = op[q] /\ flag'[q] = flag[q]
        /\ pc'[p] = "down" /\ ~flag'[p]
    BY DEF Sound, TypeOK
  <2> QED
    BY <2>2, <2>3, <2>4
<1>4. TransactionIsHeld' /\ FlagIsOfOperation' /\ OperationIsKnown' /\ IdleHolderIsLeftOpen'
  BY <1>3 DEF Sound, AccessInv, TransactionIsHeld, FlagIsOfOperation, OperationIsKnown,
              IdleHolderIsLeftOpen, LeftOpen
<1>5. LockersHoldLock'
  BY <1>3, AccessAssumption DEF Sound, AccessInv, LockersHoldLock
<1>6. holder' = NoProc => work' = db'
  BY DEF Sound, AccessInv
<1>7. WorkIsAhead'
  <2>1. \A q \in Procs : db.rows[q] <= db.rows[q]
    BY DEF Sound, IsDatabase
  <2>2. \A q \in Procs : q # p /\ pc[q] = "written" => work' = work
    BY <1>1 DEF Sound, AccessInv, TransactionIsHeld
  <2> QED
    BY <1>3, <2>1, <2>2 DEF Sound, AccessInv, WorkIsAhead, LeftOpen
<1>8. StuckOnlyByFault'
  BY <1>3 DEF Sound, AccessInv, StuckOnlyByFault
<1> QED
  BY <1>2, <1>4, <1>5, <1>6, <1>7, <1>8 DEF Sound, AccessInv

\* Opening: a process between its start and its first operation has neither
\* the flag nor, outside of its migration, the transaction.
LEMMA OpeningStep ==
    ASSUME Sound, NEW p \in Procs, Start(p) \/ Opening(p) \/ Crash(p)
    PROVE  Sound'
<1> USE DEF Goes
<1>1. p # NoProc
  BY AccessAssumption
<1>2. CASE OpenFails(p) \/ LockRefused(p) \/ Crash(p)
  <2>1. refused' \in BOOLEAN /\ ops' \in [Procs -> Nat]
    BY <1>2 DEF Sound, TypeOK, OpenFails, LockRefused, Crash
  <2> QED
    BY <1>2, <2>1, GoneStep DEF OpenFails, LockRefused, Crash
<1>3. CASE Start(p) \/ ReadVersion(p) \/ TakeWriterLock(p)
  <2>1. TypeOK' /\ IsDatabase(db)' /\ IsDatabase(work)'
    <3>1. seen' \in [Procs -> 0..CURRENT_SCHEMA_VERSION]
      BY <1>3 DEF Sound, TypeOK, Start, ReadVersion, TakeWriterLock
    <3> QED
      BY <1>3, <3>1 DEF Sound, TypeOK, IsDatabase, Start, ReadVersion, TakeWriterLock
  <2>2. /\ UNCHANGED <<db, work, holder, closing, op, flag, acked, faults>>
        /\ pc[p] \in {"down", "reading", "opened"} /\ pc'[p] \notin {"migrating", "begun", "written"}
        /\ \A q \in Procs : q # p => pc'[q] = pc[q]
    BY <1>3 DEF Sound, TypeOK, Start, ReadVersion, TakeWriterLock
  <2>3. holder # p /\ ~flag[p]
    BY <2>2 DEF Sound, AccessInv, TransactionIsHeld, FlagIsOfOperation
  <2>4. LockersHoldLock'
    <3>1. CASE TakeWriterLock(p)
      BY <3>1, <2>2, AccessAssumption
      DEF TakeWriterLock, Sound, TypeOK, AccessInv, LockersHoldLock
    <3>2. CASE Start(p) \/ ReadVersion(p)
      <4>1. pc'[p] \in {"reading", "behind", "opened"} /\ flock' = flock
        BY <3>2 DEF Start, ReadVersion, Sound, TypeOK
      <4> QED
        BY <4>1, <2>2, AccessAssumption DEF Sound, AccessInv, LockersHoldLock
    <3> QED
      BY <1>3, <3>1, <3>2
  <2> QED
    BY <2>1, <2>2, <2>3, <2>4
    DEF Sound, AccessInv, TransactionIsHeld, FlagIsOfOperation, OperationIsKnown, WorkIsAhead,
        IdleHolderIsLeftOpen, LeftOpen, StuckOnlyByFault
<1>4. CASE BeginMigration(p)
  <2>1. work = db /\ work' = db /\ db' = db
    BY <1>4 DEF BeginMigration, Sound, AccessInv
  <2>2. TypeOK' /\ IsDatabase(db)' /\ IsDatabase(work)'
    BY <1>4, <2>1 DEF BeginMigration, Sound, TypeOK, IsDatabase, CURRENT_SCHEMA_VERSION
  <2>3. /\ holder = NoProc /\ holder' = p /\ pc'[p] = "migrating"
        /\ \A q \in Procs : q # p => pc'[q] = pc[q] /\ pc[q] \notin {"migrating", "begun", "written"}
        /\ UNCHANGED <<flock, closing, op, flag, acked, faults>>
    BY <1>4, AccessAssumption DEF BeginMigration, Sound, TypeOK, AccessInv, TransactionIsHeld
  <2>4. WorkIsAhead'
    BY <2>1, <2>3 DEF Sound, AccessInv, WorkIsAhead, LeftOpen
  <2>5. ~flag[p]
    BY <1>4 DEF BeginMigration, Sound, AccessInv, FlagIsOfOperation
  <2> QED
    BY <1>1, <2>1, <2>2, <2>3, <2>4, <2>5, AccessAssumption
    DEF Sound, AccessInv, TransactionIsHeld, FlagIsOfOperation, LockersHoldLock,
        OperationIsKnown, IdleHolderIsLeftOpen, StuckOnlyByFault
<1>5. CASE ApplyStep(p)
  <2>1. seen[p] + 1 \in 0..CURRENT_SCHEMA_VERSION
    BY <1>5 DEF ApplyStep, Sound, TypeOK, CURRENT_SCHEMA_VERSION
  <2>2. IsDatabase(work)' /\ work'.rows = work.rows
    BY <1>5, <2>1, AppliedKeepsRows DEF ApplyStep, Sound
  <2>3. TypeOK' /\ IsDatabase(db)'
    <3>1. seen' \in [Procs -> 0..CURRENT_SCHEMA_VERSION]
      BY <1>5, <2>1 DEF ApplyStep, Sound, TypeOK
    <3> QED
      BY <1>5, <2>2, <3>1 DEF ApplyStep, Sound, TypeOK, IsDatabase
  <2>4. holder' = p /\ pc' = pc
    BY <1>5 DEF ApplyStep, Sound, AccessInv, TransactionIsHeld
  <2> QED
    BY <1>1, <1>5, <2>2, <2>3, <2>4
    DEF ApplyStep, Sound, AccessInv, TransactionIsHeld, FlagIsOfOperation, LockersHoldLock,
        OperationIsKnown, WorkIsAhead, IdleHolderIsLeftOpen, LeftOpen, StuckOnlyByFault
<1>6. CASE CommitMigration(p)
  <2>1. holder = p /\ holder' = NoProc /\ db' = work /\ work' = work
    BY <1>6 DEF CommitMigration, Sound, AccessInv, TransactionIsHeld
  <2>2. TypeOK' /\ IsDatabase(db)' /\ IsDatabase(work)'
    BY <1>6, <2>1 DEF CommitMigration, Sound, TypeOK, IsDatabase
  <2>3. WorkIsAhead'
    <3>1. \A q \in Procs : pc'[q] # "written"
      BY <1>6, <2>1 DEF CommitMigration, Sound, TypeOK, AccessInv, TransactionIsHeld
    <3>2. \A q \in Procs : LeftOpen \/ acked[q] <= work.rows[q]
      BY DEF Sound, TypeOK, IsDatabase, AccessInv, WorkIsAhead
    <3>3. \A q \in Procs : work.rows[q] <= work.rows[q]
      BY DEF Sound, IsDatabase
    <3> QED
      BY <1>6, <2>1, <3>1, <3>2, <3>3 DEF CommitMigration, WorkIsAhead, LeftOpen
  <2> QED
    BY <1>1, <1>6, <2>1, <2>2, <2>3, AccessAssumption
    DEF CommitMigration, Sound, TypeOK, AccessInv, TransactionIsHeld, FlagIsOfOperation,
        LockersHoldLock, OperationIsKnown, IdleHolderIsLeftOpen, LeftOpen, StuckOnlyByFault
<1> QED
  BY <1>2, <1>3, <1>4, <1>5, <1>6 DEF Opening

\* An agent that lets go of the writer lock is no longer one that must hold it.
LEMMA DropLockStep ==
    ASSUME Sound, NEW p \in Procs, DropLock(p)
    PROVE  Sound'
<1>1. TypeOK' /\ IsDatabase(db)' /\ IsDatabase(work)'
  BY DEF DropLock, Sound, TypeOK, IsDatabase
<1>2. LockersHoldLock'
  BY DEF DropLock, Sound, AccessInv, LockersHoldLock
<1> QED
  BY <1>1, <1>2
  DEF DropLock, Sound, AccessInv, TransactionIsHeld, FlagIsOfOperation, OperationIsKnown,
      WorkIsAhead, IdleHolderIsLeftOpen, LeftOpen, StuckOnlyByFault

\* An operation that goes well: its rows are reported after its COMMIT.
LEMMA WorkingStep ==
    ASSUME Sound, NEW p \in Procs,
           (\E kind \in Kinds : Begin(p, kind)) \/ WriteAlone(p) \/ Write(p) \/ Commit(p)
    PROVE  Sound'
<1> USE DEF Goes
<1>1. \A q \in Procs : q # NoProc
  BY AccessAssumption
<1>2. ASSUME NEW kind \in Kinds, Begin(p, kind) PROVE Sound'
  <2>1. work = db /\ work' = db /\ db' = db
    BY <1>2 DEF Begin, Sound, AccessInv
  <2>2. TypeOK' /\ IsDatabase(db)' /\ IsDatabase(work)'
    <3>1. ops' \in [Procs -> Nat]
      BY <1>2 DEF Begin, Counted, Sound, TypeOK
    <3>2. flag' \in [Procs -> BOOLEAN]
      BY <1>2 DEF Begin, Sound, TypeOK
    <3>3. op' \in [Procs -> Kinds \cup {"none"}]
      BY <1>2 DEF Begin, Sound, TypeOK
    <3>4. IsDatabase(db)' /\ IsDatabase(work)'
      BY <2>1 DEF Sound, IsDatabase
    <3> QED
      BY <1>2, <3>1, <3>2, <3>3, <3>4 DEF Begin, Sound, TypeOK, IsDatabase
  <2>3. /\ holder = NoProc /\ holder' = p /\ pc'[p] = "begun" /\ op'[p] = kind
        /\ \A q \in Procs : q # p => /\ pc'[q] = pc[q] /\ op'[q] = op[q] /\ flag'[q] = flag[q]
                                     /\ pc[q] \notin {"migrating", "begun", "written"}
        /\ UNCHANGED <<flock, closing, acked, faults>> /\ pc[p] = "idle"
    BY <1>1, <1>2 DEF Begin, MayWork, Sound, TypeOK, AccessInv, TransactionIsHeld
  <2>4. WorkIsAhead'
    BY <2>1, <2>3 DEF Sound, AccessInv, WorkIsAhead, LeftOpen
  <2> QED
    BY <1>1, <2>1, <2>2, <2>3, <2>4, AccessAssumption
    DEF Sound, AccessInv, TransactionIsHeld, FlagIsOfOperation, LockersHoldLock,
        OperationIsKnown, IdleHolderIsLeftOpen, StuckOnlyByFault
<1>3. CASE WriteAlone(p)
  <2>1. /\ pc[p] = "idle" /\ holder \in {NoProc, p} /\ acked' = [acked EXCEPT ![p] = @ + 1]
        /\ UNCHANGED <<holder, flock, closing, pc, op, flag, faults>>
    BY <1>3 DEF WriteAlone, MayWork
  <2>2. TypeOK' /\ IsDatabase(db)' /\ IsDatabase(work)'
    <3>1. IsDatabase(db)' /\ IsDatabase(work)'
      BY <1>3, RowIsAdded DEF WriteAlone, Sound, IsDatabase
    <3>2. ops' \in [Procs -> Nat] /\ acked' \in [Procs -> Nat]
      BY <1>3 DEF WriteAlone, Counted, Sound, TypeOK
    <3> QED
      BY <1>3, <3>1, <3>2 DEF WriteAlone, Sound, TypeOK, IsDatabase
  <2>3. holder' = NoProc => work' = db'
    BY <1>1, <1>3 DEF WriteAlone
  <2>4. WorkIsAhead'
    <3>1. \A q \in Procs : pc[q] # "written"
      BY <1>1, <2>1 DEF Sound, AccessInv, TransactionIsHeld
    <3>2. CASE holder = p
      <4>1. LeftOpen
        BY <2>1, <3>2 DEF Sound, AccessInv, IdleHolderIsLeftOpen
      <4>2. db' = db /\ \A q \in Procs : work.rows[q] <= work'.rows[q]
        BY <1>3, <3>2, RowIsAdded DEF WriteAlone, Sound, IsDatabase
      <4> QED
        BY <2>1, <2>2, <3>1, <4>1, <4>2 DEF Sound, AccessInv, WorkIsAhead, LeftOpen, IsDatabase
    <3>3. CASE holder # p
      <4>1. work' = db' /\ \A q \in Procs : db'.rows[q] = IF q = p THEN db.rows[q] + 1 ELSE db.rows[q]
        <5>1. db' = [db EXCEPT !.rows[p] = @ + 1] /\ work' = db'
          BY <1>3, <3>3 DEF WriteAlone
        <5>2. IsDatabase(db)
          BY DEF Sound
        <5> QED
          BY <5>1, <5>2, RowIsAdded
      <4> QED
        BY <2>1, <2>2, <3>1, <4>1 DEF Sound, TypeOK, AccessInv, WorkIsAhead, LeftOpen, IsDatabase
    <3> QED
      BY <3>2, <3>3
  <2> QED
    BY <2>1, <2>2, <2>3, <2>4
    DEF Sound, AccessInv, TransactionIsHeld, FlagIsOfOperation, LockersHoldLock,
        OperationIsKnown, IdleHolderIsLeftOpen, LeftOpen, StuckOnlyByFault
<1>4. CASE Write(p)
  <2>1. /\ holder = p /\ pc'[p] = "written" /\ \A q \in Procs : q # p => pc'[q] = pc[q]
        /\ UNCHANGED <<db, holder, flock, closing, op, flag, acked, faults>> /\ pc[p] = "begun"
    BY <1>4 DEF Write, Sound, TypeOK, AccessInv, TransactionIsHeld
  <2>2. /\ IsDatabase(work)'
        /\ \A q \in Procs : work'.rows[q] = IF q = p THEN work.rows[q] + 1 ELSE work.rows[q]
    BY <1>4, RowIsAdded DEF Write, Sound
  <2>3. TypeOK' /\ IsDatabase(db)'
    BY <1>4, <2>2 DEF Write, Sound, TypeOK, IsDatabase
  <2>4. WorkIsAhead'
    BY <2>1, <2>2 DEF Sound, TypeOK, AccessInv, WorkIsAhead, LeftOpen, IsDatabase
  <2> QED
    BY <1>1, <2>1, <2>2, <2>3, <2>4, AccessAssumption
    DEF Sound, AccessInv, TransactionIsHeld, FlagIsOfOperation, LockersHoldLock,
        OperationIsKnown, IdleHolderIsLeftOpen, LeftOpen, StuckOnlyByFault
<1>5. CASE Commit(p)
  <2>1. /\ holder = p /\ holder' = NoProc /\ db' = work /\ work' = work /\ pc[p] = "written"
        /\ pc'[p] = "idle" /\ ~flag'[p] /\ UNCHANGED <<flock, closing, faults>>
        /\ \A q \in Procs : q # p => /\ pc'[q] = pc[q] /\ op'[q] = op[q] /\ flag'[q] = flag[q]
                                     /\ pc[q] \notin {"migrating", "begun", "written"}
    BY <1>5 DEF Commit, Sound, TypeOK, AccessInv, TransactionIsHeld
  <2>2. TypeOK' /\ IsDatabase(db)' /\ IsDatabase(work)'
    <3>1. acked' \in [Procs -> Nat] /\ flag' \in [Procs -> BOOLEAN]
      BY <1>5 DEF Commit, Sound, TypeOK
    <3>2. op' \in [Procs -> Kinds \cup {"none"}]
      BY <1>5 DEF Commit, Sound, TypeOK
    <3> QED
      BY <1>5, <2>1, <3>1, <3>2 DEF Commit, Sound, TypeOK, IsDatabase
  <2>3. WorkIsAhead'
    <3>1. acked' = [acked EXCEPT ![p] = @ + 1]
      BY <1>5 DEF Commit
    <3> QED
      BY <2>1, <3>1 DEF Sound, TypeOK, AccessInv, WorkIsAhead, LeftOpen, IsDatabase
  <2> QED
    BY <1>1, <2>1, <2>2, <2>3, AccessAssumption
    DEF Sound, AccessInv, TransactionIsHeld, FlagIsOfOperation, LockersHoldLock,
        OperationIsKnown, IdleHolderIsLeftOpen, LeftOpen, StuckOnlyByFault
<1> QED
  BY <1>2, <1>3, <1>4, <1>5

\* An operation that returns an error while its process has the transaction:
\* it is closed, or the fault is one of the named ones.
LEMMA ReturnsStep ==
    ASSUME Sound, NEW p \in Procs, pc[p] \in {"begun", "written"}, ops' = ops,
           NEW open \in BOOLEAN, NEW flagged \in BOOLEAN,
           NEW fault \in {"none", "commit_failed", "rollback_failed", "auto_rollback"},
           Returns(p, open, flagged, fault),
           open => fault = "rollback_failed" \/ (fault = "commit_failed" /\ op[p] # "cycle"),
           open \/ flagged => fault # "none" /\ <<op[p], fault>> # <<"cycle", "commit_failed">>
    PROVE  Sound'
<1> USE DEF Goes
<1>1. \A q \in Procs : q # NoProc
  BY AccessAssumption
<1>2. holder = p /\ op[p] \in Kinds
  BY DEF Sound, AccessInv, TransactionIsHeld, OperationIsKnown
<1>3. CASE p \notin Daemons
  <2>1. Gone(p) /\ faults' = faults /\ UNCHANGED <<db, acked, refused, starts>>
    BY <1>3 DEF Returns
  <2>2. refused' \in BOOLEAN /\ ops' \in [Procs -> Nat]
    BY <2>1 DEF Sound, TypeOK
  <2> QED
    BY <2>1, <2>2, GoneStep
<1>4. CASE p \in Daemons
  <2>1. /\ pc'[p] = "idle" /\ holder' = (IF open THEN p ELSE NoProc) /\ flag'[p] = flagged
        /\ work' = (IF open THEN work ELSE db) /\ UNCHANGED <<db, acked, flock, closing, seen, refused, starts>>
        /\ \A q \in Procs : q # p => /\ pc'[q] = pc[q] /\ op'[q] = op[q] /\ flag'[q] = flag[q]
                                     /\ pc[q] \notin {"migrating", "begun", "written"} /\ holder # q
    BY <1>2, <1>4 DEF Returns, Sound, TypeOK, AccessInv, TransactionIsHeld
  <2>2. /\ faults \subseteq faults'
        /\ open \/ flagged => <<op[p], fault>> \in faults'
        /\ faults' \subseteq Kinds \X {"commit_failed", "rollback_failed", "auto_rollback"}
    BY <1>2, <1>4 DEF Returns, Sound, TypeOK
  <2>3. LeftOpen => LeftOpen'
    BY <2>2 DEF LeftOpen
  <2>4. open => LeftOpen'
    BY <2>2 DEF LeftOpen
  <2>5. IsDatabase(db)' /\ IsDatabase(work)'
    BY <2>1 DEF Sound, IsDatabase
  <2>6. TypeOK'
    <3>1. /\ pc' \in [Procs -> {"down", "reading", "behind", "migrating", "opened", "idle", "begun",
                               "written"}]
          /\ flag' \in [Procs -> BOOLEAN]
      BY <1>4 DEF Returns, Sound, TypeOK
    <3>2. op' \in [Procs -> Kinds \cup {"none"}]
      BY <1>4 DEF Returns, Sound, TypeOK
    <3> QED
      BY <2>1, <2>2, <2>5, <3>1, <3>2 DEF Sound, TypeOK, IsDatabase
  <2>7. WorkIsAhead'
    <3>1. \A q \in Procs : pc'[q] # "written"
      BY <2>1
    <3>2. \A q \in Procs : db'.rows[q] <= work'.rows[q]
      BY <2>1 DEF Sound, IsDatabase, AccessInv, WorkIsAhead
    <3> QED
      BY <2>1, <2>3, <3>1, <3>2 DEF Sound, AccessInv, WorkIsAhead
  <2>8. StuckOnlyByFault'
    <3>1. ASSUME NEW q \in Procs, q # p, pc'[q] = "idle", flag'[q] \/ holder' = q
          PROVE  q \in Daemons /\ \E f \in faults' : f # <<"cycle", "commit_failed">>
      <4>1. pc[q] = "idle" /\ flag[q]
        BY <1>1, <2>1, <3>1
      <4> QED
        BY <2>2, <4>1 DEF Sound, AccessInv, StuckOnlyByFault
    <3>2. ASSUME flag'[p] \/ holder' = p
          PROVE  \E f \in faults' : f # <<"cycle", "commit_failed">>
      <4>1. open \/ flagged
        BY <1>1, <2>1, <3>2
      <4> QED
        BY <2>2, <4>1
    <3> QED
      BY <1>4, <3>1, <3>2 DEF StuckOnlyByFault
  <2>9. TransactionIsHeld' /\ FlagIsOfOperation' /\ OperationIsKnown' /\ IdleHolderIsLeftOpen'
    BY <1>1, <2>1, <2>4
    DEF Sound, AccessInv, TransactionIsHeld, FlagIsOfOperation, OperationIsKnown,
        IdleHolderIsLeftOpen
  <2>10. LockersHoldLock' /\ (holder' = NoProc => work' = db')
    BY <1>1, <2>1, AccessAssumption DEF Sound, AccessInv, LockersHoldLock
  <2> QED
    BY <2>5, <2>6, <2>7, <2>8, <2>9, <2>10 DEF Sound, AccessInv
<1> QED
  BY <1>3, <1>4

\* An operation that fails, in its BEGIN, in a statement or in its COMMIT.
LEMMA FailingStep ==
    ASSUME Sound, NEW p \in Procs,
           (\E kind \in Kinds : BeginFails(p, kind)) \/ WriteFails(p) \/ CommitFails(p)
    PROVE  Sound'
<1>1. ASSUME NEW kind \in Kinds, BeginFails(p, kind) PROVE Sound'
  <2>1. ops' \in [Procs -> Nat] /\ refused' \in BOOLEAN
    BY <1>1 DEF BeginFails, Counted, Sound, TypeOK
  <2>2. CASE p \notin Daemons
    BY <1>1, <2>1, <2>2, GoneStep DEF BeginFails
  <2>3. CASE p \in Daemons
    <3>1. UNCHANGED <<db, work, holder, flock, closing, pc, op, seen, flag, acked, refused, faults, starts>>
      BY <1>1, <2>3 DEF BeginFails
    <3> QED
      BY <2>1, <3>1
      DEF Sound, TypeOK, IsDatabase, AccessInv, TransactionIsHeld, FlagIsOfOperation,
          LockersHoldLock, OperationIsKnown, WorkIsAhead, IdleHolderIsLeftOpen, LeftOpen,
          StuckOnlyByFault
  <2> QED
    BY <2>2, <2>3
<1>2. flag[p] \in BOOLEAN /\ op[p] \in Kinds \cup {"none"}
  BY DEF Sound, TypeOK
<1>3. \A what : <<what, "rollback_failed">> # <<"cycle", "commit_failed">>
                /\ <<what, "auto_rollback">> # <<"cycle", "commit_failed">>
  OBVIOUS
<1>4. CASE WriteFails(p)
  BY <1>2, <1>3, <1>4, ReturnsStep DEF WriteFails
<1>5. CASE CommitFails(p)
  <2>1. op[p] # "cycle" => <<op[p], "commit_failed">> # <<"cycle", "commit_failed">>
    OBVIOUS
  <2> QED
    BY <1>2, <1>3, <1>5, <2>1, ReturnsStep DEF CommitFails
<1> QED
  BY <1>1, <1>4, <1>5

\* Every step preserves the invariant.
LEMMA AccessStep == Sound /\ [Next]_vars => Sound'
<1> SUFFICES ASSUME Sound, [Next]_vars PROVE Sound'
  OBVIOUS
<1>1. ASSUME NEW p \in Procs, Start(p) \/ Opening(p) \/ DropLock(p) \/ Crash(p) PROVE Sound'
  BY <1>1, OpeningStep, DropLockStep
<1>2. ASSUME NEW p \in Procs,
             (\E kind \in Kinds : Begin(p, kind)) \/ WriteAlone(p) \/ Write(p) \/ Commit(p)
      PROVE  Sound'
  BY <1>2, WorkingStep
<1>3. ASSUME NEW p \in Procs,
             (\E kind \in Kinds : BeginFails(p, kind)) \/ WriteFails(p) \/ CommitFails(p)
      PROVE  Sound'
  BY <1>3, FailingStep
<1>4. CASE UNCHANGED vars
  BY <1>4
  DEF vars, Sound, TypeOK, IsDatabase, AccessInv, TransactionIsHeld, FlagIsOfOperation,
      LockersHoldLock, OperationIsKnown, WorkIsAhead, IdleHolderIsLeftOpen, LeftOpen,
      StuckOnlyByFault
<1> QED
  BY <1>1, <1>2, <1>3, <1>4 DEF Next, Working

\* The inductive invariant holds in every reachable state.
THEOREM AccessInvariant == Spec => []Sound
  BY AccessInit, AccessStep, PTL DEF Spec

\* The variables have their types in every reachable state.
THEOREM AccessTypes == Spec => []TypeOK
<1>1. Sound => TypeOK
  BY DEF Sound
<1> QED
  BY <1>1, AccessInvariant, PTL

\* WriterLock: two processes that take the advisory lock never work at the
\* same time, however they are started, refused and killed, but for an agent
\* that finishes its last calls after run_until has dropped the lock.
THEOREM WritersExclude == Spec => []OneWriter
<1>1. Sound => OneWriter
  BY DEF Sound, AccessInv, LockersHoldLock, OneWriter
<1> QED
  BY <1>1, AccessInvariant, PTL

\* begin, commit and rollback: a connection is left unusable between two
\* operations only in a daemon, and only by one of three faults.
THEOREM ConnectionsAreClean == Spec => []StuckOnlyByFault
<1>1. Sound => StuckOnlyByFault
  BY DEF Sound, AccessInv
<1> QED
  BY <1>1, AccessInvariant, PTL

\* What was reported written is in the database, unless a failed COMMIT or
\* ROLLBACK has left a transaction open.
THEOREM ReportedIsDurable == Spec => []AckedIsDurable
<1>1. Sound => AckedIsDurable
  BY DEF Sound, TypeOK, IsDatabase, AccessInv, WorkIsAhead, AckedIsDurable
<1> QED
  BY <1>1, AccessInvariant, PTL


-----------------------------------------------------------------------------
(* Migrations.                                                             *)

\* A database the remaining steps bring to the current schema.
IsMigratable(d) ==
    /\ {"version", "cols", "active"} \subseteq DOMAIN d
    /\ <<d.version, d.cols>> \in Schemas
    /\ d.version >= 11 => "unknown_network" \notin d.active

Opened == {"opened", "idle", "begun", "written"}

\* The schema in the transaction is never behind the committed one, and a
\* process applies the step that follows it.
MigrationInv ==
    /\ ~refused /\ IsMigratable(db) /\ IsMigratable(work)
    /\ db.version <= work.version
    /\ \A p \in Procs : pc[p] = "migrating" => seen[p] = work.version
    /\ \A p \in Procs : pc[p] \in Opened => db.version = CURRENT_SCHEMA_VERSION

SameSchema(d, e) ==
    DOMAIN d = DOMAIN e /\ d.version = e.version /\ d.cols = e.cols /\ d.active = e.active

\* The initial states satisfy the invariant.
LEMMA MigrationInit == Init => MigrationInv
<1> SUFFICES ASSUME Init PROVE MigrationInv
  OBVIOUS
<1>1. PICK d \in Databases :
         db = [version |-> d.version, cols |-> d.cols, active |-> d.active,
               rows |-> [p \in Procs |-> 0]]
  BY DEF Init
<1>2. IsMigratable(db)
  <2>1. /\ DOMAIN db = {"version", "cols", "active", "rows"}
        /\ db.version = d.version /\ db.cols = d.cols /\ db.active = d.active
    BY <1>1
  <2> QED
    BY <2>1, SchemaAssumption DEF IsMigratable
<1>3. db.version <= db.version
  <2>1. db.version \in Nat
    BY AccessInit DEF Sound, IsDatabase, CURRENT_SCHEMA_VERSION
  <2> QED
    BY <2>1
<1> QED
  BY <1>2, <1>3 DEF Init, MigrationInv, Opened

\* What one process does to its own place while the schema of the database
\* stays, or becomes the one in the transaction.
LEMMA MigrationKept ==
    ASSUME Sound, MigrationInv, NEW p \in Procs, ~refused',
           \A q \in Procs : q # p => pc'[q] = pc[q] /\ seen'[q] = seen[q],
           SameSchema(db', db) \/ SameSchema(db', work),
           SameSchema(work', work) \/ SameSchema(work', db'),
           \A q \in Procs : q # p /\ pc[q] = "migrating" => work'.version = work.version,
           pc'[p] = "migrating" => seen'[p] = work'.version,
           pc'[p] \in Opened => pc[p] \in Opened \/ db'.version = CURRENT_SCHEMA_VERSION
    PROVE  MigrationInv'
<1>1. /\ db.version \in 0..CURRENT_SCHEMA_VERSION /\ work.version \in 0..CURRENT_SCHEMA_VERSION
      /\ db.version <= work.version /\ IsMigratable(db) /\ IsMigratable(work)
  BY DEF Sound, IsDatabase, MigrationInv
<1>2. IsMigratable(db)' /\ IsMigratable(work)'
  BY <1>1 DEF SameSchema, IsMigratable
<1>3. /\ db'.version \in {db.version, work.version}
      /\ work'.version \in {work.version, db'.version}
  BY DEF SameSchema
<1>4. db'.version <= work'.version /\ (db.version = CURRENT_SCHEMA_VERSION
                                          => db'.version = CURRENT_SCHEMA_VERSION)
  BY <1>1, <1>3 DEF CURRENT_SCHEMA_VERSION
<1>5. ASSUME NEW q \in Procs
      PROVE  /\ pc'[q] = "migrating" => seen'[q] = work'.version
             /\ pc'[q] \in Opened => db'.version = CURRENT_SCHEMA_VERSION
  BY <1>4 DEF MigrationInv
<1> QED
  BY <1>2, <1>4, <1>5 DEF MigrationInv

\* A process that ends takes only its own transaction with it.
LEMMA MigrationGone ==
    ASSUME Sound, MigrationInv, NEW p \in Procs, Gone(p), db' = db, ~refused'
    PROVE  MigrationInv'
<1>1. /\ \A q \in Procs : q # p => pc'[q] = pc[q] /\ seen'[q] = seen[q]
      /\ pc'[p] = "down"
  BY DEF Gone, Goes, Sound, TypeOK
<1>2. \A q \in Procs : q # p /\ pc[q] = "migrating" => work' = work
  BY DEF Gone, Sound, AccessInv, TransactionIsHeld
<1>3. SameSchema(db', db) /\ (SameSchema(work', work) \/ SameSchema(work', db'))
  BY DEF Gone, SameSchema
<1> QED
  BY <1>1, <1>2, <1>3, MigrationKept DEF Opened

\* The steps of opening.
LEMMA MigrationOpening ==
    ASSUME Sound, MigrationInv, NEW p \in Procs, Start(p) \/ Opening(p) \/ Crash(p)
    PROVE  MigrationInv'
<1>1. CASE Start(p)
  <2>1. /\ \A q \in Procs : q # p => pc'[q] = pc[q] /\ seen'[q] = seen[q]
        /\ pc'[p] = "reading" /\ db' = db /\ work' = work /\ refused' = refused
    BY <1>1 DEF Start, Goes, Sound, TypeOK
  <2> QED
    BY <2>1, MigrationKept DEF SameSchema, Opened, MigrationInv
<1>2. CASE ReadVersion(p)
  <2>1. /\ \A q \in Procs : q # p => pc'[q] = pc[q] /\ seen'[q] = seen[q]
        /\ pc'[p] = (IF db.version = CURRENT_SCHEMA_VERSION THEN "opened" ELSE "behind")
        /\ db' = db /\ work' = work /\ refused' = refused
    BY <1>2 DEF ReadVersion, Goes, Sound, TypeOK
  <2> QED
    BY <2>1, MigrationKept DEF SameSchema, Opened, MigrationInv
<1>3. CASE BeginMigration(p)
  <2>1. /\ \A q \in Procs : q # p => pc'[q] = pc[q] /\ seen'[q] = seen[q]
        /\ pc'[p] = "migrating" /\ seen'[p] = db.version
        /\ db' = db /\ work' = db /\ refused' = refused /\ holder = NoProc
    BY <1>3 DEF BeginMigration, Goes, Sound, TypeOK
  <2>2. work = db
    BY <2>1 DEF Sound, AccessInv
  <2> QED
    BY <2>1, <2>2, MigrationKept DEF SameSchema, Opened, MigrationInv
<1>4. CASE ApplyStep(p)
  <2> DEFINE v == seen[p] + 1
  <2>1. /\ pc[p] = "migrating" /\ seen[p] < CURRENT_SCHEMA_VERSION /\ seen[p] = work.version
        /\ work' = Applied(v, work) /\ seen' = [seen EXCEPT ![p] = v]
        /\ db' = db /\ pc' = pc /\ refused' = refused /\ holder = p
    BY <1>4 DEF ApplyStep, MigrationInv, Sound, AccessInv, TransactionIsHeld
  <2>2. /\ seen[p] \in 0..CURRENT_SCHEMA_VERSION /\ db.version \in 0..CURRENT_SCHEMA_VERSION
        /\ seen \in [Procs -> 0..CURRENT_SCHEMA_VERSION]
    BY DEF Sound, TypeOK
  <2>3. /\ DOMAIN work' = DOMAIN work /\ work'.version = v
        /\ work'.cols = Migrated(v, work.cols)
        /\ work'.active = IF v = 11 THEN work.active \ {"unknown_network"} ELSE work.active
    BY <2>1 DEF Applied, MigrationInv, IsMigratable
  <2>4. IsMigratable(work)'
    <3>1. <<v, Migrated(v, work.cols)>> \in Schemas
      <4>1. <<work.version, work.cols>> \in Schemas
        BY DEF MigrationInv, IsMigratable
      <4>2. <<work.version, work.cols>>[1] = work.version /\ <<work.version, work.cols>>[2] = work.cols
        OBVIOUS
      <4>3. work.version # CURRENT_SCHEMA_VERSION
        BY <2>1, <2>2 DEF CURRENT_SCHEMA_VERSION
      <4> HIDE DEF v
      <4>4. <<work.version + 1, Migrated(work.version + 1, work.cols)>> \in Schemas
        BY <4>1, <4>2, <4>3, SchemaAssumption
      <4> QED
        BY <2>1, <4>4 DEF v
    <3>2. v >= 11 => "unknown_network" \notin work'.active
      BY <2>1, <2>2, <2>3 DEF MigrationInv, IsMigratable, CURRENT_SCHEMA_VERSION
    <3> QED
      BY <2>3, <3>1, <3>2 DEF MigrationInv, IsMigratable
  <2>5. \A q \in Procs : q # p => pc[q] # "migrating"
    BY <2>1 DEF Sound, AccessInv, TransactionIsHeld
  <2>6. seen'[p] = v
    BY <2>1, <2>2
  <2> HIDE DEF v
  <2>7. \A q \in Procs : pc'[q] = "migrating" => seen'[q] = work'.version
    BY <2>1, <2>3, <2>5, <2>6
  <2>8. db'.version <= work'.version
    BY <2>1, <2>2, <2>3 DEF MigrationInv, v, CURRENT_SCHEMA_VERSION
  <2> QED
    BY <2>1, <2>4, <2>7, <2>8 DEF MigrationInv, IsMigratable
<1>5. CASE CommitMigration(p)
  <2>1. /\ \A q \in Procs : q # p => pc'[q] = pc[q] /\ seen'[q] = seen[q]
        /\ pc[p] = "migrating" /\ pc'[p] = "opened" /\ seen[p] = CURRENT_SCHEMA_VERSION
        /\ db' = work /\ work' = work /\ refused' = refused
    BY <1>5 DEF CommitMigration, Goes, Sound, TypeOK
  <2>2. db'.version = CURRENT_SCHEMA_VERSION
    BY <2>1 DEF MigrationInv
  <2> QED
    BY <2>1, <2>2, MigrationKept DEF SameSchema, Opened, MigrationInv
<1>6. CASE OpenFails(p)
  <2>1. ~refused'
    <3>1. CASE pc[p] = "migrating" /\ seen[p] < CURRENT_SCHEMA_VERSION
      <4>1. /\ <<work.version, work.cols>> \in Schemas /\ seen[p] = work.version
            /\ work.version \in 0..CURRENT_SCHEMA_VERSION
        BY <3>1 DEF MigrationInv, IsMigratable, Sound, TypeOK
      <4>2. <<work.version, work.cols>>[1] = work.version /\ <<work.version, work.cols>>[2] = work.cols
        OBVIOUS
      <4>3. work.version # CURRENT_SCHEMA_VERSION
        BY <3>1, <4>1 DEF CURRENT_SCHEMA_VERSION
      <4>4. ~Refuses(work.version + 1, work.cols)
        BY <4>1, <4>2, <4>3, SchemaAssumption
      <4> QED
        BY <1>6, <4>1, <4>4 DEF OpenFails, MigrationInv
    <3>2. CASE ~(pc[p] = "migrating" /\ seen[p] < CURRENT_SCHEMA_VERSION)
      BY <1>6, <3>2 DEF OpenFails, MigrationInv
    <3> QED
      BY <3>1, <3>2
  <2>2. Gone(p) /\ db' = db
    BY <1>6 DEF OpenFails
  <2> QED
    BY <2>1, <2>2, MigrationGone
<1>7. CASE TakeWriterLock(p)
  <2>1. /\ \A q \in Procs : q # p => pc'[q] = pc[q] /\ seen'[q] = seen[q]
        /\ pc[p] = "opened" /\ pc'[p] = "idle"
        /\ db' = db /\ work' = work /\ refused' = refused
    BY <1>7 DEF TakeWriterLock, Goes, Sound, TypeOK
  <2> QED
    BY <2>1, MigrationKept DEF SameSchema, Opened, MigrationInv
<1>8. CASE LockRefused(p) \/ Crash(p)
  <2>1. Gone(p) /\ db' = db /\ refused' = refused
    BY <1>8 DEF LockRefused, Crash
  <2> QED
    BY <2>1, MigrationGone DEF MigrationInv
<1> QED
  BY <1>1, <1>2, <1>3, <1>4, <1>5, <1>6, <1>7, <1>8 DEF Opening

\* An operation that returns an error gives back what it had or keeps it.
LEMMA MigrationReturns ==
    ASSUME Sound, MigrationInv, NEW p \in Procs, pc[p] \in {"begun", "written"},
           NEW open \in BOOLEAN, NEW flagged, NEW fault, Returns(p, open, flagged, fault)
    PROVE  MigrationInv'
<1>1. CASE p \in Daemons
  <2>1. /\ \A q \in Procs : q # p => pc'[q] = pc[q] /\ seen'[q] = seen[q]
        /\ pc'[p] = "idle" /\ db' = db /\ work' \in {work, db} /\ refused' = refused
    BY <1>1 DEF Returns, Goes, Sound, TypeOK
  <2>2. \A q \in Procs : q # p => pc[q] # "migrating"
    BY DEF Sound, AccessInv, TransactionIsHeld
  <2> QED
    BY <2>1, <2>2, MigrationKept DEF SameSchema, Opened, MigrationInv
<1>2. CASE p \notin Daemons
  <2>1. Gone(p) /\ db' = db /\ refused' = refused
    BY <1>2 DEF Returns
  <2> QED
    BY <2>1, MigrationGone DEF MigrationInv
<1> QED
  BY <1>1, <1>2

\* The steps of working.
LEMMA MigrationWorking ==
    ASSUME Sound, MigrationInv, NEW p \in Procs,
           \/ Working(p) \/ WriteAlone(p)
           \/ \E kind \in Kinds : Begin(p, kind) \/ BeginFails(p, kind)
    PROVE  MigrationInv'
<1>1. ASSUME NEW d, IsMigratable(d)
      PROVE  SameSchema([d EXCEPT !.rows[p] = @ + 1], d)
  BY <1>1 DEF SameSchema, IsMigratable
<1>2. IsMigratable(db) /\ IsMigratable(work) /\ ~refused
  BY DEF MigrationInv
<1>3. CASE Write(p)
  <2>1. /\ \A q \in Procs : q # p => pc'[q] = pc[q] /\ seen'[q] = seen[q]
        /\ pc[p] = "begun" /\ pc'[p] = "written" /\ db' = db
        /\ work' = [work EXCEPT !.rows[p] = @ + 1] /\ refused' = refused
    BY <1>3 DEF Write, Goes, Sound, TypeOK
  <2>2. SameSchema(work', work) /\ SameSchema(db', db)
    BY <1>1, <1>2, <2>1 DEF SameSchema
  <2>3. work'.version = work.version
    BY <2>2 DEF SameSchema
  <2> QED
    BY <1>2, <2>1, <2>2, <2>3, MigrationKept DEF Opened
<1>4. CASE Commit(p)
  <2>1. /\ \A q \in Procs : q # p => pc'[q] = pc[q] /\ seen'[q] = seen[q]
        /\ pc[p] = "written" /\ pc'[p] = "idle" /\ db' = work /\ work' = work
        /\ refused' = refused
    BY <1>4 DEF Commit, Goes, Sound, TypeOK
  <2> QED
    BY <1>2, <2>1, MigrationKept DEF SameSchema, Opened
<1>5. CASE WriteFails(p) \/ CommitFails(p)
  <2>1. pc[p] \in {"begun", "written"}
    BY <1>5 DEF WriteFails, CommitFails
  <2>2. \E open \in BOOLEAN : \E flagged, fault : Returns(p, open, flagged, fault)
    BY <1>5 DEF WriteFails, CommitFails
  <2> QED
    BY <2>1, <2>2, MigrationReturns
<1>6. CASE WriteAlone(p)
  <2>1. /\ pc' = pc /\ seen' = seen /\ refused' = refused /\ pc[p] = "idle"
        /\ \/ db' = db /\ work' = [work EXCEPT !.rows[p] = @ + 1]
           \/ db' = [db EXCEPT !.rows[p] = @ + 1] /\ work' = db' /\ holder = NoProc
    BY <1>6 DEF WriteAlone, MayWork
  <2>2. holder = NoProc => work = db
    BY DEF Sound, AccessInv
  <2>3. SameSchema(work', work) /\ SameSchema(db', db)
    BY <1>1, <1>2, <2>1, <2>2 DEF SameSchema
  <2>4. work'.version = work.version
    BY <2>3 DEF SameSchema
  <2> QED
    BY <1>2, <2>1, <2>3, <2>4, MigrationKept DEF Opened
<1>7. ASSUME NEW kind \in Kinds, Begin(p, kind)
      PROVE  MigrationInv'
  <2>1. /\ \A q \in Procs : q # p => pc'[q] = pc[q] /\ seen'[q] = seen[q]
        /\ pc[p] = "idle" /\ pc'[p] = "begun" /\ db' = db /\ work' = db /\ holder = NoProc
        /\ refused' = refused
    BY <1>7 DEF Begin, MayWork, Goes, Sound, TypeOK
  <2>2. work = db
    BY <2>1 DEF Sound, AccessInv
  <2> QED
    BY <1>2, <2>1, <2>2, MigrationKept DEF SameSchema, Opened
<1>8. ASSUME NEW kind \in Kinds, BeginFails(p, kind)
      PROVE  MigrationInv'
  <2>1. CASE p \in Daemons
    <3>1. UNCHANGED <<db, work, pc, seen, refused>>
      BY <1>8, <2>1 DEF BeginFails
    <3> QED
      BY <3>1 DEF MigrationInv, IsMigratable
  <2>2. CASE p \notin Daemons
    <3>1. Gone(p) /\ db' = db /\ refused' = refused
      BY <1>8, <2>2 DEF BeginFails
    <3> QED
      BY <1>2, <3>1, MigrationGone
  <2> QED
    BY <2>1, <2>2
<1> QED
  BY <1>3, <1>4, <1>5, <1>6, <1>7, <1>8 DEF Working

\* Whoever opens the file, however many at once and wherever they are killed:
\* when migrating alone refuses no step and ends in the current schema, then
\* so does migrating in company, and whoever has opened the file works on it.
THEOREM MigrationsHappenOnce == Spec => []MigrationsAreWhole
<1>1. Sound /\ MigrationInv /\ [Next]_vars => MigrationInv'
  <2> SUFFICES ASSUME Sound, MigrationInv, [Next]_vars PROVE MigrationInv'
    OBVIOUS
  <2>1. CASE UNCHANGED vars
    BY <2>1 DEF vars, MigrationInv, IsMigratable
  <2>2. ASSUME NEW p \in Procs, DropLock(p) PROVE MigrationInv'
    BY <2>2 DEF DropLock, MigrationInv, IsMigratable
  <2> QED
    BY <2>1, <2>2, MigrationOpening, MigrationWorking DEF Next
<1>2. Sound /\ MigrationInv => MigrationsAreWhole
  <2> SUFFICES ASSUME Sound, MigrationInv PROVE MigrationsAreWhole
    OBVIOUS
  <2>1. ASSUME NEW p \in Procs, pc[p] \in Opened
        PROVE  /\ db.version = CURRENT_SCHEMA_VERSION
               /\ <<"operational_state", 1>> \in db.cols => db.cols = Release[CURRENT_SCHEMA_VERSION].cols
               /\ "unknown_network" \notin db.active
    <3>1. db.version = CURRENT_SCHEMA_VERSION /\ IsMigratable(db)
      BY <2>1 DEF MigrationInv
    <3>2. <<db.version, db.cols>>[1] = db.version /\ <<db.version, db.cols>>[2] = db.cols
      OBVIOUS
    <3>3. <<db.version, db.cols>> \in Schemas /\ "unknown_network" \notin db.active
      BY <3>1 DEF IsMigratable, CURRENT_SCHEMA_VERSION
    <3> QED
      BY <3>1, <3>2, <3>3, SchemaAssumption
  <2> QED
    BY <2>1 DEF MigrationsAreWhole, NoStepTwice, OpenIsCurrent, MigrationInv, Opened
<1> QED
  BY <1>1, <1>2, MigrationInit, AccessInvariant, PTL DEF Spec
=============================================================================
