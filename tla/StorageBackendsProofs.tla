------------------------ MODULE StorageBackendsProofs ------------------------
(***************************************************************************)
(* Proofs about the two implementations of the Storage trait, for every    *)
(* set of findings, times, snapshots, policies, runs, events and           *)
(* deliveries, and every length of a behaviour.                            *)
(*                                                                         *)
(* The properties compare what reads show, after lists were sorted, cut and*)
(* parsed; they are not inductive.  IInv relates the tables themselves: a  *)
(* vector holds the same records as a set of rows, column for column, up to*)
(* the differences met so far (noted, skewed).  A call keeps each of those *)
(* relations (the lemmas on the tables, then one lemma per action), and    *)
(* each read is shown to be the same on related tables.  Two facts carry   *)
(* most of it.  First, a list is determined by a linear order of a set:    *)
(* whatever MemoryStorage does to put a vector in an order, the query with *)
(* that ORDER BY returns it (section Lists).  Second, during a pruning pass*)
(* the rows not yet deleted lie between those the loop will keep and those *)
(* it may still delete (PassR), whichever rows its statements pick.        *)
(***************************************************************************)
EXTENDS StorageBackends, FiniteSetTheorems, SequenceTheorems, WellFoundedInduction, TLAPS

-----------------------------------------------------------------------------
(* How the tables of the two backends are related.                         *)

\* Findings: a vector and rows of the same findings, with the same times and
\* severities; the same lifecycle and counter for all but those in gap.
MemRow == [id : FindingIds, first : Times, last : Times, severity : DOMAIN SeverityInt,
           life : {"active", "resolved"}]
SqlRow == [id : FindingIds, first : Times, last : Times, severity : Range(SeverityInt),
           life : {"active", "resolved"}]
Counters == [FindingIds -> 0..2]

SameFinding(x, r, gap) ==
    /\ r.id = x.id /\ r.first = x.first /\ r.last = x.last
    /\ r.severity = SeverityInt[x.severity]
    /\ x.id \notin gap => r.life = x.life

MemFindings(m) ==
    /\ m = [rows |-> m.rows, absent |-> m.absent]
    /\ m.rows \in Seq(MemRow) /\ m.absent \in Counters
    /\ \A j, k \in DOMAIN m.rows : m.rows[j].id = m.rows[k].id => j = k
    /\ \A k \in DOMAIN m.rows : m.rows[k].first <= m.rows[k].last

SqlFindings(q) ==
    /\ q = [rows |-> q.rows, absent |-> q.absent]
    /\ q.rows \subseteq SqlRow /\ q.absent \in Counters
    /\ \A r, s \in q.rows : r.id = s.id => r = s
    /\ \A id \in FindingIds : (\A r \in q.rows : r.id # id) => q.absent[id] = 0

SameFindings(m, q, gap) ==
    /\ \A k \in DOMAIN m.rows : \E r \in q.rows : SameFinding(m.rows[k], r, gap)
    /\ \A r \in q.rows : \E k \in DOMAIN m.rows : SameFinding(m.rows[k], r, gap)
    /\ \A id \in FindingIds \ gap : m.absent[id] = q.absent[id]

FindingsR(m, q, gap) == MemFindings(m) /\ SqlFindings(q) /\ SameFindings(m, q, gap)

\* Recommendations.
MemAdviceRow == [lifecycle : {"active", "resolved"}, stage : DOMAIN StageText, created : Nat \ {0}]
SqlAdviceRow == [lifecycle : {"active", "resolved"}, stage : Range(StageText), created : Nat \ {0}]

SameAdvice(m, q, gap) ==
    /\ \A id \in FindingIds :
          /\ m[id] = NoAdvice <=> q[id] = NoAdvice
          /\ m[id] # NoAdvice => /\ q[id].created = m[id].created
                                 /\ q[id].stage = StageText[m[id].stage]
                                 /\ id \notin gap => q[id].lifecycle = m[id].lifecycle
    /\ \A id, other \in FindingIds :
          id # other /\ m[id] # NoAdvice /\ m[other] # NoAdvice => m[id].created # m[other].created

AdviceR(m, q, seen, gap) ==
    /\ m \in [FindingIds -> {NoAdvice} \cup MemAdviceRow]
    /\ q \in [FindingIds -> {NoAdvice} \cup SqlAdviceRow]
    /\ "resaved" \notin seen => SameAdvice(m, q, gap)

\* Snapshots.
Snaps == [channel : Range(Channels), ts : SnapTimes, status : DOMAIN StatusInt]
RowOf(s) == [channel |-> s.channel, ts |-> s.ts, status |-> StatusInt[s.status]]
SqlSnaps == {RowOf(s) : s \in Snaps}

MemSnapshots(list) ==
    /\ list \in Seq(Snaps) /\ Len(list) <= MaxSnapshots
    /\ \A j, k \in DOMAIN list : list[j].channel = list[k].channel /\ list[j].ts = list[k].ts => j = k

SqlSnapshots(rows) ==
    /\ rows \subseteq SqlSnaps /\ IsFiniteSet(rows) /\ Cardinality(rows) <= MaxSnapshots
    /\ \A r, s \in rows : r.channel = s.channel /\ r.ts = s.ts => r = s

RowsOf(list) == {RowOf(list[k]) : k \in DOMAIN list}

Ascending(list) ==
    \A j, k \in DOMAIN list : j < k /\ list[j].channel = list[k].channel => list[j].ts < list[k].ts

SnapsR(list, rows, seen) ==
    /\ list \in Seq(Snaps) /\ Len(list) <= MaxSnapshots /\ SqlSnapshots(rows)
    /\ seen \cap {"nested", "replaced"} = {} => MemSnapshots(list)
    /\ seen \cap {"tie", "zero_cap", "nested", "replaced"} = {} => rows = RowsOf(list)
    /\ seen = {} => Ascending(list)

\* Runs and simulations.
Distinct(list) == \A j, k \in DOMAIN list : list[j].id = list[k].id => j = k

RunsR(runs, sims, rows, seen) ==
    /\ runs \in Seq(Runs) /\ Distinct(runs) /\ sims \in Seq(Sims)
    /\ IsFiniteSet(rows) /\ \A r, s \in rows : r.id = s.id => r = s
    /\ rows \subseteq {r \in Runs : ValidateRun(r)} \cup {LegacyRow(s) : s \in Sims}
    /\ "taken" \notin seen =>
          /\ Distinct(sims)
          /\ {r \in rows : r.model = "legacy"} = {LegacyRow(sims[k]) : k \in DOMAIN sims}
    /\ seen \cap {"invalid", "taken"} = {} => {r \in rows : r.model # "legacy"} = Range(runs)

\* Events of runs.
EventsR(list, events, rows, seen) ==
    /\ list \in Seq(Events) /\ Distinct(list)
    /\ events \subseteq {e \in Events : ValidateStatus(e.status)}
    /\ \A e \in events : \E r \in rows : r.id = e.run
    /\ seen \cap {"invalid", "orphan"} = {} => Range(list) = events

\* The queue and the ledger.
IsQueue(queue) ==
    /\ queue = [d \in DOMAIN queue |-> queue[d]]
    /\ DOMAIN queue \subseteq Deliveries /\ IsFiniteSet(DOMAIN queue)
    /\ \A d \in DOMAIN queue : queue[d] \in [accepted : Times, processed : Times \cup {0}]

SameLedger(mseen, ledger) == DOMAIN mseen = {r.id : r \in ledger}

QueueR(mqueue, mseen, queue, ledger, seen) ==
    /\ IsQueue(mqueue) /\ IsQueue(queue)
    /\ seen \cap {"remarked", "nested"} = {} =>
          /\ mqueue = queue
          /\ SameLedger(mseen, ledger) /\ DOMAIN queue \subseteq DOMAIN mseen

\* The rows of state.
StateR(state, row) ==
    state \in [source : Sources, alert_sink : Components] /\ SqlReadState(row) = state

AlertR(state, row) ==
    state \in AlertStates(Times) \cup {NoAlert} /\ SqlReadAlert(row) = state

Entries ==
    [id : 1..MaxAudit, previous : {"none"} \cup DOMAIN StageText, stage : DOMAIN StageText, ts : Times]

AuditR(list, rows, seen) ==
    /\ list \in Seq(Entries)
    /\ "taken" \notin seen => rows = [k \in DOMAIN list |-> SqlAuditRow(list[k])]

-----------------------------------------------------------------------------
(* The inductive invariant.                                                *)

MemTables(m) ==
    m = [findings |-> m.findings, advice |-> m.advice, snaps |-> m.snaps, runs |-> m.runs,
         sims |-> m.sims, events |-> m.events, queue |-> m.queue, seen |-> m.seen,
         state |-> m.state, alert |-> m.alert, audit |-> m.audit]

SqlTables(q) ==
    q = [findings |-> q.findings, advice |-> q.advice, snaps |-> q.snaps, runs |-> q.runs,
         events |-> q.events, queue |-> q.queue, seen |-> q.seen,
         state |-> q.state, alert |-> q.alert, audit |-> q.audit]

\* Every table but the snapshots.
Related(m, q, seen, gap) ==
    /\ MemTables(m) /\ SqlTables(q)
    /\ FindingsR(m.findings, q.findings, gap)
    /\ AdviceR(m.advice, q.advice, seen, gap)
    /\ RunsR(m.runs, m.sims, q.runs, seen)
    /\ EventsR(m.events, q.events, q.runs, seen)
    /\ QueueR(m.queue, m.seen, q.queue, q.seen, seen)
    /\ StateR(m.state, q.state) /\ AlertR(m.alert, q.alert) /\ AuditR(m.audit, q.audit, seen)

\* How far a pass has come: what a loop has not deleted yet is what its
\* statements may still delete.
KeptByAge(p) == p.before \ SqlAged(p.before, p.policy, p.now)
KeptByCap(p) == KeptByAge(p) \ SqlOverCap(KeptByAge(p), p.policy)

\* The rows a total cap keeps whatever the order of ties.
Above(rows, r) == {s \in rows : s.ts > r.ts}
KeptByTotal(p) ==
    {r \in KeptByCap(p) : \/ p.policy.total \in {None, 0}
                          \/ Cardinality(Above(KeptByCap(p), r)) < p.policy.total}

PassR(p, rows, seen) ==
    /\ rows \subseteq p.before
    /\ "tie" \notin seen =>
          /\ p.stage = "age" => KeptByAge(p) \subseteq rows
          /\ p.stage = "cap" => KeptByCap(p) \subseteq rows /\ rows \subseteq KeptByAge(p)
          /\ p.stage = "total" => KeptByTotal(p) \subseteq rows /\ rows \subseteq KeptByCap(p)

SnapsInv ==
    IF pass = NoPass THEN SnapsR(mem.snaps, sql.snaps, noted)
    ELSE /\ pass = [stage |-> pass.stage, policy |-> pass.policy, now |-> pass.now, before |-> pass.before]
         /\ pass.stage \in {"age", "cap", "total"} /\ pass.policy \in Policies /\ pass.now \in SnapTimes
         /\ saved = NoTx
         /\ SnapsR(mem.snaps, pass.before, noted)
         /\ noted \cap {"zero_cap", "nested", "replaced"} = {}
         /\ PassR(pass, sql.snaps, noted)

SavedInv ==
    \/ saved = NoTx
    \/ /\ saved = [open |-> TRUE, mem |-> saved.mem, sql |-> saved.sql]
       /\ Related(saved.mem, saved.sql, noted, {})
       /\ SnapsR(saved.mem.snaps, saved.sql.snaps, noted)

ControlInv ==
    /\ focus \in Focuses
    /\ calls \in 0..MaxTxCalls
    /\ noted \subseteq Differences /\ skewed \subseteq FindingIds
    /\ ResultsAgree

IInv == ControlInv /\ Related(mem, sql, noted, skewed) /\ SnapsInv /\ SavedInv

-----------------------------------------------------------------------------
(* Lists.                                                                  *)

\* A strict order on S, and one with no ties.
Strict(S, before) ==
    /\ \A x \in S : <<x, x>> \notin before
    /\ \A x, y, z \in S : <<x, y>> \in before /\ <<y, z>> \in before => <<x, z>> \in before

Linear(S, before) ==
    /\ Strict(S, before)
    /\ \A x, y \in S : x = y \/ <<x, y>> \in before \/ <<y, x>> \in before

\* What a sorted query may return.
Listing(list, S, before) ==
    /\ list \in [1..Cardinality(S) -> S]
    /\ IsInjective(list)
    /\ \A j, k \in DOMAIN list : j < k => <<list[k], list[j]>> \notin before

\* A list of all of S in that order.
Sorts(list, n, S, before) ==
    /\ list \in [1..n -> S]
    /\ \A x \in S : \E k \in 1..n : list[k] = x
    /\ \A j, k \in 1..n : j < k => <<list[j], list[k]>> \in before

\* A set of natural numbers has a least one.
LEMMA MinIs ==
    ASSUME NEW S, S \subseteq Nat, S # {}
    PROVE  Min(S) \in S /\ \A y \in S : Min(S) <= y
<1> DEFINE R == {p \in Nat \X Nat : p[1] < p[2]}
<1>1. R = OpToRel(<, Nat)
  BY DEF OpToRel
<1>2. IsWellFoundedOn(R, Nat)
  BY <1>1, NatLessThanWellFounded
<1>3. \A x, y \in Nat : y < x => <<y, x>> \in R
  OBVIOUS
<1> HIDE DEF R
<1>4. PICK x \in S : \A y \in S : ~ (<<y, x>> \in R)
  BY <1>2, WFMin
<1>5. \A y \in S : ~ (y < x)
  BY <1>3, <1>4
<1>6. \A y \in S : x <= y
  BY <1>4, <1>5
<1> QED
  BY <1>4, <1>6 DEF Min

\* A finite set of a strict order has a member that none comes after.
LEMMA LastIs ==
    ASSUME NEW S, IsFiniteSet(S), S # {}, NEW before, Strict(S, before)
    PROVE  \E x \in S : \A y \in S : <<x, y>> \notin before
<1> DEFINE Up(x) == {y \in S : <<x, y>> \in before}
           Ups == {Up(x) : x \in S}
           R == StrictSubsetOrdering(S)
<1>1. IsWellFoundedOn(R, SUBSET S)
  BY FS_StrictSubsetOrderingWellFounded, FS_FiniteSubsetsOfFinite
<1>2. Ups \subseteq SUBSET S /\ Ups # {}
  OBVIOUS
<1>3. PICK U \in Ups : \A V \in Ups : ~ (<<V, U>> \in R)
  <2> HIDE DEF Ups, R
  <2> QED
    BY <1>1, <1>2, WFMin
<1>4. PICK x \in S : U = Up(x)
  BY <1>3
<1>5. SUFFICES ASSUME NEW y \in S, <<x, y>> \in before
               PROVE  FALSE
  OBVIOUS
<1>6. Up(y) \subseteq Up(x) /\ y \in Up(x) /\ y \notin Up(y)
  BY <1>5 DEF Strict
<1>7. Up(y) \in Ups
  OBVIOUS
<1>8. <<Up(y), Up(x)>> \in R
  BY <1>6 DEF StrictSubsetOrdering
<1> QED
  BY <1>3, <1>4, <1>7, <1>8

\* Every finite set of a strict order can be listed.
LEMMA ListingExists ==
    ASSUME NEW S, IsFiniteSet(S), NEW before, Strict(S, before)
    PROVE  \E list : Listing(list, S, before)
<1> DEFINE Bad == {T \in SUBSET S : ~ \E list : Listing(list, T, before)}
           R == StrictSubsetOrdering(S)
<1>1. SUFFICES ASSUME Bad # {} PROVE FALSE
  OBVIOUS
<1>2. PICK T \in Bad : \A U \in Bad : ~ (<<U, T>> \in R)
  <2>1. IsWellFoundedOn(R, SUBSET S)
    BY FS_StrictSubsetOrderingWellFounded, FS_FiniteSubsetsOfFinite
  <2>2. Bad \subseteq SUBSET S
    OBVIOUS
  <2> HIDE DEF Bad, R
  <2> QED
    BY <1>1, <2>1, <2>2, WFMin
<1>3. T \subseteq S /\ IsFiniteSet(T)
  BY FS_Subset
<1>4. T # {}
  <2>1. ASSUME T = {} PROVE Listing(<<>>, T, before)
    BY <2>1, FS_EmptySet DEF Listing, IsInjective
  <2> QED
    BY <2>1
<1>5. PICK x \in T : \A y \in T : <<x, y>> \notin before
  BY <1>3, <1>4, LastIs DEF Strict
<1> DEFINE U == T \ {x}
           n == Cardinality(T)
<1>6. IsFiniteSet(U) /\ Cardinality(U) = n - 1 /\ n \in Nat /\ n > 0
  BY <1>3, <1>4, FS_RemoveElement, FS_CardinalityType, FS_EmptySet
<1>7. U \notin Bad
  BY <1>2, <1>3 DEF StrictSubsetOrdering
<1>8. PICK rest : Listing(rest, U, before)
  BY <1>3, <1>7
<1> DEFINE list == [k \in 1..n |-> IF k = n THEN x ELSE rest[k]]
<1>9. rest \in [1..(n - 1) -> U] /\ IsInjective(rest)
  BY <1>6, <1>8 DEF Listing
<1>10. list \in [1..n -> T]
  BY <1>6, <1>9
<1>11. IsInjective(list)
  BY <1>6, <1>9 DEF IsInjective
<1>12. \A j, k \in 1..n : j < k => <<list[k], list[j]>> \notin before
  <2>1. SUFFICES ASSUME NEW j \in 1..n, NEW k \in 1..n, j < k
                 PROVE  <<list[k], list[j]>> \notin before
    OBVIOUS
  <2>2. CASE k = n
    BY <1>5, <1>6, <1>9, <2>1, <2>2
  <2>3. CASE k # n
    <3>1. j \in 1..(n - 1) /\ k \in 1..(n - 1) /\ DOMAIN rest = 1..(n - 1)
      BY <1>6, <1>9, <2>1, <2>3
    <3>2. <<rest[k], rest[j]>> \notin before
      BY <1>8, <2>1, <3>1 DEF Listing
    <3> QED
      BY <1>6, <3>1, <3>2
  <2> QED
    BY <2>2, <2>3
<1>13. Listing(list, T, before)
  BY <1>10, <1>11, <1>12 DEF Listing
<1> QED
  BY <1>13

\* What a sorted query returns: every row once, none after one it is before.
LEMMA ListedIs ==
    ASSUME NEW S, IsFiniteSet(S), NEW before, Strict(S, before)
    PROVE  /\ Listing(Listed(S, before), S, before)
           /\ Cardinality(S) \in Nat
           /\ Listed(S, before) \in Seq(S) /\ Len(Listed(S, before)) = Cardinality(S)
           /\ \A x \in S : \E k \in 1..Cardinality(S) : Listed(S, before)[k] = x
<1> DEFINE list == Listed(S, before)
           n == Cardinality(S)
<1>1. Listing(list, S, before)
  <2>1. PICK l : Listing(l, S, before)
    BY ListingExists
  <2> QED
    BY <2>1 DEF Listed, Listing
<1>2. n \in Nat
  BY FS_CardinalityType
<1>3. list \in Seq(S) /\ Len(list) = n
  BY <1>1, <1>2 DEF Listing
<1>4. list \in Injection(1..n, S)
  BY <1>1 DEF Listing, Injection, IsInjective
<1>5. IsFiniteSet(1..n) /\ Cardinality(1..n) = n
  BY <1>2, FS_Interval
<1>6. list \in Surjection(1..n, S)
  BY <1>4, <1>5, FS_Injection
<1> HIDE DEF list, n
<1>7. \A x \in S : \E k \in 1..n : list[k] = x
  BY <1>6 DEF Surjection
<1> QED
  BY <1>1, <1>2, <1>3, <1>7 DEF list, n

\* Without ties a list in order is the one the query returns.
LEMMA SortedIsListed ==
    ASSUME NEW S, NEW before, Linear(S, before),
           NEW n \in Nat, NEW list, Sorts(list, n, S, before)
    PROVE  IsFiniteSet(S) /\ Cardinality(S) = n /\ Listed(S, before) = list
<1>0. /\ list \in [1..n -> S]
      /\ \A x \in S : \E k \in 1..n : list[k] = x
      /\ \A j, k \in 1..n : j < k => <<list[j], list[k]>> \in before
  BY DEF Sorts
<1>1. \A j, k \in 1..n : list[j] = list[k] => j = k
  <2>1. SUFFICES ASSUME NEW j \in 1..n, NEW k \in 1..n, list[j] = list[k], j # k PROVE FALSE
    OBVIOUS
  <2>2. list[j] \in S /\ (<<list[j], list[k]>> \in before \/ <<list[k], list[j]>> \in before)
    BY <1>0, <2>1 DEF Linear
  <2> QED
    BY <2>1, <2>2 DEF Linear, Strict
<1>2. IsFiniteSet(S) /\ Cardinality(S) = n
  <2>1. list \in Bijection(1..n, S)
    BY <1>0, <1>1 DEF Bijection, Injection, Surjection, IsInjective
  <2>2. IsFiniteSet(1..n) /\ Cardinality(1..n) = n
    BY FS_Interval
  <2>3. ExistsBijection(1..n, S)
    BY <2>1 DEF ExistsBijection
  <2> QED
    BY <2>2, <2>3, FS_Bijection
<1> DEFINE l == Listed(S, before)
<1>3. /\ l \in [1..n -> S]
      /\ \A j, k \in 1..n : l[j] = l[k] => j = k
      /\ \A x \in S : \E k \in 1..n : l[k] = x
      /\ \A j, k \in 1..n : j < k => <<l[k], l[j]>> \notin before
  <2>1. Strict(S, before)
    BY DEF Linear
  <2>2. Listing(l, S, before) /\ \A x \in S : \E k \in 1..n : l[k] = x
    BY <1>2, <2>1, ListedIs
  <2>3. l \in [1..n -> S] /\ DOMAIN l = 1..n
    BY <1>2, <2>2 DEF Listing
  <2> HIDE DEF l
  <2> QED
    BY <2>2, <2>3 DEF Listing, IsInjective
<1> HIDE DEF l
<1>4. \A j, k \in 1..n : j < k => <<l[j], l[k]>> \in before
  <2>1. SUFFICES ASSUME NEW j \in 1..n, NEW k \in 1..n, j < k PROVE <<l[j], l[k]>> \in before
    OBVIOUS
  <2>2. l[j] \in S /\ l[k] \in S /\ l[j] # l[k] /\ <<l[k], l[j]>> \notin before
    BY <1>3, <2>1
  <2> QED
    BY <2>2 DEF Linear
<1>5. \A k \in 1..n : l[k] = list[k]
  <2> DEFINE D == {k \in 1..n : l[k] # list[k]}
  <2>1. SUFFICES ASSUME D # {} PROVE FALSE
    OBVIOUS
  <2>2. PICK k \in 1..n : l[k] # list[k] /\ \A j \in 1..n : j < k => l[j] = list[j]
    <3>1. D \subseteq Nat
      OBVIOUS
    <3>2. Min(D) \in D /\ \A j \in D : Min(D) <= j
      BY <2>1, <3>1, MinIs
    <3>3. \A j \in 1..n : j < Min(D) => l[j] = list[j]
      BY <3>2
    <3> QED
      BY <3>2, <3>3
  <2>3. PICK j \in 1..n : list[j] = l[k]
    BY <1>0, <1>3
  <2>4. PICK i \in 1..n : l[i] = list[k]
    BY <1>0, <1>3
  <2> HIDE DEF D
  <2>5. j > k
    <3>1. j # k
      BY <2>2, <2>3
    <3>2. ~ (j < k)
      <4>1. j < k => l[j] = l[k]
        BY <2>2, <2>3
      <4> QED
        BY <1>3, <3>1, <4>1
    <3> QED
      BY <3>1, <3>2
  <2>6. i > k
    <3>1. i # k
      BY <2>2, <2>4
    <3>2. ~ (i < k)
      <4>1. i < k => list[i] = list[k]
        BY <2>2, <2>4
      <4> QED
        BY <1>1, <3>1, <4>1
    <3> QED
      BY <3>1, <3>2
  <2>7. <<list[k], l[k]>> \in before /\ <<l[k], list[k]>> \in before
    BY <1>0, <1>4, <2>3, <2>4, <2>5, <2>6
  <2>8. list[k] \in S /\ l[k] \in S
    BY <1>0, <1>3
  <2> QED
    BY <2>7, <2>8 DEF Linear, Strict
<1>6. l = list
  BY <1>0, <1>3, <1>5
<1> QED
  BY <1>2, <1>6 DEF l

\* The smaller and the larger of two numbers.
LEMMA MinMaxOfTwo ==
    ASSUME NEW a \in Int, NEW b \in Int
    PROVE  /\ Min({a, b}) = IF a <= b THEN a ELSE b
           /\ Max({a, b}) = IF a >= b THEN a ELSE b
<1>1. \E x \in {a, b} : \A y \in {a, b} : x <= y
  OBVIOUS
<1>2. Min({a, b}) \in {a, b} /\ \A y \in {a, b} : Min({a, b}) <= y
  BY <1>1 DEF Min
<1>3. \E x \in {a, b} : \A y \in {a, b} : x >= y
  OBVIOUS
<1>4. Max({a, b}) \in {a, b} /\ \A y \in {a, b} : Max({a, b}) >= y
  BY <1>3 DEF Max
<1> QED
  BY <1>2, <1>4

\* A list cut at a limit.
LEMMA FirstIs ==
    ASSUME NEW S, NEW list \in Seq(S), NEW n \in Nat
    PROVE  /\ First(list, n) \in Seq(S)
           /\ Len(First(list, n)) = IF n <= Len(list) THEN n ELSE Len(list)
           /\ \A k \in 1..Len(First(list, n)) : First(list, n)[k] = list[k]
<1> DEFINE m == IF n <= Len(list) THEN n ELSE Len(list)
<1>1. Len(list) \in Nat
  OBVIOUS
<1>2. First(list, n) = SubSeq(list, 1, m)
  BY <1>1, MinMaxOfTwo DEF First
<1>3. m \in 0..Len(list)
  BY <1>1
<1> HIDE DEF m
<1>4. /\ SubSeq(list, 1, m) \in Seq(S) /\ Len(SubSeq(list, 1, m)) = m
      /\ \A k \in 1..m : SubSeq(list, 1, m)[k] = list[k]
  <2>1. SubSeq(list, 1, m) = [k \in 1..m |-> list[k]]
    BY <1>3
  <2>2. \A k \in 1..m : list[k] \in S
    BY <1>1, <1>3
  <2> QED
    BY <1>3, <2>1, <2>2
<1> QED
  BY <1>2, <1>4 DEF m

\* The positions of a list, up and down.
LEMMA PositionsUp ==
    ASSUME NEW n \in Nat, NEW ks \in SUBSET (1..n)
    PROVE  LET up == Listed(ks, {p \in ks \X ks : p[1] < p[2]})
           IN  /\ IsFiniteSet(ks) /\ Cardinality(ks) \in Nat
               /\ up \in [1..Cardinality(ks) -> ks]
               /\ \A k \in ks : \E i \in 1..Cardinality(ks) : up[i] = k
               /\ \A i, j \in 1..Cardinality(ks) : i < j => up[i] < up[j]
<1> DEFINE before == {p \in ks \X ks : p[1] < p[2]}
           up == Listed(ks, before)
           m == Cardinality(ks)
<1>0. \A k \in ks : k \in Nat
  OBVIOUS
<1>1. IsFiniteSet(ks)
  <2>1. IsFiniteSet(1..n)
    BY FS_Interval
  <2> QED
    BY <2>1, FS_Subset
<1>2. \A x, y \in ks : <<x, y>> \in before <=> x < y
  OBVIOUS
<1>3. Strict(ks, before)
  <2> HIDE DEF before
  <2>1. \A x \in ks : x \in Nat
    OBVIOUS
  <2> QED
    BY <1>2, <2>1 DEF Strict
<1> HIDE DEF before
<1>4. /\ Listing(up, ks, before) /\ m \in Nat
      /\ \A x \in ks : \E k \in 1..m : up[k] = x
  BY <1>1, <1>3, ListedIs
<1>5. up \in [1..m -> ks] /\ DOMAIN up = 1..m
  BY <1>4 DEF Listing
<1> HIDE DEF up, m
<1>6. \A i, j \in 1..m : i < j => up[i] < up[j]
  <2>1. SUFFICES ASSUME NEW i \in 1..m, NEW j \in 1..m, i < j
                 PROVE  up[i] < up[j]
    OBVIOUS
  <2>2. up[i] \in ks /\ up[j] \in ks
    BY <1>5
  <2>3. up[i] # up[j] /\ <<up[j], up[i]>> \notin before
    BY <1>4, <1>5, <2>1 DEF Listing, IsInjective
  <2>4. ~ (up[j] < up[i])
    BY <1>2, <2>2, <2>3
  <2>5. up[i] \in Nat /\ up[j] \in Nat
    BY <1>0, <2>2
  <2> QED
    BY <2>3, <2>4, <2>5
<1> QED
  BY <1>1, <1>4, <1>5, <1>6 DEF up, m, before

\* The same from the last position to the first.
LEMMA PositionsDown ==
    ASSUME NEW n \in Nat, NEW ks \in SUBSET (1..n)
    PROVE  LET down == Listed(ks, {p \in ks \X ks : p[1] > p[2]})
           IN  /\ IsFiniteSet(ks) /\ Cardinality(ks) \in Nat
               /\ down \in [1..Cardinality(ks) -> ks]
               /\ \A k \in ks : \E i \in 1..Cardinality(ks) : down[i] = k
               /\ \A i, j \in 1..Cardinality(ks) : i < j => down[i] > down[j]
<1> DEFINE before == {p \in ks \X ks : p[1] > p[2]}
           down == Listed(ks, before)
           m == Cardinality(ks)
<1>0. \A k \in ks : k \in Nat
  OBVIOUS
<1>1. IsFiniteSet(ks)
  <2>1. IsFiniteSet(1..n)
    BY FS_Interval
  <2> QED
    BY <2>1, FS_Subset
<1>2. \A x, y \in ks : <<x, y>> \in before <=> x > y
  OBVIOUS
<1>3. Strict(ks, before)
  <2> HIDE DEF before
  <2>1. \A x \in ks : x \in Nat
    OBVIOUS
  <2> QED
    BY <1>2, <2>1 DEF Strict
<1> HIDE DEF before
<1>4. /\ Listing(down, ks, before) /\ m \in Nat
      /\ \A x \in ks : \E k \in 1..m : down[k] = x
  BY <1>1, <1>3, ListedIs
<1>5. down \in [1..m -> ks] /\ DOMAIN down = 1..m
  BY <1>4 DEF Listing
<1> HIDE DEF down, m
<1>6. \A i, j \in 1..m : i < j => down[i] > down[j]
  <2>1. SUFFICES ASSUME NEW i \in 1..m, NEW j \in 1..m, i < j
                 PROVE  down[i] > down[j]
    OBVIOUS
  <2>2. down[i] \in ks /\ down[j] \in ks
    BY <1>5
  <2>3. down[i] # down[j] /\ <<down[j], down[i]>> \notin before
    BY <1>4, <1>5, <2>1 DEF Listing, IsInjective
  <2>4. ~ (down[j] > down[i])
    BY <1>2, <2>2, <2>3
  <2>5. down[i] \in Nat /\ down[j] \in Nat
    BY <1>0, <2>2
  <2> QED
    BY <2>3, <2>4, <2>5
<1> QED
  BY <1>1, <1>4, <1>5, <1>6 DEF down, m, before

\* The elements of a list at some positions are S, in order or in the opposite
\* order.
Rises(list, ks, S, before) ==
    /\ S = {list[k] : k \in ks}
    /\ \A j, k \in ks : j < k => <<list[j], list[k]>> \in before

Falls(list, ks, S, before) ==
    /\ S = {list[k] : k \in ks}
    /\ \A j, k \in ks : j < k => <<list[k], list[j]>> \in before

\* Filtering a list that is in order gives what the sorted query returns.
LEMMA KeptIsListed ==
    ASSUME NEW n \in Nat, NEW list, DOMAIN list = 1..n,
           NEW ks \in SUBSET (1..n), NEW S, NEW before, Linear(S, before), Rises(list, ks, S, before)
    PROVE  Kept(list, ks) = Listed(S, before) /\ IsFiniteSet(S) /\ Cardinality(S) = Cardinality(ks)
<1> DEFINE up == Listed(ks, {p \in ks \X ks : p[1] < p[2]})
           m == Cardinality(ks)
           kept == [i \in 1..m |-> list[up[i]]]
<1>1. /\ m \in Nat /\ up \in [1..m -> ks]
      /\ \A k \in ks : \E i \in 1..m : up[i] = k
      /\ \A i, j \in 1..m : i < j => up[i] < up[j]
  BY PositionsUp
<1>2. Kept(list, ks) = kept
  BY <1>1 DEF Kept, Picked
<1> HIDE DEF up, m
<1>3. kept \in [1..m -> S]
  BY <1>1 DEF Rises
<1>4. \A x \in S : \E i \in 1..m : kept[i] = x
  <2>1. SUFFICES ASSUME NEW k \in ks PROVE \E i \in 1..m : kept[i] = list[k]
    BY DEF Rises
  <2>2. PICK i \in 1..m : up[i] = k
    BY <1>1
  <2> QED
    BY <2>2
<1>5. \A i, j \in 1..m : i < j => <<kept[i], kept[j]>> \in before
  <2>1. SUFFICES ASSUME NEW i \in 1..m, NEW j \in 1..m, i < j
                 PROVE  <<kept[i], kept[j]>> \in before
    OBVIOUS
  <2>2. up[i] \in ks /\ up[j] \in ks /\ up[i] < up[j]
    BY <1>1, <2>1
  <2> QED
    BY <2>2 DEF Rises
<1> HIDE DEF kept
<1>6. Sorts(kept, m, S, before)
  BY <1>3, <1>4, <1>5 DEF Sorts
<1> QED
  BY <1>1, <1>2, <1>6, SortedIsListed DEF m

\* So does filtering one in the opposite order from its end.
LEMMA LastFirstIsListed ==
    ASSUME NEW n \in Nat, NEW list, DOMAIN list = 1..n,
           NEW ks \in SUBSET (1..n), NEW S, NEW before, Linear(S, before), Falls(list, ks, S, before)
    PROVE  LastFirst(list, ks) = Listed(S, before)
<1> DEFINE down == Listed(ks, {p \in ks \X ks : p[1] > p[2]})
           m == Cardinality(ks)
           kept == [i \in 1..m |-> list[down[i]]]
<1>1. /\ m \in Nat /\ down \in [1..m -> ks]
      /\ \A k \in ks : \E i \in 1..m : down[i] = k
      /\ \A i, j \in 1..m : i < j => down[i] > down[j]
  BY PositionsDown
<1>2. LastFirst(list, ks) = kept
  BY <1>1 DEF LastFirst, Picked
<1> HIDE DEF down, m
<1>3. kept \in [1..m -> S]
  BY <1>1 DEF Falls
<1>4. \A x \in S : \E i \in 1..m : kept[i] = x
  <2>1. SUFFICES ASSUME NEW k \in ks PROVE \E i \in 1..m : kept[i] = list[k]
    BY DEF Falls
  <2>2. PICK i \in 1..m : down[i] = k
    BY <1>1
  <2> QED
    BY <2>2
<1>5. \A i, j \in 1..m : i < j => <<kept[i], kept[j]>> \in before
  <2>1. SUFFICES ASSUME NEW i \in 1..m, NEW j \in 1..m, i < j
                 PROVE  <<kept[i], kept[j]>> \in before
    OBVIOUS
  <2>2. down[i] \in ks /\ down[j] \in ks /\ down[j] < down[i]
    BY <1>1, <2>1
  <2> QED
    BY <2>2 DEF Falls
<1> HIDE DEF kept
<1>6. Sorts(kept, m, S, before)
  BY <1>3, <1>4, <1>5 DEF Sorts
<1> QED
  BY <1>1, <1>2, <1>6, SortedIsListed

\* So does reversing one.
LEMMA ReverseIsListed ==
    ASSUME NEW S, NEW list \in Seq(S), \A x \in S : \E k \in 1..Len(list) : list[k] = x,
           NEW before, Linear(S, before),
           \A j, k \in 1..Len(list) : j < k => <<list[k], list[j]>> \in before
    PROVE  Reverse(list) = Listed(S, before)
<1> DEFINE n == Len(list)
           back == [k \in 1..n |-> list[(n - k) + 1]]
<1>1. n \in Nat /\ DOMAIN list = 1..n
  OBVIOUS
<1>2. Reverse(list) = back
  BY DEF Reverse
<1>3. back \in [1..n -> S]
  BY <1>1
<1>4. \A x \in S : \E k \in 1..n : back[k] = x
  <2>1. SUFFICES ASSUME NEW x \in S PROVE \E k \in 1..n : back[k] = x
    OBVIOUS
  <2>2. PICK k \in 1..n : list[k] = x
    OBVIOUS
  <2>3. (n - k) + 1 \in 1..n /\ (n - ((n - k) + 1)) + 1 = k
    BY <1>1
  <2> QED
    BY <2>2, <2>3
<1>5. \A j, k \in 1..n : j < k => <<back[j], back[k]>> \in before
  <2>1. SUFFICES ASSUME NEW j \in 1..n, NEW k \in 1..n, j < k
                 PROVE  <<back[j], back[k]>> \in before
    OBVIOUS
  <2>2. (n - j) + 1 \in 1..n /\ (n - k) + 1 \in 1..n /\ (n - k) + 1 < (n - j) + 1
    BY <1>1, <2>1
  <2> QED
    BY <2>2
<1> HIDE DEF back, n
<1>6. Sorts(back, n, S, before)
  BY <1>3, <1>4, <1>5 DEF Sorts
<1> QED
  BY <1>1, <1>2, <1>6, SortedIsListed

-----------------------------------------------------------------------------
(* Findings.                                                               *)

\* A severity is read back from its column.
LEMMA SeverityCodes ==
    ASSUME NEW s \in DOMAIN SeverityInt
    PROVE  SeverityInt[s] \in Range(SeverityInt) /\ SeverityFromInt(SeverityInt[s]) = s
<1>1. DOMAIN SeverityInt = {"Info", "Warning", "Critical"}
  BY DEF SeverityInt
<1>2. \A t \in DOMAIN SeverityInt : SeverityInt[t] = SeverityInt[s] => t = s
  BY <1>1 DEF SeverityInt
<1>3. SeverityInt[s] \in Range(SeverityInt)
  BY DEF Range
<1> QED
  BY <1>2, <1>3 DEF SeverityFromInt

\* Two empty tables.
LEMMA FindingsStart ==
    ASSUME NEW gap
    PROVE  FindingsR(EmptyMemFindings, EmptySqlFindings, gap)
<1>1. MemFindings(EmptyMemFindings)
  BY DEF MemFindings, EmptyMemFindings, Counters
<1>2. SqlFindings(EmptySqlFindings)
  BY DEF SqlFindings, EmptySqlFindings, Counters
<1>3. SameFindings(EmptyMemFindings, EmptySqlFindings, gap)
  BY DEF SameFindings, EmptyMemFindings, EmptySqlFindings
<1> QED
  BY <1>1, <1>2, <1>3 DEF FindingsR

\* Fewer findings are compared once more are counted differently.
\* More findings skewed leave less to keep.
LEMMA FindingsWeaken ==
    ASSUME NEW m, NEW q, NEW gap, NEW wider, gap \subseteq wider, FindingsR(m, q, gap)
    PROVE  FindingsR(m, q, wider)
BY DEF FindingsR, SameFindings, SameFinding

\* A finding was first seen at the same time in both.
LEMMA FirstSeenAgrees ==
    ASSUME NEW m, NEW q, NEW gap, FindingsR(m, q, gap), NEW id \in FindingIds, NEW at \in Times
    PROVE  /\ FirstSeen(Range(m.rows), id, at) = FirstSeen(q.rows, id, at)
           /\ FirstSeen(q.rows, id, at) \in Times /\ FirstSeen(q.rows, id, at) <= at
<1> DEFINE M == {r.first : r \in {x \in Range(m.rows) : SubjectOf[x.id] = SubjectOf[id]}}
           Q == {r.first : r \in {x \in q.rows : SubjectOf[x.id] = SubjectOf[id]}}
<1>1. M \subseteq Q
  BY DEF FindingsR, SameFindings, SameFinding, Range
<1>2. Q \subseteq M
  <2>1. SUFFICES ASSUME NEW r \in q.rows, SubjectOf[r.id] = SubjectOf[id] PROVE r.first \in M
    OBVIOUS
  <2>2. PICK k \in DOMAIN m.rows : SameFinding(m.rows[k], r, gap)
    BY DEF FindingsR, SameFindings
  <2>3. m.rows[k] \in Range(m.rows) /\ m.rows[k].id = r.id /\ m.rows[k].first = r.first
    BY <2>2 DEF SameFinding, Range
  <2> QED
    BY <2>1, <2>3
<1>3. Q \subseteq Times
  BY DEF FindingsR, SqlFindings, SqlRow
<1>4. {at} \cup Q \subseteq Nat /\ {at} \cup Q # {}
  BY <1>3, BackendsAssumption
<1>5. FirstSeen(Range(m.rows), id, at) = Min({at} \cup M) /\ FirstSeen(q.rows, id, at) = Min({at} \cup Q)
  BY DEF FirstSeen
<1> HIDE DEF M, Q
<1>6. Min({at} \cup Q) \in {at} \cup Q /\ Min({at} \cup Q) <= at
  BY <1>4, MinIs
<1> QED
  BY <1>1, <1>2, <1>3, <1>5, <1>6

\* A row seen again.
LEMMA UpdatedIs ==
    ASSUME NEW x \in MemRow, x.first <= x.last, NEW r \in SqlRow, NEW gap, SameFinding(x, r, gap),
           NEW at \in Times, NEW first \in Times, first <= at, NEW s \in DOMAIN SeverityInt
    PROVE  LET y == Updated(x, first, at, s)
               t == Updated(r, first, at, SeverityInt[s])
           IN  /\ y \in MemRow /\ t \in SqlRow /\ y.first <= y.last
               /\ y.id = x.id /\ t.id = r.id /\ SameFinding(y, t, gap)
               /\ at >= r.last => y.life = "active" /\ t.life = "active"
<1>1. /\ at \in Nat /\ first \in Nat /\ x.first \in Times /\ x.last \in Times /\ x.first \in Nat /\ x.last \in Nat
      /\ x.id \in FindingIds /\ x.life \in {"active", "resolved"} /\ x.severity \in DOMAIN SeverityInt
  BY BackendsAssumption DEF MemRow
<1>2. /\ r.id = x.id /\ r.first = x.first /\ r.last = x.last /\ r.severity = SeverityInt[x.severity]
      /\ r.life \in {"active", "resolved"} /\ (x.id \notin gap => r.life = x.life)
  BY DEF SameFinding, SqlRow
<1> DEFINE f == IF x.first <= first THEN x.first ELSE first
           l == IF x.last >= at THEN x.last ELSE at
<1>3. Min({x.first, first}) = f /\ Max({x.last, at}) = l
  <2>1. x.first \in Int /\ first \in Int /\ x.last \in Int /\ at \in Int
    BY <1>1
  <2>2. Min({x.first, first}) = f
    BY <2>1, MinMaxOfTwo
  <2>3. Max({x.last, at}) = l
    BY <2>1, MinMaxOfTwo
  <2> QED
    BY <2>2, <2>3
<1>4. Updated(x, first, at, s) =
        [id |-> x.id, first |-> f, last |-> l,
         severity |-> IF at >= x.last THEN s ELSE x.severity,
         life |-> IF at >= x.last THEN "active" ELSE x.life]
  <2> HIDE DEF f, l
  <2> QED
    BY <1>3 DEF Updated, MemRow
<1>5. Updated(r, first, at, SeverityInt[s]) =
        [id |-> x.id, first |-> f, last |-> l,
         severity |-> IF at >= x.last THEN SeverityInt[s] ELSE SeverityInt[x.severity],
         life |-> IF at >= x.last THEN "active" ELSE r.life]
  <2> HIDE DEF f, l
  <2> QED
    BY <1>2, <1>3 DEF Updated, SqlRow
<1>6. f \in Times /\ l \in Times /\ f <= l
  BY <1>1
<1>7. SeverityInt[s] \in Range(SeverityInt) /\ SeverityInt[x.severity] \in Range(SeverityInt)
  BY <1>1, SeverityCodes
<1> HIDE DEF f, l
<1> QED
  BY <1>1, <1>2, <1>4, <1>5, <1>6, <1>7 DEF MemRow, SqlRow, SameFinding

\* A finding seen for the first time.
LEMMA NewFindingSaved ==
    ASSUME NEW m, NEW q, NEW gap, FindingsR(m, q, gap), NEW id \in FindingIds, NEW at \in Times,
           \A r \in q.rows : r.id # id
    PROVE  FindingsR(MemSaveFinding(m, id, at), SqlSaveFinding(q, id, at), gap)
<1> DEFINE first == FirstSeen(q.rows, id, at)
           s == SeverityAt[at]
           x == NewFinding(id, first, at, s)
           t == NewFinding(id, first, at, SeverityInt[s])
           n == Len(m.rows)
           rows == Append(m.rows, x)
           absent == [q.absent EXCEPT ![id] = 0]
<1>1. first \in Times /\ first <= at /\ FirstSeen(Range(m.rows), id, at) = first
  BY FirstSeenAgrees
<1>2. s \in DOMAIN SeverityInt /\ SeverityInt[s] \in Range(SeverityInt)
  BY BackendsAssumption, SeverityCodes
<1>3. /\ m = [rows |-> m.rows, absent |-> m.absent] /\ m.rows \in Seq(MemRow) /\ m.absent \in Counters
      /\ \A j, k \in DOMAIN m.rows : m.rows[j].id = m.rows[k].id => j = k
      /\ \A k \in DOMAIN m.rows : m.rows[k].first <= m.rows[k].last
  BY DEF FindingsR, MemFindings
<1>4. /\ q = [rows |-> q.rows, absent |-> q.absent] /\ q.rows \subseteq SqlRow /\ q.absent \in Counters
      /\ \A r, u \in q.rows : r.id = u.id => r = u
      /\ \A i \in FindingIds : (\A r \in q.rows : r.id # i) => q.absent[i] = 0
  BY DEF FindingsR, SqlFindings
<1>5. /\ \A k \in DOMAIN m.rows : \E r \in q.rows : SameFinding(m.rows[k], r, gap)
      /\ \A r \in q.rows : \E k \in DOMAIN m.rows : SameFinding(m.rows[k], r, gap)
      /\ \A i \in FindingIds \ gap : m.absent[i] = q.absent[i]
  BY DEF FindingsR, SameFindings
<1>6. \A k \in DOMAIN m.rows : m.rows[k].id # id
  BY <1>5 DEF SameFinding
<1>7. MemSaveFinding(m, id, at) = [rows |-> rows, absent |-> m.absent]
  <2>1. {k \in DOMAIN m.rows : m.rows[k].id = id} = {}
    BY <1>6
  <2>2. MemSaveFinding(m, id, at) = [m EXCEPT !.rows = Append(@, x)]
    BY <1>1, <2>1 DEF MemSaveFinding
  <2> HIDE DEF x
  <2> QED
    BY <1>3, <2>2
<1>8. SqlSaveFinding(q, id, at) = [rows |-> q.rows \cup {t}, absent |-> q.absent]
  <2>1. {r \in q.rows : r.id = id} = {}
    OBVIOUS
  <2>2. q.absent[id] = 0 /\ [q.absent EXCEPT ![id] = 0] = q.absent
    BY <1>4 DEF Counters
  <2> HIDE DEF t, first, s
  <2>3. SqlSaveFinding(q, id, at) = [rows |-> (q.rows \ {}) \cup {t}, absent |-> [q.absent EXCEPT ![id] = 0]]
    BY <2>1 DEF SqlSaveFinding, t, first, s
  <2> QED
    BY <2>2, <2>3
<1>9. x \in MemRow /\ t \in SqlRow /\ x.id = id /\ t.id = id /\ SameFinding(x, t, gap) /\ x.first <= x.last
  <2> HIDE DEF first, s
  <2> QED
    BY <1>1, <1>2 DEF NewFinding, MemRow, SqlRow, SameFinding
<1> HIDE DEF x, t, first, s
<1>10. /\ rows \in Seq(MemRow) /\ n \in Nat /\ DOMAIN m.rows = 1..n /\ DOMAIN rows = 1..(n + 1)
       /\ \A k \in 1..n : rows[k] = m.rows[k]
       /\ rows[n + 1] = x
  BY <1>3, <1>9
<1> HIDE DEF rows, n
<1>11. \A k \in DOMAIN rows : k \in DOMAIN m.rows \/ k = n + 1
  BY <1>10
<1>12. MemFindings([rows |-> rows, absent |-> m.absent])
  <2>1. \A j, k \in DOMAIN rows : rows[j].id = rows[k].id => j = k
    BY <1>3, <1>6, <1>9, <1>10, <1>11
  <2>2. \A k \in DOMAIN rows : rows[k].first <= rows[k].last
    BY <1>3, <1>9, <1>10, <1>11
  <2> QED
    BY <1>3, <1>10, <2>1, <2>2 DEF MemFindings
<1>13. SqlFindings([rows |-> q.rows \cup {t}, absent |-> q.absent])
  BY <1>4, <1>9 DEF SqlFindings
<1>14. SameFindings([rows |-> rows, absent |-> m.absent], [rows |-> q.rows \cup {t}, absent |-> q.absent], gap)
  <2>1. \A k \in DOMAIN rows : \E r \in q.rows \cup {t} : SameFinding(rows[k], r, gap)
    BY <1>5, <1>9, <1>10, <1>11
  <2>2. \A r \in q.rows \cup {t} : \E k \in DOMAIN rows : SameFinding(rows[k], r, gap)
    <3>1. n + 1 \in DOMAIN rows /\ DOMAIN m.rows \subseteq DOMAIN rows
      BY <1>10
    <3> QED
      BY <1>5, <1>9, <1>10, <3>1
  <2> QED
    BY <1>5, <2>1, <2>2 DEF SameFindings
<1> QED
  BY <1>7, <1>8, <1>12, <1>13, <1>14 DEF FindingsR

\* One seen again; an older observation resets only one of the counters.
LEMMA OldFindingSaved ==
    ASSUME NEW m, NEW q, NEW gap, FindingsR(m, q, gap), NEW id \in FindingIds, NEW at \in Times,
           NEW r \in q.rows, r.id = id, NEW wider, gap \subseteq wider,
           q.absent[id] > 0 /\ at < r.last => id \in wider
    PROVE  FindingsR(MemSaveFinding(m, id, at), SqlSaveFinding(q, id, at), wider)
<1> DEFINE first == FirstSeen(q.rows, id, at)
           s == SeverityAt[at]
           t == Updated(r, first, at, SeverityInt[s])
<1>1. first \in Times /\ first <= at /\ FirstSeen(Range(m.rows), id, at) = first
  BY FirstSeenAgrees
<1>2. s \in DOMAIN SeverityInt
  BY BackendsAssumption
<1>3. /\ m = [rows |-> m.rows, absent |-> m.absent] /\ m.rows \in Seq(MemRow) /\ m.absent \in Counters
      /\ \A j, k \in DOMAIN m.rows : m.rows[j].id = m.rows[k].id => j = k
      /\ \A k \in DOMAIN m.rows : m.rows[k].first <= m.rows[k].last
  BY DEF FindingsR, MemFindings
<1>4. /\ q = [rows |-> q.rows, absent |-> q.absent] /\ q.rows \subseteq SqlRow /\ q.absent \in Counters
      /\ \A u, v \in q.rows : u.id = v.id => u = v
      /\ \A i \in FindingIds : (\A u \in q.rows : u.id # i) => q.absent[i] = 0
  BY DEF FindingsR, SqlFindings
<1>5. /\ \A k \in DOMAIN m.rows : \E u \in q.rows : SameFinding(m.rows[k], u, gap)
      /\ \A u \in q.rows : \E k \in DOMAIN m.rows : SameFinding(m.rows[k], u, gap)
      /\ \A i \in FindingIds \ gap : m.absent[i] = q.absent[i]
  BY DEF FindingsR, SameFindings
<1>6. PICK p \in DOMAIN m.rows : SameFinding(m.rows[p], r, gap)
  BY <1>5
<1> DEFINE x == m.rows[p]
           y == Updated(x, first, at, s)
           rows == [m.rows EXCEPT ![p] = y]
           newest == at >= r.last
           others == q.rows \ {r}
<1>7. x \in MemRow /\ x.first <= x.last /\ x.id = id
  BY <1>3, <1>6 DEF SameFinding
<1>8. /\ y \in MemRow /\ t \in SqlRow /\ y.first <= y.last
      /\ y.id = id /\ t.id = id /\ SameFinding(y, t, gap)
      /\ newest => y.life = "active" /\ t.life = "active"
  <2> HIDE DEF first, s
  <2>1. r \in SqlRow /\ SameFinding(x, r, gap)
    BY <1>4, <1>6
  <2> QED
    BY <1>1, <1>2, <1>7, <2>1, UpdatedIs
<1>9. MemSaveFinding(m, id, at) = [rows |-> rows, absent |-> [m.absent EXCEPT ![id] = 0]]
  <2> DEFINE found == {k \in DOMAIN m.rows : m.rows[k].id = id}
  <2>1. found = {p}
    BY <1>3, <1>7
  <2>2. MemSaveFinding(m, id, at) =
           [rows |-> [k \in DOMAIN m.rows |-> IF k \in found THEN Updated(m.rows[k], first, at, s) ELSE m.rows[k]],
            absent |-> [m.absent EXCEPT ![id] = 0]]
    BY <1>1, <2>1 DEF MemSaveFinding
  <2>3. [k \in DOMAIN m.rows |-> IF k \in found THEN Updated(m.rows[k], first, at, s) ELSE m.rows[k]] = rows
    <3> HIDE DEF found, first, s
    <3> QED
      BY <1>3, <2>1
  <2> QED
    BY <2>2, <2>3
<1>10. SqlSaveFinding(q, id, at) =
          [rows |-> others \cup {t}, absent |-> IF newest THEN [q.absent EXCEPT ![id] = 0] ELSE q.absent]
  <2> DEFINE found == {u \in q.rows : u.id = id}
  <2>1. found = {r}
    BY <1>4
  <2> HIDE DEF first, s
  <2>2. {Updated(u, first, at, SeverityInt[s]) : u \in {r}} = {t}
    OBVIOUS
  <2>3. (\A u \in {r} : at >= u.last) <=> newest
    OBVIOUS
  <2> HIDE DEF t, newest
  <2>4. SqlSaveFinding(q, id, at) =
           [rows |-> (q.rows \ found) \cup {Updated(u, first, at, SeverityInt[s]) : u \in found},
            absent |-> IF \A u \in found : at >= u.last THEN [q.absent EXCEPT ![id] = 0] ELSE q.absent]
    BY <2>1 DEF SqlSaveFinding, first, s
  <2> QED
    BY <2>1, <2>2, <2>3, <2>4
<1> HIDE DEF first, s, x, y, t
<1>11. /\ rows \in Seq(MemRow) /\ DOMAIN rows = DOMAIN m.rows /\ rows[p] = y
       /\ \A k \in DOMAIN rows : k # p => rows[k] = m.rows[k]
  BY <1>3, <1>8
<1> HIDE DEF rows
<1>12. MemFindings([rows |-> rows, absent |-> [m.absent EXCEPT ![id] = 0]])
  <2>1. \A k \in DOMAIN rows : rows[k].id = m.rows[k].id
    BY <1>7, <1>8, <1>11 DEF x
  <2>2. \A j, k \in DOMAIN rows : rows[j].id = rows[k].id => j = k
    BY <1>3, <1>11, <2>1
  <2>3. \A k \in DOMAIN rows : rows[k].first <= rows[k].last
    BY <1>3, <1>8, <1>11
  <2>4. [m.absent EXCEPT ![id] = 0] \in Counters
    BY <1>3 DEF Counters
  <2> QED
    BY <1>11, <2>2, <2>3, <2>4 DEF MemFindings
<1> DEFINE absent == IF newest THEN [q.absent EXCEPT ![id] = 0] ELSE q.absent
<1>13. /\ absent \in Counters
       /\ \A i \in FindingIds : absent[i] = IF i = id /\ newest THEN 0 ELSE q.absent[i]
  BY <1>4 DEF Counters
<1> HIDE DEF absent
<1>14. SqlFindings([rows |-> others \cup {t}, absent |-> absent])
  <2>1. \A u, v \in others \cup {t} : u.id = v.id => u = v
    BY <1>4, <1>8
  <2>2. \A i \in FindingIds : (\A u \in others \cup {t} : u.id # i) => absent[i] = 0
    <3>1. SUFFICES ASSUME NEW i \in FindingIds, \A u \in others \cup {t} : u.id # i PROVE absent[i] = 0
      OBVIOUS
    <3>2. i # id
      BY <1>8, <3>1
    <3>3. \A u \in q.rows : u.id # i
      BY <3>1, <3>2
    <3> QED
      BY <1>4, <1>13, <3>2, <3>3
  <2> QED
    BY <1>4, <1>8, <1>13, <2>1, <2>2 DEF SqlFindings
<1>15. SameFindings([rows |-> rows, absent |-> [m.absent EXCEPT ![id] = 0]],
                    [rows |-> others \cup {t}, absent |-> absent], wider)
  <2>1. \A k \in DOMAIN rows : \E u \in others \cup {t} : SameFinding(rows[k], u, gap)
    <3>1. SUFFICES ASSUME NEW k \in DOMAIN rows, k # p
                   PROVE  \E u \in others \cup {t} : SameFinding(rows[k], u, gap)
      BY <1>8, <1>11
    <3>2. PICK u \in q.rows : SameFinding(m.rows[k], u, gap)
      BY <1>5, <1>11, <3>1
    <3>3. u # r
      BY <1>3, <1>7, <1>11, <3>1, <3>2 DEF SameFinding, x
    <3> QED
      BY <1>11, <3>1, <3>2, <3>3
  <2>2. \A u \in others \cup {t} : \E k \in DOMAIN rows : SameFinding(rows[k], u, gap)
    <3>1. SUFFICES ASSUME NEW u \in others
                   PROVE  \E k \in DOMAIN rows : SameFinding(rows[k], u, gap)
      BY <1>8, <1>11
    <3>2. PICK k \in DOMAIN m.rows : SameFinding(m.rows[k], u, gap)
      BY <1>5, <3>1
    <3>3. k # p
      BY <1>4, <1>7, <3>1, <3>2 DEF SameFinding, x
    <3> QED
      BY <1>11, <3>2, <3>3
  <2>3. \A y1, u : SameFinding(y1, u, gap) => SameFinding(y1, u, wider)
    BY DEF SameFinding
  <2>4. \A i \in FindingIds \ wider : [m.absent EXCEPT ![id] = 0][i] = absent[i]
    <3>1. SUFFICES ASSUME NEW i \in FindingIds \ wider PROVE [m.absent EXCEPT ![id] = 0][i] = absent[i]
      OBVIOUS
    <3>2. m.absent[i] = q.absent[i] /\ q.absent[i] \in 0..2
      BY <1>4, <1>5, <3>1 DEF Counters
    <3>3. CASE i # id
      BY <1>3, <1>13, <3>2, <3>3 DEF Counters
    <3>4. CASE i = id
      <4>1. at \in Nat /\ r.last \in Nat
        BY <1>4, BackendsAssumption DEF SqlRow
      <4>2. newest \/ q.absent[id] = 0
        BY <3>1, <3>2, <3>4, <4>1
      <4>3. absent[i] = 0
        BY <1>13, <3>4, <4>2
      <4> QED
        BY <1>3, <3>4, <4>3 DEF Counters
    <3> QED
      BY <3>3, <3>4
  <2> QED
    BY <2>1, <2>2, <2>3, <2>4 DEF SameFindings
<1>16. SqlSaveFinding(q, id, at) = [rows |-> others \cup {t}, absent |-> absent]
  BY <1>10 DEF absent
<1> QED
  BY <1>9, <1>12, <1>14, <1>15, <1>16 DEF FindingsR

\* A cycle without a finding counts alike, and the third one resolves it.
LEMMA FindingsResolved ==
    ASSUME NEW m, NEW q, NEW gap, FindingsR(m, q, gap), NEW complete \in BOOLEAN
    PROVE  FindingsR(MemResolve(m, complete), SqlResolve(q, complete), gap)
<1>1. CASE ~complete
  BY <1>1 DEF MemResolve, SqlResolve
<1>2. CASE complete
  <2> DEFINE up == {x.id : x \in {y \in Range(m.rows) : y.life = "active"}}
             on == {x.id : x \in {y \in q.rows : y.life = "active"}}
             gone == {id \in on : q.absent[id] >= 2}
             over == {id \in up : m.absent[id] + 1 >= 3}
             Settled(x, ids) == IF x.id \in ids THEN [x EXCEPT !.life = "resolved"] ELSE x
             rows == [k \in DOMAIN m.rows |-> Settled(m.rows[k], over)]
             absent == [id \in FindingIds |->
                           IF id \in up THEN IF id \in over THEN 0 ELSE m.absent[id] + 1 ELSE m.absent[id]]
             counts == [id \in FindingIds |->
                           IF id \in gone THEN 0 ELSE IF id \in on THEN q.absent[id] + 1 ELSE q.absent[id]]
             left == {Settled(r, gone) : r \in q.rows}
  <2>1. MemResolve(m, complete) = [rows |-> rows, absent |-> absent]
    <3>1. MemResolve(m, complete) =
             [rows |-> [k \in DOMAIN m.rows |->
                            IF m.rows[k].id \in up /\ m.absent[m.rows[k].id] + 1 >= 3
                            THEN [m.rows[k] EXCEPT !.life = "resolved"] ELSE m.rows[k]],
              absent |-> [id \in FindingIds |->
                            IF id \in up
                            THEN IF m.absent[id] + 1 >= 3 THEN 0 ELSE m.absent[id] + 1
                            ELSE m.absent[id]]]
      BY <1>2 DEF MemResolve
    <3> HIDE DEF up
    <3> QED
      BY <3>1
  <2>2. SqlResolve(q, complete) = [rows |-> left, absent |-> counts]
    BY <1>2 DEF SqlResolve
  <2>3. /\ m.rows \in Seq(MemRow) /\ m.absent \in Counters
        /\ \A j, k \in DOMAIN m.rows : m.rows[j].id = m.rows[k].id => j = k
        /\ \A k \in DOMAIN m.rows : m.rows[k].first <= m.rows[k].last
    BY DEF FindingsR, MemFindings
  <2>4. /\ q.rows \subseteq SqlRow /\ q.absent \in Counters
        /\ \A r, u \in q.rows : r.id = u.id => r = u
        /\ \A i \in FindingIds : (\A r \in q.rows : r.id # i) => q.absent[i] = 0
    BY DEF FindingsR, SqlFindings
  <2>5. /\ \A k \in DOMAIN m.rows : \E r \in q.rows : SameFinding(m.rows[k], r, gap)
        /\ \A r \in q.rows : \E k \in DOMAIN m.rows : SameFinding(m.rows[k], r, gap)
        /\ \A i \in FindingIds \ gap : m.absent[i] = q.absent[i]
    BY DEF FindingsR, SameFindings
  <2>6. \A id \in FindingIds : id \in up <=> \E k \in DOMAIN m.rows : m.rows[k].id = id /\ m.rows[k].life = "active"
    BY DEF Range
  <2>7. \A id \in FindingIds : id \in on <=> \E r \in q.rows : r.id = id /\ r.life = "active"
    OBVIOUS
  <2>8. \A id \in FindingIds \ gap : id \in up <=> id \in on
    <3> HIDE DEF up, on
    <3> QED
      BY <2>5, <2>6, <2>7 DEF SameFinding
  <2>9. /\ over \subseteq up /\ gone \subseteq on
        /\ \A id \in up : id \in over <=> m.absent[id] + 1 >= 3
        /\ \A id \in on : id \in gone <=> q.absent[id] >= 2
    OBVIOUS
  <2> HIDE DEF up, on, over, gone
  <2>10. \A id \in FindingIds : m.absent[id] \in 0..2 /\ q.absent[id] \in 0..2
    BY <2>3, <2>4 DEF Counters
  <2>11. \A id \in FindingIds \ gap : id \in over <=> id \in gone
    BY <2>5, <2>8, <2>9, <2>10
  <2>12. absent \in Counters /\ counts \in Counters
    <3>1. \A id \in FindingIds : absent[id] \in 0..2 /\ counts[id] \in 0..2
      BY <2>9, <2>10
    <3> QED
      BY <3>1 DEF Counters
  <2>13. \A x, ids : /\ x \in MemRow => Settled(x, ids) \in MemRow
                     /\ x \in SqlRow => Settled(x, ids) \in SqlRow
                     /\ x \in MemRow \cup SqlRow =>
                           /\ Settled(x, ids).id = x.id /\ Settled(x, ids).first = x.first
                           /\ Settled(x, ids).last = x.last /\ Settled(x, ids).severity = x.severity
                           /\ Settled(x, ids).life = IF x.id \in ids THEN "resolved" ELSE x.life
    BY DEF MemRow, SqlRow
  <2>14. \A x \in MemRow, r \in SqlRow :
             SameFinding(x, r, gap) => SameFinding(Settled(x, over), Settled(r, gone), gap)
    <3> HIDE DEF Settled
    <3>1. SUFFICES ASSUME NEW x \in MemRow, NEW r \in SqlRow, SameFinding(x, r, gap)
                   PROVE  SameFinding(Settled(x, over), Settled(r, gone), gap)
      OBVIOUS
    <3>2. x.id \in FindingIds
      BY DEF MemRow
    <3> QED
      BY <2>11, <2>13, <3>1, <3>2 DEF SameFinding
  <2> HIDE DEF Settled
  <2>15. \A k \in DOMAIN m.rows : m.rows[k] \in MemRow
    BY <2>3
  <2>16. MemFindings([rows |-> rows, absent |-> absent])
    <3>1. rows \in Seq(MemRow) /\ DOMAIN rows = DOMAIN m.rows
      BY <2>3, <2>13, <2>15
    <3>2. \A k \in DOMAIN rows : /\ rows[k].id = m.rows[k].id
                                 /\ rows[k].first = m.rows[k].first /\ rows[k].last = m.rows[k].last
      BY <2>13, <2>15
    <3> HIDE DEF rows, absent
    <3> QED
      BY <2>3, <2>12, <3>1, <3>2 DEF MemFindings
  <2>17. SqlFindings([rows |-> left, absent |-> counts])
    <3>1. left \subseteq SqlRow
      BY <2>4, <2>13
    <3>2. \A r, u \in left : r.id = u.id => r = u
      BY <2>4, <2>13
    <3>3. \A i \in FindingIds : (\A r \in left : r.id # i) => counts[i] = 0
      <4>1. SUFFICES ASSUME NEW i \in FindingIds, \A r \in left : r.id # i PROVE counts[i] = 0
        OBVIOUS
      <4>2. \A r \in q.rows : r.id # i
        BY <2>4, <2>13, <4>1
      <4> QED
        BY <2>4, <2>7, <2>9, <4>2
    <3> HIDE DEF left, counts
    <3> QED
      BY <2>12, <3>1, <3>2, <3>3 DEF SqlFindings
  <2>18. SameFindings([rows |-> rows, absent |-> absent], [rows |-> left, absent |-> counts], gap)
    <3>1. \A k \in DOMAIN rows : \E r \in left : SameFinding(rows[k], r, gap)
      <4>1. SUFFICES ASSUME NEW k \in DOMAIN m.rows
                     PROVE  \E r \in left : SameFinding(Settled(m.rows[k], over), r, gap)
        OBVIOUS
      <4>2. PICK r \in q.rows : SameFinding(m.rows[k], r, gap)
        BY <2>5
      <4>3. SameFinding(Settled(m.rows[k], over), Settled(r, gone), gap) /\ Settled(r, gone) \in left
        BY <2>4, <2>14, <2>15, <4>2
      <4> QED
        BY <4>3
    <3>2. \A r \in left : \E k \in DOMAIN rows : SameFinding(rows[k], r, gap)
      <4>1. SUFFICES ASSUME NEW r \in q.rows
                     PROVE  \E k \in DOMAIN rows : SameFinding(rows[k], Settled(r, gone), gap)
        OBVIOUS
      <4>2. PICK k \in DOMAIN m.rows : SameFinding(m.rows[k], r, gap)
        BY <2>5
      <4>3. SameFinding(Settled(m.rows[k], over), Settled(r, gone), gap)
        BY <2>4, <2>14, <2>15, <4>2
      <4> QED
        BY <4>3
    <3>3. \A i \in FindingIds \ gap : absent[i] = counts[i]
      BY <2>5, <2>8, <2>9, <2>10, <2>11
    <3> HIDE DEF rows, left, absent, counts
    <3> QED
      BY <3>1, <3>2, <3>3 DEF SameFindings
  <2> QED
    BY <2>1, <2>2, <2>16, <2>17, <2>18 DEF FindingsR
<1> QED
  BY <1>1, <1>2

-----------------------------------------------------------------------------
(* What the findings show.                                                 *)

\* A finding in memory is what its row is read back as.
LEMMA SameIsRead ==
    ASSUME NEW x \in MemRow, NEW r \in SqlRow, NEW gap, SameFinding(x, r, gap)
    PROVE  /\ RowToFinding(r).id = x.id
           /\ <<RowToFinding(r).first, RowToFinding(r).last, RowToFinding(r).severity>> =
                 <<x.first, x.last, x.severity>>
           /\ x.id \notin gap => RowToFinding(r) = x
<1>1. /\ r.id = x.id /\ r.first = x.first /\ r.last = x.last /\ r.severity = SeverityInt[x.severity]
      /\ x.id \notin gap => r.life = x.life
  BY DEF SameFinding
<1>2. SeverityFromInt(r.severity) = x.severity
  <2>1. x.severity \in DOMAIN SeverityInt
    BY DEF MemRow
  <2> QED
    BY <1>1, <2>1, SeverityCodes
<1>3. RowToFinding(r) = [id |-> x.id, first |-> x.first, last |-> x.last, severity |-> x.severity, life |-> r.life]
  BY <1>1, <1>2 DEF RowToFinding, SqlRow
<1>4. x = [id |-> x.id, first |-> x.first, last |-> x.last, severity |-> x.severity, life |-> x.life]
  BY DEF MemRow
<1> QED
  BY <1>1, <1>3, <1>4

\* FindingsAgree, of the tables.
LEMMA FindingsShown ==
    ASSUME NEW m, NEW q, NEW gap, FindingsR(m, q, gap), NEW id \in FindingIds
    PROVE  LET M == {r \in Range(m.rows) : r.id = id}
               Q == {RowToFinding(r) : r \in {x \in q.rows : x.id = id}}
           IN  /\ {<<r.first, r.last, r.severity>> : r \in M} = {<<r.first, r.last, r.severity>> : r \in Q}
               /\ id \notin gap => M = Q /\ m.absent[id] = q.absent[id]
<1> DEFINE M == {r \in Range(m.rows) : r.id = id}
           Q == {RowToFinding(r) : r \in {x \in q.rows : x.id = id}}
<1>1. /\ \A k \in DOMAIN m.rows : m.rows[k] \in MemRow /\ \E r \in q.rows : SameFinding(m.rows[k], r, gap)
      /\ \A r \in q.rows : r \in SqlRow /\ \E k \in DOMAIN m.rows : SameFinding(m.rows[k], r, gap)
      /\ id \notin gap => m.absent[id] = q.absent[id]
  BY DEF FindingsR, MemFindings, SqlFindings, SameFindings
<1>2. \A x \in M : \E y \in Q : /\ <<y.first, y.last, y.severity>> = <<x.first, x.last, x.severity>>
                                /\ id \notin gap => y = x
  <2>1. SUFFICES ASSUME NEW k \in DOMAIN m.rows, m.rows[k].id = id
                 PROVE  \E y \in Q : /\ <<y.first, y.last, y.severity>> =
                                           <<m.rows[k].first, m.rows[k].last, m.rows[k].severity>>
                                     /\ id \notin gap => y = m.rows[k]
    BY DEF Range
  <2>2. PICK r \in q.rows : SameFinding(m.rows[k], r, gap)
    BY <1>1
  <2>3. RowToFinding(r) \in Q
    BY <2>1, <2>2 DEF SameFinding
  <2> QED
    BY <1>1, <2>1, <2>2, <2>3, SameIsRead
<1>3. \A y \in Q : \E x \in M : /\ <<y.first, y.last, y.severity>> = <<x.first, x.last, x.severity>>
                                /\ id \notin gap => y = x
  <2>1. SUFFICES ASSUME NEW r \in q.rows, r.id = id
                 PROVE  \E x \in M : /\ <<RowToFinding(r).first, RowToFinding(r).last, RowToFinding(r).severity>> =
                                           <<x.first, x.last, x.severity>>
                                     /\ id \notin gap => RowToFinding(r) = x
    OBVIOUS
  <2>2. PICK k \in DOMAIN m.rows : SameFinding(m.rows[k], r, gap)
    BY <1>1
  <2>3. m.rows[k] \in M /\ m.rows[k].id = id
    BY <2>1, <2>2 DEF SameFinding, Range
  <2> QED
    BY <1>1, <2>1, <2>2, <2>3, SameIsRead
<1> HIDE DEF M, Q
<1>4. {<<r.first, r.last, r.severity>> : r \in M} = {<<r.first, r.last, r.severity>> : r \in Q}
  BY <1>2, <1>3
<1>5. id \notin gap => M = Q
  BY <1>2, <1>3
<1> QED
  BY <1>1, <1>4, <1>5 DEF M, Q

\* ListsAgree, of the tables: in the order of the last observations a filter
\* of the vector is the sorted query.
LEMMA FindingsListed ==
    ASSUME NEW m, NEW q, FindingsR(m, q, {}), NEW filter,
           \A j, k \in DOMAIN m.rows : j < k => m.rows[j].last < m.rows[k].last
    PROVE  \A limit : MemLatestFindings(m, filter, limit) = SqlLatestFindings(q, filter, limit)
<1> DEFINE ks == {k \in DOMAIN m.rows : LifecycleMatches(m.rows[k], filter)}
           S == {RowToFinding(r) : r \in {x \in q.rows : LifecycleMatches(x, filter)}}
           before == {p \in S \X S : p[1].last > p[2].last}
<1>1. /\ m.rows \in Seq(MemRow)
      /\ \A k \in DOMAIN m.rows : m.rows[k] \in MemRow /\ \E r \in q.rows : SameFinding(m.rows[k], r, {})
      /\ \A r \in q.rows : r \in SqlRow /\ \E k \in DOMAIN m.rows : SameFinding(m.rows[k], r, {})
  BY DEF FindingsR, MemFindings, SqlFindings, SameFindings
<1>2. DOMAIN m.rows = 1..Len(m.rows) /\ Len(m.rows) \in Nat /\ ks \in SUBSET (1..Len(m.rows))
  BY <1>1
<1>3. \A k \in DOMAIN m.rows, r \in q.rows :
          SameFinding(m.rows[k], r, {}) =>
              RowToFinding(r) = m.rows[k] /\ (LifecycleMatches(r, filter) <=> LifecycleMatches(m.rows[k], filter))
  <2>1. SUFFICES ASSUME NEW k \in DOMAIN m.rows, NEW r \in q.rows, SameFinding(m.rows[k], r, {})
                 PROVE  RowToFinding(r) = m.rows[k] /\ r.life = m.rows[k].life
    BY DEF LifecycleMatches
  <2>2. m.rows[k] \in MemRow /\ r \in SqlRow /\ m.rows[k].id \notin {}
    BY <1>1
  <2>3. RowToFinding(r) = m.rows[k]
    BY <2>1, <2>2, SameIsRead
  <2> QED
    BY <2>1, <2>3 DEF SameFinding
<1>4. S = {m.rows[k] : k \in ks}
  <2>1. \A y \in S : \E k \in ks : m.rows[k] = y
    <3>1. SUFFICES ASSUME NEW r \in q.rows, LifecycleMatches(r, filter)
                   PROVE  \E k \in ks : m.rows[k] = RowToFinding(r)
      OBVIOUS
    <3>2. PICK k \in DOMAIN m.rows : SameFinding(m.rows[k], r, {})
      BY <1>1
    <3> QED
      BY <1>3, <3>1, <3>2
  <2>2. \A k \in ks : m.rows[k] \in S
    <3>1. SUFFICES ASSUME NEW k \in DOMAIN m.rows, LifecycleMatches(m.rows[k], filter)
                   PROVE  m.rows[k] \in S
      OBVIOUS
    <3>2. PICK r \in q.rows : SameFinding(m.rows[k], r, {})
      BY <1>1
    <3> QED
      BY <1>3, <3>1, <3>2
  <2> HIDE DEF S, ks
  <2> QED
    BY <2>1, <2>2
<1>5. \A x, y \in S : <<x, y>> \in before <=> x.last > y.last
  OBVIOUS
<1>6. \A k \in DOMAIN m.rows : m.rows[k].last \in Nat
  BY <1>1, BackendsAssumption DEF MemRow
<1>7. ks \subseteq DOMAIN m.rows
  OBVIOUS
<1> HIDE DEF S, ks, before
<1>8. \A j, k \in ks : j < k => <<m.rows[k], m.rows[j]>> \in before
  BY <1>4, <1>5, <1>6, <1>7
<1>9. Linear(S, before)
  <2>1. \A x \in S : x.last \in Nat
    BY <1>4, <1>6, <1>7
  <2>2. Strict(S, before)
    BY <1>5, <2>1 DEF Strict
  <2>3. \A x, y \in S : x = y \/ <<x, y>> \in before \/ <<y, x>> \in before
    <3>1. SUFFICES ASSUME NEW j \in ks, NEW k \in ks
                   PROVE  m.rows[j] = m.rows[k] \/ <<m.rows[j], m.rows[k]>> \in before
                            \/ <<m.rows[k], m.rows[j]>> \in before
      BY <1>4
    <3>2. j \in Nat /\ k \in Nat
      BY <1>2, <1>7
    <3> QED
      BY <1>8, <3>1, <3>2
  <2> QED
    BY <2>2, <2>3 DEF Linear
<1>10. LastFirst(m.rows, ks) = Listed(S, before)
  <2>1. Falls(m.rows, ks, S, before)
    BY <1>4, <1>8 DEF Falls
  <2> QED
    BY <1>2, <1>9, <2>1, LastFirstIsListed
<1> QED
  BY <1>10 DEF MemLatestFindings, SqlLatestFindings, S, ks, before

-----------------------------------------------------------------------------
(* Recommendations.                                                        *)

\* A finite set of natural numbers has a greatest one.
LEMMA MaxIs ==
    ASSUME NEW S, S \subseteq Nat, S # {}, IsFiniteSet(S)
    PROVE  Max(S) \in S /\ \A y \in S : Max(S) >= y
<1> DEFINE before == {p \in S \X S : p[1] < p[2]}
<1>1. \A x, y \in S : <<x, y>> \in before <=> x < y
  OBVIOUS
<1> HIDE DEF before
<1>2. Strict(S, before)
  BY <1>1 DEF Strict
<1>3. PICK x \in S : \A y \in S : <<x, y>> \notin before
  BY <1>2, LastIs
<1>4. \A y \in S : ~ (x < y)
  BY <1>1, <1>3
<1>5. \A y \in S : x >= y
  BY <1>4
<1> QED
  BY <1>3, <1>5 DEF Max

\* The image of a finite set.
LEMMA ImageIs ==
    ASSUME NEW D, IsFiniteSet(D), NEW R, NEW fun \in [D -> R]
    PROVE  IsFiniteSet({fun[x] : x \in D}) /\ Cardinality({fun[x] : x \in D}) <= Cardinality(D)
<1> DEFINE T == {fun[x] : x \in D}
<1>1. fun \in Surjection(D, T)
  BY DEF Surjection
<1> HIDE DEF T
<1>2. IsFiniteSet(T) /\ Cardinality(T) <= Cardinality(D)
  BY <1>1, FS_Surjection
<1> QED
  BY <1>2 DEF T

\* A recommendation created after all the others.
LEMMA NewAdviceIs ==
    ASSUME NEW recs, NEW id \in FindingIds, \A other \in FindingIds : recs[other].created \in Nat
    PROVE  /\ NewAdvice(recs, id) = [lifecycle |-> "active", stage |-> "recommended",
                                     created |-> NewAdvice(recs, id).created]
           /\ NewAdvice(recs, id).created \in Nat \ {0}
           /\ \A other \in FindingIds \ {id} : recs[other].created < NewAdvice(recs, id).created
<1> DEFINE D == FindingIds \ {id}
           S == {recs[other].created : other \in D}
           fun == [other \in D |-> recs[other].created]
<1>1. IsFiniteSet(D)
  BY BackendsAssumption, FS_RemoveElement
<1>2. fun \in [D -> Nat] /\ S = {fun[other] : other \in D}
  OBVIOUS
<1>3. IsFiniteSet(S)
  <2> HIDE DEF D, S, fun
  <2> QED
    BY <1>1, <1>2, ImageIs
<1>4. S \subseteq Nat
  OBVIOUS
<1>5. \A other \in D : recs[other].created \in S
  OBVIOUS
<1>6. NewAdvice(recs, id) = [lifecycle |-> "active", stage |-> "recommended", created |-> 1 + Max({0} \cup S)]
  BY DEF NewAdvice
<1> HIDE DEF S
<1>7. IsFiniteSet({0} \cup S)
  <2>1. IsFiniteSet(S \cup {0})
    BY <1>3, FS_AddElement
  <2> QED
    BY <2>1
<1>8. Max({0} \cup S) \in Nat /\ \A n \in S : Max({0} \cup S) >= n
  <2>1. {0} \cup S \subseteq Nat /\ {0} \cup S # {}
    BY <1>4
  <2>2. Max({0} \cup S) \in {0} \cup S /\ \A n \in {0} \cup S : Max({0} \cup S) >= n
    BY <1>7, <2>1, MaxIs
  <2> QED
    BY <2>1, <2>2
<1> DEFINE top == Max({0} \cup S)
<1> HIDE DEF top, D
<1>9. \A other \in D : recs[other].created < 1 + top
  <2>1. SUFFICES ASSUME NEW other \in D PROVE recs[other].created < 1 + top
    OBVIOUS
  <2>2. recs[other].created \in Nat /\ top >= recs[other].created /\ top \in Nat
    BY <1>4, <1>5, <1>8 DEF top
  <2> QED
    BY <2>2
<1>10. NewAdvice(recs, id).created = 1 + top /\ top \in Nat
  BY <1>6, <1>8 DEF top
<1>11. NewAdvice(recs, id) = [lifecycle |-> "active", stage |-> "recommended", created |-> NewAdvice(recs, id).created]
  BY <1>6
<1>12. \A other \in D : recs[other].created < NewAdvice(recs, id).created
  BY <1>9, <1>10
<1> QED
  BY <1>10, <1>11, <1>12 DEF D

\* The tables of recommendations hold recommendations.
LEMMA AdviceRows ==
    /\ NoAdvice \notin MemAdviceRow /\ NoAdvice \notin SqlAdviceRow /\ NoAdvice.created = 0
    /\ \A x \in MemAdviceRow :
          /\ x = [lifecycle |-> x.lifecycle, stage |-> x.stage, created |-> x.created]
          /\ x.lifecycle \in {"active", "resolved"} /\ x.stage \in DOMAIN StageText /\ x.created \in Nat \ {0}
    /\ \A x \in SqlAdviceRow :
          /\ x = [lifecycle |-> x.lifecycle, stage |-> x.stage, created |-> x.created]
          /\ x.lifecycle \in {"active", "resolved"} /\ x.stage \in Range(StageText) /\ x.created \in Nat \ {0}
BY DEF NoAdvice, MemAdviceRow, SqlAdviceRow

\* No recommendation in both.
LEMMA AdviceStart ==
    ASSUME NEW seen, NEW gap
    PROVE  AdviceR(EmptyAdvice, EmptyAdvice, seen, gap)
BY DEF AdviceR, EmptyAdvice, SameAdvice

\* More differences noted and more findings skewed leave less to keep.
LEMMA AdviceWeaken ==
    ASSUME NEW m, NEW q, NEW seen, NEW more, seen \subseteq more, NEW gap, NEW wider, gap \subseteq wider,
           AdviceR(m, q, seen, gap)
    PROVE  AdviceR(m, q, more, wider)
BY DEF AdviceR, SameAdvice

\* Both create the same recommendation; a row that exists is replaced.
LEMMA AdviceSaved ==
    ASSUME NEW m, NEW q, NEW seen, NEW gap, AdviceR(m, q, seen, gap), "resaved" \notin seen,
           NEW id \in FindingIds
    PROVE  AdviceR(MemSaveRecommendation(m, id), SqlSaveRecommendation(q, id),
                   IF m[id] \in {NoAdvice, NewAdvice(m, id)} THEN seen ELSE seen \cup {"resaved"}, gap)
<1> DEFINE new == NewAdvice(m, id)
           row == [lifecycle |-> "active", stage |-> StageText["recommended"], created |-> new.created]
           m2 == MemSaveRecommendation(m, id)
           q2 == SqlSaveRecommendation(q, id)
<1>1. /\ m \in [FindingIds -> {NoAdvice} \cup MemAdviceRow] /\ q \in [FindingIds -> {NoAdvice} \cup SqlAdviceRow]
      /\ SameAdvice(m, q, gap)
  BY DEF AdviceR
<1>2. \A other \in FindingIds : m[other].created \in Nat /\ q[other].created = m[other].created
  BY <1>1, AdviceRows DEF SameAdvice
<1>3. /\ new = [lifecycle |-> "active", stage |-> "recommended", created |-> new.created]
      /\ new.created \in Nat \ {0}
      /\ \A other \in FindingIds \ {id} : m[other].created < new.created
  BY <1>2, NewAdviceIs
<1>4. NewAdvice(q, id) = new
  <2>1. {q[other].created : other \in FindingIds \ {id}} = {m[other].created : other \in FindingIds \ {id}}
    BY <1>2
  <2> QED
    BY <2>1 DEF NewAdvice
<1> HIDE DEF new
<1>5. new \in MemAdviceRow /\ row \in SqlAdviceRow /\ new # NoAdvice /\ row # NoAdvice
  <2>1. "recommended" \in DOMAIN StageText
    BY DEF StageText
  <2>2. StageText["recommended"] \in Range(StageText)
    BY <2>1 DEF Range
  <2>3. new \in MemAdviceRow /\ row \in SqlAdviceRow
    BY <1>3, <2>1, <2>2 DEF MemAdviceRow, SqlAdviceRow
  <2> QED
    BY <2>3, AdviceRows
<1>6. q2 = [q EXCEPT ![id] = row]
  <2>1. [new EXCEPT !.stage = StageText[@]] = row
    BY <1>3
  <2> HIDE DEF row
  <2> QED
    BY <1>4, <2>1 DEF SqlSaveRecommendation
<1>7. m2 = IF m[id] = NoAdvice THEN [m EXCEPT ![id] = new] ELSE m
  BY DEF MemSaveRecommendation, new
<1> HIDE DEF row, m2, q2
<1>8. m2 \in [FindingIds -> {NoAdvice} \cup MemAdviceRow] /\ q2 \in [FindingIds -> {NoAdvice} \cup SqlAdviceRow]
  BY <1>1, <1>5, <1>6, <1>7
<1>9. ASSUME m[id] \in {NoAdvice, new} PROVE SameAdvice(m2, q2, gap)
  <2>1. m2 = [m EXCEPT ![id] = new]
    BY <1>1, <1>7, <1>9
  <2>2. \A i \in FindingIds : m2[i] = (IF i = id THEN new ELSE m[i]) /\ q2[i] = (IF i = id THEN row ELSE q[i])
    BY <1>1, <1>6, <2>1
  <2>3. new.stage = "recommended" /\ new.lifecycle = "active" /\ row.stage = StageText["recommended"]
           /\ row.lifecycle = "active" /\ row.created = new.created
    BY <1>3 DEF row
  <2>4. \A i \in FindingIds : /\ m2[i] = NoAdvice <=> q2[i] = NoAdvice
                              /\ m2[i] # NoAdvice => /\ q2[i].created = m2[i].created
                                                     /\ q2[i].stage = StageText[m2[i].stage]
                                                     /\ i \notin gap => q2[i].lifecycle = m2[i].lifecycle
    BY <1>1, <1>5, <2>2, <2>3 DEF SameAdvice
  <2>5. \A i, other \in FindingIds :
            i # other /\ m2[i] # NoAdvice /\ m2[other] # NoAdvice => m2[i].created # m2[other].created
    <3>1. SUFFICES ASSUME NEW i \in FindingIds, NEW other \in FindingIds, i # other,
                          m2[i] # NoAdvice, m2[other] # NoAdvice
                   PROVE  m2[i].created # m2[other].created
      OBVIOUS
    <3>2. CASE i # id /\ other # id
      BY <1>1, <2>2, <3>1, <3>2 DEF SameAdvice
    <3>3. CASE i = id
      <4>1. m[other].created < new.created /\ m[other].created \in Nat /\ new.created \in Nat
        BY <1>2, <1>3, <3>1, <3>3
      <4> QED
        BY <2>2, <3>1, <3>3, <4>1
    <3>4. CASE other = id
      <4>1. m[i].created < new.created /\ m[i].created \in Nat /\ new.created \in Nat
        BY <1>2, <1>3, <3>1, <3>4
      <4> QED
        BY <2>2, <3>1, <3>4, <4>1
    <3> QED
      BY <3>2, <3>3, <3>4
  <2> QED
    BY <2>4, <2>5 DEF SameAdvice
<1>10. m2 = MemSaveRecommendation(m, id) /\ q2 = SqlSaveRecommendation(q, id) /\ new = NewAdvice(m, id)
  BY DEF m2, q2, new
<1>11. CASE m[id] \in {NoAdvice, new}
  BY <1>8, <1>9, <1>10, <1>11 DEF AdviceR
<1>12. CASE m[id] \notin {NoAdvice, new}
  BY <1>8, <1>10, <1>12 DEF AdviceR
<1> QED
  BY <1>11, <1>12

\* An approval sets the stage, or its name.
LEMMA AdviceStaged ==
    ASSUME NEW m, NEW q, NEW seen, NEW gap, AdviceR(m, q, seen, gap), NEW id \in FindingIds,
           NEW stage \in DOMAIN StageText
    PROVE  AdviceR(SetActionStage(m, id, stage), SetActionStage(q, id, StageText[stage]), seen, gap)
<1> DEFINE m2 == SetActionStage(m, id, stage)
           q2 == SetActionStage(q, id, StageText[stage])
<1>1. m \in [FindingIds -> {NoAdvice} \cup MemAdviceRow] /\ q \in [FindingIds -> {NoAdvice} \cup SqlAdviceRow]
  BY DEF AdviceR
<1>2. \A i \in FindingIds :
          /\ m2[i] = IF i = id /\ m[i] # NoAdvice
                     THEN [lifecycle |-> m[i].lifecycle, stage |-> stage, created |-> m[i].created] ELSE m[i]
          /\ q2[i] = IF i = id /\ q[i] # NoAdvice
                     THEN [lifecycle |-> q[i].lifecycle, stage |-> StageText[stage], created |-> q[i].created]
                     ELSE q[i]
  <2>1. \A x \in MemAdviceRow : [x EXCEPT !.stage = stage]
                                   = [lifecycle |-> x.lifecycle, stage |-> stage, created |-> x.created]
    BY DEF MemAdviceRow
  <2>2. \A x \in SqlAdviceRow : [x EXCEPT !.stage = StageText[stage]]
                                   = [lifecycle |-> x.lifecycle, stage |-> StageText[stage], created |-> x.created]
    BY DEF SqlAdviceRow
  <2> QED
    BY <1>1, <2>1, <2>2 DEF SetActionStage
<1>3. DOMAIN m2 = FindingIds /\ DOMAIN q2 = FindingIds /\ m2 = [i \in FindingIds |-> m2[i]] /\ q2 = [i \in FindingIds |-> q2[i]]
  BY <1>1 DEF SetActionStage
<1> HIDE DEF m2, q2
<1>4. StageText[stage] \in Range(StageText)
  BY DEF Range
<1>5. \A i \in FindingIds : m2[i] \in {NoAdvice} \cup MemAdviceRow /\ q2[i] \in {NoAdvice} \cup SqlAdviceRow
                            /\ (m2[i] = NoAdvice <=> m[i] = NoAdvice) /\ (q2[i] = NoAdvice <=> q[i] = NoAdvice)
  <2>1. SUFFICES ASSUME NEW i \in FindingIds
                 PROVE  m2[i] \in {NoAdvice} \cup MemAdviceRow /\ q2[i] \in {NoAdvice} \cup SqlAdviceRow
                        /\ (m2[i] = NoAdvice <=> m[i] = NoAdvice) /\ (q2[i] = NoAdvice <=> q[i] = NoAdvice)
    OBVIOUS
  <2>2. m[i] # NoAdvice =>
           [lifecycle |-> m[i].lifecycle, stage |-> stage, created |-> m[i].created] \in MemAdviceRow
    BY <1>1, AdviceRows DEF MemAdviceRow
  <2>3. q[i] # NoAdvice =>
           [lifecycle |-> q[i].lifecycle, stage |-> StageText[stage], created |-> q[i].created] \in SqlAdviceRow
    BY <1>1, <1>4, AdviceRows DEF SqlAdviceRow
  <2> QED
    BY <1>1, <1>2, <2>2, <2>3, AdviceRows
<1>6. "resaved" \notin seen => SameAdvice(m2, q2, gap)
  <2>1. SUFFICES ASSUME "resaved" \notin seen PROVE SameAdvice(m2, q2, gap)
    OBVIOUS
  <2>2. SameAdvice(m, q, gap)
    BY <2>1 DEF AdviceR
  <2>3. \A i \in FindingIds : m2[i].created = m[i].created /\ q2[i].created = q[i].created
                               /\ m2[i].lifecycle = m[i].lifecycle /\ q2[i].lifecycle = q[i].lifecycle
    <3>1. SUFFICES ASSUME NEW i \in FindingIds
                   PROVE  m2[i].created = m[i].created /\ q2[i].created = q[i].created
                          /\ m2[i].lifecycle = m[i].lifecycle /\ q2[i].lifecycle = q[i].lifecycle
      OBVIOUS
    <3>2. m2[i].created = m[i].created /\ m2[i].lifecycle = m[i].lifecycle
      <4>1. CASE i = id /\ m[i] # NoAdvice
        <5>1. m2[i] = [lifecycle |-> m[i].lifecycle, stage |-> stage, created |-> m[i].created]
          BY <1>2, <4>1
        <5> QED
          BY <5>1
      <4>2. CASE ~ (i = id /\ m[i] # NoAdvice)
        BY <1>2, <4>2
      <4> QED
        BY <4>1, <4>2
    <3>3. q2[i].created = q[i].created /\ q2[i].lifecycle = q[i].lifecycle
      <4>1. CASE i = id /\ q[i] # NoAdvice
        <5>1. q2[i] = [lifecycle |-> q[i].lifecycle, stage |-> StageText[stage], created |-> q[i].created]
          BY <1>2, <4>1
        <5> QED
          BY <5>1
      <4>2. CASE ~ (i = id /\ q[i] # NoAdvice)
        BY <1>2, <4>2
      <4> QED
        BY <4>1, <4>2
    <3> QED
      BY <3>2, <3>3
  <2>4. \A i \in FindingIds : m[i] # NoAdvice =>
            /\ m2[i].stage = IF i = id THEN stage ELSE m[i].stage
            /\ q2[i].stage = IF i = id THEN StageText[stage] ELSE q[i].stage
    <3>1. SUFFICES ASSUME NEW i \in FindingIds, m[i] # NoAdvice
                   PROVE  /\ m2[i].stage = IF i = id THEN stage ELSE m[i].stage
                          /\ q2[i].stage = IF i = id THEN StageText[stage] ELSE q[i].stage
      OBVIOUS
    <3>2. q[i] # NoAdvice
      BY <2>2, <3>1 DEF SameAdvice
    <3>3. CASE i = id
      <4>1. /\ m2[i] = [lifecycle |-> m[i].lifecycle, stage |-> stage, created |-> m[i].created]
            /\ q2[i] = [lifecycle |-> q[i].lifecycle, stage |-> StageText[stage], created |-> q[i].created]
        BY <1>2, <3>1, <3>2, <3>3
      <4> QED
        BY <3>3, <4>1
    <3>4. CASE i # id
      BY <1>2, <3>4
    <3> QED
      BY <3>3, <3>4
  <2> QED
    BY <1>5, <2>2, <2>3, <2>4 DEF SameAdvice
<1>7. m2 \in [FindingIds -> {NoAdvice} \cup MemAdviceRow] /\ q2 \in [FindingIds -> {NoAdvice} \cup SqlAdviceRow]
  BY <1>3, <1>5
<1> QED
  BY <1>6, <1>7 DEF AdviceR, m2, q2

\* Recommendations of a set of findings that are set to resolved.
Settle(recs, ids) ==
    [id \in FindingIds |-> IF recs[id] # NoAdvice /\ id \in ids
                           THEN [recs[id] EXCEPT !.lifecycle = "resolved"] ELSE recs[id]]

\* Lifecycles that are set to resolved alike, for all but the findings that
\* are counted differently.
LEMMA AdviceSettled ==
    ASSUME NEW m, NEW q, NEW seen, NEW gap, AdviceR(m, q, seen, gap), NEW up, NEW down,
           \A id \in FindingIds \ gap : /\ m[id] # NoAdvice /\ id \in up => q[id] = NoAdvice \/ id \in down
                                                                     \/ q[id].lifecycle = "resolved"
                                        /\ q[id] # NoAdvice /\ id \in down => m[id] = NoAdvice \/ id \in up
                                                                     \/ m[id].lifecycle = "resolved"
    PROVE  AdviceR(Settle(m, up), Settle(q, down), seen, gap)
<1> DEFINE m2 == Settle(m, up)
           q2 == Settle(q, down)
<1>1. m \in [FindingIds -> {NoAdvice} \cup MemAdviceRow] /\ q \in [FindingIds -> {NoAdvice} \cup SqlAdviceRow]
  BY DEF AdviceR
<1>2. \A i \in FindingIds :
          /\ m2[i] = IF m[i] # NoAdvice /\ i \in up
                     THEN [lifecycle |-> "resolved", stage |-> m[i].stage, created |-> m[i].created] ELSE m[i]
          /\ q2[i] = IF q[i] # NoAdvice /\ i \in down
                     THEN [lifecycle |-> "resolved", stage |-> q[i].stage, created |-> q[i].created] ELSE q[i]
  <2>1. \A x \in MemAdviceRow : [x EXCEPT !.lifecycle = "resolved"]
                                   = [lifecycle |-> "resolved", stage |-> x.stage, created |-> x.created]
    BY DEF MemAdviceRow
  <2>2. \A x \in SqlAdviceRow : [x EXCEPT !.lifecycle = "resolved"]
                                   = [lifecycle |-> "resolved", stage |-> x.stage, created |-> x.created]
    BY DEF SqlAdviceRow
  <2> QED
    BY <1>1, <2>1, <2>2 DEF Settle
<1>3. DOMAIN m2 = FindingIds /\ DOMAIN q2 = FindingIds /\ m2 = [i \in FindingIds |-> m2[i]] /\ q2 = [i \in FindingIds |-> q2[i]]
  BY DEF Settle
<1> HIDE DEF m2, q2
<1>4. \A i \in FindingIds : m2[i] \in {NoAdvice} \cup MemAdviceRow /\ q2[i] \in {NoAdvice} \cup SqlAdviceRow
                            /\ (m2[i] = NoAdvice <=> m[i] = NoAdvice) /\ (q2[i] = NoAdvice <=> q[i] = NoAdvice)
  <2>1. SUFFICES ASSUME NEW i \in FindingIds
                 PROVE  m2[i] \in {NoAdvice} \cup MemAdviceRow /\ q2[i] \in {NoAdvice} \cup SqlAdviceRow
                        /\ (m2[i] = NoAdvice <=> m[i] = NoAdvice) /\ (q2[i] = NoAdvice <=> q[i] = NoAdvice)
    OBVIOUS
  <2>2. m[i] # NoAdvice =>
           [lifecycle |-> "resolved", stage |-> m[i].stage, created |-> m[i].created] \in MemAdviceRow
    BY <1>1, AdviceRows DEF MemAdviceRow
  <2>3. q[i] # NoAdvice =>
           [lifecycle |-> "resolved", stage |-> q[i].stage, created |-> q[i].created] \in SqlAdviceRow
    BY <1>1, AdviceRows DEF SqlAdviceRow
  <2> QED
    BY <1>1, <1>2, <2>2, <2>3, AdviceRows
<1>5. "resaved" \notin seen => SameAdvice(m2, q2, gap)
  <2>1. SUFFICES ASSUME "resaved" \notin seen PROVE SameAdvice(m2, q2, gap)
    OBVIOUS
  <2>2. SameAdvice(m, q, gap)
    BY <2>1 DEF AdviceR
  <2>3. \A i \in FindingIds : m2[i].created = m[i].created /\ q2[i].created = q[i].created
                               /\ m2[i].stage = m[i].stage /\ q2[i].stage = q[i].stage
    <3>1. SUFFICES ASSUME NEW i \in FindingIds
                   PROVE  m2[i].created = m[i].created /\ q2[i].created = q[i].created
                          /\ m2[i].stage = m[i].stage /\ q2[i].stage = q[i].stage
      OBVIOUS
    <3>2. m2[i].created = m[i].created /\ m2[i].stage = m[i].stage
      <4>1. CASE m[i] # NoAdvice /\ i \in up
        <5>1. m2[i] = [lifecycle |-> "resolved", stage |-> m[i].stage, created |-> m[i].created]
          BY <1>2, <4>1
        <5> QED
          BY <5>1
      <4>2. CASE ~ (m[i] # NoAdvice /\ i \in up)
        BY <1>2, <4>2
      <4> QED
        BY <4>1, <4>2
    <3>3. q2[i].created = q[i].created /\ q2[i].stage = q[i].stage
      <4>1. CASE q[i] # NoAdvice /\ i \in down
        <5>1. q2[i] = [lifecycle |-> "resolved", stage |-> q[i].stage, created |-> q[i].created]
          BY <1>2, <4>1
        <5> QED
          BY <5>1
      <4>2. CASE ~ (q[i] # NoAdvice /\ i \in down)
        BY <1>2, <4>2
      <4> QED
        BY <4>1, <4>2
    <3> QED
      BY <3>2, <3>3
  <2>4. \A i \in FindingIds \ gap : m[i] # NoAdvice => m2[i].lifecycle = q2[i].lifecycle
    <3>1. SUFFICES ASSUME NEW i \in FindingIds \ gap, m[i] # NoAdvice PROVE m2[i].lifecycle = q2[i].lifecycle
      OBVIOUS
    <3>2. q[i] # NoAdvice /\ q[i].lifecycle = m[i].lifecycle
      BY <2>2, <3>1 DEF SameAdvice
    <3>3. /\ m2[i].lifecycle = IF i \in up THEN "resolved" ELSE m[i].lifecycle
          /\ q2[i].lifecycle = IF i \in down THEN "resolved" ELSE q[i].lifecycle
      <4>1. i \in up => m2[i] = [lifecycle |-> "resolved", stage |-> m[i].stage, created |-> m[i].created]
        BY <1>2, <3>1
      <4>2. i \in down => q2[i] = [lifecycle |-> "resolved", stage |-> q[i].stage, created |-> q[i].created]
        BY <1>2, <3>2
      <4>3. (i \notin up => m2[i] = m[i]) /\ (i \notin down => q2[i] = q[i])
        BY <1>2
      <4> QED
        BY <4>1, <4>2, <4>3
    <3> QED
      BY <3>1, <3>2, <3>3
  <2> QED
    BY <1>4, <2>2, <2>3, <2>4 DEF SameAdvice
<1>6. m2 \in [FindingIds -> {NoAdvice} \cup MemAdviceRow] /\ q2 \in [FindingIds -> {NoAdvice} \cup SqlAdviceRow]
  BY <1>3, <1>4
<1> QED
  BY <1>5, <1>6 DEF AdviceR, m2, q2

\* A recommendation is resolved in both.
LEMMA AdviceResolved ==
    ASSUME NEW m, NEW q, NEW seen, NEW gap, AdviceR(m, q, seen, gap), NEW id \in FindingIds
    PROVE  AdviceR(ResolveRecommendations(m, id), ResolveRecommendations(q, id), seen, gap)
<1>1. m \in [FindingIds -> {NoAdvice} \cup MemAdviceRow] /\ q \in [FindingIds -> {NoAdvice} \cup SqlAdviceRow]
  BY DEF AdviceR
<1>2. ResolveRecommendations(m, id) = Settle(m, {id}) /\ ResolveRecommendations(q, id) = Settle(q, {id})
  BY <1>1 DEF ResolveRecommendations, Settle
<1>3. AdviceR(Settle(m, {id}), Settle(q, {id}), seen, gap)
  BY AdviceSettled
<1> QED
  BY <1>2, <1>3

\* The recommendations of resolved findings are resolved in both, but for
\* findings that are counted differently.
LEMMA AdviceSynced ==
    ASSUME NEW m, NEW q, NEW seen, NEW gap, AdviceR(m, q, seen, gap),
           NEW mf, NEW qf, FindingsR(mf, qf, gap)
    PROVE  AdviceR(MemSyncRecommendations(m, mf), SqlSyncRecommendations(q, qf), seen, gap)
<1> DEFINE up == ResolvedIds(Range(mf.rows))
           down == {id \in ResolvedIds(qf.rows) : q[id].lifecycle = "active"}
<1>1. m \in [FindingIds -> {NoAdvice} \cup MemAdviceRow] /\ q \in [FindingIds -> {NoAdvice} \cup SqlAdviceRow]
  BY DEF AdviceR
<1>2. \A id \in FindingIds \ gap : id \in ResolvedIds(qf.rows) <=> id \in up
  <2>1. /\ \A k \in DOMAIN mf.rows : \E r \in qf.rows : SameFinding(mf.rows[k], r, gap)
        /\ \A r \in qf.rows : \E k \in DOMAIN mf.rows : SameFinding(mf.rows[k], r, gap)
    BY DEF FindingsR, SameFindings
  <2>2. \A id : id \in up <=> \E k \in DOMAIN mf.rows : mf.rows[k].id = id /\ mf.rows[k].life = "resolved"
    BY DEF ResolvedIds, Range
  <2>3. \A id : id \in ResolvedIds(qf.rows) <=> \E r \in qf.rows : r.id = id /\ r.life = "resolved"
    BY DEF ResolvedIds
  <2> HIDE DEF up
  <2> QED
    BY <2>1, <2>2, <2>3 DEF SameFinding
<1>3. \A id \in FindingIds : /\ q[id] # NoAdvice => q[id].lifecycle \in {"active", "resolved"}
                             /\ q[id] = NoAdvice => q[id].lifecycle # "active"
  BY <1>1, AdviceRows DEF NoAdvice
<1>4. \A id \in FindingIds : id \in down <=> id \in ResolvedIds(qf.rows) /\ q[id].lifecycle = "active"
  OBVIOUS
<1>5. SqlSyncRecommendations(q, qf) = Settle(q, down)
  <2> HIDE DEF down
  <2> QED
    BY <1>3, <1>4 DEF SqlSyncRecommendations, Settle
<1>6. MemSyncRecommendations(m, mf) = Settle(m, up)
  BY DEF MemSyncRecommendations, Settle
<1> HIDE DEF up, down
<1>7. \A id \in FindingIds \ gap :
          /\ m[id] # NoAdvice /\ id \in up => q[id] = NoAdvice \/ id \in down \/ q[id].lifecycle = "resolved"
          /\ q[id] # NoAdvice /\ id \in down => m[id] = NoAdvice \/ id \in up \/ m[id].lifecycle = "resolved"
  BY <1>2, <1>3, <1>4
<1>8. AdviceR(Settle(m, up), Settle(q, down), seen, gap)
  BY <1>7, AdviceSettled
<1> QED
  BY <1>5, <1>6, <1>8

\* A stage is read back from its name.
LEMMA StageCodes ==
    ASSUME NEW s \in DOMAIN StageText
    PROVE  StageText[s] \in Range(StageText) /\ ParseActionStage(StageText[s]) = s
<1>1. DOMAIN StageText = {"recommended", "simulated", "approved", "executed", "rejected", "failed"}
  BY DEF StageText
<1>2. \A t \in DOMAIN StageText : StageText[t] = StageText[s] => t = s
  BY <1>1 DEF StageText
<1>3. StageText[s] \in Range(StageText)
  BY DEF Range
<1> QED
  BY <1>2, <1>3 DEF ParseActionStage

\* The first part of AdviceAgrees, of the tables.
LEMMA AdviceShown ==
    ASSUME NEW m, NEW q, NEW seen, NEW gap, AdviceR(m, q, seen, gap), "resaved" \notin seen,
           NEW id \in FindingIds \ gap
    PROVE  m[id] = RowToRecommendation(q[id])
<1>1. /\ m[id] \in {NoAdvice} \cup MemAdviceRow /\ q[id] \in {NoAdvice} \cup SqlAdviceRow
      /\ m[id] = NoAdvice <=> q[id] = NoAdvice
      /\ m[id] # NoAdvice => /\ q[id].created = m[id].created /\ q[id].stage = StageText[m[id].stage]
                             /\ q[id].lifecycle = m[id].lifecycle
  BY DEF AdviceR, SameAdvice
<1>2. CASE m[id] = NoAdvice
  BY <1>1, <1>2 DEF RowToRecommendation
<1>3. CASE m[id] # NoAdvice
  <2>1. /\ m[id] = [lifecycle |-> m[id].lifecycle, stage |-> m[id].stage, created |-> m[id].created]
        /\ m[id].stage \in DOMAIN StageText
    BY <1>1, <1>3, AdviceRows
  <2>2. q[id] = [lifecycle |-> q[id].lifecycle, stage |-> q[id].stage, created |-> q[id].created] /\ q[id] # NoAdvice
    BY <1>1, <1>3, AdviceRows
  <2>3. ParseActionStage(q[id].stage) = m[id].stage
    BY <1>1, <1>3, <2>1, StageCodes
  <2>4. RowToRecommendation(q[id]) =
           [lifecycle |-> q[id].lifecycle, stage |-> ParseActionStage(q[id].stage), created |-> q[id].created]
    BY <2>2 DEF RowToRecommendation
  <2> QED
    BY <1>1, <1>3, <2>1, <2>3, <2>4
<1> QED
  BY <1>2, <1>3

\* The second part: the vector from its end is the sorted query.
LEMMA AdviceListed ==
    ASSUME NEW m, NEW q, NEW seen, AdviceR(m, q, seen, {}), "resaved" \notin seen, NEW active \in BOOLEAN
    PROVE  \A limit : MemLatestRecommendations(m, active, limit) = SqlLatestRecommendations(q, active, limit)
<1> DEFINE ids == Shown(m, active)
           up == {p \in ids \X ids : m[p[1]].created < m[p[2]].created}
           down == {p \in ids \X ids : q[p[1]].created > q[p[2]].created}
           list == Listed(ids, up)
           n == Cardinality(ids)
<1>1. /\ m \in [FindingIds -> {NoAdvice} \cup MemAdviceRow] /\ q \in [FindingIds -> {NoAdvice} \cup SqlAdviceRow]
      /\ SameAdvice(m, q, {})
  BY DEF AdviceR
<1>2. Shown(q, active) = ids
  BY <1>1 DEF Shown, SameAdvice
<1>3. ids \subseteq FindingIds /\ \A id \in ids : m[id] # NoAdvice
  BY DEF Shown
<1>4. \A x, y \in ids : (<<x, y>> \in up <=> m[x].created < m[y].created)
                         /\ (<<x, y>> \in down <=> q[x].created > q[y].created)
  OBVIOUS
<1> HIDE DEF ids, up, down
<1>5. IsFiniteSet(ids)
  BY <1>3, BackendsAssumption, FS_Subset
<1>6. \A x \in ids : m[x].created \in Nat /\ q[x].created = m[x].created
  BY <1>1, <1>3, AdviceRows DEF SameAdvice
<1>7. \A x, y \in ids : x # y => m[x].created # m[y].created
  BY <1>1, <1>3 DEF SameAdvice
<1>8. Strict(ids, up)
  BY <1>4, <1>6 DEF Strict
<1>9. Linear(ids, down)
  <2>1. Strict(ids, down)
    BY <1>4, <1>6 DEF Strict
  <2>2. \A x, y \in ids : x = y \/ <<x, y>> \in down \/ <<y, x>> \in down
    <3>1. SUFFICES ASSUME NEW x \in ids, NEW y \in ids, x # y
                   PROVE  <<x, y>> \in down \/ <<y, x>> \in down
      OBVIOUS
    <3>2. q[x].created \in Nat /\ q[y].created \in Nat /\ q[x].created # q[y].created
      BY <1>6, <1>7, <3>1
    <3>3. q[x].created > q[y].created \/ q[y].created > q[x].created
      BY <3>2
    <3> QED
      BY <1>4, <3>3
  <2> QED
    BY <2>1, <2>2 DEF Linear
<1>10. /\ Listing(list, ids, up) /\ n \in Nat /\ list \in Seq(ids) /\ Len(list) = n
       /\ \A x \in ids : \E k \in 1..n : list[k] = x
  BY <1>5, <1>8, ListedIs
<1>11. list \in [1..n -> ids] /\ DOMAIN list = 1..n
  BY <1>10 DEF Listing
<1> HIDE DEF list, n
<1>12. \A j, k \in 1..Len(list) : j < k => <<list[k], list[j]>> \in down
  <2>1. SUFFICES ASSUME NEW j \in 1..n, NEW k \in 1..n, j < k PROVE <<list[k], list[j]>> \in down
    BY <1>10
  <2>2. list[j] \in ids /\ list[k] \in ids /\ list[j] # list[k] /\ <<list[k], list[j]>> \notin up
    <3>1. list[j] \in ids /\ list[k] \in ids
      BY <1>11, <2>1
    <3>2. IsInjective(list) /\ \A i, l \in DOMAIN list : i < l => <<list[l], list[i]>> \notin up
      BY <1>10 DEF Listing
    <3>3. <<list[k], list[j]>> \notin up
      BY <1>11, <2>1, <3>2
    <3>4. list[j] # list[k]
      BY <1>11, <2>1, <3>2 DEF IsInjective
    <3> QED
      BY <3>1, <3>3, <3>4
  <2> QED
    BY <1>4, <1>6, <1>7, <2>2
<1>13. Reverse(list) = Listed(ids, down)
  BY <1>9, <1>10, <1>12, ReverseIsListed
<1>14. /\ \A limit : MemLatestRecommendations(m, active, limit) = First(Reverse(list), limit)
       /\ \A limit : SqlLatestRecommendations(q, active, limit) = First(Listed(ids, down), limit)
  BY <1>2 DEF MemLatestRecommendations, SqlLatestRecommendations, ids, up, down, list
<1> QED
  BY <1>13, <1>14

-----------------------------------------------------------------------------
(* Runs and simulations.                                                   *)

\* As many elements as positions, if no two are the same.
LEMMA CountIs ==
    ASSUME NEW n \in Nat, NEW R, NEW fun \in [1..n -> R], IsInjective(fun)
    PROVE  IsFiniteSet({fun[k] : k \in 1..n}) /\ Cardinality({fun[k] : k \in 1..n}) = n
<1> DEFINE T == {fun[k] : k \in 1..n}
<1>1. fun \in Bijection(1..n, T)
  BY DEF Bijection, Injection, Surjection, IsInjective
<1> HIDE DEF T
<1>2. IsFiniteSet(1..n) /\ Cardinality(1..n) = n
  BY FS_Interval
<1>3. ExistsBijection(1..n, T)
  BY <1>1 DEF ExistsBijection
<1> QED
  BY <1>2, <1>3, FS_Bijection DEF T

\* A run and a row of the first kind are told apart by their model, and both
\* can be read back.
LEMMA RunRows ==
    /\ \A r \in Runs : r.model = "v2" /\ r.created \in Nat /\ r.projected \in BOOLEAN
    /\ \A s \in Sims : /\ LegacyRow(s).model = "legacy" /\ LegacyRow(s).input = NoInput
                       /\ LegacyRow(s).id = s.id /\ LegacyRow(s).action = s.action
                       /\ LegacyRow(s).created = s.created /\ s.created \in Nat
                       /\ LegacyRow(s).status = "completed"
                       /\ ValidateRun(LegacyRow(s)) /\ RowToSimulation(LegacyRow(s)) = s
<1>1. \A r \in Runs : r.model = "v2" /\ r.created \in Nat /\ r.projected \in BOOLEAN
  <2>1. SUFFICES ASSUME NEW r \in Runs PROVE r.model = "v2"
    BY BackendsAssumption
  <2>2. r = Run(r.id, r.action, r.input, r.hash, r.status, r.projected, r.created)
    BY BackendsAssumption
  <2> QED
    BY <2>2 DEF Run
<1>2. ASSUME NEW s \in Sims
      PROVE  /\ LegacyRow(s).model = "legacy" /\ LegacyRow(s).input = NoInput
             /\ LegacyRow(s).id = s.id /\ LegacyRow(s).action = s.action
             /\ LegacyRow(s).created = s.created /\ s.created \in Nat
             /\ LegacyRow(s).status = "completed"
             /\ ValidateRun(LegacyRow(s)) /\ RowToSimulation(LegacyRow(s)) = s
  <2>1. s = Simulation(s.id, s.action, s.created) /\ s.created \in Nat
    BY BackendsAssumption
  <2>2. ValidateRun(LegacyRow(s))
    BY DEF ValidateRun, ValidateStatus, LegacyRow
  <2>3. RowToSimulation(LegacyRow(s)) = s
    BY <2>1 DEF RowToSimulation, LegacyRow, Simulation
  <2> QED
    BY <2>1, <2>2, <2>3 DEF LegacyRow
<1> QED
  BY <1>1, <1>2

\* No run and no simulation in both.
LEMMA RunsStart ==
    ASSUME NEW seen
    PROVE  RunsR(<<>>, <<>>, {}, seen)
BY FS_EmptySet DEF RunsR, Distinct, Range

\* More differences noted leave less to keep.
LEMMA RunsWeaken ==
    ASSUME NEW runs, NEW sims, NEW rows, NEW seen, NEW more, seen \subseteq more, RunsR(runs, sims, rows, seen)
    PROVE  RunsR(runs, sims, rows, more)
BY DEF RunsR

\* A list that grows at its end keeps its ids apart.
LEMMA DistinctAppend ==
    ASSUME NEW S, NEW list \in Seq(S), Distinct(list), NEW x \in S, \A y \in Range(list) : y.id # x.id
    PROVE  Append(list, x) \in Seq(S) /\ Distinct(Append(list, x)) /\ Range(Append(list, x)) = Range(list) \cup {x}
<1> DEFINE n == Len(list)
           more == Append(list, x)
<1>1. /\ n \in Nat /\ DOMAIN list = 1..n /\ DOMAIN more = 1..(n + 1) /\ more \in Seq(S)
      /\ \A k \in 1..n : more[k] = list[k]
      /\ more[n + 1] = x
  OBVIOUS
<1> HIDE DEF n, more
<1>2. \A k \in DOMAIN more : k \in DOMAIN list \/ k = n + 1
  BY <1>1
<1>3. \A k \in DOMAIN list : list[k] \in Range(list) /\ list[k].id # x.id /\ k # n + 1
  BY <1>1 DEF Range
<1>4. Distinct(more)
  BY <1>1, <1>2, <1>3 DEF Distinct
<1>5. Range(more) = Range(list) \cup {x}
  <2>1. n + 1 \in DOMAIN more /\ DOMAIN list \subseteq DOMAIN more
    BY <1>1
  <2> QED
    BY <1>1, <1>2, <2>1 DEF Range
<1> QED
  BY <1>1, <1>4, <1>5 DEF more

\* A run is saved in both or refused by both, unless it is one that only
\* SqliteStorage refuses, or has the id of a simulation of the first kind.
LEMMA RunSaved ==
    ASSUME NEW runs, NEW sims, NEW rows, NEW seen, RunsR(runs, sims, rows, seen),
           seen \cap {"invalid", "taken"} = {}, NEW rec \in Runs
    PROVE  LET m == MemSaveRun(runs, rec)
               q == SqlSaveRun(rows, rec)
               taken == \E s \in Range(sims) : s.id = rec.id
           IN  /\ RunsR(m.table, sims, q.table,
                        seen \cup (IF ValidateRun(rec) THEN {} ELSE {"invalid"})
                             \cup (IF taken THEN {"taken"} ELSE {}))
               /\ rows \subseteq q.table
               /\ m.ok \in BOOLEAN /\ q.ok \in BOOLEAN
               /\ m.ok # q.ok => m.ok /\ (ValidateRun(rec) => rec \in rows \/ taken)
<1> DEFINE m == MemSaveRun(runs, rec)
           q == SqlSaveRun(rows, rec)
           Plain == {r \in rows : r.model # "legacy"}
           taken == \E s \in Range(sims) : s.id = rec.id
           later == seen \cup (IF ValidateRun(rec) THEN {} ELSE {"invalid"})
                         \cup (IF taken THEN {"taken"} ELSE {})
<1>1. /\ runs \in Seq(Runs) /\ Distinct(runs) /\ sims \in Seq(Sims) /\ Distinct(sims)
      /\ IsFiniteSet(rows) /\ \A r, s \in rows : r.id = s.id => r = s
      /\ rows \subseteq {r \in Runs : ValidateRun(r)} \cup {LegacyRow(s) : s \in Sims}
      /\ {r \in rows : r.model = "legacy"} = {LegacyRow(sims[k]) : k \in DOMAIN sims}
      /\ Range(runs) = Plain
  BY DEF RunsR
<1>2. \A k \in DOMAIN sims : sims[k] \in Sims /\ sims[k] \in Range(sims) /\ LegacyRow(sims[k]).id = sims[k].id
  BY <1>1, RunRows DEF Range
<1>3. \A r \in rows : r.id = rec.id => r \in Plain \/ taken
  <2>1. SUFFICES ASSUME NEW r \in rows, r.id = rec.id, r.model = "legacy" PROVE taken
    OBVIOUS
  <2>2. PICK k \in DOMAIN sims : r = LegacyRow(sims[k])
    BY <1>1, <2>1
  <2> QED
    BY <1>2, <2>1, <2>2
<1>4. \A s \in Range(sims) : \E r \in rows : r.id = s.id
  <2>1. SUFFICES ASSUME NEW k \in DOMAIN sims PROVE \E r \in rows : r.id = sims[k].id
    BY DEF Range
  <2>2. LegacyRow(sims[k]) \in rows
    BY <1>1
  <2> QED
    BY <1>2, <2>2
<1>5. Plain \subseteq rows
  OBVIOUS
<1>6. InputTaken(Range(runs), rec) <=> InputTaken(rows, rec)
  <2>1. \A r \in rows : r.input # NoInput => r \in Plain
    BY <1>1, RunRows
  <2> HIDE DEF Plain
  <2> QED
    BY <1>1, <1>5, <2>1 DEF InputTaken
<1>7. CASE taken
  <2>1. q.table = rows /\ q.ok = FALSE
    BY <1>4, <1>7 DEF SqlSaveRun, Ok, Error
  <2>2. m.table \in Seq(Runs) /\ Distinct(m.table) /\ m.ok \in BOOLEAN
    <3>1. CASE (\E r \in Range(runs) : r.id = rec.id) \/ InputTaken(Range(runs), rec)
      <4>1. m.table = runs /\ m.ok \in BOOLEAN
        BY <3>1 DEF MemSaveRun, Ok, Error
      <4> QED
        BY <1>1, <4>1
    <3>2. CASE (\A r \in Range(runs) : r.id # rec.id) /\ ~InputTaken(Range(runs), rec)
      <4>1. m.table = Append(runs, rec) /\ m.ok \in BOOLEAN
        BY <3>2 DEF MemSaveRun, Ok, Error
      <4>2. Append(runs, rec) \in Seq(Runs) /\ Distinct(Append(runs, rec))
        BY <1>1, <3>2, DistinctAppend
      <4> QED
        BY <4>1, <4>2
    <3> QED
      BY <3>1, <3>2
  <2>3. "taken" \in later
    BY <1>7
  <2> HIDE DEF m, q, later, taken
  <2>4. RunsR(m.table, sims, rows, later)
    BY <1>1, <2>2, <2>3 DEF RunsR
  <2> QED
    BY <1>7, <2>1, <2>2, <2>4 DEF m, q, later, taken
<1>8. CASE ~taken /\ \E r \in rows : r.id = rec.id
  <2>1. \E r \in Range(runs) : r.id = rec.id
    BY <1>1, <1>3, <1>8
  <2>2. /\ m.table = runs /\ m.ok \in BOOLEAN
        /\ m.ok => rec \in Range(runs)
    BY <2>1 DEF MemSaveRun, Ok, Error
  <2>3. q.table = rows /\ q.ok = FALSE
    BY <1>8 DEF SqlSaveRun, Ok, Error
  <2>4. rec \in Range(runs) => rec \in rows
    BY <1>1, <1>5
  <2>5. RunsR(runs, sims, rows, later)
    BY RunsWeaken
  <2> HIDE DEF m, q
  <2> QED
    BY <2>2, <2>3, <2>4, <2>5 DEF m, q
<1>9. CASE ~taken /\ \A r \in rows : r.id # rec.id
  <2>1. \A r \in Range(runs) : r.id # rec.id
    BY <1>1, <1>5, <1>9
  <2>2. CASE InputTaken(rows, rec)
    <3>1. m.table = runs /\ m.ok = FALSE
      BY <1>6, <2>1, <2>2 DEF MemSaveRun, Ok, Error
    <3>2. q.table = rows /\ q.ok = FALSE
      BY <2>2 DEF SqlSaveRun, Ok, Error
    <3>3. RunsR(runs, sims, rows, later)
      BY RunsWeaken
    <3> HIDE DEF m, q
    <3> QED
      BY <3>1, <3>2, <3>3 DEF m, q
  <2>3. CASE ~ InputTaken(rows, rec)
    <3>1. m.table = Append(runs, rec) /\ m.ok = TRUE
      BY <1>6, <2>1, <2>3 DEF MemSaveRun, Ok, Error
    <3>2. /\ Append(runs, rec) \in Seq(Runs) /\ Distinct(Append(runs, rec))
          /\ Range(Append(runs, rec)) = Range(runs) \cup {rec}
      BY <1>1, <2>1, DistinctAppend
    <3>3. CASE ValidateRun(rec)
      <4>1. q.table = rows \cup {rec} /\ q.ok = TRUE
        BY <1>9, <2>3, <3>3 DEF SqlSaveRun, Ok, Error
      <4>2. rec.model = "v2"
        BY RunRows
      <4>3. {r \in rows \cup {rec} : r.model = "legacy"} = {r \in rows : r.model = "legacy"}
        BY <4>2
      <4>4. {r \in rows \cup {rec} : r.model # "legacy"} = Plain \cup {rec}
        BY <4>2
      <4>5. IsFiniteSet(rows \cup {rec})
        BY <1>1, FS_AddElement
      <4>6. \A r, s \in rows \cup {rec} : r.id = s.id => r = s
        BY <1>1, <1>9
      <4>8. later = seen
        BY <1>9, <3>3
      <4> HIDE DEF Plain
      <4>7. RunsR(Append(runs, rec), sims, rows \cup {rec}, seen)
        BY <1>1, <3>2, <3>3, <4>3, <4>4, <4>5, <4>6 DEF RunsR
      <4> HIDE DEF m, q, later
      <4> QED
        BY <3>1, <4>1, <4>7, <4>8 DEF m, q, later
    <3>4. CASE ~ ValidateRun(rec)
      <4>1. q.table = rows /\ q.ok = FALSE
        BY <3>4 DEF SqlSaveRun, Ok, Error
      <4>3. later = seen \cup {"invalid"}
        BY <1>9, <3>4
      <4>2. RunsR(Append(runs, rec), sims, rows, seen \cup {"invalid"})
        BY <1>1, <3>2 DEF RunsR
      <4> HIDE DEF m, q, later
      <4> QED
        BY <3>1, <3>4, <4>1, <4>2, <4>3 DEF m, q, later
    <3> QED
      BY <3>3, <3>4
  <2> QED
    BY <2>2, <2>3
<1> QED
  BY <1>7, <1>8, <1>9

\* A simulation of the first kind is saved in both, unless its id is taken in
\* the table of SqliteStorage.
LEMMA SimulationSaved ==
    ASSUME NEW runs, NEW sims, NEW rows, NEW seen, RunsR(runs, sims, rows, seen),
           "taken" \notin seen, NEW sim \in Sims
    PROVE  LET q == SqlSaveSimulation(rows, sim)
           IN  /\ q.ok \in BOOLEAN /\ rows \subseteq q.table
               /\ RunsR(runs, Append(sims, sim), q.table, IF q.ok THEN seen ELSE seen \cup {"taken"})
<1> DEFINE q == SqlSaveSimulation(rows, sim)
           Old == {r \in rows : r.model = "legacy"}
           more == Append(sims, sim)
           row == LegacyRow(sim)
<1>1. /\ runs \in Seq(Runs) /\ Distinct(runs) /\ sims \in Seq(Sims) /\ Distinct(sims)
      /\ IsFiniteSet(rows) /\ \A r, s \in rows : r.id = s.id => r = s
      /\ rows \subseteq {r \in Runs : ValidateRun(r)} \cup {LegacyRow(s) : s \in Sims}
      /\ Old = {LegacyRow(sims[k]) : k \in DOMAIN sims}
      /\ seen \cap {"invalid", "taken"} = {} => {r \in rows : r.model # "legacy"} = Range(runs)
  BY DEF RunsR
<1>2. more \in Seq(Sims)
  BY <1>1
<1>3. CASE \E r \in rows : r.id = sim.id
  <2>1. q.ok = FALSE /\ q.table = rows
    BY <1>3 DEF SqlSaveSimulation, Ok, Error
  <2> HIDE DEF Old, more, q
  <2>2. RunsR(runs, more, rows, seen \cup {"taken"})
    BY <1>1, <1>2 DEF RunsR
  <2> QED
    BY <2>1, <2>2 DEF more, q
<1>4. CASE \A r \in rows : r.id # sim.id
  <2>1. \A k \in DOMAIN sims : sims[k].id # sim.id
    <3>1. SUFFICES ASSUME NEW k \in DOMAIN sims PROVE sims[k].id # sim.id
      OBVIOUS
    <3>2. LegacyRow(sims[k]) \in rows /\ LegacyRow(sims[k]).id = sims[k].id
      BY <1>1, RunRows
    <3> QED
      BY <1>4, <3>2
  <2>2. q.ok = TRUE /\ q.table = rows \cup {row}
    BY <1>4 DEF SqlSaveSimulation, Ok, Error
  <2>3. Distinct(more) /\ Range(more) = Range(sims) \cup {sim}
    <3>1. \A s \in Range(sims) : s.id # sim.id
      BY <2>1 DEF Range
    <3> QED
      BY <1>1, <3>1, DistinctAppend
  <2>4. row.model = "legacy" /\ row.id = sim.id
    BY RunRows
  <2>5. {r \in rows \cup {row} : r.model = "legacy"} = {LegacyRow(more[k]) : k \in DOMAIN more}
    <3>1. {LegacyRow(more[k]) : k \in DOMAIN more} = {LegacyRow(s) : s \in Range(more)}
      BY DEF Range
    <3>2. {LegacyRow(sims[k]) : k \in DOMAIN sims} = {LegacyRow(s) : s \in Range(sims)}
      BY DEF Range
    <3>3. {LegacyRow(s) : s \in Range(sims) \cup {sim}} = {LegacyRow(s) : s \in Range(sims)} \cup {row}
      OBVIOUS
    <3>4. {r \in rows \cup {row} : r.model = "legacy"} = Old \cup {row}
      BY <2>4
    <3> HIDE DEF Old, more, row
    <3> QED
      BY <1>1, <2>3, <3>1, <3>2, <3>3, <3>4
  <2>6. {r \in rows \cup {row} : r.model # "legacy"} = {r \in rows : r.model # "legacy"}
    BY <2>4
  <2>7. IsFiniteSet(rows \cup {row})
    BY <1>1, FS_AddElement
  <2>8. \A r, s \in rows \cup {row} : r.id = s.id => r = s
    BY <1>1, <1>4, <2>4
  <2>9. rows \cup {row} \subseteq {r \in Runs : ValidateRun(r)} \cup {LegacyRow(s) : s \in Sims}
    BY <1>1
  <2> HIDE DEF Old, more, row
  <2>10. RunsR(runs, more, rows \cup {row}, seen)
    BY <1>1, <1>2, <2>3, <2>5, <2>6, <2>7, <2>8, <2>9 DEF RunsR
  <2> QED
    BY <2>2, <2>10 DEF more, row
<1> QED
  BY <1>3, <1>4

\* The order of the queries, and what they return at a limit.
LEMMA ByCreatedIs ==
    ASSUME NEW S, IsFiniteSet(S), \A x \in S : x.created \in Nat
    PROVE  \A n \in Nat : Range(First(ByCreated(S), n)) \subseteq S
<1> DEFINE before == {p \in S \X S : p[1].created > p[2].created}
           list == Listed(S, before)
<1>1. \A x, y \in S : <<x, y>> \in before <=> x.created > y.created
  OBVIOUS
<1> HIDE DEF before
<1>2. Strict(S, before)
  BY <1>1 DEF Strict
<1>3. list \in Seq(S)
  BY <1>2, ListedIs
<1> HIDE DEF list
<1>4. ASSUME NEW n \in Nat PROVE Range(First(list, n)) \subseteq S
  <2>1. First(list, n) \in Seq(S)
    BY <1>3, FirstIs
  <2> QED
    BY <2>1 DEF Range
<1> QED
  BY <1>4 DEF ByCreated, list, before

\* A list in the order of creation, from its end, is the sorted query.
LEMMA NewestAreListed ==
    ASSUME NEW T, NEW list \in Seq(T), \A x \in T : x.created \in Nat, InCreationOrder(list),
           NEW ks \in SUBSET (DOMAIN list)
    PROVE  LastFirst(list, ks) = ByCreated({list[k] : k \in ks})
<1> DEFINE S == {list[k] : k \in ks}
           before == {p \in S \X S : p[1].created > p[2].created}
           n == Len(list)
<1>1. \A x, y \in S : <<x, y>> \in before <=> x.created > y.created
  OBVIOUS
<1>2. /\ n \in Nat /\ DOMAIN list = 1..n /\ ks \in SUBSET (1..n)
      /\ \A k \in ks : list[k].created \in Nat /\ k \in Nat
      /\ \A x \in S : x.created \in Nat
  OBVIOUS
<1>0. S = {list[k] : k \in ks}
  OBVIOUS
<1> HIDE DEF before, n, S
<1>3. \A j, k \in ks : j < k => <<list[k], list[j]>> \in before
  BY <1>0, <1>1, <1>2 DEF InCreationOrder
<1>4. Linear(S, before)
  <2>1. \A x \in S : <<x, x>> \notin before
    BY <1>1, <1>2
  <2>3. \A x, y, z \in S : <<x, y>> \in before /\ <<y, z>> \in before => <<x, z>> \in before
    <3>1. SUFFICES ASSUME NEW x \in S, NEW y \in S, NEW z \in S, <<x, y>> \in before, <<y, z>> \in before
                   PROVE  <<x, z>> \in before
      OBVIOUS
    <3>2. x.created \in Nat /\ y.created \in Nat /\ z.created \in Nat
      BY <1>2
    <3>3. x.created > z.created
      BY <1>1, <3>1, <3>2
    <3> QED
      BY <1>1, <3>3
  <2>2. \A x, y \in S : x = y \/ <<x, y>> \in before \/ <<y, x>> \in before
    <3>1. SUFFICES ASSUME NEW j \in ks, NEW k \in ks
                   PROVE  list[j] = list[k] \/ <<list[j], list[k]>> \in before \/ <<list[k], list[j]>> \in before
      BY <1>0
    <3>2. j = k \/ j < k \/ k < j
      BY <1>2
    <3> QED
      BY <1>3, <3>2
  <2> QED
    BY <2>1, <2>2, <2>3 DEF Linear, Strict
<1> HIDE DEF Linear
<1>5. LastFirst(list, ks) = Listed(S, before)
  <2>1. Falls(list, ks, S, before)
    BY <1>0, <1>3 DEF Falls
  <2> QED
    BY <1>2, <1>4, <2>1, LastFirstIsListed
<1> QED
  BY <1>5 DEF ByCreated, before, S

\* A vector in the order of creation, read from its end, is the query sorted by creation.
LEMMA ReversedAreListed ==
    ASSUME NEW T, NEW list \in Seq(T), \A x \in T : x.created \in Nat, InCreationOrder(list)
    PROVE  Reverse(list) = ByCreated(Range(list))
<1> DEFINE S == Range(list)
           before == {p \in S \X S : p[1].created > p[2].created}
           n == Len(list)
<1>1. \A x, y \in S : <<x, y>> \in before <=> x.created > y.created
  OBVIOUS
<1>2. /\ n \in Nat /\ DOMAIN list = 1..n /\ \A k \in 1..n : list[k].created \in Nat /\ list[k] \in S
      /\ \A x \in S : \E k \in 1..n : list[k] = x
  BY DEF Range
<1>3. list \in Seq(S)
  <2>1. list = [k \in 1..n |-> list[k]]
    BY <1>2
  <2> QED
    BY <1>2, <2>1
<1> HIDE DEF before, S
<1>4. \A j, k \in 1..n : j < k => <<list[k], list[j]>> \in before
  BY <1>1, <1>2 DEF InCreationOrder
<1>5. Linear(S, before)
  <2>1. Strict(S, before)
    <3>1. \A x \in S : x.created \in Nat
      BY <1>2
    <3> QED
      BY <1>1, <3>1 DEF Strict
  <2>2. \A x, y \in S : x = y \/ <<x, y>> \in before \/ <<y, x>> \in before
    <3>1. SUFFICES ASSUME NEW j \in 1..n, NEW k \in 1..n
                   PROVE  list[j] = list[k] \/ <<list[j], list[k]>> \in before \/ <<list[k], list[j]>> \in before
      BY <1>2
    <3>2. j = k \/ j < k \/ k < j
      BY <1>2
    <3> QED
      BY <1>4, <3>2
  <2> QED
    BY <2>1, <2>2 DEF Linear
<1>6. Reverse(list) = Listed(S, before)
  BY <1>2, <1>3, <1>4, <1>5, ReverseIsListed
<1> QED
  BY <1>6 DEF ByCreated, before, S

\* The rows that are read, by the two queries of the two kinds.
LEMMA RowsAre ==
    ASSUME NEW runs, NEW sims, NEW rows, NEW seen, RunsR(runs, sims, rows, seen)
    PROVE  /\ IsFiniteSet(rows)
           /\ \A r \in rows : r.created \in Nat /\ ValidateRun(r)
           /\ \A k \in DOMAIN runs : runs[k] \in Runs /\ runs[k].created \in Nat
           /\ \A k \in DOMAIN sims : sims[k] \in Sims /\ sims[k].created \in Nat
           /\ DOMAIN runs = 1..Len(runs) /\ Len(runs) \in Nat /\ DOMAIN sims = 1..Len(sims) /\ Len(sims) \in Nat
BY RunRows DEF RunsR

\* The lookup by input finds in memory one that the query may return.
LEMMA RunFound ==
    ASSUME NEW runs, NEW sims, NEW rows, NEW seen, RunsR(runs, sims, rows, seen),
           seen \cap {"invalid", "taken"} = {}, NEW hash
    PROVE  /\ MemRunByInput(runs, hash) \subseteq SqlRunByInput(rows, hash)
           /\ MemRunByInput(runs, hash) = {} => SqlRunByInput(rows, hash) = {}
<1> DEFINE mine == {k \in DOMAIN runs : runs[k].hash = hash /\ runs[k].input # NoInput}
           newest == {k \in mine : \A j \in mine : runs[j].created <= runs[k].created}
           theirs == {r \in rows : r.hash = hash /\ r.input # NoInput}
<1>1. theirs = {runs[k] : k \in mine}
  <2>1. {r \in rows : r.model # "legacy"} = Range(runs)
    BY DEF RunsR
  <2>2. \A r \in rows : r.input # NoInput => r.model # "legacy"
    BY RunRows DEF RunsR
  <2>3. \A r \in theirs : \E k \in mine : r = runs[k]
    BY <2>1, <2>2 DEF Range
  <2>4. \A k \in mine : runs[k] \in theirs
    BY <2>1 DEF Range
  <2> HIDE DEF mine, theirs
  <2> QED
    BY <2>3, <2>4
<1>2. DOMAIN runs = 1..Len(runs) /\ Len(runs) \in Nat /\ \A k \in DOMAIN runs : runs[k].created \in Nat
  BY RowsAre
<1>3. mine \subseteq 1..Len(runs)
  BY <1>2
<1>4. MemRunByInput(runs, hash) = IF mine = {} THEN {} ELSE {runs[Max(newest)]}
  BY DEF MemRunByInput
<1>5. SqlRunByInput(rows, hash) = {r \in theirs : \A s \in theirs : s.created <= r.created}
  BY DEF SqlRunByInput
<1>6. newest \subseteq mine /\ \A k \in newest, j \in mine : runs[j].created <= runs[k].created
  OBVIOUS
<1>7. CASE mine = {}
  BY <1>1, <1>4, <1>5, <1>7
<1>8. CASE mine # {}
  <2>1. newest # {}
    <3> DEFINE before == {p \in mine \X mine : runs[p[1]].created < runs[p[2]].created}
    <3>1. \A j, k \in mine : <<j, k>> \in before <=> runs[j].created < runs[k].created
      OBVIOUS
    <3>2. newest = {k \in mine : \A j \in mine : runs[j].created <= runs[k].created}
      OBVIOUS
    <3> HIDE DEF before, mine, newest
    <3>3. \A k \in mine : runs[k].created \in Nat
      BY <1>2, <1>3
    <3>4. Strict(mine, before)
      BY <3>1, <3>3 DEF Strict
    <3>5. IsFiniteSet(mine)
      <4>1. IsFiniteSet(1..Len(runs))
        BY <1>2, FS_Interval
      <4> QED
        BY <1>3, <4>1, FS_Subset
    <3>6. PICK k \in mine : \A j \in mine : <<k, j>> \notin before
      BY <1>8, <3>4, <3>5, LastIs
    <3>7. \A j \in mine : runs[j].created <= runs[k].created
      <4>1. \A j \in mine : ~ (runs[k].created < runs[j].created)
        BY <3>1, <3>6
      <4> QED
        BY <3>3, <4>1
    <3> QED
      BY <3>2, <3>7
  <2>2. Max(newest) \in newest
    <3> HIDE DEF newest, mine
    <3>1. newest \subseteq 1..Len(runs) /\ newest \subseteq Nat
      BY <1>2, <1>3, <1>6
    <3>2. IsFiniteSet(1..Len(runs))
      BY <1>2, FS_Interval
    <3>3. IsFiniteSet(newest)
      BY <3>1, <3>2, FS_Subset
    <3> QED
      BY <2>1, <3>1, <3>3, MaxIs
  <2> HIDE DEF newest, mine, theirs
  <2>3. runs[Max(newest)] \in SqlRunByInput(rows, hash)
    BY <1>1, <1>5, <1>6, <2>2
  <2> QED
    BY <1>4, <1>8, <2>3
<1> QED
  BY <1>7, <1>8

\* The lists of replayable runs; those of all runs and of an action where
\* there are no simulations of the first kind.
LEMMA RunsListed ==
    ASSUME NEW runs, NEW sims, NEW rows, NEW seen, RunsR(runs, sims, rows, seen),
           seen \cap {"invalid", "taken"} = {}, InCreationOrder(runs)
    PROVE  /\ \A limit : MemReplayable(runs, limit) = SqlReplayable(rows, limit).list
           /\ sims = <<>> => /\ \A limit : MemLatestRuns(runs, limit) = SqlLatestRuns(rows, limit).list
                             /\ \A action : MemForAction(runs, action) = SqlForAction(rows, action).list
<1>1. /\ runs \in Seq(Runs) /\ {r \in rows : r.model # "legacy"} = Range(runs)
      /\ {r \in rows : r.model = "legacy"} = {LegacyRow(sims[k]) : k \in DOMAIN sims}
      /\ \A r \in rows : r.input # NoInput => r.model # "legacy"
  BY RunRows DEF RunsR
<1>2. \A r \in Runs : r.created \in Nat
  BY RunRows
<1>3. ASSUME NEW limit PROVE MemReplayable(runs, limit) = SqlReplayable(rows, limit).list
  <2> DEFINE ks == {k \in DOMAIN runs : runs[k].input # NoInput}
  <2>1. {r \in rows : r.input # NoInput} = {runs[k] : k \in ks}
    <3>1. \A r \in {x \in rows : x.input # NoInput} : \E k \in ks : r = runs[k]
      BY <1>1 DEF Range
    <3>2. \A k \in ks : runs[k] \in {x \in rows : x.input # NoInput}
      BY <1>1 DEF Range
    <3> HIDE DEF ks
    <3> QED
      BY <3>1, <3>2
  <2>2. ks \in SUBSET (DOMAIN runs)
    OBVIOUS
  <2>3. LastFirst(runs, ks) = ByCreated({runs[k] : k \in ks})
    <3> HIDE DEF ks
    <3> QED
      BY <1>1, <1>2, <2>2, NewestAreListed
  <2> QED
    BY <2>1, <2>3 DEF MemReplayable, SqlReplayable, RowsToRuns
<1>4. ASSUME sims = <<>>
      PROVE  /\ \A limit : MemLatestRuns(runs, limit) = SqlLatestRuns(rows, limit).list
             /\ \A action : MemForAction(runs, action) = SqlForAction(rows, action).list
  <2>1. rows = Range(runs)
    <3>1. {r \in rows : r.model = "legacy"} = {}
      BY <1>1, <1>4
    <3>2. \A r \in rows : r.model # "legacy"
      BY <3>1
    <3> QED
      BY <1>1, <3>2
  <2>2. Reverse(runs) = ByCreated(Range(runs))
    BY <1>1, <1>2, ReversedAreListed
  <2>3. ASSUME NEW action PROVE MemForAction(runs, action) = SqlForAction(rows, action).list
    <3> DEFINE ks == {k \in DOMAIN runs : runs[k].action = action}
    <3>1. {r \in rows : r.action = action} = {runs[k] : k \in ks}
      BY <2>1 DEF Range
    <3>2. ks \in SUBSET (DOMAIN runs)
      OBVIOUS
    <3>3. LastFirst(runs, ks) = ByCreated({runs[k] : k \in ks})
      <4> HIDE DEF ks
      <4> QED
        BY <1>1, <1>2, <3>2, NewestAreListed
    <3> QED
      BY <3>1, <3>3 DEF MemForAction, SqlForAction, RowsToRuns
  <2> QED
    BY <2>1, <2>2, <2>3 DEF MemLatestRuns, SqlLatestRuns, RowsToRuns
<1> QED
  BY <1>3, <1>4

\* RunsAgree, of the tables.
LEMMA RunsShown ==
    ASSUME NEW runs, NEW sims, NEW rows, NEW seen, RunsR(runs, sims, rows, seen),
           seen \cap {"invalid", "taken"} = {}
    PROVE  /\ Range(runs) = {r \in rows : r.model # "legacy"}
           /\ SqlLatestRuns(rows, Cardinality(rows)).ok
           /\ \A r \in Runs : /\ MemReplayableById(runs, r.id) = SqlReplayableById(rows, r.id)
                              /\ SqlRunById(rows, r.id) =
                                    MemRunById(runs, r.id)
                                       \cup {LegacyRow(s) : s \in {x \in Range(sims) : x.id = r.id}}
<1>1. Range(runs) = {r \in rows : r.model # "legacy"}
  BY DEF RunsR
<1>2. IsFiniteSet(rows) /\ \A r \in rows : r.created \in Nat /\ ValidateRun(r)
  BY RowsAre
<1>3. SqlLatestRuns(rows, Cardinality(rows)).ok
  <2>1. Cardinality(rows) \in Nat
    BY <1>2, FS_CardinalityType
  <2>2. Range(First(ByCreated(rows), Cardinality(rows))) \subseteq rows
    BY <1>2, <2>1, ByCreatedIs
  <2> QED
    BY <1>2, <2>2 DEF SqlLatestRuns, RowsToRuns
<1>4. \A r \in rows : r.input # NoInput => r.model # "legacy"
  BY RunRows DEF RunsR
<1>5. \A x \in Runs : MemReplayableById(runs, x.id) = SqlReplayableById(rows, x.id)
  BY <1>1, <1>4 DEF MemReplayableById, SqlReplayableById
<1>6. ASSUME NEW id
      PROVE  SqlRunById(rows, id) =
                MemRunById(runs, id) \cup {LegacyRow(s) : s \in {x \in Range(sims) : x.id = id}}
  <2> DEFINE Old == {r \in rows : r.model = "legacy"}
             Theirs == {LegacyRow(s) : s \in {x \in Range(sims) : x.id = id}}
  <2>1. Old = {LegacyRow(s) : s \in Range(sims)} /\ \A s \in Range(sims) : LegacyRow(s).id = s.id
    <3>1. sims \in Seq(Sims) /\ Old = {LegacyRow(sims[k]) : k \in DOMAIN sims}
      BY DEF RunsR
    <3> HIDE DEF Old
    <3>2. {LegacyRow(sims[k]) : k \in DOMAIN sims} = {LegacyRow(s) : s \in Range(sims)}
      BY DEF Range
    <3>3. \A s \in Range(sims) : s \in Sims
      BY <3>1 DEF Range
    <3> QED
      BY <3>1, <3>2, <3>3, RunRows
  <2>2. Theirs = {r \in Old : r.id = id}
    <3>1. \A r \in Theirs : r \in Old /\ r.id = id
      BY <2>1
    <3>2. ASSUME NEW r \in Old, r.id = id PROVE r \in Theirs
      <4>1. PICK s \in Range(sims) : r = LegacyRow(s)
        BY <2>1
      <4> QED
        BY <2>1, <3>2, <4>1
    <3> HIDE DEF Old, Theirs
    <3> QED
      BY <3>1, <3>2
  <2>3. rows = Range(runs) \cup Old
    BY <1>1
  <2> HIDE DEF Old, Theirs
  <2> QED
    BY <2>2, <2>3 DEF SqlRunById, MemRunById, Theirs
<1> QED
  BY <1>1, <1>3, <1>5, <1>6

\* The first part of SimulationsApart, of the tables.
LEMMA SimulationsListed ==
    ASSUME NEW runs, NEW sims, NEW rows, NEW seen, RunsR(runs, sims, rows, seen), "taken" \notin seen,
           InCreationOrder(sims)
    PROVE  /\ \A limit : MemLatestRuns(sims, limit) = SqlLatestSimulations(rows, limit)
           /\ \A action : MemForAction(sims, action) = SqlSimulationsForAction(rows, action)
<1> DEFINE Old == {x \in rows : x.model = "legacy"}
<1>1. sims \in Seq(Sims) /\ Old = {LegacyRow(sims[k]) : k \in DOMAIN sims}
  BY DEF RunsR
<1>2. \A s \in Sims : s.created \in Nat /\ RowToSimulation(LegacyRow(s)) = s /\ LegacyRow(s).action = s.action
  BY RunRows
<1>3. \A k \in DOMAIN sims : RowToSimulation(LegacyRow(sims[k])) = sims[k]
  BY <1>1, <1>2
<1>4. {RowToSimulation(r) : r \in Old} = Range(sims)
  <2> HIDE DEF Old
  <2> QED
    BY <1>1, <1>3 DEF Range
<1>5. Reverse(sims) = ByCreated(Range(sims))
  BY <1>1, <1>2, ReversedAreListed
<1>6. \A limit : MemLatestRuns(sims, limit) = SqlLatestSimulations(rows, limit)
  BY <1>4, <1>5 DEF MemLatestRuns, SqlLatestSimulations
<1>7. ASSUME NEW action PROVE MemForAction(sims, action) = SqlSimulationsForAction(rows, action)
  <2> DEFINE ks == {k \in DOMAIN sims : sims[k].action = action}
             Theirs == {x \in rows : x.model = "legacy" /\ x.action = action}
  <2>1. \A x \in Theirs : \E k \in ks : x = LegacyRow(sims[k])
    <3>1. SUFFICES ASSUME NEW x \in Old, x.action = action PROVE \E k \in ks : x = LegacyRow(sims[k])
      OBVIOUS
    <3>2. PICK k \in DOMAIN sims : x = LegacyRow(sims[k])
      BY <1>1
    <3>3. sims[k] \in Sims /\ sims[k].action = action
      BY <1>1, <1>2, <3>1, <3>2
    <3> QED
      BY <3>2, <3>3
  <2>2. \A k \in ks : LegacyRow(sims[k]) \in Theirs
    <3>1. SUFFICES ASSUME NEW k \in DOMAIN sims, sims[k].action = action PROVE LegacyRow(sims[k]) \in Theirs
      OBVIOUS
    <3>2. LegacyRow(sims[k]) \in Old /\ LegacyRow(sims[k]).action = action
      BY <1>1, <1>2, <3>1
    <3> QED
      BY <3>2
  <2>3. ks \in SUBSET (DOMAIN sims)
    OBVIOUS
  <2>4. {RowToSimulation(r) : r \in Theirs} = {sims[k] : k \in ks}
    <3> HIDE DEF Theirs, ks
    <3> QED
      BY <1>3, <2>1, <2>2, <2>3
  <2>5. LastFirst(sims, ks) = ByCreated({sims[k] : k \in ks})
    <3> HIDE DEF ks
    <3> QED
      BY <1>1, <1>2, <2>3, NewestAreListed
  <2> QED
    BY <2>4, <2>5 DEF MemForAction, SqlSimulationsForAction
<1> QED
  BY <1>6, <1>7

\* The two parts of a finite set.
LEMMA PartsCount ==
    ASSUME NEW S, IsFiniteSet(S), NEW A, NEW B, S = A \cup B, A \cap B = {}
    PROVE  /\ IsFiniteSet(A) /\ IsFiniteSet(B) /\ Cardinality(A) \in Nat /\ Cardinality(B) \in Nat
           /\ Cardinality(S) = Cardinality(A) + Cardinality(B)
<1>1. A \in SUBSET S /\ B \in SUBSET S
  OBVIOUS
<1>2. IsFiniteSet(A) /\ IsFiniteSet(B)
  BY <1>1, FS_Subset
<1>3. Cardinality(A) \in Nat /\ Cardinality(B) \in Nat
  BY <1>2, FS_CardinalityType
<1>4. Cardinality(A \cup B) = Cardinality(A) + Cardinality(B) - Cardinality(A \cap B)
  BY <1>2, FS_Union
<1>5. Cardinality(A \cap B) = 0
  BY FS_EmptySet
<1>6. Cardinality(S) = Cardinality(A) + Cardinality(B) - 0
  BY <1>4, <1>5
<1> QED
  BY <1>2, <1>3, <1>6

\* The second part: what the status page counts.
LEMMA SimulationsCounted ==
    ASSUME NEW runs, NEW sims, NEW rows, NEW seen, RunsR(runs, sims, rows, seen)
    PROVE  LET counts == SqlStatusCounts(rows)
           IN  /\ counts.completed + counts.failed + counts.stale + counts.other = SqlCountSimulations(rows)
               /\ seen \cap {"invalid", "taken"} = {} =>
                     SqlCountSimulations(rows) = MemCountSimulations(runs, sims)
<1> DEFINE counts == SqlStatusCounts(rows)
           failed == {"failed", "invalid_input", "unsupported"}
           A == {r \in rows : r.status \in {"completed"}}
           B == {r \in rows : r.status \in failed}
           C == {r \in rows : r.status \in {"stale"}}
           D == {r \in rows : r.status \notin failed \cup {"completed", "stale"}}
<1>1. IsFiniteSet(rows)
  BY DEF RunsR
<1>2. /\ counts.completed = Cardinality(A) /\ counts.failed = Cardinality(B)
      /\ counts.stale = Cardinality(C) /\ counts.other = Cardinality(D)
  BY DEF SqlStatusCounts
<1>3. rows = A \cup (B \cup (C \cup D)) /\ A \cap (B \cup (C \cup D)) = {}
      /\ B \cap (C \cup D) = {} /\ C \cap D = {}
  OBVIOUS
<1> HIDE DEF A, B, C, D, counts
<1>4. Cardinality(rows) = Cardinality(A) + Cardinality(B \cup (C \cup D)) /\ IsFiniteSet(B \cup (C \cup D))
      /\ Cardinality(A) \in Nat
  BY <1>1, <1>3, PartsCount
<1>5. Cardinality(B \cup (C \cup D)) = Cardinality(B) + Cardinality(C \cup D) /\ IsFiniteSet(C \cup D)
      /\ Cardinality(B) \in Nat
  BY <1>3, <1>4, PartsCount
<1>6. Cardinality(C \cup D) = Cardinality(C) + Cardinality(D) /\ Cardinality(C) \in Nat /\ Cardinality(D) \in Nat
  BY <1>3, <1>5, PartsCount
<1>7. counts.completed + counts.failed + counts.stale + counts.other = SqlCountSimulations(rows)
  BY <1>2, <1>4, <1>5, <1>6 DEF SqlCountSimulations
<1>8. ASSUME seen \cap {"invalid", "taken"} = {} PROVE SqlCountSimulations(rows) = MemCountSimulations(runs, sims)
  <2> DEFINE New == {r \in rows : r.model # "legacy"}
             Old == {r \in rows : r.model = "legacy"}
  <2>1. rows = New \cup Old /\ New \cap Old = {}
    OBVIOUS
  <2>2. /\ New = {runs[k] : k \in DOMAIN runs} /\ Old = {LegacyRow(sims[k]) : k \in DOMAIN sims}
        /\ runs \in Seq(Runs) /\ Distinct(runs) /\ sims \in Seq(Sims) /\ Distinct(sims)
    BY <1>8 DEF RunsR, Range
  <2>3. DOMAIN runs = 1..Len(runs) /\ Len(runs) \in Nat /\ DOMAIN sims = 1..Len(sims) /\ Len(sims) \in Nat
    BY <2>2
  <2> HIDE DEF New, Old
  <2>4. Cardinality(New) = Len(runs)
    <3>1. runs \in [1..Len(runs) -> Runs] /\ IsInjective(runs)
      BY <2>2, <2>3 DEF Distinct, IsInjective
    <3>2. New = {runs[k] : k \in 1..Len(runs)}
      BY <2>2, <2>3
    <3> QED
      BY <2>3, <3>1, <3>2, CountIs
  <2>5. Cardinality(Old) = Len(sims)
    <3> DEFINE n == Len(sims)
               legacy == [k \in 1..n |-> LegacyRow(sims[k])]
    <3>1. \A k \in 1..n : sims[k] \in Sims
      BY <2>2, <2>3
    <3>2. \A j, k \in 1..n : legacy[j] = legacy[k] => j = k
      <4>1. SUFFICES ASSUME NEW j \in 1..n, NEW k \in 1..n, LegacyRow(sims[j]) = LegacyRow(sims[k]) PROVE j = k
        OBVIOUS
      <4>2. sims[j].id = sims[k].id
        BY <3>1, <4>1, RunRows
      <4> QED
        BY <2>2, <2>3, <4>2 DEF Distinct
    <3>3. Old = {legacy[k] : k \in 1..n}
      BY <2>2, <2>3
    <3>4. legacy \in [1..n -> {LegacyRow(s) : s \in Sims}]
      BY <3>1
    <3> HIDE DEF legacy, n
    <3>5. n \in Nat
      BY <2>3 DEF n
    <3>7. IsInjective(legacy)
      BY <3>2, <3>4 DEF IsInjective
    <3>6. Cardinality({legacy[k] : k \in 1..n}) = n
      BY <3>4, <3>5, <3>7, CountIs
    <3> QED
      BY <3>3, <3>6 DEF n
  <2>6. Cardinality(rows) = Cardinality(New) + Cardinality(Old)
    BY <1>1, <2>1, PartsCount
  <2> QED
    BY <2>4, <2>5, <2>6 DEF SqlCountSimulations, MemCountSimulations
<1> QED
  BY <1>7, <1>8 DEF counts

-----------------------------------------------------------------------------
(* Events of runs.                                                         *)

\* No event in both.
LEMMA EventsStart ==
    ASSUME NEW seen
    PROVE  EventsR(<<>>, {}, {}, seen)
BY DEF EventsR, Distinct, Range

\* More runs and more differences noted leave less to keep.
LEMMA EventsWeaken ==
    ASSUME NEW list, NEW events, NEW rows, NEW wider, rows \subseteq wider,
           NEW seen, NEW more, seen \subseteq more, EventsR(list, events, rows, seen)
    PROVE  EventsR(list, events, wider, more)
BY DEF EventsR

\* An event is appended in both or refused by both, unless its run is missing
\* or no simulation has its status.
LEMMA EventAppended ==
    ASSUME NEW list, NEW events, NEW rows, NEW seen, EventsR(list, events, rows, seen),
           seen \cap {"invalid", "orphan"} = {}, NEW e \in Events
    PROVE  LET m == MemAppendEvent(list, e)
               q == SqlAppendEvent(events, rows, e)
               orphan == \A r \in rows : r.id # e.run
           IN  EventsR(m.table, q.table, rows,
                       seen \cup (IF orphan THEN {"orphan"} ELSE {})
                            \cup (IF ~ValidateStatus(e.status) THEN {"invalid"} ELSE {}))
<1> DEFINE m == MemAppendEvent(list, e)
           q == SqlAppendEvent(events, rows, e)
           orphan == \A r \in rows : r.id # e.run
           refused == orphan \/ ~ValidateStatus(e.status)
           later == seen \cup (IF orphan THEN {"orphan"} ELSE {})
                         \cup (IF ~ValidateStatus(e.status) THEN {"invalid"} ELSE {})
<1>1. /\ list \in Seq(Events) /\ Distinct(list) /\ events \subseteq {x \in Events : ValidateStatus(x.status)}
      /\ \A x \in events : \E r \in rows : r.id = x.run
      /\ Range(list) = events
  BY DEF EventsR
<1>2. refused => later \cap {"invalid", "orphan"} # {}
  OBVIOUS
<1>3. CASE \E x \in events : x.id = e.id
  <2>1. m.table = list
    BY <1>1, <1>3 DEF MemAppendEvent, Ok, Error
  <2>2. q.table = events
    BY <1>3 DEF SqlAppendEvent, Ok, Error
  <2>3. EventsR(list, events, rows, later)
    BY EventsWeaken
  <2> HIDE DEF m, q
  <2> QED
    BY <2>1, <2>2, <2>3 DEF m, q
<1>4. CASE \A x \in events : x.id # e.id
  <2>1. m.table = Append(list, e)
    BY <1>1, <1>4 DEF MemAppendEvent, Ok, Error
  <2>2. /\ Append(list, e) \in Seq(Events) /\ Distinct(Append(list, e))
        /\ Range(Append(list, e)) = Range(list) \cup {e}
    BY <1>1, <1>4, DistinctAppend
  <2>3. CASE refused
    <3>1. q.table = events
      BY <2>3 DEF SqlAppendEvent, Ok, Error
    <3>2. later \cap {"invalid", "orphan"} # {}
      BY <1>2, <2>3
    <3> HIDE DEF later
    <3>3. EventsR(Append(list, e), events, rows, later)
      BY <1>1, <2>2, <3>2 DEF EventsR
    <3> HIDE DEF m, q
    <3> QED
      BY <2>1, <3>1, <3>3 DEF m, q, later
  <2>4. CASE ~refused
    <3>1. q.table = events \cup {e}
      BY <1>4, <2>4 DEF SqlAppendEvent, Ok, Error
    <3>2. EventsR(Append(list, e), events \cup {e}, rows, later)
      BY <1>1, <2>2, <2>4 DEF EventsR
    <3> HIDE DEF m, q
    <3> QED
      BY <2>1, <3>1, <3>2 DEF m, q
  <2> QED
    BY <2>3, <2>4
<1> QED
  BY <1>3, <1>4

\* The order of EventsAgree, of the tables.
LEMMA EventsListed ==
    ASSUME NEW list, NEW events, NEW rows, NEW seen, EventsR(list, events, rows, seen),
           seen \cap {"invalid", "orphan"} = {},
           \A j, k \in DOMAIN list : j < k => list[j].ts < list[k].ts, NEW run
    PROVE  MemEvents(list, run) = SqlEvents(events, run)
<1> DEFINE ks == {k \in DOMAIN list : list[k].run = run}
           S == {x \in events : x.run = run}
           before == {p \in S \X S : p[1].ts < p[2].ts}
           n == Len(list)
<1>1. list \in Seq(Events) /\ Range(list) = events
  BY DEF EventsR
<1>2. n \in Nat /\ DOMAIN list = 1..n /\ ks \in SUBSET (1..n)
  BY <1>1
<1>3. \A k \in ks : list[k].ts \in Nat /\ k \in DOMAIN list /\ k \in Nat
  <2>1. \A k \in DOMAIN list : list[k] \in Events /\ k \in Nat
    BY <1>1
  <2> QED
    BY <2>1, BackendsAssumption
<1>4. S = {list[k] : k \in ks}
  BY <1>1 DEF Range
<1>5. \A x, y \in S : <<x, y>> \in before <=> x.ts < y.ts
  OBVIOUS
<1> HIDE DEF ks, S, before, n
<1>6. \A j, k \in ks : j < k => <<list[j], list[k]>> \in before
  BY <1>3, <1>4, <1>5
<1>7. Linear(S, before)
  <2>1. Strict(S, before)
    <3>1. \A x \in S : x.ts \in Nat
      BY <1>3, <1>4
    <3> QED
      BY <1>5, <3>1 DEF Strict
  <2>2. \A x, y \in S : x = y \/ <<x, y>> \in before \/ <<y, x>> \in before
    <3>1. SUFFICES ASSUME NEW j \in ks, NEW k \in ks
                   PROVE  list[j] = list[k] \/ <<list[j], list[k]>> \in before \/ <<list[k], list[j]>> \in before
      BY <1>4
    <3>2. j = k \/ j < k \/ k < j
      BY <1>3
    <3> QED
      BY <1>6, <3>2
  <2> QED
    BY <2>1, <2>2 DEF Linear
<1>8. Rises(list, ks, S, before)
  BY <1>4, <1>6 DEF Rises
<1>9. Kept(list, ks) = Listed(S, before)
  <2>1. /\ Kept(list, ks) = Listed(S, before) /\ IsFiniteSet(S)
        /\ Cardinality(S) = Cardinality(ks)
    BY <1>2, <1>7, <1>8, KeptIsListed
  <2> QED
    BY <2>1
<1> QED
  BY <1>9 DEF MemEvents, SqlEvents, ks, S, before

-----------------------------------------------------------------------------
(* The queue and the ledger.                                               *)

\* An empty queue and an empty ledger in both.
LEMMA QueueStart ==
    ASSUME NEW seen
    PROVE  QueueR(<<>>, <<>>, <<>>, {}, seen)
BY FS_EmptySet DEF QueueR, IsQueue, SameLedger

\* More differences noted leave less to keep.
LEMMA QueueWeaken ==
    ASSUME NEW mqueue, NEW mseen, NEW queue, NEW ledger, NEW seen, NEW more, seen \subseteq more,
           QueueR(mqueue, mseen, queue, ledger, seen)
    PROVE  QueueR(mqueue, mseen, queue, ledger, more)
BY DEF QueueR

\* A delivery in the queue.
LEMMA EnqueuedIs ==
    ASSUME NEW queue, IsQueue(queue), NEW d \in Deliveries, NEW at \in Times
    PROVE  IsQueue(Enqueued(queue, d, at)) /\ DOMAIN Enqueued(queue, d, at) = DOMAIN queue \cup {d}
<1>1. CASE d \in DOMAIN queue
  BY <1>1 DEF Enqueued
<1>2. CASE d \notin DOMAIN queue
  <2> DEFINE D == DOMAIN queue \cup {d}
             new == [accepted |-> at, processed |-> 0]
             more == [x \in D |-> IF x = d THEN new ELSE queue[x]]
  <2>1. Enqueued(queue, d, at) = more
    BY <1>2 DEF Enqueued
  <2>2. DOMAIN queue \subseteq Deliveries /\ IsFiniteSet(DOMAIN queue)
        /\ \A x \in DOMAIN queue : queue[x] \in [accepted : Times, processed : Times \cup {0}]
    BY DEF IsQueue
  <2>3. IsFiniteSet(D) /\ D \subseteq Deliveries
    BY <2>2, FS_AddElement
  <2>4. new \in [accepted : Times, processed : Times \cup {0}]
    OBVIOUS
  <2>5. DOMAIN more = D /\ \A x \in D : more[x] = IF x = d THEN new ELSE queue[x]
    OBVIOUS
  <2>6. more = [x \in DOMAIN more |-> more[x]]
    OBVIOUS
  <2>7. \A x \in D : more[x] \in [accepted : Times, processed : Times \cup {0}]
    <3> HIDE DEF new, more
    <3> QED
      BY <2>2, <2>4, <2>5
  <2> HIDE DEF more
  <2> QED
    BY <2>1, <2>3, <2>5, <2>6, <2>7 DEF IsQueue
<1> QED
  BY <1>1, <1>2

\* A delivery in the ledgers.
LEMMA LedgerIs ==
    ASSUME NEW mseen, NEW ledger, SameLedger(mseen, ledger), NEW d, NEW at
    PROVE  /\ DOMAIN MemRecordDelivery(mseen, d, at) = DOMAIN mseen \cup {d}
           /\ SameLedger(MemRecordDelivery(mseen, d, at), SqlRecordDelivery(ledger, d, at))
           /\ DOMAIN MemDelivered(mseen, d, at) = DOMAIN mseen \cup {d}
           /\ SameLedger(MemDelivered(mseen, d, at), SqlDelivered(ledger, d, at))
<1> DEFINE more == SqlRecordDelivery(ledger, d, at)
           Ids(S) == {r.id : r \in S}
<1>1. DOMAIN MemRecordDelivery(mseen, d, at) = DOMAIN mseen \cup {d}
  BY DEF MemRecordDelivery
<1>2. Ids(more) = Ids(ledger) \cup {d}
  <2>1. \A r \in more : r.id = d \/ r \in ledger
    BY DEF SqlRecordDelivery
  <2>2. \A r \in ledger : r.id = d \/ r \in more
    BY DEF SqlRecordDelivery
  <2>3. \E r \in more : r.id = d
    <3>1. [id |-> d, at |-> at] \in more
      BY DEF SqlRecordDelivery
    <3> QED
      BY <3>1
  <2> HIDE DEF more
  <2> QED
    BY <2>1, <2>2, <2>3
<1>3. MemIsProcessed(mseen, d) <=> SqlIsProcessed(ledger, d)
  BY DEF MemIsProcessed, SqlIsProcessed, SameLedger
<1> HIDE DEF more
<1>4. CASE MemIsProcessed(mseen, d)
  <2>1. MemDelivered(mseen, d, at) = mseen /\ SqlDelivered(ledger, d, at) = ledger /\ d \in DOMAIN mseen
    BY <1>3, <1>4 DEF MemDelivered, SqlDelivered, MemIsProcessed
  <2> QED
    BY <1>1, <1>2, <2>1 DEF more, SameLedger
<1>5. CASE ~ MemIsProcessed(mseen, d)
  <2>1. MemDelivered(mseen, d, at) = MemRecordDelivery(mseen, d, at) /\ SqlDelivered(ledger, d, at) = more
    BY <1>3, <1>5 DEF MemDelivered, SqlDelivered, more
  <2> QED
    BY <1>1, <1>2, <2>1 DEF more, SameLedger
<1> QED
  BY <1>4, <1>5

\* A delivery with its event, outside of a transaction and inside.
LEMMA QueueEnqueued ==
    ASSUME NEW mqueue, NEW mseen, NEW queue, NEW ledger, NEW seen, QueueR(mqueue, mseen, queue, ledger, seen),
           NEW d \in Deliveries, NEW at \in Times
    PROVE  /\ QueueR(Enqueued(mqueue, d, at), MemDelivered(mseen, d, at),
                     Enqueued(queue, d, at), SqlDelivered(ledger, d, at), seen)
           /\ QueueR(Enqueued(mqueue, d, at), MemDelivered(mseen, d, at), queue, ledger, seen \cup {"nested"})
<1>1. IsQueue(mqueue) /\ IsQueue(queue)
  BY DEF QueueR
<1>2. /\ IsQueue(Enqueued(mqueue, d, at)) /\ IsQueue(Enqueued(queue, d, at))
      /\ DOMAIN Enqueued(queue, d, at) = DOMAIN queue \cup {d}
  BY <1>1, EnqueuedIs
<1>3. ASSUME seen \cap {"remarked", "nested"} = {}
      PROVE  /\ Enqueued(mqueue, d, at) = Enqueued(queue, d, at)
             /\ SameLedger(MemDelivered(mseen, d, at), SqlDelivered(ledger, d, at))
             /\ DOMAIN Enqueued(queue, d, at) \subseteq DOMAIN MemDelivered(mseen, d, at)
  <2>1. mqueue = queue /\ SameLedger(mseen, ledger) /\ DOMAIN queue \subseteq DOMAIN mseen
    BY <1>3 DEF QueueR
  <2>2. /\ DOMAIN MemDelivered(mseen, d, at) = DOMAIN mseen \cup {d}
        /\ SameLedger(MemDelivered(mseen, d, at), SqlDelivered(ledger, d, at))
    BY <2>1, LedgerIs
  <2> QED
    BY <1>2, <2>1, <2>2
<1>4. QueueR(Enqueued(mqueue, d, at), MemDelivered(mseen, d, at),
             Enqueued(queue, d, at), SqlDelivered(ledger, d, at), seen)
  BY <1>2, <1>3 DEF QueueR
<1>5. QueueR(Enqueued(mqueue, d, at), MemDelivered(mseen, d, at), queue, ledger, seen \cup {"nested"})
  BY <1>1, <1>2 DEF QueueR
<1> QED
  BY <1>4, <1>5

\* record_webhook_delivery writes the ledger of both and leaves the queue.
LEMMA QueueRecorded ==
    ASSUME NEW mqueue, NEW mseen, NEW queue, NEW ledger, NEW seen, QueueR(mqueue, mseen, queue, ledger, seen),
           NEW d \in Deliveries, NEW at \in Times
    PROVE  QueueR(mqueue, MemRecordDelivery(mseen, d, at), queue, SqlRecordDelivery(ledger, d, at), seen)
<1>1. IsQueue(mqueue) /\ IsQueue(queue)
  BY DEF QueueR
<1>2. ASSUME seen \cap {"remarked", "nested"} = {}
      PROVE  /\ mqueue = queue
             /\ SameLedger(MemRecordDelivery(mseen, d, at), SqlRecordDelivery(ledger, d, at))
             /\ DOMAIN queue \subseteq DOMAIN MemRecordDelivery(mseen, d, at)
  <2>1. mqueue = queue /\ SameLedger(mseen, ledger) /\ DOMAIN queue \subseteq DOMAIN mseen
    BY <1>2 DEF QueueR
  <2>2. /\ DOMAIN MemRecordDelivery(mseen, d, at) = DOMAIN mseen \cup {d}
        /\ SameLedger(MemRecordDelivery(mseen, d, at), SqlRecordDelivery(ledger, d, at))
    BY <2>1, LedgerIs
  <2> QED
    BY <2>1, <2>2
<1> QED
  BY <1>1, <1>2 DEF QueueR

\* A mark of one entry.
LEMMA MarkedIs ==
    ASSUME NEW queue, IsQueue(queue), NEW d \in DOMAIN queue, NEW at \in Times
    PROVE  LET marked == [queue EXCEPT ![d].processed = at]
           IN  IsQueue(marked) /\ DOMAIN marked = DOMAIN queue
<1> DEFINE marked == [queue EXCEPT ![d].processed = at]
           Row == [accepted : Times, processed : Times \cup {0}]
<1>1. /\ queue = [x \in DOMAIN queue |-> queue[x]] /\ \A x \in DOMAIN queue : queue[x] \in Row
      /\ DOMAIN queue \subseteq Deliveries /\ IsFiniteSet(DOMAIN queue)
  BY DEF IsQueue
<1>2. queue \in [DOMAIN queue -> Row]
  BY <1>1
<1>3. marked \in [DOMAIN queue -> Row]
  BY <1>2
<1> HIDE DEF marked
<1>4. IsQueue(marked) /\ DOMAIN marked = DOMAIN queue
  BY <1>1, <1>3 DEF IsQueue
<1> QED
  BY <1>4 DEF marked

\* A mark is made in both or refused by both, unless it was made before.
LEMMA QueueMarked ==
    ASSUME NEW mqueue, NEW mseen, NEW queue, NEW ledger, NEW seen, QueueR(mqueue, mseen, queue, ledger, seen),
           seen \cap {"remarked", "nested"} = {}, NEW d \in Deliveries, NEW at \in Times
    PROVE  LET m == MemMark(mqueue, d, at)
               q == SqlMark(queue, d, at)
               again == d \in Processed(queue)
           IN  /\ QueueR(m.table, mseen, q.table, ledger, IF again THEN seen \cup {"remarked"} ELSE seen)
               /\ m.ok \in BOOLEAN /\ q.ok \in BOOLEAN
               /\ m.ok # q.ok => m.ok /\ again
<1> DEFINE m == MemMark(mqueue, d, at)
           q == SqlMark(queue, d, at)
           again == d \in Processed(queue)
           marked == [queue EXCEPT ![d].processed = at]
           later == IF again THEN seen \cup {"remarked"} ELSE seen
<1>1. /\ mqueue = queue /\ IsQueue(queue)
      /\ SameLedger(mseen, ledger) /\ DOMAIN queue \subseteq DOMAIN mseen
  BY DEF QueueR
<1>2. CASE d \notin DOMAIN queue
  <2>1. m.table = queue /\ m.ok = FALSE
    BY <1>1, <1>2 DEF MemMark, Ok, Error
  <2>2. q.table = queue /\ q.ok = FALSE
    BY <1>2 DEF SqlMark, Pending, Ok, Error
  <2>3. QueueR(queue, mseen, queue, ledger, later)
    BY <1>1 DEF QueueR
  <2> HIDE DEF m, q
  <2> QED
    BY <2>1, <2>2, <2>3 DEF m, q
<1>3. CASE d \in DOMAIN queue
  <2>1. m.table = marked /\ m.ok = TRUE
    BY <1>1, <1>3 DEF MemMark, Ok, Error
  <2>2. IsQueue(marked) /\ DOMAIN marked = DOMAIN queue
    BY <1>1, <1>3, MarkedIs
  <2> HIDE DEF marked
  <2>3. CASE again
    <3>1. q.table = queue /\ q.ok = FALSE
      BY <2>3 DEF SqlMark, Processed, Ok, Error
    <3>2. QueueR(marked, mseen, queue, ledger, later)
      BY <1>1, <2>2, <2>3 DEF QueueR
    <3> HIDE DEF m, q
    <3> QED
      BY <2>1, <2>3, <3>1, <3>2 DEF m, q
  <2>4. CASE ~again
    <3>1. q.table = marked /\ q.ok = TRUE
      BY <1>3, <2>4 DEF SqlMark, Processed, Ok, Error, marked
    <3>2. QueueR(marked, mseen, marked, ledger, later)
      BY <1>1, <2>2 DEF QueueR
    <3> HIDE DEF m, q
    <3> QED
      BY <2>1, <2>4, <3>1, <3>2 DEF m, q
  <2> QED
    BY <2>3, <2>4
<1> QED
  BY <1>2, <1>3

\* A limit is at least one.
LEMMA ClampIs ==
    ASSUME NEW limit \in Nat
    PROVE  Clamp(limit) \in Nat /\ Clamp(limit) >= 1
<1>1. Min({limit, 1000}) \in Int
  BY MinMaxOfTwo
<1>2. Max({1, Min({limit, 1000})}) = IF 1 >= Min({limit, 1000}) THEN 1 ELSE Min({limit, 1000})
  BY <1>1, MinMaxOfTwo
<1> QED
  BY <1>1, <1>2 DEF Clamp

\* The last ones of a list are the first ones of it turned round, turned round.
LEMMA LastOnes ==
    ASSUME NEW S, NEW list \in Seq(S), NEW c \in Nat
    PROVE  Reverse(First(Reverse(list), c))
             = IF Len(list) > c THEN SubSeq(list, Len(list) - c + 1, Len(list)) ELSE list
<1> DEFINE n == Len(list)
           back == Reverse(list)
           m == IF c <= n THEN c ELSE n
           f == First(back, c)
<1>0. n \in Nat
  OBVIOUS
<1>1. n \in Nat /\ m \in Nat /\ m <= n /\ DOMAIN list = 1..n /\ \A k \in 1..n : list[k] \in S
  OBVIOUS
<1>2. back = [k \in 1..n |-> list[(n - k) + 1]]
  BY DEF Reverse
<1>3. back \in Seq(S) /\ Len(back) = n
  BY <1>1, <1>2
<1> HIDE DEF back
<1>4. f \in Seq(S) /\ Len(f) = m /\ \A k \in 1..m : f[k] = back[k]
  BY <1>3, FirstIs
<1> HIDE DEF f
<1>5. Reverse(f) = [k \in 1..m |-> list[(n - m) + k]]
  <2>1. Reverse(f) = [k \in 1..m |-> f[(m - k) + 1]]
    BY <1>4 DEF Reverse
  <2>2. \A k \in 1..m : f[(m - k) + 1] = list[(n - m) + k]
    <3>1. SUFFICES ASSUME NEW k \in 1..m PROVE f[(m - k) + 1] = list[(n - m) + k]
      OBVIOUS
    <3>2. (m - k) + 1 \in 1..m /\ (m - k) + 1 \in 1..n /\ (n - ((m - k) + 1)) + 1 = (n - m) + k
      BY <1>1
    <3> HIDE DEF m
    <3> QED
      BY <1>2, <1>4, <3>2
  <2> QED
    BY <2>1, <2>2
<1>6. CASE n > c
  <2>1. m = c
    <3> HIDE DEF n
    <3> QED
      BY <1>0, <1>6
  <2>2. SubSeq(list, n - c + 1, n) = [k \in 1..c |-> list[(n - c) + k]]
    <3> DEFINE a == n - c + 1
               cut == SubSeq(list, a, n)
    <3>0. a \in Int /\ a >= 1 /\ a <= n + 1 /\ n - a + 1 = c
          /\ \A k \in 1..c : a + k - 1 = (n - c) + k
      <4> HIDE DEF n
      <4> QED
        BY <1>0, <1>6
    <3>1. \A k \in a..n : list[k] \in S
      <4>1. \A k \in a..n : k \in 1..n
        <5> HIDE DEF n, a
        <5> QED
          BY <1>0, <3>0
      <4> HIDE DEF n, a
      <4> QED
        BY <1>1, <4>1
    <3> HIDE DEF a
    <3>2. cut \in Seq(S) /\ Len(cut) = c /\ \A k \in 1..c : cut[k] = list[a + k - 1]
      <4> HIDE DEF n
      <4>1. /\ cut \in Seq(S) /\ Len(cut) = IF a <= n THEN n - a + 1 ELSE 0
            /\ \A k \in 1..n - a + 1 : cut[k] = list[a + k - 1]
        BY <1>0, <3>0, <3>1, SubSeqProperties
      <4> HIDE DEF cut
      <4>2. Len(cut) = c
        BY <1>0, <3>0, <4>1
      <4> QED
        BY <3>0, <4>1, <4>2
    <3> HIDE DEF cut
    <3>3. cut = [k \in 1..c |-> cut[k]]
      BY <3>2
    <3>4. \A k \in 1..c : cut[k] = list[(n - c) + k]
      BY <3>0, <3>2
    <3> QED
      BY <3>3, <3>4 DEF cut, a
  <2>3. Reverse(f) = [k \in 1..c |-> list[(n - c) + k]]
    BY <1>5, <2>1
  <2> HIDE DEF n
  <2> QED
    BY <1>6, <2>2, <2>3 DEF f, back, n
<1>7. CASE ~ (n > c)
  <2>1. m = n
    <3> HIDE DEF n
    <3> QED
      BY <1>0, <1>7
  <2>2. list = [k \in 1..n |-> list[(n - n) + k]]
    <3>1. list = [k \in 1..n |-> list[k]]
      BY <1>1
    <3>2. \A k \in 1..n : (n - n) + k = k
      BY <1>1
    <3> HIDE DEF n
    <3> QED
      BY <3>1, <3>2
  <2>3. Reverse(f) = [k \in 1..n |-> list[(n - n) + k]]
    BY <1>5, <2>1
  <2> HIDE DEF n
  <2> QED
    BY <1>7, <2>2, <2>3 DEF f, back, n
<1> QED
  BY <1>6, <1>7 DEF f, back

\* QueueAgrees, of the tables.
LEMMA QueueShown ==
    ASSUME NEW mqueue, NEW mseen, NEW queue, NEW ledger, NEW seen, QueueR(mqueue, mseen, queue, ledger, seen),
           seen \cap {"remarked", "nested"} = {}
    PROVE  /\ mqueue = queue
           /\ \A d \in Deliveries : MemIsProcessed(mseen, d) = SqlIsProcessed(ledger, d)
           /\ \A d \in DOMAIN queue : SqlIsProcessed(ledger, d)
           /\ \A limit \in 0..2 :
                 /\ MemPendingEvents(mqueue, limit) = SqlPendingEvents(queue, limit)
                 /\ MemProcessedEvents(mqueue, limit) = SqlProcessedEvents(queue, limit)
<1> DEFINE S == Processed(queue)
           before == {p \in S \X S : \/ queue[p[1]].accepted < queue[p[2]].accepted
                                     \/ queue[p[1]].accepted = queue[p[2]].accepted /\ p[1] < p[2]}
           all == Listed(S, before)
<1>1. /\ mqueue = queue /\ IsQueue(queue)
      /\ SameLedger(mseen, ledger) /\ DOMAIN queue \subseteq DOMAIN mseen
  BY DEF QueueR
<1>2. \A d : MemIsProcessed(mseen, d) <=> SqlIsProcessed(ledger, d)
  BY <1>1 DEF SameLedger, MemIsProcessed, SqlIsProcessed
<1>3. \A d \in Deliveries : MemIsProcessed(mseen, d) = SqlIsProcessed(ledger, d)
  <2>1. \A d : MemIsProcessed(mseen, d) \in BOOLEAN /\ SqlIsProcessed(ledger, d) \in BOOLEAN
    BY DEF MemIsProcessed, SqlIsProcessed
  <2> QED
    BY <1>2, <2>1
<1>4. \A d \in DOMAIN queue : SqlIsProcessed(ledger, d)
  BY <1>1, <1>2 DEF MemIsProcessed
<1>5. S \subseteq DOMAIN queue /\ IsFiniteSet(S)
  BY <1>1, FS_Subset DEF IsQueue, Processed
<1>6. \A d \in S : d \in Nat /\ queue[d].accepted \in Nat
  BY <1>1, <1>5, BackendsAssumption DEF IsQueue
<1>7. \A x, y \in S : <<x, y>> \in before <=> \/ queue[x].accepted < queue[y].accepted
                                              \/ queue[x].accepted = queue[y].accepted /\ x < y
  OBVIOUS
<1> HIDE DEF S, before
<1>8. Strict(S, before)
  BY <1>6, <1>7 DEF Strict
<1>9. all \in Seq(S)
  BY <1>5, <1>8, ListedIs
<1>10. InOrder(queue, Processed(queue)) = all
  BY DEF InOrder, S, before
<1> HIDE DEF all
<1>11. \A limit \in 0..2 : MemProcessedEvents(queue, limit) = SqlProcessedEvents(queue, limit)
  <2>1. SUFFICES ASSUME NEW limit \in 0..2
                 PROVE  MemProcessedEvents(queue, limit) = SqlProcessedEvents(queue, limit)
    OBVIOUS
  <2>2. Clamp(limit) \in Nat
    BY ClampIs
  <2>3. Reverse(First(Reverse(all), Clamp(limit)))
          = IF Len(all) > Clamp(limit) THEN SubSeq(all, Len(all) - Clamp(limit) + 1, Len(all)) ELSE all
    BY <1>9, <2>2, LastOnes
  <2> QED
    BY <1>10, <2>3 DEF MemProcessedEvents, SqlProcessedEvents
<1>12. \A limit \in 0..2 : MemPendingEvents(mqueue, limit) = SqlPendingEvents(queue, limit)
  BY <1>1 DEF MemPendingEvents, SqlPendingEvents
<1> QED
  BY <1>1, <1>3, <1>4, <1>11, <1>12

-----------------------------------------------------------------------------
(* The rows of state.                                                      *)

\* A component and a source are read back from their columns.
LEMMA ComponentCodes ==
    ASSUME NEW c \in Components
    PROVE  ParseComponent(ComponentStr[c]) = c
<1>1. Components = {"NotConfigured", "Configured", "Healthy", "Failing"}
  BY DEF Components, ComponentStr
<1>2. \A t \in Components : ComponentStr[t] = ComponentStr[c] => t = c
  BY <1>1 DEF ComponentStr
<1>3. ComponentStr[c] \in Range(ComponentStr)
  BY DEF Range, Components
<1> QED
  BY <1>2, <1>3 DEF ParseComponent

\* The kind and the connection column of a source are parsed back to it.
LEMMA SourceCodes ==
    ASSUME NEW s \in Sources
    PROVE  s.kind # "none" /\ ParseSource(s.kind, SourceConnected(s)) = s
<1>1. CASE s = [kind |-> "fixture", connected |-> TRUE]
  BY <1>1 DEF ParseSource, SourceConnected
<1>2. CASE s \in [kind : {"lnd_rest", "btcpay_greenfield"}, connected : BOOLEAN]
  <2>1. s = [kind |-> s.kind, connected |-> s.connected] /\ s.connected \in BOOLEAN
        /\ s.kind \in {"lnd_rest", "btcpay_greenfield"}
    BY <1>2
  <2>2. CASE s.connected = TRUE
    <3>1. SourceConnected(s) = 1
      BY <2>1, <2>2 DEF SourceConnected
    <3>2. ParseSource(s.kind, 1) = [kind |-> s.kind, connected |-> TRUE]
      BY <2>1 DEF ParseSource, Null
    <3> QED
      BY <2>1, <2>2, <3>1, <3>2
  <2>3. CASE s.connected = FALSE
    <3>1. SourceConnected(s) = 0
      BY <2>1, <2>3 DEF SourceConnected
    <3>2. ParseSource(s.kind, 0) = [kind |-> s.kind, connected |-> FALSE]
      <4>1. ParseSource(s.kind, 0) = [kind |-> s.kind, connected |-> 0 = 1]
        BY <2>1 DEF ParseSource, Null
      <4>2. (0 = 1) = FALSE
        OBVIOUS
      <4> QED
        BY <4>1, <4>2
    <3> QED
      BY <2>1, <2>3, <3>1, <3>2
  <2> QED
    BY <2>1, <2>2, <2>3
<1> QED
  BY <1>1, <1>2 DEF Sources

\* A missing row reads as the default that MemoryStorage starts with.
LEMMA StateStart == StateR(DefaultState, NoRow)
BY DEF StateR, DefaultState, SqlReadState, Sources, Components, ComponentStr

\* A write of one field leaves a row that is read back as the state.
LEMMA StateChanged ==
    ASSUME NEW state, NEW row, StateR(state, row), NEW field, NEW value,
           (field = "source" /\ value \in Sources) \/ (field = "alert_sink" /\ value \in Components)
    PROVE  StateR(Changed(state, field, value), SqlWriteState(row, Changed(SqlReadState(row), field, value)))
<1> DEFINE new == Changed(state, field, value)
           later == SqlWriteState(row, new)
<1>1. state \in [source : Sources, alert_sink : Components] /\ SqlReadState(row) = state
  BY DEF StateR
<1>2. new \in [source : Sources, alert_sink : Components]
  BY <1>1 DEF Changed
<1> HIDE DEF new
<1>3. new = [source |-> new.source, alert_sink |-> new.alert_sink]
      /\ new.source \in Sources /\ new.alert_sink \in Components
  BY <1>2
<1>4. /\ later.source = new.source.kind /\ later.alert_sink = ComponentStr[new.alert_sink]
      /\ later.connected = SourceConnected(new.source)
  BY DEF SqlWriteState
<1>5. later # NoRow
  BY <1>3, <1>4, SourceCodes DEF NoRow
<1> HIDE DEF later
<1>6. SqlReadState(later) = new
  <2>1. ParseSource(later.source, later.connected) = new.source
    BY <1>3, <1>4, SourceCodes
  <2>2. ParseComponent(later.alert_sink) = new.alert_sink
    BY <1>3, <1>4, ComponentCodes
  <2> QED
    BY <1>3, <1>5, <2>1, <2>2 DEF SqlReadState
<1>7. StateR(new, later)
  BY <1>2, <1>6 DEF StateR
<1> QED
  BY <1>1, <1>7 DEF new, later

\* The text of a delivery status is parsed back to it.
LEMMA StatusCodes ==
    ASSUME NEW s \in DOMAIN StatusStr
    PROVE  ParseDeliveryStatus(StatusStr[s]) = s
<1>1. DOMAIN StatusStr = {"None", "Success", "Failed", "Skipped"}
  BY DEF StatusStr
<1>2. \A t \in DOMAIN StatusStr : StatusStr[t] = StatusStr[s] => t = s
  BY <1>1 DEF StatusStr
<1>3. StatusStr[s] \in Range(StatusStr)
  BY DEF Range
<1> QED
  BY <1>2, <1>3 DEF ParseDeliveryStatus

\* An alert state is read back as it was written.
LEMMA AlertWritten ==
    ASSUME NEW state \in AlertStates(Times) \cup {NoAlert}
    PROVE  AlertR(state, SqlWriteAlert(state))
<1> DEFINE row == SqlWriteAlert(state)
<1>1. /\ state = [sent |-> state.sent, severity |-> state.severity, status |-> state.status]
      /\ state.severity \in {"none"} \cup DOMAIN SeverityInt /\ state.status \in DOMAIN StatusStr
  BY DEF AlertStates, NoAlert, StatusStr
<1>2. /\ row = [sent |-> state.sent, severity |-> row.severity, status |-> row.status]
      /\ row.severity = IF state.severity = "none" THEN Null ELSE SeverityInt[state.severity]
      /\ row.status = StatusStr[state.status]
  BY <1>1 DEF SqlWriteAlert
<1> HIDE DEF row
<1>3. /\ SqlReadAlert(row).sent = row.sent
      /\ SqlReadAlert(row).severity = (IF row.severity = Null THEN "none" ELSE SeverityFromInt(row.severity))
      /\ SqlReadAlert(row).status = ParseDeliveryStatus(row.status)
      /\ SqlReadAlert(row) = [sent |-> SqlReadAlert(row).sent, severity |-> SqlReadAlert(row).severity,
                              status |-> SqlReadAlert(row).status]
  BY <1>2 DEF SqlReadAlert
<1>4. ParseDeliveryStatus(row.status) = state.status
  BY <1>1, <1>2, StatusCodes
<1>5. (IF row.severity = Null THEN "none" ELSE SeverityFromInt(row.severity)) = state.severity
  <2>1. CASE state.severity = "none"
    BY <1>2, <2>1
  <2>2. CASE state.severity # "none"
    <3>1. state.severity \in DOMAIN SeverityInt
      BY <1>1, <2>2
    <3>2. row.severity = SeverityInt[state.severity] /\ row.severity # Null
      BY <1>2, <2>2, <3>1 DEF Null, SeverityInt
    <3>3. SeverityFromInt(row.severity) = state.severity
      BY <3>1, <3>2, SeverityCodes
    <3> QED
      BY <3>2, <3>3
  <2> QED
    BY <2>1, <2>2
<1>6. SqlReadAlert(row) = state
  <2>1. row.sent = state.sent
    BY <1>2
  <2> QED
    BY <1>1, <1>3, <1>4, <1>5, <2>1
<1> QED
  BY <1>6 DEF AlertR, row

-----------------------------------------------------------------------------
(* The audit log.                                                          *)

\* Two empty logs.
LEMMA AuditStart ==
    ASSUME NEW seen
    PROVE  AuditR(<<>>, <<>>, seen)
BY DEF AuditR

\* An entry is read back as it was written.
LEMMA EntryCodes ==
    ASSUME NEW e \in Entries
    PROVE  AuditOfRow(SqlAuditRow(e)) = e
<1> DEFINE row == SqlAuditRow(e)
<1>1. /\ e = [id |-> e.id, previous |-> e.previous, stage |-> e.stage, ts |-> e.ts]
      /\ e.previous \in {"none"} \cup DOMAIN StageText /\ e.stage \in DOMAIN StageText
  BY DEF Entries
<1>2. /\ row = [id |-> e.id, previous |-> row.previous, stage |-> row.stage, ts |-> e.ts]
      /\ row.previous = IF e.previous = "none" THEN "none" ELSE StageText[e.previous]
      /\ row.stage = StageText[e.stage]
  BY <1>1 DEF SqlAuditRow
<1> HIDE DEF row
<1>3. /\ AuditOfRow(row) = [id |-> row.id, previous |-> AuditOfRow(row).previous,
                          stage |-> AuditOfRow(row).stage, ts |-> row.ts]
      /\ AuditOfRow(row).previous = IF row.previous = "none" THEN "none" ELSE ParseActionStage(row.previous)
      /\ AuditOfRow(row).stage = ParseActionStage(row.stage)
  BY <1>2 DEF AuditOfRow
<1>4. AuditOfRow(row).stage = e.stage
  BY <1>1, <1>2, <1>3, StageCodes
<1>5. AuditOfRow(row).previous = e.previous
  <2>1. CASE e.previous = "none"
    BY <1>2, <1>3, <2>1
  <2>2. CASE e.previous # "none"
    <3>1. e.previous \in DOMAIN StageText
      BY <1>1, <2>2
    <3>2. StageText[e.previous] # "none"
      BY <3>1 DEF StageText
    <3> QED
      BY <1>2, <1>3, <2>2, <3>1, <3>2, StageCodes
  <2> QED
    BY <2>1, <2>2
<1>6. row.ts = e.ts /\ row.id = e.id
  BY <1>2
<1> QED
  BY <1>1, <1>3, <1>4, <1>5, <1>6 DEF row

\* append_audit: an entry with a new id goes to the end of both.
LEMMA AuditAppended ==
    ASSUME NEW list, NEW rows, NEW seen, AuditR(list, rows, seen), "taken" \notin seen, NEW e \in Entries
    PROVE  AuditR(Append(list, e), Append(rows, SqlAuditRow(e)), seen)
<1> DEFINE n == Len(list)
           more == Append(list, e)
<1>1. list \in Seq(Entries) /\ rows = [k \in DOMAIN list |-> SqlAuditRow(list[k])]
  BY DEF AuditR
<1>2. n \in Nat /\ DOMAIN list = 1..n /\ more \in Seq(Entries) /\ DOMAIN more = 1..(n + 1)
      /\ (\A k \in 1..n : more[k] = list[k]) /\ more[n + 1] = e
  BY <1>1
<1> HIDE DEF more, n
<1>3. Append(rows, SqlAuditRow(e)) = [k \in 1..(n + 1) |-> SqlAuditRow(more[k])]
  <2> DEFINE Row(k) == SqlAuditRow(list[k])
             R == {Row(k) : k \in 1..n} \cup {SqlAuditRow(e)}
  <2>1. rows = [k \in 1..n |-> Row(k)]
    BY <1>1, <1>2
  <2>2. rows \in Seq(R) /\ Len(rows) = n /\ SqlAuditRow(e) \in R
    <3>1. SqlAuditRow(e) \in R /\ \A k \in 1..n : Row(k) \in R
      OBVIOUS
    <3> HIDE DEF Row, R
    <3> QED
      BY <1>2, <2>1, <3>1
  <2>3. \A k \in 1..n : rows[k] = SqlAuditRow(more[k])
    BY <1>2, <2>1
  <2> DEFINE row == SqlAuditRow(e)
             later == Append(rows, row)
  <2> HIDE DEF Row, R, row
  <2>4. /\ later \in Seq(R) /\ Len(later) = n + 1
        /\ (\A k \in 1..n : later[k] = rows[k]) /\ later[n + 1] = row
    BY <2>2, AppendProperties DEF row
  <2> HIDE DEF later
  <2>5. later = [k \in 1..(n + 1) |-> later[k]]
    BY <1>2, <2>4
  <2>6. \A k \in 1..(n + 1) : later[k] = SqlAuditRow(more[k])
    <3>1. \A k \in 1..(n + 1) : k \in 1..n \/ k = n + 1
      BY <1>2
    <3> QED
      BY <1>2, <2>3, <2>4, <3>1 DEF row
  <2> QED
    BY <2>5, <2>6 DEF later, row
<1> QED
  BY <1>2, <1>3 DEF AuditR, more

\* The log as it is listed: the vector from its end is the sorted query, if it
\* was written in the order of its times.
LEMMA AuditListed ==
    ASSUME NEW list, NEW rows, NEW seen, AuditR(list, rows, seen), "taken" \notin seen,
           \A j, k \in DOMAIN list : j < k => list[j].ts < list[k].ts, NEW limit \in Nat
    PROVE  SqlRecentAudit(rows, limit) = MemRecentAudit(list, limit)
<1> DEFINE n == Len(list)
           ks == DOMAIN rows
           before == {p \in ks \X ks : rows[p[1]].ts > rows[p[2]].ts}
           down == [k \in 1..n |-> (n - k) + 1]
           m == IF limit <= n THEN limit ELSE n
<1>1. /\ list \in Seq(Entries) /\ \A j, k \in DOMAIN list : j < k => list[j].ts < list[k].ts
      /\ rows = [k \in DOMAIN list |-> SqlAuditRow(list[k])]
  BY DEF AuditR
<1>2. n \in Nat /\ DOMAIN list = 1..n /\ ks = 1..n /\ \A k \in 1..n : list[k] \in Entries
  BY <1>1
<1>3. \A k \in 1..n : rows[k] = SqlAuditRow(list[k]) /\ rows[k].ts = list[k].ts /\ list[k].ts \in Nat
  <2>1. \A e \in Entries : SqlAuditRow(e).ts = e.ts /\ e.ts \in Times
    BY DEF SqlAuditRow, Entries
  <2> QED
    BY <1>1, <1>2, <2>1, BackendsAssumption
<1>4. \A x, y \in 1..n : <<x, y>> \in before <=> rows[x].ts > rows[y].ts
  BY <1>2
<1> HIDE DEF before
<1>5. \A x, y \in 1..n : y < x => <<x, y>> \in before
  BY <1>1, <1>2, <1>3, <1>4
<1>6. Linear(1..n, before)
  <2>0. \A k \in 1..n : rows[k].ts \in Nat
    BY <1>3
  <2>1. Strict(1..n, before)
    <3> HIDE DEF n
    <3> QED
      BY <1>4, <2>0 DEF Strict
  <2> QED
    BY <1>2, <1>5, <2>1 DEF Linear
<1>7. Sorts(down, n, 1..n, before)
  <2>1. down \in [1..n -> 1..n]
    BY <1>2
  <2>2. \A x \in 1..n : \E k \in 1..n : down[k] = x
    <3>1. SUFFICES ASSUME NEW x \in 1..n PROVE \E k \in 1..n : down[k] = x
      OBVIOUS
    <3>2. (n - x) + 1 \in 1..n /\ (n - ((n - x) + 1)) + 1 = x
      BY <1>2
    <3> QED
      BY <3>2
  <2>3. \A j, k \in 1..n : j < k => <<down[j], down[k]>> \in before
    <3>1. SUFFICES ASSUME NEW j \in 1..n, NEW k \in 1..n, j < k PROVE <<down[j], down[k]>> \in before
      OBVIOUS
    <3>2. (n - j) + 1 \in 1..n /\ (n - k) + 1 \in 1..n /\ (n - k) + 1 < (n - j) + 1
      BY <1>2, <3>1
    <3> QED
      BY <1>5, <3>2
  <2> QED
    BY <2>1, <2>2, <2>3 DEF Sorts
<1>8. Listed(ks, before) = down
  BY <1>2, <1>6, <1>7, SortedIsListed
<1>9. down \in Seq(1..n) /\ Len(down) = n
  BY <1>2
<1>10. /\ First(down, limit) \in Seq(1..n) /\ Len(First(down, limit)) = m
       /\ \A k \in 1..m : First(down, limit)[k] = (n - k) + 1
  <2>1. /\ First(down, limit) \in Seq(1..n) /\ Len(First(down, limit)) = m
        /\ \A k \in 1..m : First(down, limit)[k] = down[k]
    <3> HIDE DEF down, n
    <3>1. /\ First(down, limit) \in Seq(1..n)
          /\ Len(First(down, limit)) = IF limit <= Len(down) THEN limit ELSE Len(down)
          /\ \A k \in 1..Len(First(down, limit)) : First(down, limit)[k] = down[k]
      BY <1>9, FirstIs
    <3> QED
      BY <1>9, <3>1
  <2>2. \A k \in 1..m : k \in 1..n
    BY <1>2
  <2> QED
    BY <2>1, <2>2
<1>11. SqlRecentAudit(rows, limit) = [k \in 1..m |-> list[(n - k) + 1]]
  <2> DEFINE top == First(down, limit)
             sorted == Picked(rows, top)
  <2>1. SqlRecentAudit(rows, limit) = [k \in DOMAIN sorted |-> AuditOfRow(sorted[k])]
    BY <1>8 DEF SqlRecentAudit, before
  <2> HIDE DEF top, down
  <2>2. top \in Seq(1..n) /\ Len(top) = m /\ \A k \in 1..m : top[k] = (n - k) + 1
    BY <1>10 DEF top
  <2>3. m \in Nat /\ m <= n
    BY <1>2
  <2> HIDE DEF m
  <2>4. DOMAIN top = 1..m
    BY <2>2
  <2>5. sorted = [k \in 1..m |-> rows[top[k]]]
    BY <2>4 DEF Picked
  <2>6. \A k \in 1..m : AuditOfRow(sorted[k]) = list[(n - k) + 1]
    <3>1. SUFFICES ASSUME NEW k \in 1..m PROVE AuditOfRow(sorted[k]) = list[(n - k) + 1]
      OBVIOUS
    <3>2. (n - k) + 1 \in 1..n
      BY <1>2, <2>3
    <3>3. sorted[k] = SqlAuditRow(list[(n - k) + 1])
      BY <1>3, <2>2, <2>5, <3>2
    <3> QED
      BY <1>2, <3>2, <3>3, EntryCodes
  <2>7. DOMAIN sorted = 1..m
    BY <2>5
  <2> HIDE DEF sorted
  <2> QED
    BY <2>1, <2>6, <2>7
<1>12. MemRecentAudit(list, limit) = [k \in 1..m |-> list[(n - k) + 1]]
  <2> DEFINE back == [k \in 1..n |-> list[(n - k) + 1]]
  <2>1. Reverse(list) = back
    BY DEF Reverse
  <2>2. back \in Seq(Entries) /\ Len(back) = n
    BY <1>2
  <2>3. m \in Nat /\ m <= n
    BY <1>2
  <2>4. /\ First(back, limit) \in Seq(Entries) /\ Len(First(back, limit)) = m
        /\ \A k \in 1..m : First(back, limit)[k] = back[k]
    <3> HIDE DEF back
    <3> QED
      BY <2>2, FirstIs
  <2>5. \A k \in 1..m : back[k] = list[(n - k) + 1]
    BY <2>3, <1>2
  <2> HIDE DEF back, m
  <2>6. First(back, limit) = [k \in 1..m |-> First(back, limit)[k]]
    BY <2>4
  <2> QED
    BY <2>1, <2>4, <2>5, <2>6 DEF MemRecentAudit
<1> QED
  BY <1>11, <1>12

-----------------------------------------------------------------------------
(* Snapshots.                                                              *)

\* A part of a finite set.
LEMMA PartIs ==
    ASSUME NEW S, IsFiniteSet(S), NEW T, T \subseteq S
    PROVE  /\ IsFiniteSet(T) /\ Cardinality(T) \in Nat /\ Cardinality(S) \in Nat
           /\ Cardinality(T) <= Cardinality(S) /\ (Cardinality(S) = Cardinality(T) => S = T)
<1>1. T \in SUBSET S
  OBVIOUS
<1>2. IsFiniteSet(T) /\ Cardinality(T) <= Cardinality(S) /\ (Cardinality(S) = Cardinality(T) => S = T)
  BY <1>1, FS_Subset
<1>3. Cardinality(S) \in Nat
  BY FS_CardinalityType
<1>4. Cardinality(T) \in Nat
  BY <1>2, FS_CardinalityType
<1> QED
  BY <1>2, <1>3, <1>4

\* What comes before a member of S.
Ahead(S, before, x) == {y \in S : <<y, x>> \in before}

\* Without ties the place in the list is the number of those before.
LEMMA RankIs ==
    ASSUME NEW S, IsFiniteSet(S), NEW before, Linear(S, before), NEW p \in 1..Cardinality(S)
    PROVE  /\ Listed(S, before)[p] \in S
           /\ Ahead(S, before, Listed(S, before)[p]) = {Listed(S, before)[k] : k \in 1..(p - 1)}
           /\ IsFiniteSet(Ahead(S, before, Listed(S, before)[p]))
           /\ Cardinality(Ahead(S, before, Listed(S, before)[p])) = p - 1
<1> DEFINE list == Listed(S, before)
           n == Cardinality(S)
<1>1. Strict(S, before) /\ \A x, y \in S : x = y \/ <<x, y>> \in before \/ <<y, x>> \in before
  BY DEF Linear
<1>2. /\ Listing(list, S, before) /\ n \in Nat
      /\ \A x \in S : \E k \in 1..n : list[k] = x
  BY <1>1, ListedIs
<1>3. list \in [1..n -> S] /\ DOMAIN list = 1..n /\ IsInjective(list)
  BY <1>2 DEF Listing
<1>4. p \in 1..n
  OBVIOUS
<1> HIDE DEF list, n
<1>5. list[p] \in S
  BY <1>3, <1>4
<1>6. \A j, k \in 1..n : j < k => <<list[j], list[k]>> \in before
  <2>1. SUFFICES ASSUME NEW j \in 1..n, NEW k \in 1..n, j < k PROVE <<list[j], list[k]>> \in before
    OBVIOUS
  <2>2. list[j] \in S /\ list[k] \in S /\ list[j] # list[k]
    BY <1>3, <2>1 DEF IsInjective
  <2>3. <<list[k], list[j]>> \notin before
    BY <1>2, <1>3, <2>1 DEF Listing
  <2> QED
    BY <1>1, <2>2, <2>3
<1>7. \A k \in 1..n : <<list[k], list[p]>> \in before <=> k < p
  <2>1. SUFFICES ASSUME NEW k \in 1..n PROVE <<list[k], list[p]>> \in before <=> k < p
    OBVIOUS
  <2>2. k < p => <<list[k], list[p]>> \in before
    BY <1>4, <1>6
  <2>3. <<list[k], list[p]>> \in before => ~ (k = p)
    BY <1>1, <1>5 DEF Strict
  <2>4. ASSUME p < k, <<list[k], list[p]>> \in before PROVE FALSE
    <3>1. <<list[p], list[k]>> \in before /\ list[k] \in S
      BY <1>3, <1>4, <1>6, <2>4
    <3> QED
      BY <1>1, <1>5, <2>4, <3>1 DEF Strict
  <2>5. k < p \/ k = p \/ p < k
    BY <1>2, <1>4
  <2> QED
    BY <2>2, <2>3, <2>4, <2>5
<1>8. \A k \in 1..(p - 1) : k \in 1..n /\ k < p
  BY <1>2, <1>4
<1>9. Ahead(S, before, list[p]) = {list[k] : k \in 1..(p - 1)}
  <2>1. ASSUME NEW y \in S, <<y, list[p]>> \in before PROVE \E k \in 1..(p - 1) : y = list[k]
    <3>1. PICK k \in 1..n : list[k] = y
      BY <1>2
    <3>2. k < p
      BY <1>7, <2>1, <3>1
    <3>3. k \in 1..(p - 1)
      BY <1>2, <1>4, <3>2
    <3> QED
      BY <3>1, <3>3
  <2>2. \A k \in 1..(p - 1) : list[k] \in S /\ <<list[k], list[p]>> \in before
    BY <1>3, <1>7, <1>8
  <2> QED
    BY <2>1, <2>2 DEF Ahead
<1>10. IsFiniteSet({list[k] : k \in 1..(p - 1)}) /\ Cardinality({list[k] : k \in 1..(p - 1)}) = p - 1
  <2> DEFINE m == p - 1
             head == [k \in 1..m |-> list[k]]
  <2>1. m \in Nat /\ \A k \in 1..m : k \in 1..n
    BY <1>2, <1>4
  <2> HIDE DEF m
  <2>2. head \in [1..m -> S]
    BY <1>3, <2>1
  <2>3. IsInjective(head)
    BY <1>3, <2>1 DEF IsInjective
  <2>4. {list[k] : k \in 1..m} = {head[k] : k \in 1..m}
    OBVIOUS
  <2> HIDE DEF head
  <2>5. IsFiniteSet({head[k] : k \in 1..m}) /\ Cardinality({head[k] : k \in 1..m}) = m
    BY <2>1, <2>2, <2>3, CountIs
  <2> QED
    BY <2>4, <2>5 DEF m
<1> QED
  BY <1>5, <1>9, <1>10 DEF list

\* A list cut at a limit has those with fewer before them.
LEMMA FirstRanks ==
    ASSUME NEW S, IsFiniteSet(S), NEW before, Linear(S, before), NEW limit \in Nat
    PROVE  /\ Range(First(Listed(S, before), limit)) = {x \in S : Cardinality(Ahead(S, before, x)) < limit}
           /\ First(Listed(S, before), limit) \in Seq(S)
           /\ IsInjective(First(Listed(S, before), limit))
           /\ Len(First(Listed(S, before), limit)) = IF limit <= Cardinality(S) THEN limit ELSE Cardinality(S)
<1> DEFINE list == Listed(S, before)
           n == Cardinality(S)
           top == First(list, limit)
           m == IF limit <= n THEN limit ELSE n
<1>1. /\ Listing(list, S, before) /\ n \in Nat /\ list \in Seq(S) /\ Len(list) = n
      /\ \A x \in S : \E k \in 1..n : list[k] = x
  BY ListedIs DEF Linear
<1>2. list \in [1..n -> S] /\ DOMAIN list = 1..n /\ IsInjective(list)
  BY <1>1 DEF Listing
<1>3. \A p \in 1..n : Cardinality(Ahead(S, before, list[p])) = p - 1
  BY RankIs
<1> HIDE DEF list
<1>4. top \in Seq(S) /\ Len(top) = m /\ \A k \in 1..m : top[k] = list[k]
  <2> HIDE DEF n
  <2> QED
    BY <1>1, FirstIs
<1> HIDE DEF n, top
<1>5. m \in Nat /\ m <= n /\ m <= limit /\ \A k \in 1..n : k <= limit => k \in 1..m
  BY <1>1
<1> HIDE DEF m
<1>6. DOMAIN top = 1..m /\ \A k \in 1..m : k \in 1..n /\ k - 1 < limit
  BY <1>1, <1>4, <1>5
<1>7. \A x \in Range(top) : x \in S /\ Cardinality(Ahead(S, before, x)) < limit
  <2>1. SUFFICES ASSUME NEW k \in 1..m PROVE top[k] \in S /\ Cardinality(Ahead(S, before, top[k])) < limit
    BY <1>6 DEF Range
  <2>2. top[k] = list[k] /\ k \in 1..n /\ k - 1 < limit
    BY <1>4, <1>6
  <2> QED
    BY <1>2, <1>3, <2>2
<1>8. \A x \in S : Cardinality(Ahead(S, before, x)) < limit => x \in Range(top)
  <2>1. SUFFICES ASSUME NEW x \in S, Cardinality(Ahead(S, before, x)) < limit PROVE x \in Range(top)
    OBVIOUS
  <2>2. PICK k \in 1..n : list[k] = x
    BY <1>1
  <2>3. k - 1 < limit
    BY <1>3, <2>1, <2>2
  <2>4. k \in 1..m
    <3>1. k \in Nat /\ k <= limit
      BY <2>3
    <3> QED
      BY <1>5, <3>1
  <2> QED
    BY <1>4, <1>6, <2>2, <2>4 DEF Range
<1>9. IsInjective(top)
  BY <1>2, <1>4, <1>6 DEF IsInjective
<1> QED
  BY <1>4, <1>7, <1>8, <1>9 DEF top, list, m, n

\* A channel status is read back from its column, closed ones told apart.
LEMMA ChannelStatusCodes ==
    ASSUME NEW s \in DOMAIN StatusInt
    PROVE  /\ StatusFromInt(StatusInt[s]) = s /\ StatusInt[s] \in Nat
           /\ StatusIsClosed(s) <=> StatusInt[s] \in {3, 4, 6, 7}
<1>1. DOMAIN StatusInt = {"Opening", "Active", "Inactive", "Closing", "Closed",
                          "PendingOpen", "WaitingClose", "ForceClosing", "Unknown"}
  BY DEF StatusInt
<1>2. \A t \in DOMAIN StatusInt : StatusInt[t] = StatusInt[s] => t = s
  BY <1>1 DEF StatusInt
<1>3. StatusInt[s] \in Nat /\ (StatusIsClosed(s) <=> StatusInt[s] \in {3, 4, 6, 7})
  BY <1>1 DEF StatusInt, StatusIsClosed
<1> QED
  BY <1>2, <1>3 DEF StatusFromInt

\* A row and its snapshot.
LEMMA RowOfIs ==
    ASSUME NEW s \in Snaps
    PROVE  /\ RowOf(s) \in SqlSnaps /\ RowOf(s).channel = s.channel /\ RowOf(s).ts = s.ts
           /\ RowOf(s).status = StatusInt[s.status] /\ RowToSnapshot(RowOf(s)) = s
           /\ s.ts \in Nat /\ s.channel \in Range(Channels) /\ s.status \in DOMAIN StatusInt
<1>1. /\ s = [channel |-> s.channel, ts |-> s.ts, status |-> s.status]
      /\ s.channel \in Range(Channels) /\ s.ts \in SnapTimes /\ s.status \in DOMAIN StatusInt
  BY DEF Snaps
<1>2. RowOf(s) \in SqlSnaps /\ RowOf(s).channel = s.channel /\ RowOf(s).ts = s.ts
      /\ RowOf(s).status = StatusInt[s.status]
  BY DEF RowOf, SqlSnaps
<1>3. RowToSnapshot(RowOf(s)) = [channel |-> s.channel, ts |-> s.ts, status |-> StatusFromInt(StatusInt[s.status])]
  BY DEF RowOf, RowToSnapshot
<1>4. s.ts \in Nat
  BY <1>1, BackendsAssumption
<1> QED
  BY <1>1, <1>2, <1>3, <1>4, ChannelStatusCodes

\* No snapshot in both.
LEMMA SnapsStart ==
    ASSUME NEW seen
    PROVE  SnapsR(<<>>, {}, seen)
<1>1. MaxSnapshots \in Nat
  BY BackendsAssumption
<1>2. MemSnapshots(<<>>)
  BY <1>1 DEF MemSnapshots
<1>3. SqlSnapshots({})
  BY <1>1, FS_EmptySet DEF SqlSnapshots
<1> QED
  BY <1>2, <1>3 DEF SnapsR, MemSnapshots, RowsOf, Ascending

\* More differences noted leave less to keep.
LEMMA SnapsWeaken ==
    ASSUME NEW list, NEW rows, NEW seen, NEW more, seen \subseteq more, SnapsR(list, rows, seen)
    PROVE  SnapsR(list, rows, more)
BY DEF SnapsR

\* A snapshot goes to the end of the vector; the row of it takes the place of
\* one of the same channel and time.
LEMMA SnapshotSaved ==
    ASSUME NEW list, NEW rows, NEW seen, SnapsR(list, rows, seen), NEW s \in Snaps,
           seen \subseteq {"pruned", "out_of_order"},
           Len(list) < MaxSnapshots, Cardinality(rows) < MaxSnapshots
    PROVE  LET mine == {r \in Range(list) : r.channel = s.channel}
           IN  SnapsR(Append(list, s), SqlSaveSnapshot(rows, s),
                      seen \cup (IF \E r \in mine : r.ts > s.ts THEN {"out_of_order"} ELSE {})
                           \cup (IF \E r \in mine : r.ts = s.ts THEN {"replaced"} ELSE {}))
<1> DEFINE more == Append(list, s)
           n == Len(list)
           mine == {r \in Range(list) : r.channel = s.channel}
           late == \E r \in mine : r.ts > s.ts
           again == \E r \in mine : r.ts = s.ts
           later == seen \cup (IF late THEN {"out_of_order"} ELSE {}) \cup (IF again THEN {"replaced"} ELSE {})
           rest == {r \in rows : ~(r.channel = s.channel /\ r.ts = s.ts)}
<1>1. /\ list \in Seq(Snaps) /\ rows \subseteq SqlSnaps /\ IsFiniteSet(rows) /\ MaxSnapshots \in Nat
      /\ \A j, k \in DOMAIN list : list[j].channel = list[k].channel /\ list[j].ts = list[k].ts => j = k
      /\ \A r, x \in rows : r.channel = x.channel /\ r.ts = x.ts => r = x
      /\ rows = RowsOf(list)
  BY BackendsAssumption DEF SnapsR, MemSnapshots, SqlSnapshots
<1>2. /\ n \in Nat /\ DOMAIN list = 1..n /\ more \in Seq(Snaps) /\ Len(more) = n + 1 /\ DOMAIN more = 1..(n + 1)
      /\ (\A k \in 1..n : more[k] = list[k]) /\ more[n + 1] = s
  BY <1>1
<1>3. \A k \in 1..n : /\ list[k] \in Range(list) /\ list[k] \in Snaps
                      /\ RowOf(list[k]).channel = list[k].channel /\ RowOf(list[k]).ts = list[k].ts
  BY <1>1, <1>2, RowOfIs DEF Range
<1> HIDE DEF more
<1>4. \A k \in 1..(n + 1) : k \in 1..n \/ k = n + 1
  BY <1>2
<1>5. Len(more) <= MaxSnapshots
  BY <1>1, <1>2
<1>6. SqlSaveSnapshot(rows, s) = rest \cup {RowOf(s)}
  <2>1. [s EXCEPT !.status = StatusInt[@]] = RowOf(s)
    BY DEF Snaps, RowOf
  <2> QED
    BY <2>1 DEF SqlSaveSnapshot
<1>7. SqlSnapshots(rest \cup {RowOf(s)})
  <2>1. /\ RowOf(s) \in SqlSnaps /\ RowOf(s).channel = s.channel /\ RowOf(s).ts = s.ts
    BY RowOfIs
  <2>2. RowOf(s) \notin rest /\ rest \subseteq rows
    BY <2>1
  <2>3. \A r, x \in rest \cup {RowOf(s)} : r.channel = x.channel /\ r.ts = x.ts => r = x
    BY <1>1, <2>1
  <2> HIDE DEF rest
  <2>4. /\ IsFiniteSet(rest) /\ Cardinality(rest) \in Nat /\ Cardinality(rows) \in Nat
        /\ Cardinality(rest) <= Cardinality(rows)
    BY <1>1, <2>2, PartIs
  <2>5. IsFiniteSet(rest \cup {RowOf(s)}) /\ Cardinality(rest \cup {RowOf(s)}) = Cardinality(rest) + 1
    BY <2>2, <2>4, FS_AddElement
  <2>6. Cardinality(rest \cup {RowOf(s)}) <= MaxSnapshots
    BY <1>1, <2>4, <2>5
  <2> QED
    BY <1>1, <2>1, <2>2, <2>3, <2>5, <2>6 DEF SqlSnapshots
<1>8. \A k \in 1..n : ~again => ~(list[k].channel = s.channel /\ list[k].ts = s.ts)
  BY <1>3
<1>9. ASSUME ~again PROVE MemSnapshots(more)
  <2>1. \A j, k \in DOMAIN more : more[j].channel = more[k].channel /\ more[j].ts = more[k].ts => j = k
    <3> HIDE DEF n, again
    <3> QED
      BY <1>1, <1>2, <1>4, <1>8, <1>9
  <2> QED
    BY <1>2, <1>5, <2>1 DEF MemSnapshots
<1>10. ASSUME ~again PROVE rest \cup {RowOf(s)} = RowsOf(more)
  <2>1. rest = rows
    <3>1. \A r \in rows : \E k \in 1..n : r = RowOf(list[k])
      BY <1>1, <1>2 DEF RowsOf
    <3>2. \A r \in rows : ~(r.channel = s.channel /\ r.ts = s.ts)
      <4> HIDE DEF again, n
      <4> QED
        BY <1>3, <1>8, <1>10, <3>1
    <3> QED
      BY <3>2
  <2> HIDE DEF n, rest
  <2>2. \A k \in 1..(n + 1) : RowOf(more[k]) \in RowsOf(list) \cup {RowOf(s)}
    BY <1>2, <1>4 DEF RowsOf
  <2>3. \A k \in 1..n : k \in 1..(n + 1) /\ RowOf(list[k]) = RowOf(more[k])
    BY <1>2
  <2>4. n + 1 \in 1..(n + 1) /\ RowOf(s) = RowOf(more[n + 1])
    BY <1>2
  <2>5. RowsOf(more) = RowsOf(list) \cup {RowOf(s)}
    BY <1>2, <2>2, <2>3, <2>4 DEF RowsOf
  <2> QED
    BY <1>1, <2>1, <2>5
<1>11. ASSUME later = {} PROVE Ascending(more)
  <2>1. seen = {} /\ ~late /\ ~again
    BY <1>11
  <2>2. Ascending(list)
    BY <2>1 DEF SnapsR
  <2>3. \A k \in 1..n : list[k].channel = s.channel => list[k].ts < s.ts
    <3>1. SUFFICES ASSUME NEW k \in 1..n, list[k].channel = s.channel PROVE list[k].ts < s.ts
      OBVIOUS
    <3>2. ~ (list[k].ts > s.ts) /\ list[k].ts # s.ts
      BY <1>3, <2>1, <3>1
    <3>3. list[k].ts \in Nat /\ s.ts \in Nat
      BY <1>3, RowOfIs
    <3> QED
      BY <3>2, <3>3
  <2> HIDE DEF n, later, late, again
  <2>4. SUFFICES ASSUME NEW j \in 1..(n + 1), NEW k \in 1..(n + 1), j < k, more[j].channel = more[k].channel
                 PROVE  more[j].ts < more[k].ts
    BY <1>2 DEF Ascending
  <2>5. j \in 1..n
    BY <1>2, <2>4
  <2>6. CASE k \in 1..n
    BY <1>2, <2>2, <2>4, <2>5, <2>6 DEF Ascending
  <2>7. CASE k = n + 1
    BY <1>2, <2>3, <2>4, <2>5, <2>7
  <2> QED
    BY <1>4, <2>6, <2>7
<1>12. "replaced" \notin later => ~again
  OBVIOUS
<1> HIDE DEF later, again, rest
<1>13. SnapsR(more, SqlSaveSnapshot(rows, s), later)
  BY <1>2, <1>5, <1>6, <1>7, <1>9, <1>10, <1>11, <1>12 DEF SnapsR
<1> QED
  BY <1>13 DEF more, later, again

-----------------------------------------------------------------------------
(* A pruning pass.                                                         *)

\* A row of the table is the row of a snapshot.
LEMMA SnapRowIs ==
    ASSUME NEW r \in SqlSnaps
    PROVE  /\ r.ts \in Nat /\ r.status \in Nat /\ r.channel \in Range(Channels)
           /\ \E s \in Snaps : r = RowOf(s)
<1>1. PICK s \in Snaps : r = RowOf(s)
  BY DEF SqlSnaps
<1> QED
  BY <1>1, RowOfIs, ChannelStatusCodes

\* A pass, its rows at the beginning.
IsPass(p) ==
    /\ p.policy \in Policies /\ p.now \in SnapTimes
    /\ SqlSnapshots(p.before)

\* A policy of the constants.
LEMMA PolicyIs ==
    ASSUME NEW policy \in Policies
    PROVE  /\ policy.age \in Nat /\ policy.closed_age \in Nat
           /\ policy.cap = None \/ policy.cap \in Nat
           /\ policy.total = None \/ policy.total \in Nat
           /\ None = -1
BY BackendsAssumption DEF None

\* What the loops keep.
LEMMA KeptIs ==
    ASSUME NEW p, IsPass(p)
    PROVE  /\ KeptByAge(p) \subseteq p.before /\ KeptByCap(p) \subseteq KeptByAge(p)
           /\ KeptByTotal(p) \subseteq KeptByCap(p)
           /\ SqlSnapshots(KeptByAge(p)) /\ SqlSnapshots(KeptByCap(p))
<1>1. /\ KeptByAge(p) \subseteq p.before /\ KeptByCap(p) \subseteq KeptByAge(p)
      /\ KeptByTotal(p) \subseteq KeptByCap(p)
  BY DEF KeptByAge, KeptByCap, KeptByTotal
<1>2. ASSUME NEW rows, rows \subseteq p.before PROVE SqlSnapshots(rows)
  <2>1. /\ p.before \subseteq SqlSnaps /\ IsFiniteSet(p.before) /\ Cardinality(p.before) <= MaxSnapshots
        /\ \A r, s \in p.before : r.channel = s.channel /\ r.ts = s.ts => r = s
    BY DEF IsPass, SqlSnapshots
  <2>2. IsFiniteSet(rows) /\ Cardinality(rows) <= Cardinality(p.before)
        /\ Cardinality(rows) \in Nat /\ Cardinality(p.before) \in Nat
    BY <1>2, <2>1, PartIs
  <2>3. Cardinality(rows) <= MaxSnapshots
    BY <2>1, <2>2, BackendsAssumption
  <2> QED
    BY <1>2, <2>1, <2>2, <2>3 DEF SqlSnapshots
<1>3. KeptByCap(p) \subseteq p.before
  BY <1>1
<1> QED
  BY <1>1, <1>2, <1>3

\* A statement of each loop deletes a row the loop may delete.
LEMMA AgeDeletes ==
    ASSUME NEW p, IsPass(p), p.stage = "age", NEW rows, NEW seen, PassR(p, rows, seen),
           NEW r \in SqlAged(rows, p.policy, p.now)
    PROVE  PassR(p, rows \ {r}, seen)
<1>1. rows \subseteq p.before
  BY DEF PassR
<1>2. r \in SqlAged(p.before, p.policy, p.now)
  BY <1>1 DEF SqlAged
<1> QED
  BY <1>2 DEF PassR, KeptByAge

\* A statement of the second loop deletes only rows over the cap of their channel.
LEMMA CapDeletes ==
    ASSUME NEW p, IsPass(p), p.stage = "cap", NEW rows, NEW seen, PassR(p, rows, seen),
           NEW r \in SqlOverCap(rows, p.policy)
    PROVE  PassR(p, rows \ {r}, seen)
<1>1. CASE "tie" \in seen
  BY <1>1 DEF PassR
<1>2. CASE "tie" \notin seen
  <2>1. KeptByCap(p) \subseteq rows /\ rows \subseteq KeptByAge(p) /\ rows \subseteq p.before
    BY <1>2 DEF PassR
  <2>2. /\ r \in rows /\ p.policy.cap # None /\ p.policy.cap # 0
        /\ Cardinality(Newer(rows, r)) >= p.policy.cap
    BY DEF SqlOverCap
  <2>3. p.policy.cap \in Nat
    BY <2>2, PolicyIs DEF IsPass
  <2>4. IsFiniteSet(Newer(KeptByAge(p), r)) /\ Newer(rows, r) \subseteq Newer(KeptByAge(p), r)
    <3>1. Newer(KeptByAge(p), r) \subseteq KeptByAge(p) /\ Newer(rows, r) \subseteq Newer(KeptByAge(p), r)
      BY <2>1 DEF Newer
    <3>2. IsFiniteSet(KeptByAge(p))
      BY KeptIs DEF SqlSnapshots
    <3> QED
      BY <3>1, <3>2, PartIs
  <2>5. Cardinality(Newer(KeptByAge(p), r)) >= p.policy.cap
    <3>1. /\ Cardinality(Newer(rows, r)) \in Nat /\ Cardinality(Newer(KeptByAge(p), r)) \in Nat
          /\ Cardinality(Newer(rows, r)) <= Cardinality(Newer(KeptByAge(p), r))
      BY <2>4, PartIs
    <3> QED
      BY <2>2, <2>3, <3>1
  <2>6. r \notin KeptByCap(p)
    BY <2>1, <2>2, <2>5 DEF KeptByCap, SqlOverCap
  <2>7. /\ rows \ {r} \subseteq p.before /\ KeptByCap(p) \subseteq rows \ {r} /\ rows \ {r} \subseteq KeptByAge(p)
    BY <2>1, <2>6
  <2> QED
    BY <2>7 DEF PassR
<1> QED
  BY <1>1, <1>2

\* A statement of the third loop deletes no row that the total cap keeps, unless it cuts a tie.
LEMMA TotalDeletes ==
    ASSUME NEW p, IsPass(p), p.stage = "total", NEW rows, NEW seen, PassR(p, rows, seen),
           NEW r \in SqlOverTotal(rows, p.policy)
    PROVE  PassR(p, rows \ {r}, IF CutsTie(rows, p.policy) THEN seen \cup {"tie"} ELSE seen)
<1> DEFINE later == IF CutsTie(rows, p.policy) THEN seen \cup {"tie"} ELSE seen
<1>0. rows \subseteq p.before
  BY DEF PassR
<1>1. CASE "tie" \in later
  <2> HIDE DEF later
  <2>1. PassR(p, rows \ {r}, later)
    BY <1>0, <1>1 DEF PassR
  <2> QED
    BY <2>1 DEF later
<1>2. CASE "tie" \notin later
  <2>1. "tie" \notin seen /\ ~ CutsTie(rows, p.policy)
    BY <1>2
  <2>2. KeptByTotal(p) \subseteq rows /\ rows \subseteq KeptByCap(p)
    BY <2>1 DEF PassR
  <2>3. /\ r \in rows /\ p.policy.total # None /\ p.policy.total # 0
        /\ Cardinality(Above(rows, r)) <= p.policy.total
    BY DEF SqlOverTotal, Above
  <2>4. p.policy.total \in Nat
    BY <2>3, PolicyIs DEF IsPass
  <2>5. ~ (Cardinality(Above(rows, r)) < p.policy.total)
    BY <2>1 DEF CutsTie, Above
  <2>6. IsFiniteSet(Above(KeptByCap(p), r)) /\ Above(rows, r) \subseteq Above(KeptByCap(p), r)
    <3>1. Above(KeptByCap(p), r) \subseteq KeptByCap(p) /\ Above(rows, r) \subseteq Above(KeptByCap(p), r)
      BY <2>2 DEF Above
    <3>2. IsFiniteSet(KeptByCap(p))
      BY KeptIs DEF SqlSnapshots
    <3> QED
      BY <3>1, <3>2, PartIs
  <2>7. ~ (Cardinality(Above(KeptByCap(p), r)) < p.policy.total)
    <3>1. /\ Cardinality(Above(rows, r)) \in Nat /\ Cardinality(Above(KeptByCap(p), r)) \in Nat
          /\ Cardinality(Above(rows, r)) <= Cardinality(Above(KeptByCap(p), r))
      BY <2>6, PartIs
    <3> QED
      BY <2>4, <2>5, <3>1
  <2>8. r \notin KeptByTotal(p)
    BY <2>3, <2>7 DEF KeptByTotal
  <2>9. /\ rows \ {r} \subseteq p.before /\ KeptByTotal(p) \subseteq rows \ {r} /\ rows \ {r} \subseteq KeptByCap(p)
    BY <1>0, <2>2, <2>8
  <2> HIDE DEF later
  <2>10. PassR(p, rows \ {r}, later)
    BY <2>9 DEF PassR
  <2> QED
    BY <2>10 DEF later
<1> QED
  BY <1>1, <1>2

\* The order of the rows of one channel.
LatestFirst(S) == {x \in S \X S : x[1].ts > x[2].ts}

\* The rows of one channel have one order of time, and the rows ahead of one are the newer ones.
LEMMA ChannelIsLinear ==
    ASSUME NEW rows, SqlSnapshots(rows), NEW c
    PROVE  LET S == {r \in rows : r.channel = c}
           IN  /\ IsFiniteSet(S) /\ Linear(S, LatestFirst(S))
               /\ \A r \in S : Ahead(S, LatestFirst(S), r) = Newer(rows, r)
<1> DEFINE S == {r \in rows : r.channel = c}
           before == LatestFirst(S)
<1>1. /\ rows \subseteq SqlSnaps /\ IsFiniteSet(rows)
      /\ \A r, s \in rows : r.channel = s.channel /\ r.ts = s.ts => r = s
  BY DEF SqlSnapshots
<1>2. IsFiniteSet(S)
  <2>1. S \subseteq rows
    OBVIOUS
  <2> QED
    BY <1>1, <2>1, PartIs
<1>3. \A x, y \in S : <<x, y>> \in before <=> x.ts > y.ts
  BY DEF LatestFirst
<1>4. \A x \in S : x.ts \in Nat /\ x \in rows /\ x.channel = c
  BY <1>1, SnapRowIs
<1>5. \A r \in S : Ahead(S, before, r) = Newer(rows, r)
  <2>1. SUFFICES ASSUME NEW r \in S PROVE Ahead(S, before, r) = Newer(rows, r)
    OBVIOUS
  <2>2. \A y \in S : y \in Newer(rows, r) <=> <<y, r>> \in before
    BY <1>3, <1>4, <2>1 DEF Newer
  <2>3. Newer(rows, r) \subseteq S
    BY <1>4, <2>1 DEF Newer
  <2> HIDE DEF S, before
  <2> QED
    BY <2>2, <2>3 DEF Ahead
<1> HIDE DEF S, before
<1>6. Strict(S, before)
  BY <1>3, <1>4 DEF Strict
<1>7. \A x, y \in S : x = y \/ <<x, y>> \in before \/ <<y, x>> \in before
  <2>1. SUFFICES ASSUME NEW x \in S, NEW y \in S, x.ts # y.ts
                 PROVE  <<x, y>> \in before \/ <<y, x>> \in before
    BY <1>1, <1>4
  <2>2. x.ts > y.ts \/ y.ts > x.ts
    BY <1>4, <2>1
  <2> QED
    BY <1>3, <2>2
<1>8. Linear(S, before)
  BY <1>6, <1>7 DEF Linear
<1> QED
  BY <1>2, <1>5, <1>8 DEF S, before

\* The next loop begins where one has nothing left to delete.
LEMMA AgeEnds ==
    ASSUME NEW p, IsPass(p), p.stage = "age", NEW rows, NEW seen, PassR(p, rows, seen),
           SqlAged(rows, p.policy, p.now) = {},
           NEW q, q.stage = "cap", q.policy = p.policy, q.now = p.now, q.before = p.before
    PROVE  PassR(q, rows, seen)
<1>1. KeptByAge(q) = KeptByAge(p) /\ KeptByCap(q) = KeptByCap(p)
  BY DEF KeptByAge, KeptByCap
<1>2. rows \subseteq p.before
  BY DEF PassR
<1>3. rows \subseteq KeptByAge(p)
  BY <1>2 DEF KeptByAge, SqlAged
<1>4. "tie" \notin seen => KeptByCap(p) \subseteq rows
  BY KeptIs DEF PassR
<1> QED
  BY <1>1, <1>2, <1>3, <1>4 DEF PassR

\* If a row is above the cap with the rows kept by age, it is with those of
\* them that are below it.
LEMMA CapStillOver ==
    ASSUME NEW p, IsPass(p), NEW rows, KeptByCap(p) \subseteq rows, rows \subseteq KeptByAge(p),
           NEW r \in rows, r \in SqlOverCap(KeptByAge(p), p.policy)
    PROVE  r \in SqlOverCap(rows, p.policy)
<1> DEFINE K == KeptByAge(p)
           S == {x \in K : x.channel = r.channel}
           before == LatestFirst(S)
           list == Listed(S, before)
           n == Cardinality(S)
           cap == p.policy.cap
<1>1. cap # None /\ cap # 0 /\ Cardinality(Newer(K, r)) >= cap
  BY DEF SqlOverCap
<1>2. cap \in Nat
  BY <1>1, PolicyIs DEF IsPass
<1>3. SqlSnapshots(K) /\ r \in S
  BY KeptIs
<1>4. /\ IsFiniteSet(S) /\ Linear(S, before)
      /\ \A x \in S : Ahead(S, before, x) = Newer(K, x)
  BY <1>3, ChannelIsLinear
<1>5. KeptByCap(p) = {x \in K : Cardinality(Newer(K, x)) < cap}
  <2>1. \A x \in K : Cardinality(Newer(K, x)) \in Nat
    <3>1. SUFFICES ASSUME NEW x \in K PROVE Cardinality(Newer(K, x)) \in Nat
      OBVIOUS
    <3>2. Newer(K, x) \subseteq K /\ IsFiniteSet(K)
      BY <1>3 DEF Newer, SqlSnapshots
    <3> QED
      BY <3>2, PartIs
  <2> HIDE DEF K, cap
  <2>2. \A x \in K : Cardinality(Newer(K, x)) < cap <=> ~ (Cardinality(Newer(K, x)) >= cap)
    BY <1>2, <2>1
  <2> QED
    BY <1>1, <2>2 DEF KeptByCap, SqlOverCap, K, cap
<1>6. /\ n \in Nat /\ Listing(list, S, before)
      /\ \A x \in S : \E k \in 1..n : list[k] = x
  <2>1. Strict(S, before)
    BY <1>4 DEF Linear
  <2> HIDE DEF S, before
  <2> QED
    BY <1>4, <2>1, ListedIs
<1>7. list \in [1..n -> S] /\ IsInjective(list) /\ DOMAIN list = 1..n
  BY <1>6 DEF Listing
<1>8. \A k \in 1..n : /\ list[k] \in S
                      /\ Ahead(S, before, list[k]) = {list[j] : j \in 1..(k - 1)}
                      /\ Cardinality(Ahead(S, before, list[k])) = k - 1
  BY <1>4, RankIs
<1> HIDE DEF list, n, before
<1>9. PICK k \in 1..n : list[k] = r
  BY <1>3, <1>6
<1>10. k - 1 >= cap
  BY <1>1, <1>3, <1>4, <1>8, <1>9
<1>11. \A j \in 1..cap : j \in 1..n /\ j \in 1..(k - 1) /\ j - 1 < cap
  BY <1>2, <1>6, <1>10
<1>12. \A j \in 1..cap : list[j] \in Newer(rows, r)
  <2>1. SUFFICES ASSUME NEW j \in 1..cap PROVE list[j] \in Newer(rows, r)
    OBVIOUS
  <2>2. j \in 1..n /\ j \in 1..(k - 1) /\ j - 1 < cap
    BY <1>11
  <2>3. list[j] \in S /\ Cardinality(Newer(K, list[j])) = j - 1
    BY <1>4, <1>8, <2>2
  <2>4. list[j] \in K
    BY <2>3
  <2>5. list[j] \in rows
    BY <1>5, <2>2, <2>3, <2>4
  <2>6. list[j] \in Newer(K, r)
    <3>1. Ahead(S, before, list[k]) = {list[i] : i \in 1..(k - 1)}
      BY <1>8
    <3>2. list[j] \in Ahead(S, before, list[k])
      BY <2>2, <3>1
    <3> QED
      BY <1>3, <1>4, <1>9, <3>2
  <2> QED
    BY <2>5, <2>6 DEF Newer
<1> DEFINE T == {list[j] : j \in 1..cap}
<1>13. IsFiniteSet(T) /\ Cardinality(T) = cap
  <2> DEFINE head == [j \in 1..cap |-> list[j]]
  <2> HIDE DEF cap
  <2>1. head \in [1..cap -> S]
    BY <1>7, <1>11
  <2>2. IsInjective(head)
    BY <1>7, <1>11 DEF IsInjective
  <2>3. T = {head[j] : j \in 1..cap}
    OBVIOUS
  <2> HIDE DEF head
  <2>4. IsFiniteSet({head[j] : j \in 1..cap}) /\ Cardinality({head[j] : j \in 1..cap}) = cap
    BY <1>2, <2>1, <2>2, CountIs
  <2> QED
    BY <2>3, <2>4
<1>14. T \subseteq Newer(rows, r)
  BY <1>12
<1> HIDE DEF T
<1>15. IsFiniteSet(Newer(rows, r))
  <2>1. Newer(rows, r) \subseteq K /\ IsFiniteSet(K)
    BY <1>3 DEF Newer, SqlSnapshots
  <2> QED
    BY <2>1, PartIs
<1>16. Cardinality(Newer(rows, r)) >= cap
  <2>1. Cardinality(T) <= Cardinality(Newer(rows, r)) /\ Cardinality(Newer(rows, r)) \in Nat
    BY <1>14, <1>15, PartIs
  <2> QED
    BY <1>2, <1>13, <2>1
<1> QED
  BY <1>1, <1>16 DEF SqlOverCap

\* When no row is over the cap of its channel, the rows are those the cap keeps.
LEMMA CapEnds ==
    ASSUME NEW p, IsPass(p), p.stage = "cap", NEW rows, NEW seen, PassR(p, rows, seen),
           SqlOverCap(rows, p.policy) = {},
           NEW q, q.stage = "total", q.policy = p.policy, q.now = p.now, q.before = p.before
    PROVE  PassR(q, rows, seen)
<1>1. KeptByCap(q) = KeptByCap(p) /\ KeptByTotal(q) = KeptByTotal(p)
  BY DEF KeptByAge, KeptByCap, KeptByTotal
<1>2. rows \subseteq p.before
  BY DEF PassR
<1>3. ASSUME "tie" \notin seen PROVE KeptByTotal(p) \subseteq rows /\ rows \subseteq KeptByCap(p)
  <2>1. KeptByCap(p) \subseteq rows /\ rows \subseteq KeptByAge(p)
    BY <1>3 DEF PassR
  <2>2. KeptByTotal(p) \subseteq rows
    BY <2>1, KeptIs
  <2>3. \A r \in rows : r \notin SqlOverCap(KeptByAge(p), p.policy)
    BY <2>1, CapStillOver
  <2> QED
    BY <2>1, <2>2, <2>3 DEF KeptByCap
<1> QED
  BY <1>1, <1>2, <1>3 DEF PassR

\* The last loop ends with no more rows than the total cap.
LEMMA TotalEnds ==
    ASSUME NEW rows, SqlSnapshots(rows), NEW policy \in Policies,
           policy.total # None, policy.total # 0, SqlOverTotal(rows, policy) = {}
    PROVE  Cardinality(rows) <= policy.total
<1> DEFINE total == policy.total
           before == LatestFirst(rows)
           list == Listed(rows, before)
           n == Cardinality(rows)
<1>1. total \in Nat
  BY PolicyIs
<1>2. IsFiniteSet(rows) /\ \A r \in rows : r.ts \in Nat
  BY SnapRowIs DEF SqlSnapshots
<1>3. \A x, y \in rows : <<x, y>> \in before <=> x.ts > y.ts
  BY DEF LatestFirst
<1> HIDE DEF before
<1>4. Strict(rows, before)
  BY <1>2, <1>3 DEF Strict
<1>5. /\ n \in Nat /\ Listing(list, rows, before)
      /\ \A x \in rows : \E k \in 1..n : list[k] = x
  BY <1>2, <1>4, ListedIs
<1>6. list \in [1..n -> rows] /\ IsInjective(list) /\ DOMAIN list = 1..n
  BY <1>5 DEF Listing
<1>7. \A j, k \in 1..n : j < k => ~ (list[k].ts > list[j].ts)
  BY <1>3, <1>5, <1>6 DEF Listing
<1> HIDE DEF list, n
<1>8. SUFFICES ASSUME ~ (n <= total) PROVE FALSE
  BY DEF n
<1>9. total + 1 \in 1..n
  <2> HIDE DEF total
  <2> QED
    BY <1>1, <1>5, <1>8
<1> DEFINE r == list[total + 1]
           Up == {s \in rows : s.ts > r.ts}
           Level == {s \in rows : s.ts >= r.ts}
<1>10. r \in rows
  BY <1>6, <1>9
<1> HIDE DEF r
<1>11. \A k \in 1..n : list[k].ts > r.ts => k \in 1..total
  <2>1. SUFFICES ASSUME NEW k \in 1..n, list[k].ts > r.ts PROVE k \in 1..total
    OBVIOUS
  <2>2. ~ (total + 1 < k)
    BY <1>7, <1>9, <2>1 DEF r
  <2>3. k # total + 1
    <3>1. r.ts \in Nat
      BY <1>2, <1>10
    <3> QED
      BY <2>1, <3>1 DEF r
  <2> HIDE DEF total
  <2> QED
    BY <1>1, <1>5, <2>2, <2>3
<1>12. Cardinality(Up) <= total
  <2> DEFINE head == [k \in 1..total |-> list[k]]
             T == {head[k] : k \in 1..total}
  <2>1. Up \subseteq T
    <3>1. SUFFICES ASSUME NEW s \in rows, s.ts > r.ts PROVE \E k \in 1..total : s = list[k]
      OBVIOUS
    <3>2. PICK k \in 1..n : list[k] = s
      BY <1>5
    <3> QED
      BY <1>11, <3>1, <3>2
  <2> HIDE DEF total
  <2>2. \A k \in 1..total : k \in 1..n
    BY <1>1, <1>5, <1>9
  <2>3. head \in [1..total -> rows]
    BY <1>6, <2>2
  <2>4. IsInjective(head)
    BY <1>6, <2>2 DEF IsInjective
  <2> HIDE DEF head
  <2>5. IsFiniteSet({head[k] : k \in 1..total}) /\ Cardinality({head[k] : k \in 1..total}) = total
    BY <1>1, <2>3, <2>4, CountIs
  <2> HIDE DEF Up
  <2>6. IsFiniteSet(T) /\ Cardinality(T) = total
    BY <2>5
  <2> HIDE DEF T
  <2>7. Cardinality(Up) <= Cardinality(T)
    BY <2>1, <2>6, PartIs
  <2> QED
    BY <2>6, <2>7
<1>13. Cardinality(Level) > total
  <2> DEFINE m == total + 1
             head == [k \in 1..m |-> list[k]]
             T == {head[k] : k \in 1..m}
  <2>1. m \in Nat /\ \A k \in 1..m : k \in 1..n /\ (k < total + 1 \/ k = total + 1)
    <3> HIDE DEF total
    <3> QED
      BY <1>1, <1>5, <1>9
  <2>2. T \subseteq Level
    <3>1. SUFFICES ASSUME NEW k \in 1..m PROVE list[k] \in rows /\ list[k].ts >= r.ts
      OBVIOUS
    <3>2. list[k] \in rows /\ ~ (r.ts > list[k].ts)
      <4>1. CASE k = total + 1
        <5>1. list[k] = r /\ r.ts \in Nat
          BY <1>2, <1>10, <4>1 DEF r
        <5> QED
          BY <1>10, <5>1
      <4>2. CASE k < total + 1
        BY <1>6, <1>7, <1>9, <2>1, <4>2 DEF r
      <4> QED
        BY <2>1, <4>1, <4>2
    <3> QED
      BY <1>2, <1>10, <3>2
  <2>3. head \in [1..m -> rows]
    BY <1>6, <2>1
  <2>4. IsInjective(head)
    BY <1>6, <2>1 DEF IsInjective
  <2> HIDE DEF head, m
  <2>5. IsFiniteSet({head[k] : k \in 1..m}) /\ Cardinality({head[k] : k \in 1..m}) = m
    BY <2>1, <2>3, <2>4, CountIs
  <2>6. Level \subseteq rows
    OBVIOUS
  <2>7. Cardinality(T) = m
    BY <2>5
  <2> HIDE DEF Level, T
  <2>8. IsFiniteSet(Level)
    BY <1>2, <2>6, PartIs
  <2>9. Cardinality(T) <= Cardinality(Level) /\ Cardinality(Level) \in Nat
    BY <2>2, <2>8, PartIs
  <2>10. m = total + 1
    BY DEF m
  <2> HIDE DEF total
  <2> QED
    BY <1>1, <2>7, <2>9, <2>10
<1>14. r \in SqlOverTotal(rows, policy)
  BY <1>10, <1>12, <1>13 DEF SqlOverTotal
<1> QED
  BY <1>14

-----------------------------------------------------------------------------
(* The pruning of the vector.                                              *)

\* As many values as arguments.
LEMMA OneToOne ==
    ASSUME NEW D, IsFiniteSet(D), NEW R, NEW fun \in [D -> R], IsInjective(fun)
    PROVE  IsFiniteSet(Range(fun)) /\ Cardinality(Range(fun)) = Cardinality(D)
<1> DEFINE T == Range(fun)
<1>1. fun \in Bijection(D, T)
  BY DEF Bijection, Injection, Surjection, IsInjective, Range
<1> HIDE DEF T
<1>2. ExistsBijection(D, T)
  BY <1>1 DEF ExistsBijection
<1>3. IsFiniteSet(T) /\ Cardinality(T) = Cardinality(D)
  BY <1>2, FS_Bijection
<1> QED
  BY <1>3 DEF T

\* A vector of snapshots, one of each channel and time.
LEMMA VectorIs ==
    ASSUME NEW list, MemSnapshots(list)
    PROVE  /\ list \in Seq(Snaps) /\ Len(list) \in Nat /\ DOMAIN list = 1..Len(list)
           /\ \A k \in 1..Len(list) : /\ list[k] \in Snaps /\ list[k].ts \in Nat
                                      /\ list[k].channel \in Range(Channels)
                                      /\ RowOf(list[k]).channel = list[k].channel
                                      /\ RowOf(list[k]).ts = list[k].ts
                                      /\ RowOf(list[k]) \in SqlSnaps
                                      /\ RowOf(list[k]).status = StatusInt[list[k].status]
                                      /\ list[k].status \in DOMAIN StatusInt
           /\ \A j, k \in 1..Len(list) : RowOf(list[j]) = RowOf(list[k]) => j = k
           /\ \A j, k \in 1..Len(list) : list[j].channel = list[k].channel /\ list[j].ts = list[k].ts => j = k
<1> DEFINE n == Len(list)
<1>1. /\ list \in Seq(Snaps) /\ n \in Nat /\ DOMAIN list = 1..n
      /\ \A j, k \in 1..n : list[j].channel = list[k].channel /\ list[j].ts = list[k].ts => j = k
  BY DEF MemSnapshots
<1>2. \A k \in 1..n : list[k] \in Snaps
  BY <1>1
<1> HIDE DEF n
<1>3. \A k \in 1..n : /\ list[k].ts \in Nat
                      /\ list[k].channel \in Range(Channels)
                      /\ RowOf(list[k]).channel = list[k].channel
                      /\ RowOf(list[k]).ts = list[k].ts
                      /\ RowOf(list[k]) \in SqlSnaps
                      /\ RowOf(list[k]).status = StatusInt[list[k].status]
                      /\ list[k].status \in DOMAIN StatusInt
  BY <1>2, RowOfIs
<1>4. \A j, k \in 1..n : RowOf(list[j]) = RowOf(list[k]) => j = k
  <2>1. SUFFICES ASSUME NEW j \in 1..n, NEW k \in 1..n, RowOf(list[j]) = RowOf(list[k]) PROVE j = k
    OBVIOUS
  <2>2. list[j].channel = list[k].channel /\ list[j].ts = list[k].ts
    BY <1>3, <2>1
  <2> QED
    BY <1>1, <2>2
<1> QED
  BY <1>1, <1>2, <1>3, <1>4 DEF n

\* Its rows.
LEMMA RowsOfIs ==
    ASSUME NEW list, MemSnapshots(list)
    PROVE  SqlSnapshots(RowsOf(list)) /\ Cardinality(RowsOf(list)) = Len(list)
<1> DEFINE n == Len(list)
           fun == [k \in 1..n |-> RowOf(list[k])]
<1>1. /\ n \in Nat /\ DOMAIN list = 1..n
      /\ \A k \in 1..n : /\ RowOf(list[k]) \in SqlSnaps
                         /\ RowOf(list[k]).channel = list[k].channel /\ RowOf(list[k]).ts = list[k].ts
      /\ \A j, k \in 1..n : RowOf(list[j]) = RowOf(list[k]) => j = k
      /\ \A j, k \in 1..n : list[j].channel = list[k].channel /\ list[j].ts = list[k].ts => j = k
  BY VectorIs
<1>2. n <= MaxSnapshots
  BY DEF MemSnapshots
<1> HIDE DEF n
<1>3. fun \in [1..n -> SqlSnaps] /\ IsInjective(fun)
  BY <1>1 DEF IsInjective
<1>4. RowsOf(list) = {fun[k] : k \in 1..n}
  BY <1>1 DEF RowsOf
<1> HIDE DEF fun
<1>5. IsFiniteSet({fun[k] : k \in 1..n}) /\ Cardinality({fun[k] : k \in 1..n}) = n
  <2>1. n \in Nat
    BY <1>1
  <2> QED
    BY <1>3, <2>1, CountIs
<1>6. RowsOf(list) \subseteq SqlSnaps
  BY <1>3, <1>4
<1>7. \A r, s \in RowsOf(list) : r.channel = s.channel /\ r.ts = s.ts => r = s
  <2>1. SUFFICES ASSUME NEW j \in 1..n, NEW k \in 1..n, RowOf(list[j]).channel = RowOf(list[k]).channel,
                        RowOf(list[j]).ts = RowOf(list[k]).ts
                 PROVE  RowOf(list[j]) = RowOf(list[k])
    BY <1>1 DEF RowsOf
  <2>2. j = k
    BY <1>1, <2>1
  <2> QED
    BY <2>2
<1> QED
  BY <1>2, <1>4, <1>5, <1>6, <1>7 DEF SqlSnapshots, n

\* Some of a vector, in any order.
LEMMA PickedIs ==
    ASSUME NEW list, MemSnapshots(list), NEW order \in Seq(1..Len(list)), IsInjective(order)
    PROVE  /\ MemSnapshots(Picked(list, order)) /\ Len(Picked(list, order)) = Len(order)
           /\ RowsOf(Picked(list, order)) = {RowOf(list[k]) : k \in Range(order)}
<1> DEFINE n == Len(list)
           m == Len(order)
           some == Picked(list, order)
<1>1. /\ n \in Nat /\ \A k \in 1..n : list[k] \in Snaps
      /\ \A j, k \in 1..n : list[j].channel = list[k].channel /\ list[j].ts = list[k].ts => j = k
  BY VectorIs
<1>2. n <= MaxSnapshots
  BY DEF MemSnapshots
<1> HIDE DEF n
<1>3. m \in Nat /\ DOMAIN order = 1..m /\ order \in [1..m -> 1..n]
  BY DEF n
<1> HIDE DEF m
<1>4. some = [k \in 1..m |-> list[order[k]]]
  BY <1>3 DEF Picked
<1>5. \A k \in 1..m : order[k] \in 1..n
  BY <1>3
<1>6. some \in Seq(Snaps) /\ Len(some) = m /\ DOMAIN some = 1..m
  BY <1>1, <1>3, <1>4, <1>5
<1>7. m <= n
  <2> DEFINE T == {order[k] : k \in 1..m}
  <2>1. IsFiniteSet(T) /\ Cardinality(T) = m
    BY <1>3, CountIs
  <2>2. T \subseteq 1..n
    BY <1>5
  <2>3. IsFiniteSet(1..n) /\ Cardinality(1..n) = n
    BY <1>1, FS_Interval
  <2> HIDE DEF T
  <2>4. Cardinality(T) <= Cardinality(1..n)
    BY <2>2, <2>3, PartIs
  <2> QED
    BY <2>1, <2>3, <2>4
<1>8. m <= MaxSnapshots
  BY <1>1, <1>2, <1>3, <1>7, BackendsAssumption
<1> HIDE DEF some
<1>9. \A j, k \in DOMAIN some : some[j].channel = some[k].channel /\ some[j].ts = some[k].ts => j = k
  <2>1. SUFFICES ASSUME NEW j \in 1..m, NEW k \in 1..m, some[j].channel = some[k].channel, some[j].ts = some[k].ts
                 PROVE  j = k
    BY <1>6
  <2>2. order[j] = order[k]
    BY <1>1, <1>4, <1>5, <2>1
  <2> QED
    BY <1>3, <2>2 DEF IsInjective
<1>10. MemSnapshots(some)
  BY <1>6, <1>8, <1>9 DEF MemSnapshots
<1>11. RowsOf(some) = {RowOf(list[k]) : k \in Range(order)}
  <2>1. Range(order) = {order[k] : k \in 1..m}
    BY <1>3 DEF Range
  <2>2. RowsOf(some) = {RowOf(some[k]) : k \in 1..m}
    BY <1>6 DEF RowsOf
  <2>3. \A k \in 1..m : RowOf(some[k]) = RowOf(list[order[k]])
    BY <1>4
  <2> QED
    BY <2>1, <2>2, <2>3
<1> QED
  BY <1>6, <1>10, <1>11 DEF some, m

\* All of some positions, in the order of a strict order.
LEMMA ListedPicks ==
    ASSUME NEW list, MemSnapshots(list), NEW ks, ks \subseteq 1..Len(list), NEW before, Strict(ks, before)
    PROVE  /\ MemSnapshots(Picked(list, Listed(ks, before)))
           /\ RowsOf(Picked(list, Listed(ks, before))) = {RowOf(list[k]) : k \in ks}
<1> DEFINE n == Len(list)
           order == Listed(ks, before)
           m == Cardinality(ks)
<1>1. n \in Nat
  BY VectorIs
<1>2. IsFiniteSet(ks)
  <2>1. IsFiniteSet(1..n)
    BY <1>1, FS_Interval
  <2> QED
    BY <2>1, PartIs
<1>3. /\ Listing(order, ks, before) /\ m \in Nat
      /\ \A x \in ks : \E k \in 1..m : order[k] = x
  BY <1>2, ListedIs
<1>4. order \in [1..m -> ks] /\ DOMAIN order = 1..m /\ IsInjective(order)
  BY <1>3 DEF Listing
<1> HIDE DEF order, m
<1>5. order \in Seq(1..Len(list))
  <2>1. \A k \in 1..m : order[k] \in 1..Len(list)
    BY <1>4
  <2> QED
    BY <1>3, <1>4, <2>1
<1>6. Range(order) = ks
  BY <1>3, <1>4 DEF Range
<1>7. /\ MemSnapshots(Picked(list, order))
      /\ RowsOf(Picked(list, order)) = {RowOf(list[k]) : k \in Range(order)}
  BY <1>4, <1>5, PickedIs
<1> QED
  BY <1>6, <1>7 DEF order

\* The order of the positions, newest first.
FrontFirst(list, ks) == {p \in ks \X ks : NewerAt(list, p[1], p[2])}

\* The vector sorted newest first is the listing of its positions by time.
LEMMA NewestIs ==
    ASSUME NEW list, MemSnapshots(list), NEW ks, ks \subseteq 1..Len(list)
    PROVE  /\ Newest(list, ks) = Listed(ks, FrontFirst(list, ks))
           /\ IsFiniteSet(ks) /\ Linear(ks, FrontFirst(list, ks))
           /\ \A j, k \in ks : <<j, k>> \in FrontFirst(list, ks) <=> NewerAt(list, j, k)
<1> DEFINE n == Len(list)
           before == FrontFirst(list, ks)
<1>1. n \in Nat /\ \A k \in 1..n : list[k].ts \in Nat
  BY VectorIs
<1>2. IsFiniteSet(ks)
  <2>1. IsFiniteSet(1..n)
    BY <1>1, FS_Interval
  <2> QED
    BY <2>1, PartIs
<1>3. \A j, k \in ks : <<j, k>> \in before <=> NewerAt(list, j, k)
  BY DEF FrontFirst
<1>4. \A k \in ks : k \in Nat /\ list[k].ts \in Nat
  BY <1>1
<1> HIDE DEF before
<1>5. \A j, k \in ks : <<j, k>> \in before <=> (list[j].ts > list[k].ts \/ (list[j].ts = list[k].ts /\ j < k))
  BY <1>3 DEF NewerAt
<1>6. Strict(ks, before)
  BY <1>4, <1>5 DEF Strict
<1>7. \A x, y \in ks : x = y \/ <<x, y>> \in before \/ <<y, x>> \in before
  <2>1. SUFFICES ASSUME NEW x \in ks, NEW y \in ks, x # y
                 PROVE  <<x, y>> \in before \/ <<y, x>> \in before
    OBVIOUS
  <2>2. (x < y \/ y < x) /\ (list[x].ts > list[y].ts \/ list[y].ts > list[x].ts \/ list[x].ts = list[y].ts)
    BY <1>4, <2>1
  <2> QED
    BY <1>5, <2>2
<1>8. Linear(ks, before)
  BY <1>6, <1>7 DEF Linear
<1> QED
  BY <1>2, <1>3, <1>8 DEF before, Newest, FrontFirst

\* The order of the map.
LEMMA ByChannelIs ==
    ASSUME NEW list, MemSnapshots(list), NEW ks, ks \subseteq 1..Len(list)
    PROVE  /\ MemSnapshots(Picked(list, ByChannel(list, Channels, ks)))
           /\ RowsOf(Picked(list, ByChannel(list, Channels, ks))) = {RowOf(list[k]) : k \in ks}
<1> DEFINE earlier(c, d) == \E i, j \in DOMAIN Channels : i < j /\ Channels[i] = c /\ Channels[j] = d
           before == {p \in ks \X ks :
                       \/ earlier(list[p[1]].channel, list[p[2]].channel)
                       \/ /\ list[p[1]].channel = list[p[2]].channel
                          /\ NewerAt(list, p[1], p[2])}
           front == FrontFirst(list, ks)
<1>1. ByChannel(list, Channels, ks) = Listed(ks, before)
  BY DEF ByChannel
<1>2. \A j, k \in ks : <<j, k>> \in before <=>
          (earlier(list[j].channel, list[k].channel)
             \/ (list[j].channel = list[k].channel /\ NewerAt(list, j, k)))
  OBVIOUS
<1>3. \A i \in DOMAIN Channels : i \in Nat
  <2>1. Channels \in Seq(Range(Channels))
    BY BackendsAssumption
  <2> QED
    BY <2>1
<1>4. \A i, j \in DOMAIN Channels : Channels[i] = Channels[j] => i = j
  BY BackendsAssumption DEF IsInjective
<1>5. \A c : ~ earlier(c, c)
  BY <1>3, <1>4
<1>6. \A c, d, e : earlier(c, d) /\ earlier(d, e) => earlier(c, e)
  <2>1. SUFFICES ASSUME NEW c, NEW d, NEW e, earlier(c, d), earlier(d, e) PROVE earlier(c, e)
    OBVIOUS
  <2>2. PICK i \in DOMAIN Channels, j \in DOMAIN Channels : i < j /\ Channels[i] = c /\ Channels[j] = d
    BY <2>1
  <2>3. PICK k \in DOMAIN Channels, l \in DOMAIN Channels : k < l /\ Channels[k] = d /\ Channels[l] = e
    BY <2>1
  <2>4. i < l
    BY <1>3, <1>4, <2>2, <2>3
  <2> QED
    BY <2>2, <2>3, <2>4
<1> HIDE DEF before, earlier
<1>7. Strict(ks, front) /\ \A j, k \in ks : <<j, k>> \in front <=> NewerAt(list, j, k)
  BY NewestIs DEF Linear
<1> HIDE DEF front
<1>8. Strict(ks, before)
  <2>1. \A x \in ks : <<x, x>> \notin before
    BY <1>2, <1>5, <1>7 DEF Strict
  <2>2. \A x, y, z \in ks : <<x, y>> \in before /\ <<y, z>> \in before => <<x, z>> \in before
    <3>1. SUFFICES ASSUME NEW x \in ks, NEW y \in ks, NEW z \in ks, <<x, y>> \in before, <<y, z>> \in before
                   PROVE  <<x, z>> \in before
      OBVIOUS
    <3>2. \/ earlier(list[x].channel, list[y].channel)
          \/ list[x].channel = list[y].channel /\ NewerAt(list, x, y)
      BY <1>2, <3>1
    <3>3. \/ earlier(list[y].channel, list[z].channel)
          \/ list[y].channel = list[z].channel /\ NewerAt(list, y, z)
      BY <1>2, <3>1
    <3>4. NewerAt(list, x, y) /\ NewerAt(list, y, z) => NewerAt(list, x, z)
      BY <1>7 DEF Strict
    <3>5. \/ earlier(list[x].channel, list[z].channel)
          \/ list[x].channel = list[z].channel /\ NewerAt(list, x, z)
      BY <1>6, <3>2, <3>3, <3>4
    <3> QED
      BY <1>2, <3>5
  <2> QED
    BY <2>1, <2>2 DEF Strict
<1> QED
  BY <1>1, <1>8, ListedPicks

\* What is left of the rows too old: the same rows.
LEMMA AgedRows ==
    ASSUME NEW list, MemSnapshots(list), NEW policy \in Policies, NEW now \in SnapTimes
    PROVE  LET aged == MemAged(list, Channels, policy, now)
           IN  MemSnapshots(aged) /\ RowsOf(aged) = RowsOf(list) \ SqlAged(RowsOf(list), policy, now)
<1> DEFINE n == Len(list)
           ks == {k \in DOMAIN list : MemKeeps(policy, now, list[k])}
           aged == MemAged(list, Channels, policy, now)
<1>1. /\ n \in Nat /\ DOMAIN list = 1..n
      /\ \A k \in 1..n : /\ list[k] \in Snaps /\ list[k].ts \in Nat
                         /\ RowOf(list[k]).ts = list[k].ts
                         /\ RowOf(list[k]).status = StatusInt[list[k].status]
                         /\ list[k].status \in DOMAIN StatusInt
  BY VectorIs
<1>2. ks \subseteq 1..n
  BY <1>1
<1>3. MemSnapshots(aged) /\ RowsOf(aged) = {RowOf(list[k]) : k \in ks}
  BY <1>2, ByChannelIs DEF MemAged
<1>4. policy.age \in Nat /\ policy.closed_age \in Nat /\ now \in Nat
  BY PolicyIs, BackendsAssumption
<1>5. \A k \in 1..n : MemKeeps(policy, now, list[k]) <=> RowOf(list[k]) \notin SqlAged(RowsOf(list), policy, now)
  <2>1. SUFFICES ASSUME NEW k \in 1..n
                 PROVE  MemKeeps(policy, now, list[k]) <=> RowOf(list[k]) \notin SqlAged(RowsOf(list), policy, now)
    OBVIOUS
  <2> DEFINE s == list[k]
             r == RowOf(list[k])
  <2>2. r \in RowsOf(list) /\ r.ts = s.ts /\ s.ts \in Nat /\ r.status = StatusInt[s.status] /\ s.status \in DOMAIN StatusInt
    BY <1>1 DEF RowsOf
  <2> HIDE DEF s, r
  <2>3. StatusIsClosed(s.status) <=> r.status \in {3, 4, 6, 7}
    BY <2>2, ChannelStatusCodes
  <2>4. r \in SqlAged(RowsOf(list), policy, now) <=>
          (\/ s.ts < now - policy.age /\ ~ StatusIsClosed(s.status)
           \/ s.ts < now - policy.closed_age /\ StatusIsClosed(s.status))
    BY <2>2, <2>3 DEF SqlAged
  <2>5. MemKeeps(policy, now, s) <=>
          (IF StatusIsClosed(s.status) THEN ~ (s.ts < now - policy.closed_age) ELSE ~ (s.ts < now - policy.age))
    BY <1>4, <2>2 DEF MemKeeps
  <2> QED
    BY <2>4, <2>5 DEF s, r
<1>6. {RowOf(list[k]) : k \in ks} = RowsOf(list) \ SqlAged(RowsOf(list), policy, now)
  <2>1. RowsOf(list) = {RowOf(list[k]) : k \in 1..n}
    BY <1>1 DEF RowsOf
  <2>2. \A k \in 1..n : k \in ks <=> RowOf(list[k]) \notin SqlAged(RowsOf(list), policy, now)
    BY <1>1, <1>5
  <2> HIDE DEF ks
  <2> QED
    BY <1>2, <2>1, <2>2
<1> QED
  BY <1>3, <1>6

\* A position has as many newer ones of its channel as its row has newer rows.
LEMMA NewerCounts ==
    ASSUME NEW list, MemSnapshots(list), NEW k \in 1..Len(list)
    PROVE  LET ks == OfChannel(list, list[k].channel)
           IN  Cardinality(Newer(RowsOf(list), RowOf(list[k]))) = Cardinality(Ahead(ks, FrontFirst(list, ks), k))
<1> DEFINE n == Len(list)
           ks == OfChannel(list, list[k].channel)
           D == Ahead(ks, FrontFirst(list, ks), k)
           N == Newer(RowsOf(list), RowOf(list[k]))
           fun == [j \in D |-> RowOf(list[j])]
<1>1. /\ n \in Nat /\ DOMAIN list = 1..n
      /\ \A j \in 1..n : list[j].ts \in Nat /\ RowOf(list[j]).channel = list[j].channel
                         /\ RowOf(list[j]).ts = list[j].ts /\ RowOf(list[j]) \in SqlSnaps
      /\ \A i, j \in 1..n : RowOf(list[i]) = RowOf(list[j]) => i = j
      /\ \A i, j \in 1..n : list[i].channel = list[j].channel /\ list[i].ts = list[j].ts => i = j
  BY VectorIs
<1>2. ks \subseteq 1..n /\ \A j \in 1..n : j \in ks <=> list[j].channel = list[k].channel
  BY <1>1 DEF OfChannel
<1>3. IsFiniteSet(ks) /\ \A i, j \in ks : <<i, j>> \in FrontFirst(list, ks) <=> NewerAt(list, i, j)
  BY <1>2, NewestIs
<1>4. k \in ks
  BY <1>2
<1> HIDE DEF ks
<1>5. \A j \in ks : j \in D <=> list[j].ts > list[k].ts
  <2>1. SUFFICES ASSUME NEW j \in ks PROVE j \in D <=> list[j].ts > list[k].ts
    OBVIOUS
  <2>2. j \in D <=> NewerAt(list, j, k)
    BY <1>3, <1>4 DEF Ahead
  <2>3. j \in 1..n /\ list[j].channel = list[k].channel
    BY <1>2
  <2>4. list[j].ts = list[k].ts => j = k
    BY <1>1, <2>3
  <2>5. j \in Nat /\ list[j].ts \in Nat
    BY <1>1, <2>3
  <2>6. ~ (list[j].ts = list[k].ts /\ j < k)
    BY <2>4, <2>5
  <2> QED
    BY <2>2, <2>6 DEF NewerAt
<1>6. D \subseteq ks
  BY DEF Ahead
<1>7. IsFiniteSet(D)
  BY <1>3, <1>6, PartIs
<1> HIDE DEF D, n
<1>8. fun \in [D -> SqlSnaps] /\ IsInjective(fun)
  BY <1>1, <1>2, <1>6 DEF IsInjective
<1>9. N = Range(fun)
  <2>1. RowsOf(list) = {RowOf(list[j]) : j \in 1..n}
    BY <1>1 DEF RowsOf
  <2>2. \A j \in D : RowOf(list[j]) \in N
    <3>1. SUFFICES ASSUME NEW j \in D PROVE RowOf(list[j]) \in N
      OBVIOUS
    <3>2. j \in 1..n /\ list[j].channel = list[k].channel /\ list[j].ts > list[k].ts /\ k \in 1..n
      BY <1>2, <1>4, <1>5, <1>6
    <3>3. RowOf(list[j]) \in RowsOf(list)
      BY <2>1, <3>2
    <3> QED
      BY <1>1, <3>2, <3>3 DEF Newer
  <2>3. \A r \in N : \E j \in D : r = RowOf(list[j])
    <3>1. SUFFICES ASSUME NEW r \in N PROVE \E j \in D : r = RowOf(list[j])
      OBVIOUS
    <3>2. r \in RowsOf(list) /\ r.channel = RowOf(list[k]).channel /\ r.ts > RowOf(list[k]).ts
      BY DEF Newer
    <3>3. PICK j \in 1..n : r = RowOf(list[j])
      BY <2>1, <3>2
    <3>4. k \in 1..n
      BY <1>2, <1>4
    <3>5. list[j].channel = list[k].channel /\ list[j].ts > list[k].ts
      BY <1>1, <3>2, <3>3, <3>4
    <3>6. j \in D
      BY <1>2, <1>5, <3>5
    <3> QED
      BY <3>3, <3>6
  <2> HIDE DEF N
  <2>4. \A r : r \in N <=> \E j \in D : r = fun[j]
    BY <2>2, <2>3
  <2>5. DOMAIN fun = D
    OBVIOUS
  <2> HIDE DEF fun
  <2> QED
    BY <2>4, <2>5 DEF Range
<1> HIDE DEF fun, N
<1>10. IsFiniteSet(Range(fun)) /\ Cardinality(Range(fun)) = Cardinality(D)
  BY <1>7, <1>8, OneToOne
<1> QED
  BY <1>9, <1>10 DEF D, N, ks

\* What is left of the channels above the cap: the same rows.
LEMMA CappedRows ==
    ASSUME NEW list, MemSnapshots(list), NEW policy \in Policies
    PROVE  LET capped == MemCapped(list, Channels, policy)
           IN  /\ MemSnapshots(capped)
               /\ policy.cap # 0 => RowsOf(capped) = RowsOf(list) \ SqlOverCap(RowsOf(list), policy)
<1> DEFINE n == Len(list)
           cap == policy.cap
           left(c) == Range(First(Newest(list, OfChannel(list, c)), cap))
           ks == UNION {left(c) : c \in Range(Channels)}
           capped == MemCapped(list, Channels, policy)
<1>1. /\ n \in Nat /\ DOMAIN list = 1..n
      /\ \A k \in 1..n : list[k].channel \in Range(Channels)
  BY VectorIs
<1>2. CASE cap = None
  <2>1. capped = list
    BY <1>2 DEF MemCapped
  <2>2. SqlOverCap(RowsOf(list), policy) = {}
    BY <1>2 DEF SqlOverCap
  <2> QED
    BY <2>1, <2>2
<1>3. CASE cap # None
  <2>1. cap \in Nat
    BY <1>3, PolicyIs
  <2>2. capped = Picked(list, ByChannel(list, Channels, ks))
    BY <1>3 DEF MemCapped
  <2>3. \A c : left(c) = {k \in OfChannel(list, c) :
                            Cardinality(Ahead(OfChannel(list, c), FrontFirst(list, OfChannel(list, c)), k)) < cap}
    <3>1. SUFFICES ASSUME NEW c
                   PROVE  left(c) = {k \in OfChannel(list, c) :
                             Cardinality(Ahead(OfChannel(list, c), FrontFirst(list, OfChannel(list, c)), k)) < cap}
      OBVIOUS
    <3> DEFINE S == OfChannel(list, c)
               before == FrontFirst(list, S)
    <3>2. S \subseteq 1..n
      BY <1>1 DEF OfChannel
    <3> HIDE DEF S
    <3>3. Newest(list, S) = Listed(S, before) /\ IsFiniteSet(S) /\ Linear(S, before)
      BY <3>2, NewestIs
    <3> HIDE DEF before, cap
    <3>4. Range(First(Listed(S, before), cap)) = {k \in S : Cardinality(Ahead(S, before, k)) < cap}
      BY <2>1, <3>3, FirstRanks
    <3> QED
      BY <3>3, <3>4 DEF S, before
  <2> HIDE DEF left
  <2>4. \A k : k \in ks <=> \E c \in Range(Channels) : k \in left(c)
    OBVIOUS
  <2> HIDE DEF ks
  <2>5. \A c : \A k \in OfChannel(list, c) : k \in 1..n /\ list[k].channel = c
    BY <1>1 DEF OfChannel
  <2>6. ks \subseteq 1..n
    BY <2>3, <2>4, <2>5
  <2>7. \A k \in 1..n : k \in ks <=> Cardinality(Newer(RowsOf(list), RowOf(list[k]))) < cap
    <3>1. SUFFICES ASSUME NEW k \in 1..n
                   PROVE  k \in ks <=> Cardinality(Newer(RowsOf(list), RowOf(list[k]))) < cap
      OBVIOUS
    <3> DEFINE c == list[k].channel
               S == OfChannel(list, c)
    <3>2. k \in S /\ c \in Range(Channels)
      BY <1>1 DEF OfChannel
    <3>3. Cardinality(Newer(RowsOf(list), RowOf(list[k]))) = Cardinality(Ahead(S, FrontFirst(list, S), k))
      BY NewerCounts
    <3>4. k \in left(c) <=> Cardinality(Ahead(S, FrontFirst(list, S), k)) < cap
      BY <2>3, <3>2
    <3>5. \A d : k \in left(d) => d = c
      BY <2>3, <2>5
    <3> HIDE DEF S, c
    <3>6. k \in ks <=> k \in left(c)
      BY <2>4, <3>2, <3>5
    <3> QED
      BY <3>3, <3>4, <3>6
  <2>8. MemSnapshots(capped) /\ RowsOf(capped) = {RowOf(list[k]) : k \in ks}
    BY <2>2, <2>6, ByChannelIs
  <2>9. ASSUME cap # 0 PROVE {RowOf(list[k]) : k \in ks} = RowsOf(list) \ SqlOverCap(RowsOf(list), policy)
    <3>1. RowsOf(list) = {RowOf(list[k]) : k \in 1..n}
      BY <1>1 DEF RowsOf
    <3>2. \A k \in 1..n : k \in ks <=> RowOf(list[k]) \notin SqlOverCap(RowsOf(list), policy)
      <4>1. SUFFICES ASSUME NEW k \in 1..n
                     PROVE  k \in ks <=> RowOf(list[k]) \notin SqlOverCap(RowsOf(list), policy)
        OBVIOUS
      <4> DEFINE r == RowOf(list[k])
                 N == Newer(RowsOf(list), r)
      <4>2. r \in RowsOf(list)
        BY <3>1
      <4>3. Cardinality(N) \in Nat
        <5>1. N \subseteq RowsOf(list) /\ IsFiniteSet(RowsOf(list))
          BY RowsOfIs DEF Newer, SqlSnapshots
        <5> QED
          BY <5>1, PartIs
      <4>4. r \in SqlOverCap(RowsOf(list), policy) <=> Cardinality(N) >= cap
        BY <1>3, <2>9, <4>2 DEF SqlOverCap
      <4>5. k \in ks <=> Cardinality(N) < cap
        BY <2>7
      <4> HIDE DEF N, cap
      <4> QED
        BY <2>1, <4>3, <4>4, <4>5
    <3> QED
      BY <2>6, <3>1, <3>2
  <2> HIDE DEF capped, cap
  <2> QED
    BY <2>8, <2>9 DEF cap, capped
<1> QED
  BY <1>2, <1>3

\* What is left of all above the total: rows between those that have fewer
\* than the total above them and those the total allows are these.
LEMMA TotalRows ==
    ASSUME NEW list, MemSnapshots(list), NEW total \in Nat
    PROVE  LET top == First(Picked(list, Newest(list, DOMAIN list)), total)
           IN  /\ MemSnapshots(top)
               /\ \A rows : /\ {r \in RowsOf(list) : Cardinality(Above(RowsOf(list), r)) < total} \subseteq rows
                            /\ rows \subseteq RowsOf(list)
                            /\ Cardinality(rows) <= total
                            => rows = RowsOf(top)
<1> DEFINE n == Len(list)
           ks == DOMAIN list
           before == FrontFirst(list, ks)
           newest == Newest(list, ks)
           order == First(newest, total)
           all == Picked(list, newest)
           top == First(all, total)
           m == IF total <= n THEN total ELSE n
           R == RowsOf(list)
<1>1. /\ n \in Nat /\ ks = 1..n
      /\ \A j \in 1..n : list[j].ts \in Nat /\ RowOf(list[j]).ts = list[j].ts
  BY VectorIs
<1>2. /\ newest = Listed(ks, before) /\ IsFiniteSet(ks) /\ Linear(ks, before)
      /\ \A j, k \in ks : <<j, k>> \in before <=> NewerAt(list, j, k)
  BY <1>1, NewestIs
<1>3. IsFiniteSet(1..n) /\ Cardinality(ks) = n
  <2>1. n \in Nat
    BY <1>1
  <2> HIDE DEF n
  <2>2. IsFiniteSet(1..n) /\ Cardinality(1..n) = n
    BY <2>1, FS_Interval
  <2> QED
    BY <1>1, <2>2
<1>4. newest \in Seq(ks) /\ Len(newest) = n
  <2>1. Strict(ks, before)
    BY <1>2 DEF Linear
  <2> HIDE DEF ks, before, newest
  <2> QED
    BY <1>2, <1>3, <2>1, ListedIs
<1> HIDE DEF ks, before, newest
<1>5. /\ Range(order) = {k \in ks : Cardinality(Ahead(ks, before, k)) < total}
      /\ order \in Seq(ks) /\ IsInjective(order) /\ Len(order) = m
  <2>1. /\ Range(First(Listed(ks, before), total)) = {k \in ks : Cardinality(Ahead(ks, before, k)) < total}
        /\ First(Listed(ks, before), total) \in Seq(ks)
        /\ IsInjective(First(Listed(ks, before), total))
        /\ Len(First(Listed(ks, before), total)) = IF total <= Cardinality(ks) THEN total ELSE Cardinality(ks)
    BY <1>2, FirstRanks
  <2> QED
    BY <1>2, <1>3, <2>1
<1>6. top = Picked(list, order)
  <2>1. \A k \in 1..m : order[k] = newest[k]
    BY <1>4, <1>5, FirstIs
  <2>2. \A k \in 1..n : newest[k] \in 1..n
    BY <1>1, <1>4
  <2>3. all = [k \in 1..n |-> list[newest[k]]]
    BY <1>4 DEF Picked
  <2>4. all \in Seq(Snaps) /\ Len(all) = n
    <3>1. \A k \in 1..n : list[k] \in Snaps
      BY VectorIs
    <3> HIDE DEF all, n
    <3> QED
      BY <1>1, <2>2, <2>3, <3>1
  <2> HIDE DEF all
  <2>5. top \in Seq(Snaps) /\ Len(top) = m /\ \A k \in 1..m : top[k] = all[k]
    <3> HIDE DEF n
    <3> QED
      BY <1>1, <2>4, FirstIs
  <2>6. \A k \in 1..m : k \in 1..n
    <3> HIDE DEF n
    <3> QED
      BY <1>1
  <2> HIDE DEF top, order, m
  <2>7. top = [k \in 1..m |-> top[k]]
    BY <2>5
  <2>8. Picked(list, order) = [k \in 1..m |-> list[order[k]]]
    BY <1>5 DEF Picked
  <2>9. \A k \in 1..m : top[k] = list[order[k]]
    BY <2>1, <2>3, <2>5, <2>6
  <2> QED
    BY <2>7, <2>8, <2>9
<1> HIDE DEF order, top, m
<1>7. MemSnapshots(top) /\ Len(top) = m /\ RowsOf(top) = {RowOf(list[k]) : k \in Range(order)}
  <2>1. order \in Seq(1..Len(list))
    BY <1>1, <1>5
  <2> QED
    BY <1>5, <1>6, <2>1, PickedIs
<1>8. SqlSnapshots(RowsOf(top)) /\ Cardinality(RowsOf(top)) = m
  BY <1>7, RowsOfIs
<1>9. IsFiniteSet(R) /\ Cardinality(R) = n
  BY RowsOfIs DEF SqlSnapshots
<1>10. R = {RowOf(list[k]) : k \in 1..n}
  BY <1>1 DEF RowsOf
<1> HIDE DEF R
<1>11. \A k \in Range(order) : RowOf(list[k]) \in R /\ Cardinality(Above(R, RowOf(list[k]))) < total
  <2>1. SUFFICES ASSUME NEW k \in Range(order)
                 PROVE  RowOf(list[k]) \in R /\ Cardinality(Above(R, RowOf(list[k]))) < total
    OBVIOUS
  <2> DEFINE D == Ahead(ks, before, k)
             fun == [j \in D |-> RowOf(list[j])]
             T == {fun[j] : j \in D}
  <2>2. k \in 1..n /\ k \in ks /\ Cardinality(D) < total
    BY <1>1, <1>5
  <2>3. D \subseteq ks /\ \A j \in ks : NewerAt(list, j, k) => j \in D
    BY <1>2, <2>2 DEF Ahead
  <2>4. IsFiniteSet(D) /\ Cardinality(D) \in Nat
    BY <1>2, <2>3, PartIs
  <2>5. Above(R, RowOf(list[k])) \subseteq T
    <3>1. SUFFICES ASSUME NEW r \in R, r.ts > RowOf(list[k]).ts PROVE \E j \in D : r = RowOf(list[j])
      BY DEF Above
    <3>2. PICK j \in 1..n : r = RowOf(list[j])
      BY <1>10
    <3>3. NewerAt(list, j, k)
      BY <1>1, <2>2, <3>1, <3>2 DEF NewerAt
    <3> QED
      BY <1>1, <2>3, <3>2, <3>3
  <2> HIDE DEF D
  <2>6. fun \in [D -> {RowOf(list[j]) : j \in D}]
    OBVIOUS
  <2> HIDE DEF fun
  <2>7. IsFiniteSet(T) /\ Cardinality(T) <= Cardinality(D)
    BY <2>4, <2>6, ImageIs
  <2> HIDE DEF T
  <2>8. Cardinality(Above(R, RowOf(list[k]))) \in Nat /\ Cardinality(T) \in Nat
        /\ Cardinality(Above(R, RowOf(list[k]))) <= Cardinality(T)
    BY <2>5, <2>7, PartIs
  <2>9. Cardinality(Above(R, RowOf(list[k]))) < total
    BY <2>2, <2>4, <2>7, <2>8
  <2> QED
    BY <1>10, <2>2, <2>9
<1>12. RowsOf(top) \subseteq {r \in R : Cardinality(Above(R, r)) < total}
  BY <1>7, <1>11
<1>13. ASSUME NEW rows, {r \in R : Cardinality(Above(R, r)) < total} \subseteq rows,
              rows \subseteq R, Cardinality(rows) <= total
       PROVE  rows = RowsOf(top)
  <2>1. RowsOf(top) \subseteq rows
    BY <1>12, <1>13
  <2>2. IsFiniteSet(rows) /\ Cardinality(rows) \in Nat /\ Cardinality(rows) <= n
    BY <1>9, <1>13, PartIs
  <2>3. Cardinality(RowsOf(top)) \in Nat /\ Cardinality(RowsOf(top)) <= Cardinality(rows)
        /\ (Cardinality(rows) = Cardinality(RowsOf(top)) => rows = RowsOf(top))
    BY <2>1, <2>2, PartIs
  <2>4. Cardinality(rows) <= m
    BY <1>13, <2>2 DEF m
  <2> QED
    BY <1>8, <2>2, <2>3, <2>4
<1> QED
  BY <1>7, <1>13 DEF top, R, ks, newest

\* What MemoryStorage keeps of its snapshots is a vector of them.
LEMMA PrunedIs ==
    ASSUME NEW list, MemSnapshots(list), NEW policy \in Policies, NEW now \in SnapTimes
    PROVE  MemSnapshots(MemPrune(list, Channels, policy, now))
<1> DEFINE aged == MemAged(list, Channels, policy, now)
           kept == MemCapped(aged, Channels, policy)
<1>1. MemSnapshots(aged)
  BY AgedRows
<1> HIDE DEF aged
<1>2. MemSnapshots(kept)
  BY <1>1, CappedRows
<1>3. MemPrune(list, Channels, policy, now) =
         IF policy.total = None THEN kept ELSE First(Picked(kept, Newest(kept, DOMAIN kept)), policy.total)
  BY DEF MemPrune, aged
<1> HIDE DEF kept
<1>4. CASE policy.total = None
  BY <1>2, <1>3, <1>4
<1>5. CASE policy.total # None
  <2>1. policy.total \in Nat
    BY <1>5, PolicyIs
  <2>2. MemSnapshots(First(Picked(kept, Newest(kept, DOMAIN kept)), policy.total))
    BY <1>2, <2>1, TotalRows
  <2> QED
    BY <1>3, <1>5, <2>2
<1> QED
  BY <1>4, <1>5

\* At the end of a pass both keep the same, unless a cap cut through a tie or
\* is zero.
LEMMA PassEnds ==
    ASSUME NEW p, IsPass(p), p.stage = "total", NEW list, NEW rows, NEW seen,
           SnapsR(list, p.before, seen), seen \cap {"nested", "replaced"} = {},
           PassR(p, rows, seen), SqlOverTotal(rows, p.policy) = {}
    PROVE  SnapsR(MemPrune(list, Channels, p.policy, p.now), rows,
                  seen \cup {"pruned"} \cup (IF 0 \in {p.policy.cap, p.policy.total} THEN {"zero_cap"} ELSE {}))
<1> DEFINE policy == p.policy
           aged == MemAged(list, Channels, policy, p.now)
           kept == MemCapped(aged, Channels, policy)
           pruned == MemPrune(list, Channels, policy, p.now)
           later == seen \cup {"pruned"} \cup (IF 0 \in {policy.cap, policy.total} THEN {"zero_cap"} ELSE {})
           top == First(Picked(kept, Newest(kept, DOMAIN kept)), policy.total)
<1>1. policy \in Policies /\ p.now \in SnapTimes /\ MemSnapshots(list)
  BY DEF IsPass, SnapsR
<1>2. MemSnapshots(aged) /\ RowsOf(aged) = RowsOf(list) \ SqlAged(RowsOf(list), policy, p.now)
  <2> HIDE DEF policy
  <2> QED
    BY <1>1, AgedRows
<1>3. /\ MemSnapshots(kept)
      /\ policy.cap # 0 => RowsOf(kept) = RowsOf(aged) \ SqlOverCap(RowsOf(aged), policy)
  <2> HIDE DEF policy, aged
  <2> QED
    BY <1>1, <1>2, CappedRows
<1>4. pruned = IF policy.total = None THEN kept ELSE top
  BY DEF MemPrune
<1>5. policy.total = None \/ policy.total \in Nat
  BY <1>1, PolicyIs
<1>6. SqlSnapshots(rows)
  <2>1. rows \subseteq p.before
    BY DEF PassR
  <2>2. /\ p.before \subseteq SqlSnaps /\ IsFiniteSet(p.before) /\ Cardinality(p.before) <= MaxSnapshots
        /\ \A r, s \in p.before : r.channel = s.channel /\ r.ts = s.ts => r = s
    BY DEF IsPass, SqlSnapshots
  <2>3. IsFiniteSet(rows) /\ Cardinality(rows) <= Cardinality(p.before)
        /\ Cardinality(rows) \in Nat /\ Cardinality(p.before) \in Nat
    BY <2>1, <2>2, PartIs
  <2>4. Cardinality(rows) <= MaxSnapshots
    BY <2>2, <2>3, BackendsAssumption
  <2> QED
    BY <2>1, <2>2, <2>3, <2>4 DEF SqlSnapshots
<1> HIDE DEF aged, kept, pruned
<1>7. policy.total \in Nat =>
        /\ MemSnapshots(top)
        /\ \A cur : /\ {r \in RowsOf(kept) : Cardinality(Above(RowsOf(kept), r)) < policy.total} \subseteq cur
                    /\ cur \subseteq RowsOf(kept)
                    /\ Cardinality(cur) <= policy.total
                    => cur = RowsOf(top)
  <2> DEFINE total == policy.total
  <2>1. ASSUME total \in Nat
        PROVE  /\ MemSnapshots(First(Picked(kept, Newest(kept, DOMAIN kept)), total))
               /\ \A cur : /\ {r \in RowsOf(kept) : Cardinality(Above(RowsOf(kept), r)) < total} \subseteq cur
                           /\ cur \subseteq RowsOf(kept)
                           /\ Cardinality(cur) <= total
                           => cur = RowsOf(First(Picked(kept, Newest(kept, DOMAIN kept)), total))
    <3> HIDE DEF total
    <3> QED
      BY <1>3, <2>1, TotalRows
  <2> QED
    BY <2>1
<1> HIDE DEF top
<1>8. MemSnapshots(pruned)
  BY <1>3, <1>4, <1>5, <1>7
<1>9. ASSUME later \cap {"tie", "zero_cap", "nested", "replaced"} = {} PROVE rows = RowsOf(pruned)
  <2>1. /\ "tie" \notin seen /\ "zero_cap" \notin seen /\ policy.cap # 0 /\ policy.total # 0
    <3>1. 0 \notin {policy.cap, policy.total}
      <4>1. CASE 0 \in {policy.cap, policy.total}
        <5>1. "zero_cap" \in later
          BY <4>1
        <5> HIDE DEF later
        <5> QED
          BY <1>9, <5>1
      <4> QED
        BY <4>1
    <3>2. seen \subseteq later
      OBVIOUS
    <3> HIDE DEF later, policy
    <3> QED
      BY <1>9, <3>1, <3>2
  <2>2. p.before = RowsOf(list)
    BY <2>1 DEF SnapsR
  <2>3. KeptByAge(p) = RowsOf(aged)
    BY <1>2, <2>2 DEF KeptByAge
  <2>4. KeptByCap(p) = RowsOf(kept)
    BY <1>3, <2>1, <2>3 DEF KeptByCap
  <2>5. KeptByTotal(p) \subseteq rows /\ rows \subseteq KeptByCap(p)
    BY <2>1 DEF PassR
  <2>6. CASE policy.total = None
    <3>1. KeptByTotal(p) = KeptByCap(p)
      BY <2>6 DEF KeptByTotal
    <3> QED
      BY <1>4, <2>4, <2>5, <2>6, <3>1
  <2>7. CASE policy.total # None
    <3>1. policy.total \in Nat
      BY <1>5, <2>7
    <3>2. Cardinality(rows) <= policy.total
      <4>1. policy.total # None /\ policy.total # 0 /\ SqlOverTotal(rows, policy) = {}
        BY <2>1, <2>7
      <4> HIDE DEF policy
      <4> QED
        BY <1>1, <1>6, <4>1, TotalEnds
    <3>3. {r \in RowsOf(kept) : Cardinality(Above(RowsOf(kept), r)) < policy.total} \subseteq rows
      BY <2>4, <2>5 DEF KeptByTotal
    <3>4. rows = RowsOf(top)
      BY <1>7, <2>4, <2>5, <3>1, <3>2, <3>3
    <3> QED
      BY <1>4, <2>7, <3>4
  <2> QED
    BY <2>6, <2>7
<1>10. later # {}
  OBVIOUS
<1> HIDE DEF later
<1>11. SnapsR(pruned, rows, later)
  BY <1>6, <1>8, <1>9, <1>10 DEF SnapsR, MemSnapshots
<1> QED
  BY <1>11 DEF pruned, later, policy

\* SnapshotsAgree, of the tables.
LEMMA SnapshotsShown ==
    ASSUME NEW list, NEW rows, NEW seen, SnapsR(list, rows, seen),
           seen \cap {"tie", "zero_cap", "nested", "replaced"} = {}
    PROVE  /\ \A c, ts : MemSnapshotAt(list, c, ts) = SqlSnapshotAt(rows, c, ts)
           /\ Len(list) = Cardinality(rows)
<1>1. MemSnapshots(list) /\ rows = RowsOf(list)
  BY DEF SnapsR
<1>2. Len(list) = Cardinality(rows)
  BY <1>1, RowsOfIs
<1>3. \A s \in Snaps : RowToSnapshot(RowOf(s)) = s /\ RowOf(s).channel = s.channel /\ RowOf(s).ts = s.ts
  BY RowOfIs
<1>4. Range(list) \subseteq Snaps /\ rows = {RowOf(s) : s \in Range(list)}
  <2>1. DOMAIN list = 1..Len(list) /\ \A k \in 1..Len(list) : list[k] \in Snaps
    BY <1>1, VectorIs
  <2> QED
    BY <1>1, <2>1 DEF RowsOf, Range
<1>5. ASSUME NEW c, NEW ts PROVE MemSnapshotAt(list, c, ts) = SqlSnapshotAt(rows, c, ts)
  <2> DEFINE M == Range(list)
             mine == {x \in rows : x.channel = c /\ x.ts = ts}
  <2> HIDE DEF M
  <2>1. M \subseteq Snaps /\ rows = {RowOf(s) : s \in M}
    BY <1>4 DEF M
  <2>2. mine = {RowOf(s) : s \in {x \in M : x.channel = c /\ x.ts = ts}}
    BY <1>3, <2>1
  <2>3. {RowToSnapshot(r) : r \in mine} = {s \in M : s.channel = c /\ s.ts = ts}
    <3> HIDE DEF mine
    <3>1. \A r \in mine : RowToSnapshot(r) \in {s \in M : s.channel = c /\ s.ts = ts}
      BY <1>3, <2>1, <2>2
    <3>2. \A s \in M : s.channel = c /\ s.ts = ts => RowOf(s) \in mine /\ RowToSnapshot(RowOf(s)) = s
      BY <1>3, <2>1, <2>2
    <3> QED
      BY <3>1, <3>2
  <2> QED
    BY <2>3 DEF MemSnapshotAt, SqlSnapshotAt, M
<1> QED
  BY <1>2, <1>5

\* Snapshots at positions with rising times, newest first.
LEMMA RisingIsLinear ==
    ASSUME NEW list, MemSnapshots(list), NEW ks, ks \subseteq 1..Len(list),
           NEW S, \A x \in S : \E k \in ks : x = list[k],
           \A j, k \in ks : j < k => list[j].ts < list[k].ts
    PROVE  Linear(S, LatestFirst(S)) /\ \A x, y \in S : <<x, y>> \in LatestFirst(S) <=> x.ts > y.ts
<1>1. \A k \in ks : k \in Nat /\ list[k].ts \in Nat
  BY VectorIs
<1>2. \A x, y \in S : <<x, y>> \in LatestFirst(S) <=> x.ts > y.ts
  BY DEF LatestFirst
<1>3. \A x \in S : x.ts \in Nat
  BY <1>1
<1>4. Strict(S, LatestFirst(S))
  BY <1>2, <1>3 DEF Strict
<1>5. \A x, y \in S : x = y \/ <<x, y>> \in LatestFirst(S) \/ <<y, x>> \in LatestFirst(S)
  <2>1. SUFFICES ASSUME NEW x \in S, NEW y \in S, x # y
                 PROVE  x.ts > y.ts \/ y.ts > x.ts
    BY <1>2
  <2>2. PICK j \in ks : x = list[j]
    OBVIOUS
  <2>3. PICK k \in ks : y = list[k]
    OBVIOUS
  <2>4. j < k \/ k < j
    BY <1>1, <2>1, <2>2, <2>3
  <2>5. list[j].ts < list[k].ts \/ list[k].ts < list[j].ts
    BY <2>4
  <2> QED
    BY <1>1, <2>2, <2>3, <2>5
<1> QED
  BY <1>2, <1>4, <1>5 DEF Linear

\* HistoryAgrees, of the tables.
LEMMA HistoryShown ==
    ASSUME NEW list, NEW rows, SnapsR(list, rows, {})
    PROVE  /\ \A c, limit : MemRecent(list, c, limit) = SqlRecent(rows, c, limit)
           /\ (\A j, k \in DOMAIN list : j < k => list[j].ts < list[k].ts) =>
                 \A limit : MemRecentAll(list, limit) = SqlRecentAll(rows, limit)
<1> DEFINE n == Len(list)
<1>1. MemSnapshots(list) /\ rows = RowsOf(list) /\ Ascending(list)
  BY DEF SnapsR
<1>2. /\ list \in Seq(Snaps) /\ n \in Nat /\ DOMAIN list = 1..n
      /\ \A k \in 1..n : list[k] \in Snaps /\ RowOf(list[k]).channel = list[k].channel
  BY <1>1, VectorIs
<1>3. \A k \in 1..n : RowToSnapshot(RowOf(list[k])) = list[k]
  BY <1>2, RowOfIs
<1>4. rows = {RowOf(list[k]) : k \in 1..n}
  BY <1>1, <1>2 DEF RowsOf
<1> HIDE DEF n
<1>5. ASSUME NEW c, NEW limit PROVE MemRecent(list, c, limit) = SqlRecent(rows, c, limit)
  <2> DEFINE ks == OfChannel(list, c)
             mine == {x \in rows : x.channel = c}
             S == {RowToSnapshot(r) : r \in mine}
             before == LatestFirst(S)
  <2>1. ks \in SUBSET (1..n) /\ \A k \in 1..n : k \in ks <=> list[k].channel = c
    BY <1>2 DEF OfChannel
  <2>2. \A j, k \in ks : j < k => list[j].ts < list[k].ts
    BY <1>1, <1>2, <2>1 DEF Ascending
  <2>3. mine = {RowOf(list[k]) : k \in ks}
    <3> HIDE DEF ks
    <3> QED
      BY <1>2, <1>4, <2>1
  <2>4. S = {list[k] : k \in ks}
    <3> HIDE DEF mine, ks
    <3>1. \A r \in mine : \E k \in ks : RowToSnapshot(r) = list[k]
      BY <1>3, <2>1, <2>3
    <3>2. \A k \in ks : RowOf(list[k]) \in mine /\ RowToSnapshot(RowOf(list[k])) = list[k]
      BY <1>3, <2>1, <2>3
    <3> QED
      BY <3>1, <3>2
  <2>5. SqlRecent(rows, c, limit) = First(Listed(S, before), limit)
    BY DEF SqlRecent, NewestFirst, LatestFirst
  <2> HIDE DEF ks, S
  <2>6. Linear(S, before) /\ \A x, y \in S : <<x, y>> \in before <=> x.ts > y.ts
    <3>1. /\ ks \subseteq 1..Len(list)
          /\ \A x \in S : \E k \in ks : x = list[k]
      BY <2>1, <2>4 DEF n
    <3> QED
      BY <1>1, <2>2, <3>1, RisingIsLinear
  <2> HIDE DEF before
  <2>7. Falls(list, ks, S, before)
    <3>1. \A j, k \in ks : j < k => <<list[k], list[j]>> \in before
      <4>1. SUFFICES ASSUME NEW j \in ks, NEW k \in ks, j < k PROVE <<list[k], list[j]>> \in before
        OBVIOUS
      <4>2. list[j] \in S /\ list[k] \in S /\ list[j].ts < list[k].ts
        BY <2>2, <2>4, <4>1
      <4>3. list[k].ts > list[j].ts
        BY <4>2
      <4> QED
        BY <2>6, <4>2, <4>3
    <3> QED
      BY <2>4, <3>1 DEF Falls
  <2>8. LastFirst(list, ks) = Listed(S, before)
    BY <1>2, <2>1, <2>6, <2>7, LastFirstIsListed
  <2> QED
    BY <2>5, <2>8 DEF MemRecent, ks
<1>6. ASSUME \A j, k \in DOMAIN list : j < k => list[j].ts < list[k].ts, NEW limit
      PROVE  MemRecentAll(list, limit) = SqlRecentAll(rows, limit)
  <2> DEFINE S == {RowToSnapshot(r) : r \in rows}
             before == LatestFirst(S)
  <2>1. S = {list[k] : k \in 1..n}
    BY <1>3, <1>4
  <2>2. SqlRecentAll(rows, limit) = First(Listed(S, before), limit)
    BY DEF SqlRecentAll, NewestFirst, LatestFirst
  <2> HIDE DEF S
  <2>3. Linear(S, before) /\ \A x, y \in S : <<x, y>> \in before <=> x.ts > y.ts
    <3>1. /\ 1..n \subseteq 1..Len(list)
          /\ \A x \in S : \E k \in 1..n : x = list[k]
          /\ \A j, k \in 1..n : j < k => list[j].ts < list[k].ts
      BY <1>2, <1>6, <2>1 DEF n
    <3> QED
      BY <1>1, <3>1, RisingIsLinear
  <2> HIDE DEF before
  <2>4. Reverse(list) = Listed(S, before)
    <3>1. list \in Seq(S)
      <4>1. \A k \in 1..n : list[k] \in S
        BY <2>1
      <4> QED
        BY <1>2, <4>1 DEF n
    <3>2. \A x \in S : \E k \in 1..Len(list) : list[k] = x
      BY <2>1 DEF n
    <3>3. \A j, k \in 1..Len(list) : j < k => <<list[k], list[j]>> \in before
      <4>1. SUFFICES ASSUME NEW j \in 1..n, NEW k \in 1..n, j < k PROVE <<list[k], list[j]>> \in before
        BY DEF n
      <4>2. list[j] \in S /\ list[k] \in S /\ list[j].ts < list[k].ts
        BY <1>2, <1>6, <2>1, <4>1
      <4>3. list[k].ts > list[j].ts
        BY <4>2
      <4> QED
        BY <2>3, <4>2, <4>3
    <3> QED
      BY <2>3, <3>1, <3>2, <3>3, ReverseIsListed
  <2> QED
    BY <2>2, <2>4 DEF MemRecentAll
<1> QED
  BY <1>5, <1>6

-----------------------------------------------------------------------------
(* The inductive invariant.                                                *)

\* More differences noted and more findings skewed leave less to keep, of all tables.
LEMMA RelatedWeakens ==
    ASSUME NEW m, NEW q, NEW seen, NEW more, seen \subseteq more, NEW gap, NEW wider, gap \subseteq wider,
           Related(m, q, seen, gap)
    PROVE  Related(m, q, more, wider)
<1>1. MemTables(m) /\ SqlTables(q)
  BY DEF Related
<1>2. FindingsR(m.findings, q.findings, wider)
  BY FindingsWeaken DEF Related
<1>3. AdviceR(m.advice, q.advice, more, wider)
  BY AdviceWeaken DEF Related
<1>4. RunsR(m.runs, m.sims, q.runs, more)
  BY RunsWeaken DEF Related
<1>5. EventsR(m.events, q.events, q.runs, more)
  <2>1. EventsR(m.events, q.events, q.runs, seen)
    BY DEF Related
  <2> QED
    BY <2>1, EventsWeaken
<1>6. QueueR(m.queue, m.seen, q.queue, q.seen, more)
  BY QueueWeaken DEF Related
<1>7. StateR(m.state, q.state) /\ AlertR(m.alert, q.alert) /\ AuditR(m.audit, q.audit, more)
  BY DEF Related, AuditR
<1> QED
  BY <1>1, <1>2, <1>3, <1>4, <1>5, <1>6, <1>7 DEF Related

\* Both storages start empty, with the default rows of state.
LEMMA Start == Init => IInv
<1>1. SUFFICES ASSUME Init PROVE IInv
  OBVIOUS
<1>2. MaxTxCalls \in Nat
  BY BackendsAssumption
<1>3. result = Agreed
  BY <1>1 DEF Init
<1>4. ResultsAgree
  BY <1>3 DEF ResultsAgree, Agreed
<1>5. ControlInv
  BY <1>1, <1>2, <1>4 DEF Init, ControlInv
<1>6. /\ mem = [findings |-> EmptyMemFindings, advice |-> EmptyAdvice, snaps |-> <<>>, runs |-> <<>>,
              sims |-> <<>>, events |-> <<>>, queue |-> <<>>, seen |-> <<>>, state |-> DefaultState, alert |-> NoAlert, audit |-> <<>>]
      /\ sql = [findings |-> EmptySqlFindings, advice |-> EmptyAdvice, snaps |-> {}, runs |-> {},
              events |-> {}, queue |-> <<>>, seen |-> {}, state |-> NoRow, alert |-> SqlWriteAlert(NoAlert), audit |-> <<>>]
  BY <1>1 DEF Init
<1>7. MemTables(mem) /\ SqlTables(sql)
  BY <1>6 DEF MemTables, SqlTables
<1>8. /\ mem.findings = EmptyMemFindings /\ mem.advice = EmptyAdvice /\ mem.snaps = <<>> /\ mem.runs = <<>>
      /\ mem.sims = <<>> /\ mem.events = <<>> /\ mem.queue = <<>> /\ mem.seen = <<>>
      /\ mem.state = DefaultState /\ mem.alert = NoAlert /\ mem.audit = <<>>
  BY <1>6
<1>9. /\ sql.findings = EmptySqlFindings /\ sql.advice = EmptyAdvice /\ sql.snaps = {} /\ sql.runs = {}
      /\ sql.events = {} /\ sql.queue = <<>> /\ sql.seen = {}
      /\ sql.state = NoRow /\ sql.alert = SqlWriteAlert(NoAlert) /\ sql.audit = <<>>
  BY <1>6
<1>10. Related(mem, sql, noted, skewed)
  <2>1. FindingsR(mem.findings, sql.findings, skewed)
    BY <1>8, <1>9, FindingsStart
  <2>2. AdviceR(mem.advice, sql.advice, noted, skewed)
    BY <1>8, <1>9, AdviceStart
  <2>3. RunsR(mem.runs, mem.sims, sql.runs, noted)
    BY <1>8, <1>9, RunsStart
  <2>4. EventsR(mem.events, sql.events, sql.runs, noted)
    BY <1>8, <1>9, EventsStart
  <2>5. QueueR(mem.queue, mem.seen, sql.queue, sql.seen, noted)
    BY <1>8, <1>9, QueueStart
  <2>6. StateR(mem.state, sql.state)
    BY <1>8, <1>9, StateStart
  <2>7. AlertR(mem.alert, sql.alert)
    <3>1. NoAlert \in AlertStates(Times) \cup {NoAlert}
      OBVIOUS
    <3> QED
      BY <1>8, <1>9, <3>1, AlertWritten
  <2>8. AuditR(mem.audit, sql.audit, noted)
    BY <1>8, <1>9, AuditStart
  <2> QED
    BY <1>7, <2>1, <2>2, <2>3, <2>4, <2>5, <2>6, <2>7, <2>8 DEF Related
<1>11. SnapsInv
  <2>1. SnapsR(mem.snaps, sql.snaps, noted)
    BY <1>8, <1>9, SnapsStart
  <2> QED
    BY <1>1, <2>1 DEF Init, SnapsInv
<1>12. SavedInv
  BY <1>1 DEF Init, SavedInv
<1> QED
  BY <1>5, <1>10, <1>11, <1>12 DEF IInv

\* A call that both accept or both refuse, or one that SqliteStorage alone refuses.
LEMMA CalledIs ==
    ASSUME NEW call, NEW a \in BOOLEAN, NEW b \in BOOLEAN, Called(call, a, b),
           a # b => a /\ call \in RefusedBySqlite
    PROVE  ResultsAgree'
<1>1. CASE a = b
  <2>1. result' = Agreed
    BY <1>1 DEF Called
  <2> QED
    BY <2>1 DEF ResultsAgree, Agreed
<1>2. CASE a # b
  <2>1. result' = [call |-> call, mem |-> a, sql |-> b]
    BY <1>2 DEF Called
  <2>2. result'.call = call /\ result'.mem = a
    BY <2>1
  <2>3. a /\ call \in RefusedBySqlite
    BY <1>2
  <2> QED
    BY <2>2, <2>3 DEF ResultsAgree
<1> QED
  BY <1>1, <1>2

\* What a call leaves alone.
LEMMA QuietStep ==
    ASSUME IInv, MayCall, Quiet, ResultsAgree',
           noted \subseteq noted', noted' \subseteq Differences, skewed' \subseteq FindingIds
    PROVE  /\ ControlInv' /\ SavedInv'
           /\ SnapsR(mem'.snaps, sql'.snaps, noted') => SnapsInv'
           /\ SnapsR(mem.snaps, sql.snaps, noted)
<1>1. pass = NoPass /\ pass' = NoPass /\ saved' = saved /\ focus' = focus
  BY DEF MayCall, Quiet
<1>2. SnapsR(mem.snaps, sql.snaps, noted)
  BY <1>1 DEF IInv, SnapsInv
<1>3. SnapsR(mem'.snaps, sql'.snaps, noted') => SnapsInv'
  BY <1>1 DEF SnapsInv
<1>4. SavedInv'
  <2>1. CASE saved = NoTx
    BY <1>1, <2>1 DEF SavedInv
  <2>2. CASE saved # NoTx
    <3>1. /\ saved = [open |-> TRUE, mem |-> saved.mem, sql |-> saved.sql]
          /\ Related(saved.mem, saved.sql, noted, {})
          /\ SnapsR(saved.mem.snaps, saved.sql.snaps, noted)
      BY <2>2 DEF IInv, SavedInv
    <3>2. Related(saved.mem, saved.sql, noted', {})
      BY <3>1, RelatedWeakens
    <3>3. SnapsR(saved.mem.snaps, saved.sql.snaps, noted')
      BY <3>1, SnapsWeaken
    <3> QED
      BY <1>1, <3>1, <3>2, <3>3 DEF SavedInv
  <2> QED
    BY <2>1, <2>2
<1>5. calls' \in 0..MaxTxCalls
  <2>1. calls \in 0..MaxTxCalls /\ MaxTxCalls \in Nat
    BY BackendsAssumption DEF IInv, ControlInv
  <2>2. (saved.open => calls < MaxTxCalls) /\ calls' = IF saved.open THEN calls + 1 ELSE 0
    BY DEF MayCall, Quiet, CountCall
  <2> QED
    BY <2>1, <2>2
<1>6. ControlInv'
  BY <1>1, <1>5 DEF IInv, ControlInv
<1> QED
  BY <1>2, <1>3, <1>4, <1>6

\* The tables a step keeps: all but the given one.
MemUnchanged(m, n, table) ==
    /\ table # "findings" => n.findings = m.findings
    /\ table # "advice" => n.advice = m.advice
    /\ table # "snaps" => n.snaps = m.snaps
    /\ table # "runs" => n.runs = m.runs
    /\ table # "sims" => n.sims = m.sims
    /\ table # "events" => n.events = m.events
    /\ table # "queue" => n.queue = m.queue /\ n.seen = m.seen
    /\ table # "state" => n.state = m.state
    /\ table # "alert" => n.alert = m.alert
    /\ table # "audit" => n.audit = m.audit

SqlUnchanged(m, n, table) ==
    /\ table # "findings" => n.findings = m.findings
    /\ table # "advice" => n.advice = m.advice
    /\ table # "snaps" => n.snaps = m.snaps
    /\ table # "runs" => n.runs = m.runs
    /\ table # "events" => n.events = m.events
    /\ table # "queue" => n.queue = m.queue /\ n.seen = m.seen
    /\ table # "state" => n.state = m.state
    /\ table # "alert" => n.alert = m.alert
    /\ table # "audit" => n.audit = m.audit

\* A call that only changes the tables other than the snapshots.
LEMMA CallStep ==
    ASSUME IInv, MayCall, Quiet, ResultsAgree',
           noted \subseteq noted', noted' \subseteq Differences, skewed' \subseteq FindingIds,
           Related(mem', sql', noted', skewed'), mem'.snaps = mem.snaps, sql'.snaps = sql.snaps
    PROVE  IInv'
<1>1. /\ ControlInv' /\ SavedInv'
      /\ SnapsR(mem'.snaps, sql'.snaps, noted') => SnapsInv'
      /\ SnapsR(mem.snaps, sql.snaps, noted)
  BY QuietStep
<1>2. SnapsR(mem'.snaps, sql'.snaps, noted')
  BY <1>1, SnapsWeaken
<1> QED
  BY <1>1, <1>2 DEF IInv

\* What a call may rely on, with the differences it notes.
LEMMA CallStarts ==
    ASSUME IInv, MayCall, noted \subseteq noted', skewed \subseteq skewed'
    PROVE  /\ Related(mem, sql, noted', skewed') /\ Related(mem, sql, noted, skewed)
           /\ noted \subseteq Differences /\ skewed \subseteq FindingIds
           /\ noted \subseteq {"pruned", "out_of_order"}
           /\ pass = NoPass
<1>1. Related(mem, sql, noted, skewed)
  BY DEF IInv
<1>2. Related(mem, sql, noted', skewed')
  BY <1>1, RelatedWeakens
<1> QED
  BY <1>1, <1>2 DEF IInv, ControlInv, MayCall, Comparable

-----------------------------------------------------------------------------
\* save_finding: a finding not there is inserted in both, one that is there is
\* updated, and counts differently only if its observation was out of order.
LEMMA SaveFindingStep ==
    ASSUME IInv, NEW id \in FindingIds, NEW at \in Times, SaveFinding(id, at)
    PROVE  IInv'
<1>1. /\ MayCall /\ Quiet /\ noted' = noted /\ skewed \subseteq skewed' /\ Called("save_finding", TRUE, TRUE)
      /\ skewed' \subseteq skewed \cup {id}
  BY DEF SaveFinding
<1>2. /\ Related(mem, sql, noted', skewed') /\ Related(mem, sql, noted, skewed)
      /\ noted \subseteq Differences /\ skewed \subseteq FindingIds
  BY <1>1, CallStarts
<1>3. MemTables(mem') /\ MemUnchanged(mem, mem', "findings") /\ mem'.findings = MemSaveFinding(mem.findings, id, at)
  <2>1. mem' = [mem EXCEPT !.findings = MemSaveFinding(mem.findings, id, at)]
    BY DEF SaveFinding
  <2> QED
    BY <1>2, <2>1 DEF MemTables, MemUnchanged, Related
<1>4. SqlTables(sql') /\ SqlUnchanged(sql, sql', "findings") /\ sql'.findings = SqlSaveFinding(sql.findings, id, at)
  <2>1. sql' = [sql EXCEPT !.findings = SqlSaveFinding(sql.findings, id, at)]
    BY DEF SaveFinding
  <2> QED
    BY <1>2, <2>1 DEF SqlTables, SqlUnchanged, Related
<1>5. FindingsR(mem'.findings, sql'.findings, skewed')
  <2>1. FindingsR(mem.findings, sql.findings, skewed) /\ FindingsR(mem.findings, sql.findings, skewed')
    BY <1>2 DEF Related
  <2>2. CASE \A r \in sql.findings.rows : r.id # id
    BY <1>3, <1>4, <2>1, <2>2, NewFindingSaved
  <2>3. CASE ~\A r \in sql.findings.rows : r.id # id
    <3>1. PICK r \in sql.findings.rows : r.id = id
      BY <2>3
    <3>2. ASSUME sql.findings.absent[id] > 0 /\ at < r.last PROVE id \in skewed'
      BY <3>1, <3>2 DEF SaveFinding
    <3> QED
      BY <1>1, <1>3, <1>4, <2>1, <3>1, <3>2, OldFindingSaved
  <2> QED
    BY <2>2, <2>3
<1>6. Related(mem', sql', noted', skewed')
  BY <1>2, <1>3, <1>4, <1>5 DEF Related, MemUnchanged, SqlUnchanged
<1>7. ResultsAgree'
  BY <1>1, CalledIs
<1>8. mem'.snaps = mem.snaps /\ sql'.snaps = sql.snaps
  BY <1>3, <1>4 DEF MemUnchanged, SqlUnchanged
<1> QED
  BY <1>1, <1>2, <1>6, <1>7, <1>8, CallStep

\* resolve_findings counts every absent finding once in both.
LEMMA ResolveFindingsStep ==
    ASSUME IInv, NEW complete \in BOOLEAN, ResolveFindings(complete)
    PROVE  IInv'
<1>1. /\ MayCall /\ Quiet /\ Called("resolve_findings", TRUE, TRUE)
      /\ noted' = noted /\ skewed' = skewed
  BY DEF ResolveFindings
<1>2. /\ Related(mem, sql, noted', skewed') /\ Related(mem, sql, noted, skewed)
      /\ noted \subseteq Differences /\ skewed \subseteq FindingIds
      /\ noted \subseteq {"pruned", "out_of_order"}
  BY <1>1, CallStarts
<1>3. MemTables(mem') /\ MemUnchanged(mem, mem', "findings") /\ mem'.findings = MemResolve(mem.findings, complete)
  <2>1. mem' = [mem EXCEPT !.findings = MemResolve(mem.findings, complete)]
    BY DEF ResolveFindings
  <2> QED
    BY <1>2, <2>1 DEF MemTables, MemUnchanged, Related
<1>4. SqlTables(sql') /\ SqlUnchanged(sql, sql', "findings") /\ sql'.findings = SqlResolve(sql.findings, complete)
  <2>1. sql' = [sql EXCEPT !.findings = SqlResolve(sql.findings, complete)]
    BY DEF ResolveFindings
  <2> QED
    BY <1>2, <2>1 DEF SqlTables, SqlUnchanged, Related
<1>5. FindingsR(mem'.findings, sql'.findings, skewed')
  BY <1>2, <1>3, <1>4, FindingsResolved DEF Related
<1>6. Related(mem', sql', noted', skewed')
  BY <1>2, <1>3, <1>4, <1>5 DEF Related, MemUnchanged, SqlUnchanged
<1>7. ResultsAgree'
  BY <1>1, CalledIs
<1>8. mem'.snaps = mem.snaps /\ sql'.snaps = sql.snaps
  BY <1>3, <1>4 DEF MemUnchanged, SqlUnchanged
<1> QED
  BY <1>1, <1>2, <1>6, <1>7, <1>8, CallStep

\* save_recommendation is noted when it replaces one that had moved on.
LEMMA SaveRecommendationStep ==
    ASSUME IInv, NEW id \in FindingIds, SaveRecommendation(id)
    PROVE  IInv'
<1>1. /\ MayCall /\ Quiet /\ Called("save_recommendation", TRUE, TRUE)
      /\ skewed' = skewed /\ noted \subseteq noted' /\ noted' \subseteq noted \cup {"resaved"}
      /\ noted' = IF mem.advice[id] \in {NoAdvice, NewAdvice(mem.advice, id)}
                  THEN noted ELSE noted \cup {"resaved"}
  BY DEF SaveRecommendation
<1>2. /\ Related(mem, sql, noted', skewed') /\ Related(mem, sql, noted, skewed)
      /\ noted \subseteq Differences /\ skewed \subseteq FindingIds
      /\ noted \subseteq {"pruned", "out_of_order"}
  BY <1>1, CallStarts
<1>3. MemTables(mem') /\ MemUnchanged(mem, mem', "advice") /\ mem'.advice = MemSaveRecommendation(mem.advice, id)
  <2>1. mem' = [mem EXCEPT !.advice = MemSaveRecommendation(mem.advice, id)]
    BY DEF SaveRecommendation
  <2> QED
    BY <1>2, <2>1 DEF MemTables, MemUnchanged, Related
<1>4. SqlTables(sql') /\ SqlUnchanged(sql, sql', "advice") /\ sql'.advice = SqlSaveRecommendation(sql.advice, id)
  <2>1. sql' = [sql EXCEPT !.advice = SqlSaveRecommendation(sql.advice, id)]
    BY DEF SaveRecommendation
  <2> QED
    BY <1>2, <2>1 DEF SqlTables, SqlUnchanged, Related
<1>5. AdviceR(mem'.advice, sql'.advice, noted', skewed')
  <2>1. AdviceR(mem.advice, sql.advice, noted, skewed)
    BY <1>2 DEF Related
  <2> QED
    <3>1. "resaved" \notin noted
      BY <1>2
    <3>2. AdviceR(MemSaveRecommendation(mem.advice, id), SqlSaveRecommendation(sql.advice, id),
                  IF mem.advice[id] \in {NoAdvice, NewAdvice(mem.advice, id)}
                  THEN noted ELSE noted \cup {"resaved"}, skewed)
      BY <2>1, <3>1, AdviceSaved
    <3> QED
      BY <1>1, <1>3, <1>4, <3>2
<1>6. Related(mem', sql', noted', skewed')
  BY <1>2, <1>3, <1>4, <1>5 DEF Related, MemUnchanged, SqlUnchanged
<1>7. ResultsAgree'
  BY <1>1, CalledIs
<1>8. mem'.snaps = mem.snaps /\ sql'.snaps = sql.snaps
  BY <1>3, <1>4 DEF MemUnchanged, SqlUnchanged
<1> QED
  BY <1>1, <1>2, <1>6, <1>7, <1>8, CallStep DEF Differences

\* set_action_stage writes a stage that the text column gives back.
LEMMA SetStageStep ==
    ASSUME IInv, NEW id \in FindingIds, SetStage(id)
    PROVE  IInv'
<1>1. /\ MayCall /\ Quiet /\ Called("set_action_stage", TRUE, TRUE)
      /\ noted' = noted /\ skewed' = skewed
  BY DEF SetStage
<1>2. /\ Related(mem, sql, noted', skewed') /\ Related(mem, sql, noted, skewed)
      /\ noted \subseteq Differences /\ skewed \subseteq FindingIds
      /\ noted \subseteq {"pruned", "out_of_order"}
  BY <1>1, CallStarts
<1>3. MemTables(mem') /\ MemUnchanged(mem, mem', "advice") /\ mem'.advice = SetActionStage(mem.advice, id, "approved")
  <2>1. mem' = [mem EXCEPT !.advice = SetActionStage(mem.advice, id, "approved")]
    BY DEF SetStage
  <2> QED
    BY <1>2, <2>1 DEF MemTables, MemUnchanged, Related
<1>4. SqlTables(sql') /\ SqlUnchanged(sql, sql', "advice") /\ sql'.advice = SetActionStage(sql.advice, id, StageText["approved"])
  <2>1. sql' = [sql EXCEPT !.advice = SetActionStage(sql.advice, id, StageText["approved"])]
    BY DEF SetStage
  <2> QED
    BY <1>2, <2>1 DEF SqlTables, SqlUnchanged, Related
<1>5. AdviceR(mem'.advice, sql'.advice, noted', skewed')
  <2>1. AdviceR(mem.advice, sql.advice, noted', skewed')
    BY <1>2 DEF Related
  <2>2. "approved" \in DOMAIN StageText
    BY DEF StageText
  <2> QED
    BY <1>3, <1>4, <2>1, <2>2, AdviceStaged
<1>6. Related(mem', sql', noted', skewed')
  BY <1>2, <1>3, <1>4, <1>5 DEF Related, MemUnchanged, SqlUnchanged
<1>7. ResultsAgree'
  BY <1>1, CalledIs
<1>8. mem'.snaps = mem.snaps /\ sql'.snaps = sql.snaps
  BY <1>3, <1>4 DEF MemUnchanged, SqlUnchanged
<1> QED
  BY <1>1, <1>2, <1>6, <1>7, <1>8, CallStep

\* resolve_recommendations settles the same advice in both.
LEMMA ResolveAdviceStep ==
    ASSUME IInv, NEW id \in FindingIds, ResolveAdvice(id)
    PROVE  IInv'
<1>1. /\ MayCall /\ Quiet /\ Called("resolve_recommendations", TRUE, TRUE)
      /\ noted' = noted /\ skewed' = skewed
  BY DEF ResolveAdvice
<1>2. /\ Related(mem, sql, noted', skewed') /\ Related(mem, sql, noted, skewed)
      /\ noted \subseteq Differences /\ skewed \subseteq FindingIds
      /\ noted \subseteq {"pruned", "out_of_order"}
  BY <1>1, CallStarts
<1>3. MemTables(mem') /\ MemUnchanged(mem, mem', "advice") /\ mem'.advice = ResolveRecommendations(mem.advice, id)
  <2>1. mem' = [mem EXCEPT !.advice = ResolveRecommendations(mem.advice, id)]
    BY DEF ResolveAdvice
  <2> QED
    BY <1>2, <2>1 DEF MemTables, MemUnchanged, Related
<1>4. SqlTables(sql') /\ SqlUnchanged(sql, sql', "advice") /\ sql'.advice = ResolveRecommendations(sql.advice, id)
  <2>1. sql' = [sql EXCEPT !.advice = ResolveRecommendations(sql.advice, id)]
    BY DEF ResolveAdvice
  <2> QED
    BY <1>2, <2>1 DEF SqlTables, SqlUnchanged, Related
<1>5. AdviceR(mem'.advice, sql'.advice, noted', skewed')
  <2>1. AdviceR(mem.advice, sql.advice, noted', skewed')
    BY <1>2 DEF Related
  <2> QED
    BY <1>3, <1>4, <2>1, AdviceResolved
<1>6. Related(mem', sql', noted', skewed')
  BY <1>2, <1>3, <1>4, <1>5 DEF Related, MemUnchanged, SqlUnchanged
<1>7. ResultsAgree'
  BY <1>1, CalledIs
<1>8. mem'.snaps = mem.snaps /\ sql'.snaps = sql.snaps
  BY <1>3, <1>4 DEF MemUnchanged, SqlUnchanged
<1> QED
  BY <1>1, <1>2, <1>6, <1>7, <1>8, CallStep

\* sync_recommendations follows the findings of each, which are related.
LEMMA SyncAdviceStep ==
    ASSUME IInv, SyncAdvice
    PROVE  IInv'
<1>1. /\ MayCall /\ Quiet /\ Called("sync_recommendations", TRUE, TRUE)
      /\ noted' = noted /\ skewed' = skewed
  BY DEF SyncAdvice
<1>2. /\ Related(mem, sql, noted', skewed') /\ Related(mem, sql, noted, skewed)
      /\ noted \subseteq Differences /\ skewed \subseteq FindingIds
      /\ noted \subseteq {"pruned", "out_of_order"}
  BY <1>1, CallStarts
<1>3. MemTables(mem') /\ MemUnchanged(mem, mem', "advice") /\ mem'.advice = MemSyncRecommendations(mem.advice, mem.findings)
  <2>1. mem' = [mem EXCEPT !.advice = MemSyncRecommendations(mem.advice, mem.findings)]
    BY DEF SyncAdvice
  <2> QED
    BY <1>2, <2>1 DEF MemTables, MemUnchanged, Related
<1>4. SqlTables(sql') /\ SqlUnchanged(sql, sql', "advice") /\ sql'.advice = SqlSyncRecommendations(sql.advice, sql.findings)
  <2>1. sql' = [sql EXCEPT !.advice = SqlSyncRecommendations(sql.advice, sql.findings)]
    BY DEF SyncAdvice
  <2> QED
    BY <1>2, <2>1 DEF SqlTables, SqlUnchanged, Related
<1>5. AdviceR(mem'.advice, sql'.advice, noted', skewed')
  <2>1. AdviceR(mem.advice, sql.advice, noted', skewed') /\ FindingsR(mem.findings, sql.findings, skewed')
    BY <1>2 DEF Related
  <2> QED
    BY <1>3, <1>4, <2>1, AdviceSynced
<1>6. Related(mem', sql', noted', skewed')
  BY <1>2, <1>3, <1>4, <1>5 DEF Related, MemUnchanged, SqlUnchanged
<1>7. ResultsAgree'
  BY <1>1, CalledIs
<1>8. mem'.snaps = mem.snaps /\ sql'.snaps = sql.snaps
  BY <1>3, <1>4 DEF MemUnchanged, SqlUnchanged
<1> QED
  BY <1>1, <1>2, <1>6, <1>7, <1>8, CallStep

\* save_simulation_v2: a run that is refused by SqliteStorage alone is invalid,
\* there already, or has the id of a simulation of the first kind.
LEMMA SaveRunStep ==
    ASSUME IInv, NEW rec \in Runs, SaveRun(rec)
    PROVE  IInv'
<1> DEFINE taken == \E s \in Range(mem.sims) : s.id = rec.id
           call == CASE ~ValidateRun(rec) -> "save_invalid_run"
                     [] ValidateRun(rec) /\ rec \in sql.runs -> "save_run_again"
                     [] ValidateRun(rec) /\ rec \notin sql.runs ->
                           IF taken THEN "save_run_taken" ELSE "save_run"
<1>1. /\ MayCall /\ Quiet /\ skewed' = skewed
      /\ noted' = noted \cup (IF ValidateRun(rec) THEN {} ELSE {"invalid"})
                        \cup (IF taken THEN {"taken"} ELSE {})
      /\ Called(call, MemSaveRun(mem.runs, rec).ok, SqlSaveRun(sql.runs, rec).ok)
  BY DEF SaveRun
<1>0. noted \subseteq noted' /\ noted' \subseteq noted \cup {"invalid", "taken"}
  BY <1>1
<1>2. /\ Related(mem, sql, noted', skewed') /\ Related(mem, sql, noted, skewed)
      /\ noted \subseteq Differences /\ skewed \subseteq FindingIds
      /\ noted \subseteq {"pruned", "out_of_order"}
  BY <1>0, <1>1, CallStarts
<1>3. MemTables(mem') /\ MemUnchanged(mem, mem', "runs") /\ mem'.runs = MemSaveRun(mem.runs, rec).table
  <2>1. mem' = [mem EXCEPT !.runs = MemSaveRun(mem.runs, rec).table]
    BY DEF SaveRun
  <2> QED
    BY <1>2, <2>1 DEF MemTables, MemUnchanged, Related
<1>4. SqlTables(sql') /\ SqlUnchanged(sql, sql', "runs") /\ sql'.runs = SqlSaveRun(sql.runs, rec).table
  <2>1. sql' = [sql EXCEPT !.runs = SqlSaveRun(sql.runs, rec).table]
    BY DEF SaveRun
  <2> QED
    BY <1>2, <2>1 DEF SqlTables, SqlUnchanged, Related
<1> DEFINE runs == mem.runs
           sims == mem.sims
           rows == sql.runs
<1>5. /\ RunsR(MemSaveRun(runs, rec).table, sims, SqlSaveRun(rows, rec).table, noted')
      /\ rows \subseteq SqlSaveRun(rows, rec).table
      /\ MemSaveRun(runs, rec).ok \in BOOLEAN /\ SqlSaveRun(rows, rec).ok \in BOOLEAN
      /\ MemSaveRun(runs, rec).ok # SqlSaveRun(rows, rec).ok =>
            MemSaveRun(runs, rec).ok /\ (ValidateRun(rec) => rec \in rows \/ taken)
  <2>1. RunsR(runs, sims, rows, noted) /\ noted \cap {"invalid", "taken"} = {}
    BY <1>2 DEF Related
  <2>2. /\ taken <=> \E s \in Range(sims) : s.id = rec.id
        /\ noted' = noted \cup (IF ValidateRun(rec) THEN {} ELSE {"invalid"})
                          \cup (IF \E s \in Range(sims) : s.id = rec.id THEN {"taken"} ELSE {})
    BY <1>1
  <2> HIDE DEF runs, sims, rows, taken
  <2> QED
    BY <2>1, <2>2, RunSaved
<1>6. RunsR(mem'.runs, mem'.sims, sql'.runs, noted') /\ EventsR(mem'.events, sql'.events, sql'.runs, noted')
  <2>1. EventsR(mem.events, sql.events, sql.runs, noted)
    BY <1>2 DEF Related
  <2>2. RunsR(mem'.runs, mem.sims, sql'.runs, noted') /\ sql.runs \subseteq sql'.runs
    BY <1>3, <1>4, <1>5
  <2>3. EventsR(mem.events, sql.events, sql'.runs, noted')
    BY <1>0, <2>1, <2>2, EventsWeaken
  <2> QED
    BY <1>3, <1>4, <2>2, <2>3 DEF MemUnchanged, SqlUnchanged
<1>7. Related(mem', sql', noted', skewed')
  BY <1>2, <1>3, <1>4, <1>6 DEF Related, MemUnchanged, SqlUnchanged
<1>8. ResultsAgree'
  <2>1. (ValidateRun(rec) => rec \in sql.runs \/ taken) => call \in RefusedBySqlite
    <3>1. CASE ~ValidateRun(rec)
      BY <3>1 DEF RefusedBySqlite
    <3>2. CASE ValidateRun(rec) /\ rec \in sql.runs
      BY <3>2 DEF RefusedBySqlite
    <3>3. CASE ValidateRun(rec) /\ rec \notin sql.runs
      <4>1. call = IF taken THEN "save_run_taken" ELSE "save_run"
        BY <3>3
      <4> HIDE DEF call, taken
      <4> QED
        BY <3>3, <4>1 DEF RefusedBySqlite
    <3> QED
      BY <3>1, <3>2, <3>3
  <2> HIDE DEF call, taken
  <2> QED
    BY <1>1, <1>5, <2>1, CalledIs
<1>9. mem'.snaps = mem.snaps /\ sql'.snaps = sql.snaps
  BY <1>3, <1>4 DEF MemUnchanged, SqlUnchanged
<1>10. noted' \subseteq Differences
  BY <1>0, <1>2 DEF Differences
<1> QED
  BY <1>0, <1>1, <1>2, <1>7, <1>8, <1>9, <1>10, CallStep

\* save_simulation: an id that is taken is refused by SqliteStorage alone.
LEMMA SaveSimulationStep ==
    ASSUME IInv, NEW sim \in Sims, SaveSimulation(sim)
    PROVE  IInv'
<1> DEFINE q == SqlSaveSimulation(sql.runs, sim)
<1>1. /\ MayCall /\ Quiet /\ skewed' = skewed
      /\ noted' = IF q.ok THEN noted ELSE noted \cup {"taken"}
      /\ Called(IF q.ok THEN "save_simulation" ELSE "save_simulation_taken", TRUE, q.ok)
  BY DEF SaveSimulation
<1>0. noted \subseteq noted' /\ noted' \subseteq noted \cup {"taken"}
  BY <1>1
<1>2. /\ Related(mem, sql, noted', skewed') /\ Related(mem, sql, noted, skewed)
      /\ noted \subseteq Differences /\ skewed \subseteq FindingIds
      /\ noted \subseteq {"pruned", "out_of_order"}
  BY <1>0, <1>1, CallStarts
<1>3. MemTables(mem') /\ MemUnchanged(mem, mem', "sims") /\ mem'.sims = Append(mem.sims, sim)
  <2>1. mem' = [mem EXCEPT !.sims = Append(mem.sims, sim)]
    BY DEF SaveSimulation
  <2> QED
    BY <1>2, <2>1 DEF MemTables, MemUnchanged, Related
<1>4. SqlTables(sql') /\ SqlUnchanged(sql, sql', "runs") /\ sql'.runs = q.table
  <2>1. sql' = [sql EXCEPT !.runs = q.table]
    BY DEF SaveSimulation
  <2> QED
    BY <1>2, <2>1 DEF SqlTables, SqlUnchanged, Related
<1>5. /\ q.ok \in BOOLEAN /\ sql.runs \subseteq q.table
      /\ RunsR(mem.runs, Append(mem.sims, sim), q.table, IF q.ok THEN noted ELSE noted \cup {"taken"})
  <2>1. RunsR(mem.runs, mem.sims, sql.runs, noted) /\ "taken" \notin noted
    BY <1>2 DEF Related
  <2> QED
    BY <2>1, SimulationSaved
<1> HIDE DEF q
<1>6. RunsR(mem'.runs, mem'.sims, sql'.runs, noted') /\ EventsR(mem'.events, sql'.events, sql'.runs, noted')
  <2>1. EventsR(mem.events, sql.events, sql.runs, noted)
    BY <1>2 DEF Related
  <2>2. RunsR(mem.runs, mem'.sims, sql'.runs, noted') /\ sql.runs \subseteq sql'.runs
    BY <1>1, <1>3, <1>4, <1>5
  <2>3. EventsR(mem.events, sql.events, sql'.runs, noted')
    BY <1>0, <2>1, <2>2, EventsWeaken
  <2> QED
    BY <1>3, <1>4, <2>2, <2>3 DEF MemUnchanged, SqlUnchanged
<1>7. Related(mem', sql', noted', skewed')
  BY <1>2, <1>3, <1>4, <1>6 DEF Related, MemUnchanged, SqlUnchanged
<1>8. ResultsAgree'
  <2> DEFINE call == IF q.ok THEN "save_simulation" ELSE "save_simulation_taken"
  <2>1. TRUE # q.ok => call \in RefusedBySqlite
    BY <1>5 DEF RefusedBySqlite
  <2>2. Called(call, TRUE, q.ok)
    BY <1>1
  <2> HIDE DEF call
  <2> QED
    BY <1>5, <2>1, <2>2, CalledIs
<1>9. mem'.snaps = mem.snaps /\ sql'.snaps = sql.snaps
  BY <1>3, <1>4 DEF MemUnchanged, SqlUnchanged
<1>10. noted' \subseteq Differences
  BY <1>0, <1>2 DEF Differences
<1> QED
  BY <1>0, <1>1, <1>2, <1>7, <1>8, <1>9, <1>10, CallStep

\* append_simulation_event: the check of the status and the foreign key refuse
\* what MemoryStorage takes.
LEMMA AppendEventStep ==
    ASSUME IInv, NEW e \in Events, AppendEvent(e)
    PROVE  IInv'
<1> DEFINE orphan == \A r \in sql.runs : r.id # e.run
           invalid == ~ValidateStatus(e.status)
           call == IF invalid THEN "append_invalid_event"
                   ELSE IF orphan THEN "append_orphan" ELSE "append_event"
<1>1. /\ MayCall /\ Quiet /\ skewed' = skewed
      /\ noted' = noted \cup (IF orphan THEN {"orphan"} ELSE {}) \cup (IF invalid THEN {"invalid"} ELSE {})
      /\ Called(call, MemAppendEvent(mem.events, e).ok, SqlAppendEvent(sql.events, sql.runs, e).ok)
  BY DEF AppendEvent
<1>0. noted \subseteq noted' /\ noted' \subseteq noted \cup {"orphan", "invalid"}
  BY <1>1
<1>2. /\ Related(mem, sql, noted', skewed') /\ Related(mem, sql, noted, skewed)
      /\ noted \subseteq Differences /\ skewed \subseteq FindingIds
      /\ noted \subseteq {"pruned", "out_of_order"}
  BY <1>0, <1>1, CallStarts
<1>3. MemTables(mem') /\ MemUnchanged(mem, mem', "events") /\ mem'.events = MemAppendEvent(mem.events, e).table
  <2>1. mem' = [mem EXCEPT !.events = MemAppendEvent(mem.events, e).table]
    BY DEF AppendEvent
  <2> QED
    BY <1>2, <2>1 DEF MemTables, MemUnchanged, Related
<1>4. SqlTables(sql') /\ SqlUnchanged(sql, sql', "events") /\ sql'.events = SqlAppendEvent(sql.events, sql.runs, e).table
  <2>1. sql' = [sql EXCEPT !.events = SqlAppendEvent(sql.events, sql.runs, e).table]
    BY DEF AppendEvent
  <2> QED
    BY <1>2, <2>1 DEF SqlTables, SqlUnchanged, Related
<1> DEFINE list == mem.events
           events == sql.events
           rows == sql.runs
<1>5. EventsR(list, events, rows, noted) /\ noted \cap {"invalid", "orphan"} = {}
  BY <1>2 DEF Related
<1>6. EventsR(mem'.events, sql'.events, sql'.runs, noted')
  <2>1. EventsR(MemAppendEvent(list, e).table, SqlAppendEvent(events, rows, e).table, rows,
                noted \cup (IF \A r \in rows : r.id # e.run THEN {"orphan"} ELSE {})
                      \cup (IF ~ValidateStatus(e.status) THEN {"invalid"} ELSE {}))
    <3> HIDE DEF list, events, rows
    <3> QED
      BY <1>5, EventAppended
  <2>2. EventsR(MemAppendEvent(mem.events, e).table, SqlAppendEvent(sql.events, sql.runs, e).table, sql.runs, noted')
    BY <1>1, <2>1
  <2> QED
    BY <1>3, <1>4, <2>2 DEF SqlUnchanged
<1>7. Related(mem', sql', noted', skewed')
  BY <1>2, <1>3, <1>4, <1>6 DEF Related, MemUnchanged, SqlUnchanged
<1>8. ResultsAgree'
  <2>1. Range(list) = events
    BY <1>5 DEF EventsR
  <2>2. invalid \/ orphan => call \in RefusedBySqlite
    BY DEF RefusedBySqlite
  <2>3. Called(call, MemAppendEvent(list, e).ok, SqlAppendEvent(events, rows, e).ok)
    BY <1>1
  <2>4. orphan <=> \A r \in rows : r.id # e.run
    OBVIOUS
  <2> HIDE DEF call, list, events, rows, orphan
  <2>5. CASE \E x \in events : x.id = e.id
    <3>1. MemAppendEvent(list, e).ok = FALSE /\ SqlAppendEvent(events, rows, e).ok = FALSE
      BY <2>1, <2>5 DEF MemAppendEvent, SqlAppendEvent, Ok, Error
    <3> QED
      BY <2>3, <3>1, CalledIs
  <2>6. CASE ~\E x \in events : x.id = e.id
    <3>1. MemAppendEvent(list, e).ok = TRUE
      BY <2>1, <2>6 DEF MemAppendEvent, Ok, Error
    <3>2. SqlAppendEvent(events, rows, e).ok = ~(invalid \/ orphan)
      BY <2>4, <2>6 DEF SqlAppendEvent, Ok, Error
    <3> HIDE DEF invalid
    <3> QED
      BY <2>2, <2>3, <3>1, <3>2, CalledIs
  <2> QED
    BY <2>5, <2>6
<1>9. mem'.snaps = mem.snaps /\ sql'.snaps = sql.snaps
  BY <1>3, <1>4 DEF MemUnchanged, SqlUnchanged
<1>10. noted' \subseteq Differences
  BY <1>0, <1>2 DEF Differences
<1> QED
  BY <1>0, <1>1, <1>2, <1>7, <1>8, <1>9, <1>10, CallStep

\* record_webhook_delivery.
LEMMA RecordDeliveryStep ==
    ASSUME IInv, NEW d \in Deliveries, NEW at \in Times, RecordDelivery(d, at)
    PROVE  IInv'
<1>1. /\ MayCall /\ Quiet /\ Called("record_delivery", TRUE, TRUE)
      /\ noted' = noted /\ skewed' = skewed
  BY DEF RecordDelivery
<1>2. /\ Related(mem, sql, noted', skewed') /\ Related(mem, sql, noted, skewed)
      /\ noted \subseteq Differences /\ skewed \subseteq FindingIds
      /\ noted \subseteq {"pruned", "out_of_order"}
  BY <1>1, CallStarts
<1>3. MemTables(mem') /\ MemUnchanged(mem, mem', "queue") /\ mem'.seen = MemRecordDelivery(mem.seen, d, at)
  <2>1. mem' = [mem EXCEPT !.seen = MemRecordDelivery(mem.seen, d, at)]
    BY DEF RecordDelivery
  <2> QED
    BY <1>2, <2>1 DEF MemTables, MemUnchanged, Related
<1>4. SqlTables(sql') /\ SqlUnchanged(sql, sql', "queue") /\ sql'.seen = SqlRecordDelivery(sql.seen, d, at)
  <2>1. sql' = [sql EXCEPT !.seen = SqlRecordDelivery(sql.seen, d, at)]
    BY DEF RecordDelivery
  <2> QED
    BY <1>2, <2>1 DEF SqlTables, SqlUnchanged, Related
<1>5. QueueR(mem'.queue, mem'.seen, sql'.queue, sql'.seen, noted')
  <2>1. QueueR(mem.queue, mem.seen, sql.queue, sql.seen, noted')
    BY <1>2 DEF Related
  <2>2. mem'.queue = mem.queue /\ sql'.queue = sql.queue
    BY <1>2 DEF RecordDelivery, Related, MemTables, SqlTables
  <2> QED
    BY <1>3, <1>4, <2>1, <2>2, QueueRecorded
<1>6. Related(mem', sql', noted', skewed')
  BY <1>2, <1>3, <1>4, <1>5 DEF Related, MemUnchanged, SqlUnchanged
<1>7. ResultsAgree'
  BY <1>1, CalledIs
<1>8. mem'.snaps = mem.snaps /\ sql'.snaps = sql.snaps
  BY <1>3, <1>4 DEF MemUnchanged, SqlUnchanged
<1> QED
  BY <1>1, <1>2, <1>6, <1>7, <1>8, CallStep

\* mark_processed: the second mark of an event is refused by SqliteStorage alone.
LEMMA MarkProcessedStep ==
    ASSUME IInv, NEW d \in Deliveries, NEW at \in Times, MarkProcessed(d, at)
    PROVE  IInv'
<1>1. /\ MayCall /\ Quiet /\ Called(IF d \in Processed(sql.queue) THEN "mark_again" ELSE "mark",
                MemMark(mem.queue, d, at).ok, SqlMark(sql.queue, d, at).ok)
      /\ skewed' = skewed /\ noted \subseteq noted' /\ noted' \subseteq noted \cup {"remarked"}
      /\ noted' = IF d \in Processed(sql.queue) THEN noted \cup {"remarked"} ELSE noted
  BY DEF MarkProcessed
<1>2. /\ Related(mem, sql, noted', skewed') /\ Related(mem, sql, noted, skewed)
      /\ noted \subseteq Differences /\ skewed \subseteq FindingIds
      /\ noted \subseteq {"pruned", "out_of_order"}
  BY <1>1, CallStarts
<1>3. MemTables(mem') /\ MemUnchanged(mem, mem', "queue") /\ mem'.queue = MemMark(mem.queue, d, at).table
  <2>1. mem' = [mem EXCEPT !.queue = MemMark(mem.queue, d, at).table]
    BY DEF MarkProcessed
  <2> QED
    BY <1>2, <2>1 DEF MemTables, MemUnchanged, Related
<1>4. SqlTables(sql') /\ SqlUnchanged(sql, sql', "queue") /\ sql'.queue = SqlMark(sql.queue, d, at).table
  <2>1. sql' = [sql EXCEPT !.queue = SqlMark(sql.queue, d, at).table]
    BY DEF MarkProcessed
  <2> QED
    BY <1>2, <2>1 DEF SqlTables, SqlUnchanged, Related
<1>5. QueueR(mem'.queue, mem'.seen, sql'.queue, sql'.seen, noted')
  <2>1. QueueR(mem.queue, mem.seen, sql.queue, sql.seen, noted)
    BY <1>2 DEF Related
  <2>2. mem'.seen = mem.seen /\ sql'.seen = sql.seen
    BY <1>2 DEF MarkProcessed, Related, MemTables, SqlTables
  <2>3. noted \cap {"remarked", "nested"} = {}
    BY <1>2
  <2>4. QueueR(MemMark(mem.queue, d, at).table, mem.seen, SqlMark(sql.queue, d, at).table, sql.seen,
               IF d \in Processed(sql.queue) THEN noted \cup {"remarked"} ELSE noted)
    BY <2>1, <2>3, QueueMarked
  <2> QED
    BY <1>1, <1>3, <1>4, <2>2, <2>4
<1>6. Related(mem', sql', noted', skewed')
  BY <1>2, <1>3, <1>4, <1>5 DEF Related, MemUnchanged, SqlUnchanged
<1>7. ResultsAgree'
  <2>1. QueueR(mem.queue, mem.seen, sql.queue, sql.seen, noted)
    BY <1>2 DEF Related
  <2>2. noted \cap {"remarked", "nested"} = {}
    BY <1>2
  <2> DEFINE mqueue == mem.queue
             mseen == mem.seen
             queue == sql.queue
             ledger == sql.seen
  <2>3. /\ MemMark(mqueue, d, at).ok \in BOOLEAN /\ SqlMark(queue, d, at).ok \in BOOLEAN
        /\ MemMark(mqueue, d, at).ok # SqlMark(queue, d, at).ok =>
              MemMark(mqueue, d, at).ok /\ d \in Processed(queue)
    <3>1. QueueR(mqueue, mseen, queue, ledger, noted)
      BY <2>1
    <3> HIDE DEF mqueue, mseen, queue, ledger
    <3> QED
      BY <2>2, <3>1, QueueMarked
  <2> DEFINE call == IF d \in Processed(sql.queue) THEN "mark_again" ELSE "mark"
  <2>4. d \in Processed(sql.queue) => call \in RefusedBySqlite
    BY DEF RefusedBySqlite
  <2>5. Called(call, MemMark(mem.queue, d, at).ok, SqlMark(sql.queue, d, at).ok)
    BY <1>1
  <2> HIDE DEF call
  <2> QED
    BY <2>3, <2>4, <2>5, CalledIs
<1>8. mem'.snaps = mem.snaps /\ sql'.snaps = sql.snaps
  BY <1>3, <1>4 DEF MemUnchanged, SqlUnchanged
<1> QED
  BY <1>1, <1>2, <1>6, <1>7, <1>8, CallStep DEF Differences

\* update_operational_state reads, changes one field and writes back.
LEMMA UpdateStateStep ==
    ASSUME IInv, NEW field, NEW value,
           (field = "source" /\ value \in Sources) \/ (field = "alert_sink" /\ value \in Components), UpdateState(field, value)
    PROVE  IInv'
<1>1. /\ MayCall /\ Quiet /\ Called("update_operational_state", TRUE, TRUE)
      /\ noted' = noted /\ skewed' = skewed
  BY DEF UpdateState
<1>2. /\ Related(mem, sql, noted', skewed') /\ Related(mem, sql, noted, skewed)
      /\ noted \subseteq Differences /\ skewed \subseteq FindingIds
      /\ noted \subseteq {"pruned", "out_of_order"}
  BY <1>1, CallStarts
<1>3. MemTables(mem') /\ MemUnchanged(mem, mem', "state") /\ mem'.state = Changed(mem.state, field, value)
  <2>1. mem' = [mem EXCEPT !.state = Changed(mem.state, field, value)]
    BY DEF UpdateState
  <2> QED
    BY <1>2, <2>1 DEF MemTables, MemUnchanged, Related
<1>4. SqlTables(sql') /\ SqlUnchanged(sql, sql', "state") /\ sql'.state = SqlWriteState(sql.state, Changed(SqlReadState(sql.state), field, value))
  <2>1. sql' = [sql EXCEPT !.state = SqlWriteState(sql.state, Changed(SqlReadState(sql.state), field, value))]
    BY DEF UpdateState
  <2> QED
    BY <1>2, <2>1 DEF SqlTables, SqlUnchanged, Related
<1>5. StateR(mem'.state, sql'.state)
  <2>1. StateR(mem.state, sql.state)
    BY <1>2 DEF Related
  <2> QED
    BY <1>3, <1>4, <2>1, StateChanged
<1>6. Related(mem', sql', noted', skewed')
  BY <1>2, <1>3, <1>4, <1>5 DEF Related, MemUnchanged, SqlUnchanged
<1>7. ResultsAgree'
  BY <1>1, CalledIs
<1>8. mem'.snaps = mem.snaps /\ sql'.snaps = sql.snaps
  BY <1>3, <1>4 DEF MemUnchanged, SqlUnchanged
<1> QED
  BY <1>1, <1>2, <1>6, <1>7, <1>8, CallStep

\* The alert state is written whole.
LEMMA WriteAlertStep ==
    ASSUME IInv, NEW state \in AlertStates(Times), WriteAlert(state)
    PROVE  IInv'
<1>1. /\ MayCall /\ Quiet /\ Called("write", TRUE, TRUE)
      /\ noted' = noted /\ skewed' = skewed
  BY DEF WriteAlert
<1>2. /\ Related(mem, sql, noted', skewed') /\ Related(mem, sql, noted, skewed)
      /\ noted \subseteq Differences /\ skewed \subseteq FindingIds
      /\ noted \subseteq {"pruned", "out_of_order"}
  BY <1>1, CallStarts
<1>3. MemTables(mem') /\ MemUnchanged(mem, mem', "alert") /\ mem'.alert = state
  <2>1. mem' = [mem EXCEPT !.alert = state]
    BY DEF WriteAlert
  <2> QED
    BY <1>2, <2>1 DEF MemTables, MemUnchanged, Related
<1>4. SqlTables(sql') /\ SqlUnchanged(sql, sql', "alert") /\ sql'.alert = SqlWriteAlert(state)
  <2>1. sql' = [sql EXCEPT !.alert = SqlWriteAlert(state)]
    BY DEF WriteAlert
  <2> QED
    BY <1>2, <2>1 DEF SqlTables, SqlUnchanged, Related
<1>5. AlertR(mem'.alert, sql'.alert)
  <2>1. state \in AlertStates(Times) \cup {NoAlert}
    OBVIOUS
  <2> QED
    BY <1>3, <1>4, <2>1, AlertWritten
<1>6. Related(mem', sql', noted', skewed')
  BY <1>2, <1>3, <1>4, <1>5 DEF Related, MemUnchanged, SqlUnchanged
<1>7. ResultsAgree'
  BY <1>1, CalledIs
<1>8. mem'.snaps = mem.snaps /\ sql'.snaps = sql.snaps
  BY <1>3, <1>4 DEF MemUnchanged, SqlUnchanged
<1> QED
  BY <1>1, <1>2, <1>6, <1>7, <1>8, CallStep

\* append_audit, with the stage of the entry before; an id that is taken is
\* refused by SqliteStorage alone.
LEMMA AppendAuditStep ==
    ASSUME IInv, NEW id \in 1..MaxAudit, NEW stage \in DOMAIN StageText, NEW ts \in Times,
           AppendAudit(id, stage, ts)
    PROVE  IInv'
<1> DEFINE previous == IF mem.audit = <<>> THEN "none" ELSE Last(mem.audit).stage
           entry == Audit(id, previous, stage, ts)
           taken == AuditTaken(sql.audit, id)
<1>1. /\ MayCall /\ Quiet /\ skewed' = skewed
      /\ Called(IF taken THEN "append_audit_again" ELSE "append_audit", TRUE, ~taken)
      /\ noted' = IF taken THEN noted \cup {"taken"} ELSE noted
      /\ sql' = IF taken THEN sql ELSE [sql EXCEPT !.audit = Append(sql.audit, SqlAuditRow(entry))]
  BY DEF AppendAudit
<1>0. noted \subseteq noted' /\ noted' \subseteq noted \cup {"taken"}
  BY <1>1
<1>2. /\ Related(mem, sql, noted', skewed') /\ Related(mem, sql, noted, skewed)
      /\ noted \subseteq Differences /\ skewed \subseteq FindingIds
      /\ noted \subseteq {"pruned", "out_of_order"}
  BY <1>0, <1>1, CallStarts
<1>3. MemTables(mem') /\ MemUnchanged(mem, mem', "audit") /\ mem'.audit = Append(mem.audit, entry)
  <2>1. mem' = [mem EXCEPT !.audit = Append(mem.audit, entry)]
    BY DEF AppendAudit
  <2> QED
    BY <1>2, <2>1 DEF MemTables, MemUnchanged, Related
<1>4. AuditR(mem.audit, sql.audit, noted) /\ mem.audit \in Seq(Entries) /\ "taken" \notin noted
  BY <1>2 DEF Related, AuditR
<1>5. entry \in Entries
  <2>1. previous \in {"none"} \cup DOMAIN StageText
    <3>1. CASE mem.audit = <<>>
      BY <3>1
    <3>2. CASE mem.audit # <<>>
      <4>1. Last(mem.audit) \in Entries
        BY <1>4, <3>2 DEF Last
      <4> QED
        BY <3>2, <4>1 DEF Entries
    <3> QED
      BY <3>1, <3>2
  <2> HIDE DEF previous
  <2> QED
    BY <2>1 DEF Audit, Entries
<1> HIDE DEF previous, entry
<1>6. SqlTables(sql') /\ SqlUnchanged(sql, sql', "audit") /\ AuditR(mem'.audit, sql'.audit, noted')
  <2>1. CASE taken
    <3>1. sql' = sql /\ "taken" \in noted'
      BY <1>1, <2>1
    <3>2. Append(mem.audit, entry) \in Seq(Entries)
      BY <1>4, <1>5
    <3> QED
      BY <1>2, <1>3, <3>1, <3>2 DEF AuditR, SqlUnchanged, Related
  <2>2. CASE ~taken
    <3>1. sql' = [sql EXCEPT !.audit = Append(sql.audit, SqlAuditRow(entry))] /\ noted' = noted
      BY <1>1, <2>2
    <3>2. SqlTables(sql') /\ SqlUnchanged(sql, sql', "audit") /\ sql'.audit = Append(sql.audit, SqlAuditRow(entry))
      BY <1>2, <3>1 DEF SqlTables, SqlUnchanged, Related
    <3>3. AuditR(Append(mem.audit, entry), Append(sql.audit, SqlAuditRow(entry)), noted)
      BY <1>4, <1>5, AuditAppended
    <3> QED
      BY <1>3, <3>1, <3>2, <3>3
  <2> QED
    BY <2>1, <2>2
<1>7. Related(mem', sql', noted', skewed')
  BY <1>2, <1>3, <1>6 DEF Related, MemUnchanged, SqlUnchanged
<1>8. ResultsAgree'
  <2>1. CASE taken
    <3>1. Called("append_audit_again", TRUE, FALSE)
      BY <1>1, <2>1 DEF Called
    <3> QED
      BY <3>1, CalledIs DEF RefusedBySqlite
  <2>2. CASE ~taken
    <3>1. Called("append_audit", TRUE, TRUE)
      BY <1>1, <2>2 DEF Called
    <3> QED
      BY <3>1, CalledIs
  <2> QED
    BY <2>1, <2>2
<1>9. mem'.snaps = mem.snaps /\ sql'.snaps = sql.snaps
  BY <1>3, <1>6 DEF MemUnchanged, SqlUnchanged
<1>10. noted' \subseteq Differences
  BY <1>0, <1>2 DEF Differences
<1> QED
  BY <1>0, <1>1, <1>2, <1>7, <1>8, <1>9, <1>10, CallStep

\* enqueue_webhook: both tables of MemoryStorage, and both of SqliteStorage or none inside a transaction.
LEMMA EnqueueStep ==
    ASSUME IInv, NEW d \in Deliveries, NEW at \in Times, Enqueue(d, at)
    PROVE  IInv'
<1>1. /\ MayCall /\ Quiet
      /\ Called(IF saved.open THEN "enqueue_nested" ELSE "enqueue", TRUE, ~saved.open)
      /\ skewed' = skewed /\ noted \subseteq noted' /\ noted' \subseteq noted \cup {"nested"}
      /\ noted' = IF saved.open THEN noted \cup {"nested"} ELSE noted
  BY DEF Enqueue
<1>2. /\ Related(mem, sql, noted', skewed') /\ Related(mem, sql, noted, skewed)
      /\ noted \subseteq Differences /\ skewed \subseteq FindingIds
  BY <1>1, CallStarts
<1>3. /\ MemTables(mem') /\ MemUnchanged(mem, mem', "queue")
      /\ mem'.queue = Enqueued(mem.queue, d, at) /\ mem'.seen = MemDelivered(mem.seen, d, at)
  <2>1. mem' = [mem EXCEPT !.queue = Enqueued(mem.queue, d, at), !.seen = MemDelivered(mem.seen, d, at)]
    BY DEF Enqueue
  <2> QED
    BY <1>2, <2>1 DEF MemTables, MemUnchanged, Related
<1>4. SqlTables(sql') /\ SqlUnchanged(sql, sql', "queue") /\ QueueR(mem'.queue, mem'.seen, sql'.queue, sql'.seen, noted')
  <2>1. QueueR(mem.queue, mem.seen, sql.queue, sql.seen, noted)
    BY <1>2 DEF Related
  <2>2. /\ QueueR(mem'.queue, mem'.seen, Enqueued(sql.queue, d, at), SqlDelivered(sql.seen, d, at), noted)
        /\ QueueR(mem'.queue, mem'.seen, sql.queue, sql.seen, noted \cup {"nested"})
    <3>1. /\ QueueR(Enqueued(mem.queue, d, at), MemDelivered(mem.seen, d, at),
                    Enqueued(sql.queue, d, at), SqlDelivered(sql.seen, d, at), noted)
          /\ QueueR(Enqueued(mem.queue, d, at), MemDelivered(mem.seen, d, at), sql.queue, sql.seen, noted \cup {"nested"})
      BY <2>1, QueueEnqueued
    <3> QED
      BY <1>3, <3>1
  <2>3. CASE saved.open
    <3>1. sql' = sql /\ noted' = noted \cup {"nested"}
      BY <1>1, <2>3 DEF Enqueue
    <3> QED
      BY <1>2, <2>2, <3>1 DEF Related, SqlUnchanged
  <2>4. CASE ~saved.open
    <3>1. /\ sql' = [sql EXCEPT !.queue = Enqueued(sql.queue, d, at), !.seen = SqlDelivered(sql.seen, d, at)]
          /\ noted' = noted
      BY <1>1, <2>4 DEF Enqueue
    <3>2. SqlTables(sql') /\ SqlUnchanged(sql, sql', "queue")
      BY <1>2, <3>1 DEF SqlTables, SqlUnchanged, Related
    <3>3. sql'.queue = Enqueued(sql.queue, d, at) /\ sql'.seen = SqlDelivered(sql.seen, d, at)
      BY <1>2, <3>1 DEF SqlTables, Related
    <3> QED
      BY <2>2, <3>1, <3>2, <3>3
  <2> QED
    BY <2>3, <2>4
<1>5. Related(mem', sql', noted', skewed')
  BY <1>2, <1>3, <1>4 DEF Related, MemUnchanged, SqlUnchanged
<1>6. ResultsAgree'
  <2>1. CASE saved.open
    <3>1. Called("enqueue_nested", TRUE, FALSE)
      BY <1>1, <2>1 DEF Called
    <3> QED
      BY <3>1, CalledIs DEF RefusedBySqlite
  <2>2. CASE ~saved.open
    <3>1. Called("enqueue", TRUE, TRUE)
      BY <1>1, <2>2 DEF Called
    <3> QED
      BY <3>1, CalledIs
  <2> QED
    BY <2>1, <2>2
<1>7. mem'.snaps = mem.snaps /\ sql'.snaps = sql.snaps
  BY <1>3, <1>4 DEF MemUnchanged, SqlUnchanged
<1> QED
  BY <1>1, <1>2, <1>5, <1>6, <1>7, CallStep DEF Differences

\* save_snapshot appends to the vector and replaces a row.
LEMMA SaveSnapshotStep ==
    ASSUME IInv, NEW c \in Range(Channels), NEW ts \in SnapTimes, NEW status \in Statuses,
           SaveSnapshot(c, ts, status)
    PROVE  IInv'
<1> DEFINE s == Snapshot(c, ts, status)
           mine == {r \in Range(mem.snaps) : r.channel = c}
<1>1. /\ MayCall /\ Quiet /\ Called("save_snapshot", TRUE, TRUE)
      /\ skewed' = skewed /\ noted \subseteq noted' /\ noted' \subseteq noted \cup {"out_of_order", "replaced"}
      /\ noted' = noted \cup (IF \E r \in mine : r.ts > ts THEN {"out_of_order"} ELSE {})
                        \cup (IF \E r \in mine : r.ts = ts THEN {"replaced"} ELSE {})
      /\ Len(mem.snaps) < MaxSnapshots /\ Cardinality(sql.snaps) < MaxSnapshots
  BY DEF SaveSnapshot
<1>2. /\ Related(mem, sql, noted', skewed') /\ Related(mem, sql, noted, skewed)
      /\ noted \subseteq Differences /\ skewed \subseteq FindingIds
      /\ noted \subseteq {"pruned", "out_of_order"}
  BY <1>1, CallStarts
<1>3. MemTables(mem') /\ MemUnchanged(mem, mem', "snaps") /\ mem'.snaps = Append(mem.snaps, s)
  <2>1. mem' = [mem EXCEPT !.snaps = Append(mem.snaps, s)]
    BY DEF SaveSnapshot
  <2> QED
    BY <1>2, <2>1 DEF MemTables, MemUnchanged, Related
<1>4. SqlTables(sql') /\ SqlUnchanged(sql, sql', "snaps") /\ sql'.snaps = SqlSaveSnapshot(sql.snaps, s)
  <2>1. sql' = [sql EXCEPT !.snaps = SqlSaveSnapshot(sql.snaps, s)]
    BY DEF SaveSnapshot
  <2> QED
    BY <1>2, <2>1 DEF SqlTables, SqlUnchanged, Related
<1>5. Related(mem', sql', noted', skewed')
  BY <1>2, <1>3, <1>4 DEF Related, MemUnchanged, SqlUnchanged
<1>6. ResultsAgree'
  BY <1>1, CalledIs
<1>7. noted' \subseteq Differences
  BY <1>1, <1>2 DEF Differences
<1>8. /\ ControlInv' /\ SavedInv'
      /\ SnapsR(mem'.snaps, sql'.snaps, noted') => SnapsInv'
      /\ SnapsR(mem.snaps, sql.snaps, noted)
  BY <1>1, <1>2, <1>6, <1>7, QuietStep
<1>9. SnapsR(mem'.snaps, sql'.snaps, noted')
  <2>1. s \in Snaps /\ s.channel = c /\ s.ts = ts
    BY BackendsAssumption DEF Snapshot, Snaps
  <2> HIDE DEF s
  <2> DEFINE own == {r \in Range(mem.snaps) : r.channel = s.channel}
  <2>2. SnapsR(Append(mem.snaps, s), SqlSaveSnapshot(sql.snaps, s),
               noted \cup (IF \E r \in own : r.ts > s.ts THEN {"out_of_order"} ELSE {})
                     \cup (IF \E r \in own : r.ts = s.ts THEN {"replaced"} ELSE {}))
    BY <1>1, <1>2, <1>8, <2>1, SnapshotSaved
  <2>3. own = mine
    BY <2>1
  <2> HIDE DEF own, mine
  <2> QED
    BY <1>1, <1>3, <1>4, <2>1, <2>2, <2>3
<1> QED
  BY <1>5, <1>8, <1>9 DEF IInv

-----------------------------------------------------------------------------
(* Transactions.                                                           *)

\* A transaction begins while both count every finding alike, and keeps what
\* both hold.
LEMMA BeginTransactionStep ==
    ASSUME IInv, BeginTransaction
    PROVE  IInv'
<1>1. /\ pass = NoPass /\ skewed = {} /\ saved' = [open |-> TRUE, mem |-> mem, sql |-> sql] /\ calls' = 0
      /\ focus' = focus /\ mem' = mem /\ sql' = sql /\ pass' = pass /\ noted' = noted /\ skewed' = skewed
      /\ Called("begin", TRUE, TRUE)
  BY DEF BeginTransaction
<1>2. SnapsR(mem.snaps, sql.snaps, noted) /\ Related(mem, sql, noted, {})
  BY <1>1 DEF IInv, SnapsInv
<1>3. ResultsAgree'
  BY <1>1, CalledIs
<1>4. ControlInv'
  BY <1>1, <1>3, BackendsAssumption DEF IInv, ControlInv
<1>5. SnapsInv'
  BY <1>1, <1>2 DEF SnapsInv
<1>6. SavedInv'
  <2>1. saved'.mem = mem /\ saved'.sql = sql /\ saved'.open = TRUE
    BY <1>1
  <2> QED
    BY <1>1, <1>2, <2>1 DEF SavedInv
<1>7. Related(mem', sql', noted', skewed')
  BY <1>1, <1>2
<1> QED
  BY <1>4, <1>5, <1>6, <1>7 DEF IInv

\* A commit forgets the saved state.
LEMMA CommitTransactionStep ==
    ASSUME IInv, CommitTransaction
    PROVE  IInv'
<1>0. saved # NoTx
  <2>1. saved.open
    BY DEF CommitTransaction
  <2> QED
    BY <2>1 DEF NoTx
<1>1. /\ saved' = NoTx /\ calls' = 0
      /\ focus' = focus /\ mem' = mem /\ sql' = sql /\ pass' = pass /\ noted' = noted /\ skewed' = skewed
      /\ Called("commit", TRUE, TRUE)
  BY DEF CommitTransaction
<1>2. pass = NoPass
  BY <1>0 DEF IInv, SnapsInv
<1>3. ResultsAgree'
  BY <1>1, CalledIs
<1>4. ControlInv'
  BY <1>1, <1>3, BackendsAssumption DEF IInv, ControlInv
<1>5. SnapsInv'
  BY <1>1, <1>2 DEF IInv, SnapsInv
<1>6. SavedInv'
  BY <1>1 DEF SavedInv
<1>7. Related(mem', sql', noted', skewed')
  BY <1>1 DEF IInv
<1> QED
  BY <1>4, <1>5, <1>6, <1>7 DEF IInv

\* MemoryStorage keeps the counters a rollback should undo: the findings
\* whose counter moved are counted differently from then on.
LEMMA FindingsRolledBack ==
    ASSUME NEW m, NEW q, FindingsR(m, q, {}), NEW absent \in Counters, NEW gap,
           {id \in FindingIds : absent[id] # m.absent[id]} \subseteq gap
    PROVE  FindingsR([m EXCEPT !.absent = absent], q, gap)
<1> DEFINE n == [m EXCEPT !.absent = absent]
<1>1. FindingsR(m, q, gap)
  BY FindingsWeaken
<1>2. n = [rows |-> m.rows, absent |-> absent] /\ n.rows = m.rows /\ n.absent = absent
  BY <1>1 DEF FindingsR, MemFindings
<1> HIDE DEF n
<1>3. MemFindings(n)
  BY <1>1, <1>2 DEF FindingsR, MemFindings
<1>4. SameFindings(n, q, gap)
  <2>1. ASSUME NEW id \in FindingIds \ gap PROVE absent[id] = q.absent[id]
    BY <1>1, <2>1 DEF FindingsR, SameFindings
  <2> QED
    BY <1>1, <1>2, <2>1 DEF FindingsR, SameFindings
<1>5. FindingsR(n, q, gap)
  BY <1>1, <1>3, <1>4 DEF FindingsR
<1> QED
  BY <1>5 DEF n

\* A rollback brings back the saved state, which was related with no finding skewed.
LEMMA RollbackTransactionStep ==
    ASSUME IInv, RollbackTransaction
    PROVE  IInv'
<1>0. saved # NoTx
  <2>1. saved.open
    BY DEF RollbackTransaction
  <2> QED
    BY <2>1 DEF NoTx
<1>1. /\ saved' = NoTx /\ calls' = 0
      /\ focus' = focus /\ pass' = pass /\ noted' = noted
      /\ mem' = [saved.mem EXCEPT !.findings.absent = mem.findings.absent]
      /\ sql' = saved.sql
      /\ skewed' = skewed \cup {id \in FindingIds : mem.findings.absent[id] # saved.mem.findings.absent[id]}
      /\ Called("rollback", TRUE, TRUE)
  BY DEF RollbackTransaction
<1>2. pass = NoPass
  BY <1>0 DEF IInv, SnapsInv
<1>3. ResultsAgree'
  BY <1>1, CalledIs
<1>4. ControlInv'
  BY <1>1, <1>3, BackendsAssumption DEF IInv, ControlInv
<1>5. /\ Related(saved.mem, saved.sql, noted, {}) /\ Related(saved.mem, saved.sql, noted, skewed')
      /\ SnapsR(saved.mem.snaps, saved.sql.snaps, noted)
  <2>1. Related(saved.mem, saved.sql, noted, {}) /\ SnapsR(saved.mem.snaps, saved.sql.snaps, noted)
    BY <1>0 DEF IInv, SavedInv
  <2> QED
    BY <2>1, RelatedWeakens
<1>6. /\ MemTables(mem') /\ MemUnchanged(saved.mem, mem', "findings")
      /\ mem'.findings = [saved.mem.findings EXCEPT !.absent = mem.findings.absent]
  <2>1. mem' = [saved.mem EXCEPT !.findings = [saved.mem.findings EXCEPT !.absent = mem.findings.absent]]
    BY <1>1
  <2> QED
    BY <1>5, <2>1 DEF MemTables, MemUnchanged, Related
<1>7. FindingsR(mem'.findings, sql'.findings, skewed')
  <2>1. mem.findings.absent \in Counters
    BY DEF IInv, Related, FindingsR, MemFindings
  <2>2. FindingsR(saved.mem.findings, saved.sql.findings, {})
    BY <1>5 DEF Related
  <2>3. {id \in FindingIds : mem.findings.absent[id] # saved.mem.findings.absent[id]} \subseteq skewed'
    BY <1>1
  <2> QED
    BY <1>1, <1>6, <2>1, <2>2, <2>3, FindingsRolledBack
<1>8. Related(mem', sql', noted', skewed')
  BY <1>1, <1>5, <1>6, <1>7 DEF Related, MemUnchanged
<1>9. SnapsInv'
  BY <1>1, <1>2, <1>5, <1>6 DEF SnapsInv, MemUnchanged
<1>10. SavedInv'
  BY <1>1 DEF SavedInv
<1> QED
  BY <1>4, <1>8, <1>9, <1>10 DEF IInv

-----------------------------------------------------------------------------
(* The pruning pass.                                                       *)

\* The pass under way, in the invariant.
LEMMA PassIs ==
    ASSUME IInv, pass # NoPass
    PROVE  /\ pass = [stage |-> pass.stage, policy |-> pass.policy, now |-> pass.now, before |-> pass.before]
           /\ pass.stage \in {"age", "cap", "total"} /\ pass.policy \in Policies /\ pass.now \in SnapTimes
           /\ saved = NoTx /\ noted \cap {"zero_cap", "nested", "replaced"} = {}
           /\ SnapsR(mem.snaps, pass.before, noted) /\ PassR(pass, sql.snaps, noted)
           /\ IsPass(pass)
           /\ Related(mem, sql, noted, skewed)
<1>1. /\ pass = [stage |-> pass.stage, policy |-> pass.policy, now |-> pass.now, before |-> pass.before]
      /\ pass.stage \in {"age", "cap", "total"} /\ pass.policy \in Policies /\ pass.now \in SnapTimes
      /\ saved = NoTx /\ noted \cap {"zero_cap", "nested", "replaced"} = {}
      /\ SnapsR(mem.snaps, pass.before, noted) /\ PassR(pass, sql.snaps, noted)
  BY DEF IInv, SnapsInv
<1>2. IsPass(pass)
  BY <1>1 DEF IsPass, SnapsR
<1> QED
  BY <1>1, <1>2 DEF IInv

\* A pass begins with all rows, none of them deleted.
LEMMA PruneBeginsStep ==
    ASSUME IInv, NEW policy \in Policies, NEW now \in SnapTimes, PruneBegins(policy, now)
    PROVE  IInv'
<1>1. /\ ~saved.open /\ pass = NoPass
      /\ pass' = [stage |-> "age", policy |-> policy, now |-> now, before |-> sql.snaps]
      /\ UNCHANGED <<focus, mem, sql, saved, calls, result, noted, skewed>>
      /\ noted \subseteq {"pruned", "out_of_order"}
  BY DEF PruneBegins, MayCall, Comparable
<1>2. saved = NoTx
  <2>1. saved # NoTx => saved = [open |-> TRUE, mem |-> saved.mem, sql |-> saved.sql]
    BY DEF IInv, SavedInv
  <2>2. saved # NoTx => saved.open = TRUE
    BY <2>1
  <2> QED
    BY <1>1, <2>2
<1>3. /\ pass'.stage = "age" /\ pass'.policy = policy /\ pass'.now = now /\ pass'.before = sql.snaps
      /\ pass' # NoPass
  BY <1>1 DEF NoPass
<1>4. SnapsR(mem.snaps, sql.snaps, noted)
  BY <1>1 DEF IInv, SnapsInv
<1>5. PassR(pass', sql.snaps, noted)
  <2>1. KeptByAge(pass') \subseteq sql.snaps
    BY <1>3 DEF KeptByAge
  <2> QED
    BY <1>3, <2>1 DEF PassR
<1>6. noted \cap {"zero_cap", "nested", "replaced"} = {}
  BY <1>1
<1>7. SnapsInv'
  BY <1>1, <1>2, <1>3, <1>4, <1>5, <1>6 DEF SnapsInv
<1>8. ControlInv' /\ SavedInv' /\ Related(mem', sql', noted', skewed')
  BY <1>1 DEF IInv, ControlInv, ResultsAgree, SavedInv
<1> QED
  BY <1>7, <1>8 DEF IInv

\* Inside a transaction MemoryStorage prunes and SqliteStorage refuses.
LEMMA PruneNestedStep ==
    ASSUME IInv, NEW policy \in Policies, NEW now \in SnapTimes, PruneNested(policy, now)
    PROVE  IInv'
<1>1. /\ MayCall /\ Quiet /\ Called("prune_nested", TRUE, FALSE)
      /\ mem' = [mem EXCEPT !.snaps = MemPrune(mem.snaps, Channels, policy, now)]
      /\ noted' = noted \cup {"nested"} /\ sql' = sql /\ skewed' = skewed
  BY DEF PruneNested
<1>2. /\ Related(mem, sql, noted', skewed') /\ noted \subseteq Differences /\ skewed \subseteq FindingIds
      /\ noted \subseteq {"pruned", "out_of_order"}
  BY <1>1, CallStarts
<1>3. /\ MemTables(mem') /\ MemUnchanged(mem, mem', "snaps")
      /\ mem'.snaps = MemPrune(mem.snaps, Channels, policy, now)
  BY <1>1, <1>2 DEF MemTables, MemUnchanged, Related
<1>4. Related(mem', sql', noted', skewed')
  BY <1>1, <1>2, <1>3 DEF Related, MemUnchanged
<1>5. ResultsAgree'
  BY <1>1, CalledIs DEF RefusedBySqlite
<1>6. noted' \subseteq Differences /\ "nested" \in noted'
  BY <1>1, <1>2 DEF Differences
<1>7. /\ ControlInv' /\ SavedInv'
      /\ SnapsR(mem'.snaps, sql'.snaps, noted') => SnapsInv'
      /\ SnapsR(mem.snaps, sql.snaps, noted)
  BY <1>1, <1>2, <1>5, <1>6, QuietStep
<1>8. MemSnapshots(mem'.snaps)
  <2>1. MemSnapshots(mem.snaps)
    BY <1>2, <1>7 DEF SnapsR
  <2> QED
    BY <1>3, <2>1, PrunedIs
<1>9. SnapsR(mem'.snaps, sql'.snaps, noted')
  BY <1>1, <1>6, <1>7, <1>8 DEF SnapsR, MemSnapshots
<1> QED
  BY <1>4, <1>7, <1>9 DEF IInv

\* A statement deletes a row the policy does not keep.
LEMMA PruneDeletesStep ==
    ASSUME IInv, PruneDeletes
    PROVE  IInv'
<1>1. /\ pass # NoPass /\ noted \subseteq noted' /\ noted' \subseteq noted \cup {"tie"}
      /\ noted' = IF pass.stage = "total" /\ CutsTie(sql.snaps, pass.policy) THEN noted \cup {"tie"} ELSE noted
      /\ UNCHANGED <<focus, mem, saved, calls, pass, result, skewed>>
  BY DEF PruneDeletes
<1>2. /\ pass = [stage |-> pass.stage, policy |-> pass.policy, now |-> pass.now, before |-> pass.before]
      /\ pass.stage \in {"age", "cap", "total"} /\ pass.policy \in Policies /\ pass.now \in SnapTimes
      /\ saved = NoTx /\ noted \cap {"zero_cap", "nested", "replaced"} = {}
      /\ SnapsR(mem.snaps, pass.before, noted) /\ PassR(pass, sql.snaps, noted)
      /\ IsPass(pass)
      /\ Related(mem, sql, noted, skewed)
  BY <1>1, PassIs
<1>3. PICK r \in Prunable : sql' = [sql EXCEPT !.snaps = sql.snaps \ {r}]
  BY DEF PruneDeletes
<1>4. SqlTables(sql') /\ SqlUnchanged(sql, sql', "snaps") /\ sql'.snaps = sql.snaps \ {r}
  BY <1>2, <1>3 DEF SqlTables, SqlUnchanged, Related
<1>5. Related(mem', sql', noted', skewed')
  <2>1. Related(mem, sql, noted', skewed)
    BY <1>1, <1>2, RelatedWeakens
  <2> QED
    BY <1>1, <1>4, <2>1 DEF Related, SqlUnchanged
<1>6. PassR(pass, sql.snaps \ {r}, noted')
  <2>1. CASE pass.stage = "age"
    <3>1. r \in SqlAged(sql.snaps, pass.policy, pass.now) /\ noted' = noted
      BY <1>1, <1>3, <2>1 DEF Prunable
    <3> QED
      BY <1>2, <2>1, <3>1, AgeDeletes
  <2>2. CASE pass.stage = "cap"
    <3>1. r \in SqlOverCap(sql.snaps, pass.policy) /\ noted' = noted
      BY <1>1, <1>3, <2>2 DEF Prunable
    <3> QED
      BY <1>2, <2>2, <3>1, CapDeletes
  <2>3. CASE pass.stage = "total"
    <3>1. r \in SqlOverTotal(sql.snaps, pass.policy)
      BY <1>3, <2>3 DEF Prunable
    <3>2. PassR(pass, sql.snaps \ {r}, IF CutsTie(sql.snaps, pass.policy) THEN noted \cup {"tie"} ELSE noted)
      BY <1>2, <2>3, <3>1, TotalDeletes
    <3> QED
      BY <1>1, <2>3, <3>2
  <2> QED
    BY <1>2, <2>1, <2>2, <2>3
<1>7. SnapsR(mem.snaps, pass.before, noted')
  BY <1>1, <1>2, SnapsWeaken
<1>8. SnapsInv'
  <2>1. noted' \cap {"zero_cap", "nested", "replaced"} = {}
    BY <1>1, <1>2
  <2> QED
    BY <1>1, <1>2, <1>4, <1>6, <1>7, <2>1 DEF SnapsInv
<1>9. ControlInv'
  BY <1>1 DEF IInv, ControlInv, ResultsAgree, Differences
<1>10. SavedInv'
  BY <1>1, <1>2 DEF SavedInv
<1> QED
  BY <1>5, <1>8, <1>9, <1>10 DEF IInv

\* A loop ends when its statement finds no row, with exactly the rows the policy keeps.
LEMMA PruneAdvancesStep ==
    ASSUME IInv, PruneAdvances
    PROVE  IInv'
<1>1. /\ pass # NoPass /\ Prunable = {} /\ pass.stage # "total"
      /\ pass' = [pass EXCEPT !.stage = IF pass.stage = "age" THEN "cap" ELSE "total"]
      /\ UNCHANGED <<focus, mem, sql, saved, calls, result, noted, skewed>>
  BY DEF PruneAdvances
<1>2. /\ pass = [stage |-> pass.stage, policy |-> pass.policy, now |-> pass.now, before |-> pass.before]
      /\ pass.stage \in {"age", "cap", "total"} /\ pass.policy \in Policies /\ pass.now \in SnapTimes
      /\ saved = NoTx /\ noted \cap {"zero_cap", "nested", "replaced"} = {}
      /\ SnapsR(mem.snaps, pass.before, noted) /\ PassR(pass, sql.snaps, noted)
      /\ IsPass(pass)
      /\ Related(mem, sql, noted, skewed)
  BY <1>1, PassIs
<1>3. /\ pass' = [stage |-> pass'.stage, policy |-> pass'.policy, now |-> pass'.now, before |-> pass'.before]
      /\ pass'.stage = IF pass.stage = "age" THEN "cap" ELSE "total"
      /\ pass'.policy = pass.policy /\ pass'.now = pass.now /\ pass'.before = pass.before
  BY <1>1, <1>2
<1>4. pass' # NoPass
  BY <1>3 DEF NoPass
<1>5. PassR(pass', sql.snaps, noted)
  <2>1. CASE pass.stage = "age"
    <3>1. SqlAged(sql.snaps, pass.policy, pass.now) = {}
      BY <1>1, <2>1 DEF Prunable
    <3> QED
      BY <1>2, <1>3, <2>1, <3>1, AgeEnds
  <2>2. CASE pass.stage = "cap"
    <3>1. SqlOverCap(sql.snaps, pass.policy) = {}
      BY <1>1, <2>2 DEF Prunable
    <3> QED
      BY <1>2, <1>3, <2>2, <3>1, CapEnds
  <2> QED
    BY <1>1, <1>2, <2>1, <2>2
<1>6. SnapsInv'
  BY <1>1, <1>2, <1>3, <1>4, <1>5 DEF SnapsInv
<1>7. ControlInv' /\ SavedInv' /\ Related(mem', sql', noted', skewed')
  BY <1>1 DEF IInv, ControlInv, ResultsAgree, SavedInv
<1> QED
  BY <1>6, <1>7 DEF IInv

\* The pass commits what MemoryStorage keeps.
LEMMA PruneCommitsStep ==
    ASSUME IInv, PruneCommits
    PROVE  IInv'
<1> DEFINE more == {"pruned"} \cup (IF 0 \in {pass.policy.cap, pass.policy.total} THEN {"zero_cap"} ELSE {})
<1>1. /\ pass # NoPass /\ Prunable = {} /\ pass.stage = "total"
      /\ mem' = [mem EXCEPT !.snaps = MemPrune(mem.snaps, Channels, pass.policy, pass.now)]
      /\ noted' = noted \cup more /\ noted' \subseteq noted \cup {"pruned", "zero_cap"}
      /\ pass' = NoPass /\ Called("prune", TRUE, TRUE)
      /\ UNCHANGED <<focus, sql, saved, calls, skewed>>
  BY DEF PruneCommits
<1>2. /\ saved = NoTx /\ noted \cap {"zero_cap", "nested", "replaced"} = {}
      /\ SnapsR(mem.snaps, pass.before, noted) /\ PassR(pass, sql.snaps, noted)
      /\ IsPass(pass)
      /\ Related(mem, sql, noted, skewed)
  BY <1>1, PassIs
<1>3. /\ MemTables(mem') /\ MemUnchanged(mem, mem', "snaps")
      /\ mem'.snaps = MemPrune(mem.snaps, Channels, pass.policy, pass.now)
  BY <1>1, <1>2 DEF MemTables, MemUnchanged, Related
<1>4. Related(mem', sql', noted', skewed')
  <2>1. Related(mem, sql, noted', skewed)
    BY <1>1, <1>2, RelatedWeakens
  <2> QED
    BY <1>1, <1>3, <2>1 DEF Related, MemUnchanged
<1>5. SnapsInv'
  <2>1. SqlOverTotal(sql.snaps, pass.policy) = {}
    BY <1>1 DEF Prunable
  <2>2. SnapsR(MemPrune(mem.snaps, Channels, pass.policy, pass.now), sql.snaps,
               noted \cup {"pruned"} \cup (IF 0 \in {pass.policy.cap, pass.policy.total} THEN {"zero_cap"} ELSE {}))
    BY <1>1, <1>2, <2>1, PassEnds
  <2>3. SnapsR(mem'.snaps, sql'.snaps, noted')
    BY <1>1, <1>3, <2>2
  <2> QED
    BY <1>1, <2>3 DEF SnapsInv
<1>6. ResultsAgree'
  BY <1>1, CalledIs
<1>7. ControlInv'
  BY <1>1, <1>6 DEF IInv, ControlInv, Differences
<1>8. SavedInv'
  BY <1>1, <1>2 DEF SavedInv
<1> QED
  BY <1>4, <1>5, <1>7, <1>8 DEF IInv

\* A failing statement rolls every row back.
LEMMA PruneFailsStep ==
    ASSUME IInv, PruneFails
    PROVE  IInv'
<1>1. /\ pass # NoPass
      /\ sql' = [sql EXCEPT !.snaps = pass.before]
      /\ pass' = NoPass /\ Called("prune", FALSE, FALSE)
      /\ UNCHANGED <<focus, mem, saved, calls, noted, skewed>>
  BY DEF PruneFails
<1>2. /\ saved = NoTx
      /\ SnapsR(mem.snaps, pass.before, noted)
      /\ Related(mem, sql, noted, skewed)
  BY <1>1, PassIs
<1>3. SqlTables(sql') /\ SqlUnchanged(sql, sql', "snaps") /\ sql'.snaps = pass.before
  BY <1>1, <1>2 DEF SqlTables, SqlUnchanged, Related
<1>4. Related(mem', sql', noted', skewed')
  BY <1>1, <1>2, <1>3 DEF Related, SqlUnchanged
<1>5. SnapsInv'
  BY <1>1, <1>2, <1>3 DEF SnapsInv
<1>6. ResultsAgree'
  BY <1>1, CalledIs
<1>7. ControlInv'
  BY <1>1, <1>6 DEF IInv, ControlInv
<1>8. SavedInv'
  BY <1>1, <1>2 DEF SavedInv
<1> QED
  BY <1>4, <1>5, <1>7, <1>8 DEF IInv

\* Each call, and each statement of a pruning pass, keeps the invariant.
LEMMA Preserved == IInv /\ [Next]_vars => IInv'
<1>1. SUFFICES ASSUME IInv, [Next]_vars PROVE IInv'
  OBVIOUS
<1>2. CASE UNCHANGED vars
  BY <1>1, <1>2 DEF vars, IInv, ControlInv, ResultsAgree, SnapsInv, SavedInv
<1>3. CASE BeginTransaction
  BY <1>1, <1>3, BeginTransactionStep
<1>4. CASE CommitTransaction
  BY <1>1, <1>4, CommitTransactionStep
<1>5. CASE RollbackTransaction
  BY <1>1, <1>5, RollbackTransactionStep
<1>6. CASE \E id \in FindingIds, at \in Times : SaveFinding(id, at)
  BY <1>1, <1>6, SaveFindingStep
<1>7. CASE \E complete \in BOOLEAN : ResolveFindings(complete)
  BY <1>1, <1>7, ResolveFindingsStep
<1>8. CASE \E id \in FindingIds : SaveRecommendation(id) \/ SetStage(id) \/ ResolveAdvice(id)
  BY <1>1, <1>8, SaveRecommendationStep, SetStageStep, ResolveAdviceStep
<1>9. CASE SyncAdvice
  BY <1>1, <1>9, SyncAdviceStep
<1>10. CASE \E c \in Range(Channels), ts \in SnapTimes, status \in Statuses : SaveSnapshot(c, ts, status)
  BY <1>1, <1>10, SaveSnapshotStep
<1>11. CASE \E policy \in Policies, now \in SnapTimes : PruneBegins(policy, now) \/ PruneNested(policy, now)
  BY <1>1, <1>11, PruneBeginsStep, PruneNestedStep
<1>12. CASE PruneDeletes
  BY <1>1, <1>12, PruneDeletesStep
<1>13. CASE PruneAdvances
  BY <1>1, <1>13, PruneAdvancesStep
<1>14. CASE PruneCommits
  BY <1>1, <1>14, PruneCommitsStep
<1>15. CASE PruneFails
  BY <1>1, <1>15, PruneFailsStep
<1>16. CASE \E rec \in Runs : SaveRun(rec)
  BY <1>1, <1>16, SaveRunStep
<1>17. CASE \E sim \in Sims : SaveSimulation(sim)
  BY <1>1, <1>17, SaveSimulationStep
<1>18. CASE \E e \in Events : AppendEvent(e)
  BY <1>1, <1>18, AppendEventStep
<1>19. CASE \E d \in Deliveries, at \in Times : Enqueue(d, at) \/ RecordDelivery(d, at) \/ MarkProcessed(d, at)
  BY <1>1, <1>19, EnqueueStep, RecordDeliveryStep, MarkProcessedStep
<1>20. CASE \E source \in Sources : UpdateState("source", source)
  BY <1>1, <1>20, UpdateStateStep
<1>21. CASE \E component \in Components : UpdateState("alert_sink", component)
  BY <1>1, <1>21, UpdateStateStep
<1>22. CASE \E state \in AlertStates(Times) : WriteAlert(state)
  BY <1>1, <1>22, WriteAlertStep
<1>23. CASE \E id \in 1..MaxAudit, stage \in DOMAIN StageText, ts \in Times : AppendAudit(id, stage, ts)
  BY <1>1, <1>23, AppendAuditStep
<1> QED
  BY <1>1, <1>2, <1>3, <1>4, <1>5, <1>6, <1>7, <1>8, <1>9, <1>10, <1>11, <1>12, <1>13, <1>14,
     <1>15, <1>16, <1>17, <1>18, <1>19, <1>20, <1>21, <1>22, <1>23 DEF Next

-----------------------------------------------------------------------------
(* What the invariant says of the properties.                              *)

\* The bounds are part of the relations between the tables.
LEMMA TypeShown == IInv => TypeOK
<1>1. SUFFICES ASSUME IInv PROVE TypeOK
  OBVIOUS
<1>2. focus \in Focuses /\ calls \in 0..MaxTxCalls /\ noted \subseteq Differences /\ skewed \subseteq FindingIds
  BY <1>1 DEF IInv, ControlInv
<1>3. FindingsR(mem.findings, sql.findings, skewed)
  BY <1>1 DEF IInv, Related
<1>4. \A r \in Range(mem.findings.rows) : r.first <= r.last
  BY <1>3 DEF FindingsR, MemFindings, Range
<1>5. \A id \in FindingIds : mem.findings.absent[id] \in 0..2 /\ sql.findings.absent[id] \in 0..2
  BY <1>3 DEF FindingsR, MemFindings, SqlFindings, Counters
<1>6. Len(mem.snaps) <= MaxSnapshots /\ Cardinality(sql.snaps) <= MaxSnapshots /\ pass.stage \in {"none", "age", "cap", "total"}
  <2>1. CASE pass = NoPass
    <3>1. SnapsR(mem.snaps, sql.snaps, noted)
      BY <1>1, <2>1 DEF IInv, SnapsInv
    <3> QED
      BY <2>1, <3>1 DEF SnapsR, MemSnapshots, SqlSnapshots, NoPass
  <2>2. CASE pass # NoPass
    <3>1. pass.stage \in {"age", "cap", "total"} /\ SnapsR(mem.snaps, pass.before, noted) /\ PassR(pass, sql.snaps, noted)
      BY <1>1, <2>2, PassIs
    <3>2. /\ Len(mem.snaps) <= MaxSnapshots /\ sql.snaps \subseteq pass.before
          /\ IsFiniteSet(pass.before) /\ Cardinality(pass.before) <= MaxSnapshots
      BY <3>1 DEF SnapsR, PassR, MemSnapshots, SqlSnapshots
    <3>3. /\ Cardinality(sql.snaps) <= Cardinality(pass.before)
          /\ Cardinality(sql.snaps) \in Nat /\ Cardinality(pass.before) \in Nat
      BY <3>2, PartIs
    <3> QED
      BY <3>1, <3>2, <3>3, BackendsAssumption
  <2> QED
    BY <2>1, <2>2
<1> QED
  BY <1>2, <1>4, <1>5, <1>6 DEF TypeOK

\* Related findings and recommendations are read alike.
LEMMA LifecycleShown == IInv => LifecycleAgrees
<1>1. SUFFICES ASSUME IInv PROVE LifecycleAgrees
  OBVIOUS
<1>2. FindingsR(mem.findings, sql.findings, skewed) /\ AdviceR(mem.advice, sql.advice, noted, skewed)
  BY <1>1 DEF IInv, Related
<1>3. FindingsAgree
  <2>1. ASSUME NEW id \in FindingIds
        PROVE  LET m == {r \in Range(mem.findings.rows) : r.id = id}
                   q == {RowToFinding(r) : r \in {x \in sql.findings.rows : x.id = id}}
               IN  /\ {<<r.first, r.last, r.severity>> : r \in m} = {<<r.first, r.last, r.severity>> : r \in q}
                   /\ id \notin skewed => m = q /\ mem.findings.absent[id] = sql.findings.absent[id]
    <3> DEFINE m == mem.findings
               q == sql.findings
    <3>1. FindingsR(m, q, skewed)
      BY <1>2
    <3> HIDE DEF m, q
    <3>2. LET M == {r \in Range(m.rows) : r.id = id}
              Q == {RowToFinding(r) : r \in {x \in q.rows : x.id = id}}
          IN  /\ {<<r.first, r.last, r.severity>> : r \in M} = {<<r.first, r.last, r.severity>> : r \in Q}
              /\ id \notin skewed => M = Q /\ m.absent[id] = q.absent[id]
      BY <3>1, FindingsShown
    <3> QED
      BY <3>2 DEF m, q
  <2> QED
    BY <2>1 DEF FindingsAgree
<1>4. AdviceAgrees
  <2>1. SUFFICES ASSUME "resaved" \notin noted
        PROVE  /\ \A id \in FindingIds \ skewed : mem.advice[id] = RowToRecommendation(sql.advice[id])
               /\ skewed = {} =>
                     \A active \in BOOLEAN, limit \in 1..2 :
                         MemLatestRecommendations(mem.advice, active, limit)
                             = SqlLatestRecommendations(sql.advice, active, limit)
    BY DEF AdviceAgrees
  <2>2. \A id \in FindingIds \ skewed : mem.advice[id] = RowToRecommendation(sql.advice[id])
    BY <1>2, <2>1, AdviceShown
  <2>3. ASSUME skewed = {}, NEW active \in BOOLEAN, NEW limit \in 1..2
        PROVE  MemLatestRecommendations(mem.advice, active, limit)
                   = SqlLatestRecommendations(sql.advice, active, limit)
    <3>1. AdviceR(mem.advice, sql.advice, noted, {})
      BY <1>2, <2>3
    <3> QED
      BY <2>1, <3>1, AdviceListed
  <2> QED
    BY <2>2, <2>3
<1>5. ListsAgree
  <2>1. SUFFICES ASSUME \A j, k \in DOMAIN mem.findings.rows :
                           j < k => mem.findings.rows[j].last < mem.findings.rows[k].last,
                        skewed = {}, NEW filter, NEW limit
        PROVE  MemLatestFindings(mem.findings, filter, limit) = SqlLatestFindings(sql.findings, filter, limit)
    BY DEF ListsAgree
  <2>2. FindingsR(mem.findings, sql.findings, {})
    BY <1>2, <2>1
  <2> QED
    BY <2>1, <2>2, FindingsListed
<1> QED
  BY <1>3, <1>4, <1>5 DEF LifecycleAgrees

\* Related snapshots are read alike.
LEMMA RetentionShown == IInv => RetentionAgrees
<1>1. SUFFICES ASSUME IInv PROVE RetentionAgrees
  OBVIOUS
<1>2. pass = NoPass => SnapsR(mem.snaps, sql.snaps, noted)
  BY <1>1 DEF IInv, SnapsInv
<1>3. SnapshotsAgree
  <2>1. SUFFICES ASSUME pass = NoPass, noted \cap {"tie", "zero_cap", "nested", "replaced"} = {}
        PROVE  /\ \A c \in Range(Channels), ts \in SnapTimes :
                     MemSnapshotAt(mem.snaps, c, ts) = SqlSnapshotAt(sql.snaps, c, ts)
               /\ Len(mem.snaps) = Cardinality(sql.snaps)
    BY DEF SnapshotsAgree
  <2> QED
    BY <1>2, <2>1, SnapshotsShown
<1>4. HistoryAgrees
  <2>1. SUFFICES ASSUME noted = {}, pass = NoPass, NEW limit \in 1..2
        PROVE  /\ \A c \in Range(Channels) : MemRecent(mem.snaps, c, limit) = SqlRecent(sql.snaps, c, limit)
               /\ (\A j, k \in DOMAIN mem.snaps : j < k => mem.snaps[j].ts < mem.snaps[k].ts) =>
                     MemRecentAll(mem.snaps, limit) = SqlRecentAll(sql.snaps, limit)
    BY DEF HistoryAgrees
  <2>2. SnapsR(mem.snaps, sql.snaps, {})
    BY <1>2, <2>1
  <2> QED
    BY <2>2, HistoryShown
<1> QED
  BY <1>3, <1>4 DEF RetentionAgrees

\* Related runs are read alike.
LEMMA RunsAgreeShown == IInv => RunsAgree
<1>1. SUFFICES ASSUME IInv, noted \cap {"invalid", "taken"} = {} PROVE RunsAgree
  BY DEF RunsAgree
<1> DEFINE runs == mem.runs
           sims == mem.sims
           rows == sql.runs
<1>2. RunsR(runs, sims, rows, noted)
  BY <1>1 DEF IInv, Related
<1> HIDE DEF runs, sims, rows
<1>3. /\ Range(runs) = {r \in rows : r.model # "legacy"}
      /\ SqlLatestRuns(rows, Cardinality(rows)).ok
      /\ \A r \in Runs : /\ MemReplayableById(runs, r.id) = SqlReplayableById(rows, r.id)
                         /\ SqlRunById(rows, r.id) =
                               MemRunById(runs, r.id)
                                  \cup {LegacyRow(s) : s \in {x \in Range(sims) : x.id = r.id}}
  BY <1>1, <1>2, RunsShown
<1>4. ASSUME NEW hash
      PROVE  /\ MemRunByInput(runs, hash) \subseteq SqlRunByInput(rows, hash)
             /\ MemRunByInput(runs, hash) = {} => SqlRunByInput(rows, hash) = {}
  BY <1>1, <1>2, RunFound
<1>5. ASSUME InCreationOrder(runs)
      PROVE  /\ \A limit : MemReplayable(runs, limit) = SqlReplayable(rows, limit).list
             /\ sims = <<>> => /\ \A limit : MemLatestRuns(runs, limit) = SqlLatestRuns(rows, limit).list
                               /\ \A action : MemForAction(runs, action) = SqlForAction(rows, action).list
  BY <1>1, <1>2, <1>5, RunsListed
<1> QED
  BY <1>3, <1>4, <1>5 DEF RunsAgree, runs, sims, rows

\* The rows of the first kind are read as the simulations of MemoryStorage.
LEMMA SimulationsShown == IInv => SimulationsApart
<1>1. SUFFICES ASSUME IInv PROVE SimulationsApart
  OBVIOUS
<1> DEFINE runs == mem.runs
           sims == mem.sims
           rows == sql.runs
           counts == SqlStatusCounts(rows)
<1>2. RunsR(runs, sims, rows, noted)
  BY <1>1 DEF IInv, Related
<1> HIDE DEF runs, sims, rows, counts
<1>3. ASSUME "taken" \notin noted, InCreationOrder(sims)
      PROVE  /\ \A limit : MemLatestRuns(sims, limit) = SqlLatestSimulations(rows, limit)
             /\ \A action : MemForAction(sims, action) = SqlSimulationsForAction(rows, action)
  BY <1>2, <1>3, SimulationsListed
<1>4. /\ counts.completed + counts.failed + counts.stale + counts.other = SqlCountSimulations(rows)
      /\ noted \cap {"invalid", "taken"} = {} => SqlCountSimulations(rows) = MemCountSimulations(runs, sims)
  BY <1>2, SimulationsCounted DEF counts
<1> QED
  BY <1>3, <1>4 DEF SimulationsApart, runs, sims, rows, counts

\* Related events, deliveries and rows of state are read alike.
LEMMA RecordsShown == IInv => RecordsAgree
<1>1. SUFFICES ASSUME IInv PROVE RecordsAgree
  OBVIOUS
<1>2. Related(mem, sql, noted, skewed)
  BY <1>1 DEF IInv
<1>3. EventsAgree
  <2>1. EventsR(mem.events, sql.events, sql.runs, noted)
    BY <1>2 DEF Related
  <2>2. \A e \in sql.events : ValidateStatus(e.status) /\ \E r \in sql.runs : r.id = e.run
    BY <2>1 DEF EventsR
  <2>3. ASSUME noted \cap {"invalid", "orphan"} = {} PROVE Range(mem.events) = sql.events
    BY <2>1, <2>3 DEF EventsR
  <2>4. ASSUME noted \cap {"invalid", "orphan"} = {},
               \A j, k \in DOMAIN mem.events : j < k => mem.events[j].ts < mem.events[k].ts,
               NEW run
        PROVE  MemEvents(mem.events, run) = SqlEvents(sql.events, run)
    BY <2>1, <2>4, EventsListed
  <2> QED
    BY <2>2, <2>3, <2>4 DEF EventsAgree
<1>4. QueueAgrees
  <2>1. SUFFICES ASSUME noted \cap {"remarked", "nested"} = {}
        PROVE  /\ mem.queue = sql.queue
               /\ \A d \in Deliveries : MemIsProcessed(mem.seen, d) = SqlIsProcessed(sql.seen, d)
               /\ \A d \in DOMAIN sql.queue : SqlIsProcessed(sql.seen, d)
               /\ \A limit \in 0..2 :
                     /\ MemPendingEvents(mem.queue, limit) = SqlPendingEvents(sql.queue, limit)
                     /\ MemProcessedEvents(mem.queue, limit) = SqlProcessedEvents(sql.queue, limit)
    BY DEF QueueAgrees
  <2>2. QueueR(mem.queue, mem.seen, sql.queue, sql.seen, noted)
    BY <1>2 DEF Related
  <2> QED
    BY <2>1, <2>2, QueueShown
<1>5. StatesAgree
  <2>1. SqlReadState(sql.state) = mem.state /\ SqlReadAlert(sql.alert) = mem.alert
    BY <1>2 DEF Related, StateR, AlertR
  <2>2. AuditR(mem.audit, sql.audit, noted)
    BY <1>2 DEF Related
  <2>3. ASSUME "taken" \notin noted, \A j, k \in DOMAIN mem.audit : j < k => mem.audit[j].ts < mem.audit[k].ts,
               NEW limit \in 1..2
        PROVE  SqlRecentAudit(sql.audit, limit) = MemRecentAudit(mem.audit, limit)
    BY <2>2, <2>3, AuditListed
  <2> QED
    BY <2>1, <2>3 DEF StatesAgree
<1>6. ResultsAgree
  BY <1>1 DEF IInv, ControlInv
<1> QED
  BY <1>1, <1>3, <1>4, <1>5, <1>6, RunsAgreeShown, SimulationsShown DEF RecordsAgree

-----------------------------------------------------------------------------
\* Every reachable state of the two storages satisfies the invariant.
THEOREM Invariance == Spec => []IInv
<1> QED
  BY Start, Preserved, PTL DEF Spec

\* Both storages keep to their bounds and counters at every call of the trait, and a pruning
\* pass is in one of its three loops.
THEOREM TypeCorrect == Spec => []TypeOK
<1> QED
  BY Invariance, TypeShown, PTL

\* SqliteStorage and MemoryStorage hold the same findings, absence counts and
\* recommendations, and list the same, as long as none of the recorded
\* differences was met, for any findings, times and severities.
THEOREM LifecycleHolds == Spec => []LifecycleAgrees
<1> QED
  BY Invariance, LifecycleShown, PTL

\* The three loops of prune_channel_snapshots leave what the policy of
\* MemoryStorage keeps, whichever rows each statement deletes and wherever a
\* pass fails, for any number of channels, snapshots and policies.
THEOREM RetentionHolds == Spec => []RetentionAgrees
<1> QED
  BY Invariance, RetentionShown, PTL

\* Runs, simulations, events, the webhook queue, the rows of state and the
\* audit log read back the same from both, and calls have the same results
\* but for the ones SqliteStorage alone refuses, whatever records and ids are
\* saved, in whatever order and however often.
THEOREM RecordsHold == Spec => []RecordsAgree
<1> QED
  BY Invariance, RecordsShown, PTL
=============================================================================
