--------------------------- MODULE FindingTables ----------------------------
(***************************************************************************)
(* The tables of findings and recommendations in the two implementations   *)
(* of the Storage trait: MemoryStorage (crates/rieko-storage/src/          *)
(* storage.rs), on vectors and a map of absence counters, and              *)
(* SqliteStorage (sqlite.rs), on rows.  Pure operators on the state of     *)
(* each, which module StorageBackends runs side by side.                   *)
(*                                                                         *)
(* Data abstraction.  A finding keeps its times, severity and lifecycle;   *)
(* evidence and texts travel with last_seen_at.  The findings are those of one      *)
(* detector scope; each has at most one recommendation.                    *)
(***************************************************************************)
EXTENDS StateTables

CONSTANTS
    FindingIds,   \* finding identities of one scope
    SubjectOf,    \* detector, version, network, node and channel of each
    SeverityAt    \* severity of what is observed, by time

\* What both do to an existing row: an older observation changes nothing but
\* the time of the first one.
Updated(row, first, at, severity) ==
    [id |-> row.id, first |-> Min({row.first, first}), last |-> Max({row.last, at}),
     severity |-> IF at >= row.last THEN severity ELSE row.severity,
     life |-> IF at >= row.last THEN "active" ELSE row.life]

FirstSeen(rows, id, at) ==
    Min({at} \cup {r.first : r \in {x \in rows : SubjectOf[x.id] = SubjectOf[id]}})

NewFinding(id, first, at, severity) ==
    [id |-> id, first |-> first, last |-> at, severity |-> severity, life |-> "active"]

-----------------------------------------------------------------------------
(* MemoryStorage.                                                          *)

\* A vector of findings and, outside of it, the counters of absence.
EmptyMemFindings == [rows |-> <<>>, absent |-> [id \in FindingIds |-> 0]]

MemSaveFinding(m, id, at) ==
    LET first == FirstSeen(Range(m.rows), id, at)
        found == {k \in DOMAIN m.rows : m.rows[k].id = id}
    IN  IF found = {}
        THEN [m EXCEPT !.rows = Append(@, NewFinding(id, first, at, SeverityAt[at]))]
        ELSE [rows |-> [k \in DOMAIN m.rows |->
                           IF k \in found THEN Updated(m.rows[k], first, at, SeverityAt[at]) ELSE m.rows[k]],
              absent |-> [m.absent EXCEPT ![id] = 0]]

\* The third complete cycle without the finding resolves it.
MemResolve(m, complete) ==
    LET active == {r.id : r \in {x \in Range(m.rows) : x.life = "active"}}
        count(id) == m.absent[id] + 1
    IN  IF ~complete THEN m
        ELSE [rows |-> [k \in DOMAIN m.rows |->
                            IF m.rows[k].id \in active /\ count(m.rows[k].id) >= 3
                            THEN [m.rows[k] EXCEPT !.life = "resolved"] ELSE m.rows[k]],
              absent |-> [id \in FindingIds |->
                            IF id \in active
                            THEN IF count(id) >= 3 THEN 0 ELSE count(id)
                            ELSE m.absent[id]]]

LifecycleMatches(row, filter) == filter = "all" \/ row.life = filter

MemLatestFindings(m, filter, limit) ==
    First(LastFirst(m.rows, {k \in DOMAIN m.rows : LifecycleMatches(m.rows[k], filter)}), limit)

-----------------------------------------------------------------------------
(* SqliteStorage.                                                          *)

\* Rows by primary key, the severity an integer, the counter in the row.
EmptySqlFindings == [rows |-> {}, absent |-> [id \in FindingIds |-> 0]]

RowToFinding(r) == [r EXCEPT !.severity = SeverityFromInt(@)]

SqlSaveFinding(q, id, at) ==
    LET first == FirstSeen(q.rows, id, at)
        found == {r \in q.rows : r.id = id}
        newest == \A r \in found : at >= r.last
    IN  [rows |-> (q.rows \ found) \cup
                    (IF found = {} THEN {NewFinding(id, first, at, SeverityInt[SeverityAt[at]])}
                     ELSE {Updated(r, first, at, SeverityInt[SeverityAt[at]]) : r \in found}),
         absent |-> IF newest THEN [q.absent EXCEPT ![id] = 0] ELSE q.absent]

\* Faulty variant: the counters are incremented first.
SqlCountFirst(q, complete) ==
    LET active == {r.id : r \in {x \in q.rows : x.life = "active"}}
        count(id) == IF q.absent[id] < 2 THEN q.absent[id] + 1 ELSE q.absent[id]
        gone == {id \in active : count(id) >= 2}
    IN  IF ~complete THEN q
        ELSE [rows |-> {IF r.id \in gone THEN [r EXCEPT !.life = "resolved"] ELSE r : r \in q.rows},
              absent |-> [id \in FindingIds |->
                            IF id \in gone THEN 0
                            ELSE IF id \in active THEN count(id) ELSE q.absent[id]]]

\* Faulty variant: the first statement waits one cycle longer.
SqlResolveLate(q, complete) ==
    LET active == {r.id : r \in {x \in q.rows : x.life = "active"}}
        gone == {id \in active : q.absent[id] >= 3}
    IN  IF ~complete THEN q
        ELSE [rows |-> {IF r.id \in gone THEN [r EXCEPT !.life = "resolved"] ELSE r : r \in q.rows},
              absent |-> [id \in FindingIds |->
                            IF id \in gone THEN 0
                            ELSE IF id \in active THEN q.absent[id] + 1 ELSE q.absent[id]]]

\* Two statements: the first resolves rows whose counter is at two, the
\* second increments the others.
SqlResolve(q, complete) ==
    LET active == {r.id : r \in {x \in q.rows : x.life = "active"}}
        gone == {id \in active : q.absent[id] >= 2}
    IN  IF ~complete THEN q
        ELSE [rows |-> {IF r.id \in gone THEN [r EXCEPT !.life = "resolved"] ELSE r : r \in q.rows},
              absent |-> [id \in FindingIds |->
                            IF id \in gone THEN 0
                            ELSE IF id \in active THEN q.absent[id] + 1 ELSE q.absent[id]]]

\* ORDER BY ts DESC, and ts moves with last_seen_at.
SqlLatestFindings(q, filter, limit) ==
    LET rows == {RowToFinding(r) : r \in {x \in q.rows : LifecycleMatches(x, filter)}}
    IN  First(Listed(rows, {p \in rows \X rows : p[1].last > p[2].last}), limit)

-----------------------------------------------------------------------------
(* Recommendations, by action.                                             *)

NoAdvice == [lifecycle |-> "none", stage |-> "none", created |-> 0]

EmptyAdvice == [id \in FindingIds |-> NoAdvice]

\* A recommendation created after all the others: created is the rank of
\* created_at, in memory the place in the vector.
NewAdvice(recs, id) ==
    [lifecycle |-> "active", stage |-> "recommended",
     created |-> 1 + Max({0} \cup {recs[other].created : other \in FindingIds \ {id}})]

\* An existing recommendation keeps its lifecycle, its stage and its place.
MemSaveRecommendation(recs, id) ==
    IF recs[id] = NoAdvice THEN [recs EXCEPT ![id] = NewAdvice(recs, id)] ELSE recs

\* INSERT OR REPLACE: an existing row is replaced by a new one.
SqlSaveRecommendation(recs, id) ==
    [recs EXCEPT ![id] = [NewAdvice(recs, id) EXCEPT !.stage = StageText[@]]]

Shown(recs, active) ==
    {id \in FindingIds : recs[id] # NoAdvice /\ (active => recs[id].lifecycle = "active")}

\* latest_recommendations and latest_active_recommendations: the vector from
\* its end.
MemLatestRecommendations(recs, active, limit) ==
    LET ids == Shown(recs, active)
    IN  First(Reverse(Listed(ids, {p \in ids \X ids : recs[p[1]].created < recs[p[2]].created})), limit)

\* ORDER BY created_at DESC LIMIT.
SqlLatestRecommendations(recs, active, limit) ==
    LET ids == Shown(recs, active)
    IN  First(Listed(ids, {p \in ids \X ids : recs[p[1]].created > recs[p[2]].created}), limit)

RowToRecommendation(rec) ==
    IF rec = NoAdvice THEN rec ELSE [rec EXCEPT !.stage = ParseActionStage(@)]

\* The stage is the value in memory, its name in the row.
SetActionStage(recs, id, stage) ==
    [recs EXCEPT ![id] = IF @ = NoAdvice THEN @ ELSE [@ EXCEPT !.stage = stage]]

ResolveRecommendations(recs, id) ==
    [recs EXCEPT ![id] = IF @ = NoAdvice THEN @ ELSE [@ EXCEPT !.lifecycle = "resolved"]]

ResolvedIds(rows) == {r.id : r \in {x \in rows : x.life = "resolved"}}

MemSyncRecommendations(recs, m) ==
    [id \in FindingIds |->
        IF recs[id] # NoAdvice /\ id \in ResolvedIds(Range(m.rows))
        THEN [recs[id] EXCEPT !.lifecycle = "resolved"] ELSE recs[id]]

SqlSyncRecommendations(recs, q) ==
    [id \in FindingIds |->
        IF recs[id].lifecycle = "active" /\ id \in ResolvedIds(q.rows)
        THEN [recs[id] EXCEPT !.lifecycle = "resolved"] ELSE recs[id]]
=============================================================================
