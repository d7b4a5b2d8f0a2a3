--------------------------- MODULE SnapshotTables ---------------------------
(***************************************************************************)
(* The table of channel snapshots and its retention in MemoryStorage       *)
(* (storage.rs) and SqliteStorage (sqlite.rs), with the policy of          *)
(* retention.rs.  Pure operators, which module StorageBackends uses.       *)
(*                                                                         *)
(* Data abstraction.  A snapshot has its channel (with network and node),  *)
(* its time and status.  SQLite compares times as RFC 3339 text in UTC,    *)
(* whose order is that of the times whatever the number of fraction        *)
(* digits.  A statement of the pruning loops deletes one row where the     *)
(* code deletes up to CHUNK.                                               *)
(***************************************************************************)
EXTENDS Listings

\* Discriminants of ChannelStatus.
StatusInt ==
    [Opening |-> 0, Active |-> 1, Inactive |-> 2, Closing |-> 3, Closed |-> 4,
     PendingOpen |-> 5, WaitingClose |-> 6, ForceClosing |-> 7, Unknown |-> 8]

\* status_from_i64.
StatusFromInt(n) == CHOOSE status \in DOMAIN StatusInt : StatusInt[status] = n

StatusIsClosed(status) == status \in {"Closed", "Closing", "WaitingClose", "ForceClosing"}

Snapshot(channel, ts, status) == [channel |-> channel, ts |-> ts, status |-> status]

\* Some(n) of an optional cap, or None.
None == -1

Newer(rows, r) == {s \in rows : s.channel = r.channel /\ s.ts > r.ts}

-----------------------------------------------------------------------------
(* MemoryStorage: a vector.                                                *)

\* Positions in the list.
OfChannel(list, c) == {k \in DOMAIN list : list[k].channel = c}

\* The sort is stable.
NewerAt(list, j, k) ==
    \/ list[j].ts > list[k].ts
    \/ list[j].ts = list[k].ts /\ j < k

Newest(list, ks) == Listed(ks, {p \in ks \X ks : NewerAt(list, p[1], p[2])})

MemRecent(list, c, limit) == First(LastFirst(list, OfChannel(list, c)), limit)

MemSnapshotAt(list, c, ts) == {s \in Range(list) : s.channel = c /\ s.ts = ts}

MemRecentAll(list, limit) == First(Reverse(list), limit)

\* cutoff by status, RetentionPolicy::max_age_for_status.
MemKeeps(policy, now, s) ==
    s.ts >= now - (IF StatusIsClosed(s.status) THEN policy.closed_age ELSE policy.age)

\* The BTreeMap: channel by channel in the order of the keys, newest first in
\* each.
ByChannel(list, channels, ks) ==
    LET earlier(c, d) == \E i, j \in DOMAIN channels : i < j /\ channels[i] = c /\ channels[j] = d
    IN  Listed(ks, {p \in ks \X ks :
                       \/ earlier(list[p[1]].channel, list[p[2]].channel)
                       \/ /\ list[p[1]].channel = list[p[2]].channel
                          /\ NewerAt(list, p[1], p[2])})

\* The aged rows are dropped.
MemAged(list, channels, policy, now) ==
    Picked(list, ByChannel(list, channels, {k \in DOMAIN list : MemKeeps(policy, now, list[k])}))

\* Each channel is cut at the cap.
MemCapped(list, channels, policy) ==
    LET left(c) == Range(First(Newest(list, OfChannel(list, c)), policy.cap))
    IN  IF policy.cap = None THEN list
        ELSE Picked(list, ByChannel(list, channels, UNION {left(c) : c \in Range(channels)}))

\* prune_channel_snapshots: the vector is left newest first.
MemPrune(list, channels, policy, now) ==
    LET kept == MemCapped(MemAged(list, channels, policy, now), channels, policy)
    IN  IF policy.total = None THEN kept
        ELSE First(Picked(kept, Newest(kept, DOMAIN kept)), policy.total)

-----------------------------------------------------------------------------
(* SqliteStorage: rows with the status as an integer, deleted in three     *)
(* loops.                                                                  *)

\* INSERT OR REPLACE by channel and time.
SqlSaveSnapshot(rows, s) ==
    {r \in rows : ~(r.channel = s.channel /\ r.ts = s.ts)}
        \cup {[s EXCEPT !.status = StatusInt[@]]}

\* row_to_snapshot.
RowToSnapshot(r) == [r EXCEPT !.status = StatusFromInt(@)]

\* ORDER BY ts DESC.
NewestFirst(snaps) == Listed(snaps, {p \in snaps \X snaps : p[1].ts > p[2].ts})

SqlRecent(rows, c, limit) ==
    First(NewestFirst({RowToSnapshot(r) : r \in {x \in rows : x.channel = c}}), limit)

SqlSnapshotAt(rows, c, ts) == {RowToSnapshot(r) : r \in {x \in rows : x.channel = c /\ x.ts = ts}}

SqlRecentAll(rows, limit) ==
    First(NewestFirst({RowToSnapshot(r) : r \in rows}), limit)

\* Faulty variant: a waiting close does not count as closed.
SqlAgedWithoutWaiting(rows, policy, now) ==
    {r \in rows : \/ r.ts < now - policy.age /\ r.status \notin {3, 4, 7}
                  \/ r.ts < now - policy.closed_age /\ r.status \in {3, 4, 7}}

\* Rows the first loop may delete, with the literals of the statement.
SqlAged(rows, policy, now) ==
    {r \in rows : \/ r.ts < now - policy.age /\ r.status \notin {3, 4, 6, 7}
                  \/ r.ts < now - policy.closed_age /\ r.status \in {3, 4, 6, 7}}

\* Rows whose ROW_NUMBER in their channel is above the cap.
SqlOverCap(rows, policy) ==
    IF policy.cap = None \/ policy.cap = 0 THEN {}
    ELSE {r \in rows : Cardinality(Newer(rows, r)) >= policy.cap}

\* Rows that may be at OFFSET total of ORDER BY ts DESC: ties are in any order.
SqlOverTotal(rows, policy) ==
    IF policy.total = None \/ policy.total = 0 THEN {}
    ELSE {r \in rows : /\ Cardinality({s \in rows : s.ts > r.ts}) <= policy.total
                       /\ Cardinality({s \in rows : s.ts >= r.ts}) > policy.total}

\* A total cap that cuts through rows of one time.
CutsTie(rows, policy) ==
    \E r \in SqlOverTotal(rows, policy) : Cardinality({s \in rows : s.ts > r.ts}) < policy.total
=============================================================================
