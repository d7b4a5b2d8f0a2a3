---------------------------- MODULE EventTables -----------------------------
(***************************************************************************)
(* The tables of webhook deliveries and events in MemoryStorage            *)
(* (storage.rs) and SqliteStorage (sqlite.rs).  Pure operators, which module                *)
(* StorageBackends uses.  An operation returns the new table and whether   *)
(* the call was Ok.                                                        *)
(*                                                                         *)
(* Data abstraction.  Delivery ids are numbers, in the order of the ids.   *)
(***************************************************************************)
EXTENDS SimulationTables

-----------------------------------------------------------------------------
(* Webhook events, by delivery id: accepted_at and processed_at, 0 for     *)
(* NULL.                                                                   *)

Pending(queue) == {d \in DOMAIN queue : queue[d].processed = 0}

Processed(queue) == DOMAIN queue \ Pending(queue)

\* accepted_at, then delivery_id.
InOrder(queue, ds) ==
    Listed(ds, {p \in ds \X ds :
                   \/ queue[p[1]].accepted < queue[p[2]].accepted
                   \/ queue[p[1]].accepted = queue[p[2]].accepted /\ p[1] < p[2]})

\* limit.clamp(1, 1000)
Clamp(limit) == Max({1, Min({limit, 1000})})

\* Both insert the delivery and its event, and keep what is there.
Enqueued(queue, d, at) ==
    IF d \in DOMAIN queue THEN queue
    ELSE [e \in DOMAIN queue \cup {d} |-> IF e = d THEN [accepted |-> at, processed |-> 0] ELSE queue[e]]

\* The ledger of deliveries, a map and rows by primary key.
MemRecordDelivery(seen, d, at) ==
    [e \in DOMAIN seen \cup {d} |-> IF e = d THEN at ELSE seen[e]]

SqlRecordDelivery(seen, d, at) == {r \in seen : r.id # d} \cup {[id |-> d, at |-> at]}

MemIsProcessed(seen, d) == d \in DOMAIN seen
SqlIsProcessed(seen, d) == \E r \in seen : r.id = d

\* entry().or_insert_with and INSERT OR IGNORE.
MemDelivered(seen, d, at) == IF MemIsProcessed(seen, d) THEN seen ELSE MemRecordDelivery(seen, d, at)
SqlDelivered(seen, d, at) == IF SqlIsProcessed(seen, d) THEN seen ELSE SqlRecordDelivery(seen, d, at)

MemMark(queue, d, at) ==
    IF d \notin DOMAIN queue THEN Error(queue)
    ELSE Ok([queue EXCEPT ![d].processed = at])

SqlMark(queue, d, at) ==
    IF d \notin Pending(queue) THEN Error(queue)
    ELSE Ok([queue EXCEPT ![d].processed = at])

MemPendingEvents(queue, limit) == First(InOrder(queue, Pending(queue)), Clamp(limit))

\* The last ones of all, oldest first.
MemProcessedEvents(queue, limit) ==
    LET all == InOrder(queue, Processed(queue))
    IN  IF Len(all) > Clamp(limit) THEN SubSeq(all, Len(all) - Clamp(limit) + 1, Len(all)) ELSE all

SqlPendingEvents(queue, limit) == First(InOrder(queue, Pending(queue)), Clamp(limit))

\* The newest ones in the inner query, turned round by the outer one.
SqlProcessedEvents(queue, limit) ==
    Reverse(First(Reverse(InOrder(queue, Processed(queue))), Clamp(limit)))
=============================================================================
