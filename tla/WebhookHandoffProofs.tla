------------------------ MODULE WebhookHandoffProofs ------------------------
(***************************************************************************)
(* Proofs about the webhook hand-off, for every set of deliveries and      *)
(* handlers, every buffer and window size and every number of faults and   *)
(* crashes.                                                                *)
(***************************************************************************)
EXTENDS WebhookHandoff, FiniteSetTheorems, TLAPS

USE HandoffAssumption

-----------------------------------------------------------------------------
(* Lemmas on the operators.                                                *)

\* A row inserted at p shifts the younger rows and stores just that id.
LEMMA InsertAtFacts ==
    ASSUME TypeOK, NEW d \in Deliveries, NEW p \in 0..Len(rows),
           rows' = InsertAt(p, d)
    PROVE  /\ rows' \in Seq(Deliveries)
           /\ Len(rows') = Len(rows) + 1
           /\ \A k \in 1..p : rows'[k] = rows[k]
           /\ rows'[p + 1] = d
           /\ \A k \in (p + 2)..(Len(rows) + 1) : rows'[k] = rows[k - 1]
<1>1. rows \in Seq(Deliveries) /\ Len(rows) \in Nat
  BY DEF TypeOK
<1>2. \A k \in 1..(Len(rows) + 1) :
        (IF k <= p THEN rows[k] ELSE IF k = p + 1 THEN d ELSE rows[k - 1]) \in Deliveries
  BY <1>1
<1>3. rows' \in [1..(Len(rows) + 1) -> Deliveries]
  BY <1>2 DEF InsertAt
<1>4. rows' \in Seq(Deliveries) /\ Len(rows') = Len(rows) + 1
  BY <1>1, <1>3
<1>5. \A k \in 1..(Len(rows) + 1) :
        rows'[k] = IF k <= p THEN rows[k] ELSE IF k = p + 1 THEN d ELSE rows[k - 1]
  BY DEF InsertAt
<1> QED
  BY <1>1, <1>4, <1>5

LEMMA InsertAtStored ==
    ASSUME TypeOK, NEW d \in Deliveries, NEW p \in 0..Len(rows),
           rows' = InsertAt(p, d)
    PROVE  Stored' = Stored \cup {d}
<1>1. rows \in Seq(Deliveries) /\ Len(rows) \in Nat
  BY DEF TypeOK
<1>2. ASSUME NEW k \in 1..Len(rows') PROVE rows'[k] \in Stored \cup {d}
  <2>1. CASE k <= p
    BY <1>1, <2>1, InsertAtFacts DEF Stored
  <2>2. CASE k = p + 1
    BY <1>1, <2>2, InsertAtFacts
  <2>3. CASE k > p + 1
    BY <1>1, <2>3, InsertAtFacts DEF Stored
  <2> QED BY <1>1, <2>1, <2>2, <2>3, InsertAtFacts
<1>3. ASSUME NEW k \in 1..Len(rows) PROVE rows[k] \in Stored'
  <2>1. CASE k <= p
    <3>1. k \in 1..Len(rows') /\ rows'[k] = rows[k]
      BY <1>1, <2>1, InsertAtFacts
    <3> QED BY <3>1 DEF Stored
  <2>2. CASE k > p
    <3>1. k + 1 \in 1..Len(rows') /\ rows'[k + 1] = rows[k]
      BY <1>1, <2>2, InsertAtFacts
    <3> QED BY <3>1 DEF Stored
  <2> QED BY <1>1, <2>1, <2>2
<1>4. d \in Stored'
  <2>1. p + 1 \in 1..Len(rows') /\ rows'[p + 1] = d
    BY <1>1, InsertAtFacts
  <2> QED BY <2>1 DEF Stored
<1> QED
  BY <1>2, <1>3, <1>4 DEF Stored

\* push_settlement_event keeps the window within its bound.
LEMMA PushBounded ==
    ASSUME NEW w \in Seq(Deliveries), Len(w) <= DetectorWindow, NEW d \in Deliveries
    PROVE  /\ PushSettlementEvent(w, d) \in Seq(Deliveries)
           /\ Len(PushSettlementEvent(w, d)) <= DetectorWindow
<1>1. CASE Len(w) = DetectorWindow
  BY <1>1 DEF PushSettlementEvent
<1>2. CASE Len(w) # DetectorWindow
  BY <1>2 DEF PushSettlementEvent
<1> QED BY <1>1, <1>2

LEMMA WindowsAreShort ==
    ASSUME NEW w \in Windows
    PROVE  w \in Seq(Deliveries) /\ Len(w) <= DetectorWindow
<1>1. PICK n \in 0..DetectorWindow : w \in [1..n -> Deliveries]
  BY DEF Windows
<1> QED BY <1>1

\* What enqueue_webhook_event does to the tables.
LEMMA EnqueueFacts ==
    ASSUME TypeOK, TablesAgree, NEW d \in Deliveries, EnqueueWebhookEvent(d)
    PROVE  /\ deliveries' = deliveries \cup {d}
           /\ processed' = processed
           /\ rows' \in Seq(Deliveries)
           /\ Stored' = Stored \cup {d}
           /\ TablesAgree'
<1>1. deliveries' = deliveries \cup {d} /\ processed' = processed
  BY DEF EnqueueWebhookEvent
<1>2. CASE d \in Stored
  <2>1. rows' = rows
    BY <1>2 DEF EnqueueWebhookEvent
  <2>2. Stored' = Stored
    BY <2>1 DEF Stored
  <2> QED BY <1>1, <1>2, <2>1, <2>2 DEF TypeOK, TablesAgree
<1>3. CASE d \notin Stored
  <2>1. PICK p \in 0..Len(rows) : rows' = InsertAt(p, d)
    BY <1>3 DEF EnqueueWebhookEvent, InsertPositions, TypeOK
  <2>2. rows' \in Seq(Deliveries) /\ Len(rows') = Len(rows) + 1
    BY <2>1, InsertAtFacts
  <2>3. Stored' = Stored \cup {d}
    BY <2>1, InsertAtStored
  <2>4. ASSUME NEW i \in 1..Len(rows'), NEW j \in 1..Len(rows'), rows'[i] = rows'[j]
        PROVE  i = j
    <3> DEFINE old(k) == IF k <= p THEN k ELSE k - 1
    <3>1. Len(rows) \in Nat
      BY DEF TypeOK
    <3>2. \A k \in 1..Len(rows') : k # p + 1 => old(k) \in 1..Len(rows) /\ rows'[k] = rows[old(k)]
      BY <2>1, <2>2, <3>1, InsertAtFacts
    <3>3. \A k \in 1..Len(rows') : k # p + 1 => rows'[k] # d
      BY <1>3, <3>2 DEF Stored
    <3>4. rows'[p + 1] = d
      BY <2>1, InsertAtFacts
    <3>5. CASE i # p + 1 /\ j # p + 1
      <4>1. old(i) = old(j)
        BY <2>4, <3>2, <3>5 DEF TablesAgree
      <4> QED BY <4>1, <3>1, <3>5, <2>2
    <3>6. CASE i = p + 1 \/ j = p + 1
      BY <2>4, <3>3, <3>4, <3>6
    <3> QED BY <3>5, <3>6
  <2> QED BY <1>1, <2>2, <2>3, <2>4 DEF TablesAgree
<1> QED BY <1>2, <1>3

-----------------------------------------------------------------------------
(* Durability and exactly-once processing.                                 *)

\* What a handler's jump does to the handlers' type.
LEMMA ReqType ==
    ASSUME TypeOK, NEW r \in Requests
    PROVE  /\ Answer(r) => req' \in [Requests -> [pc : HandlerPCs, id : Deliveries \cup {NoDelivery}]]
           /\ \A pc \in HandlerPCs : Goto(r, pc) =>
                 req' \in [Requests -> [pc : HandlerPCs, id : Deliveries \cup {NoDelivery}]]
<1>1. Answer(r) => req' \in [Requests -> [pc : HandlerPCs, id : Deliveries \cup {NoDelivery}]]
  BY DEF TypeOK, Answer, Idle, HandlerPCs
<1>2. ASSUME NEW pc \in HandlerPCs, Goto(r, pc)
      PROVE  req' \in [Requests -> [pc : HandlerPCs, id : Deliveries \cup {NoDelivery}]]
  BY <1>2 DEF TypeOK, Goto
<1> QED BY <1>1, <1>2

LEMMA HandoffInit == Init => TypeOK /\ SafetyInv
<1> SUFFICES ASSUME Init PROVE TypeOK /\ SafetyInv
  OBVIOUS
<1>1. Stored = {}
  BY DEF Init, Stored
<1>2. TypeOK
  <2>1. req \in [Requests -> [pc : HandlerPCs, id : Deliveries \cup {NoDelivery}]]
    BY DEF Init, Idle, HandlerPCs
  <2>2. rows \in Seq(Deliveries) /\ window \in Seq(Deliveries) /\ saved \in Seq(Deliveries)
    BY DEF Init
  <2>3. Len(window) <= DetectorWindow /\ Len(saved) <= DetectorWindow
    BY DEF Init
  <2>4. lastDrain \in BOOLEAN /\ wedged \in BOOLEAN
    BY DEF Init
  <2>5. chan \in 0..EventBuffer /\ faults \in 0..MaxFaults /\ crashes \in 0..MaxCrashes
        /\ cycles \in [Deliveries -> Nat]
    BY DEF Init
  <2>6. deliveries \subseteq Deliveries /\ processed \subseteq Deliveries
        /\ batch \subseteq Deliveries /\ acked \subseteq Deliveries
    BY DEF Init
  <2>7. phase \in {"up", "stopping", "closed", "down"} /\ wpc \in WorkerPCs
        /\ cur \in Deliveries \cup {NoDelivery}
    BY DEF Init, WorkerPCs
  <2> QED BY <2>1, <2>2, <2>3, <2>4, <2>5, <2>6, <2>7 DEF TypeOK
<1>3. TablesAgree /\ HandlersSafe /\ BatchIsPending
  BY <1>1 DEF Init, TablesAgree, HandlersSafe, BatchIsPending, InFlight, Idle
<1>4. AckedIsDurable /\ ProcessedExactlyOnce
  BY <1>1 DEF Init, AckedIsDurable, ProcessedExactlyOnce
<1> QED BY <1>2, <1>3, <1>4 DEF SafetyInv

LEMMA TypeStep == TypeOK /\ SafetyInv /\ [Next]_vars => TypeOK'
<1> SUFFICES ASSUME TypeOK, SafetyInv, [Next]_vars PROVE TypeOK'
  OBVIOUS
<1> USE DEF TypeOK, HandlerPCs, WorkerPCs, Idle, durable, handlers, worker,
            Answer, Goto, Fault
<1>1. ASSUME NEW r \in Requests, NEW d \in Deliveries, Receive(r, d) PROVE TypeOK'
  BY <1>1 DEF Receive
<1>2. ASSUME NEW r \in Requests, AlreadyProcessed(r) PROVE TypeOK'
  BY <1>2 DEF AlreadyProcessed
<1>3. ASSUME NEW r \in Requests, NotYetProcessed(r) PROVE TypeOK'
  <2>1. faults' \in 0..MaxFaults
    BY <1>3 DEF NotYetProcessed
  <2>2. Goto(r, "enqueue")
    BY <1>3 DEF NotYetProcessed
  <2> QED BY <1>3, <2>1, <2>2, ReqType DEF NotYetProcessed
<1>4. ASSUME NEW r \in Requests, Admit(r) PROVE TypeOK'
  BY <1>4 DEF Admit
<1>5. ASSUME NEW r \in Requests, EnqueueCommits(r) PROVE TypeOK'
  <2>1. req[r].id \in Deliveries
    BY <1>5 DEF EnqueueCommits, SafetyInv, HandlersSafe
  <2>2. deliveries' \subseteq Deliveries /\ rows' \in Seq(Deliveries) /\ processed' = processed
    BY <1>5, <2>1, EnqueueFacts DEF EnqueueCommits, SafetyInv
  <2>3. req' \in [Requests -> [pc : HandlerPCs, id : Deliveries \cup {NoDelivery}]]
    <3>1. Goto(r, "wake") \/ Answer(r)
      BY <1>5 DEF EnqueueCommits
    <3> QED BY <3>1, ReqType DEF HandlerPCs
  <2> QED BY <1>5, <2>2, <2>3 DEF EnqueueCommits
<1>6. ASSUME NEW r \in Requests, EnqueueFails(r) PROVE TypeOK'
  BY <1>6 DEF EnqueueFails
<1>7. ASSUME NEW r \in Requests, WakeAndAck(r) PROVE TypeOK'
  <2>1. req[r].id \in Deliveries
    BY <1>7 DEF WakeAndAck, SafetyInv, HandlersSafe
  <2>2. chan' \in 0..EventBuffer
    BY <1>7 DEF WakeAndAck
  <2> QED BY <1>7, <2>1, <2>2 DEF WakeAndAck
<1>8. ASSUME NEW r \in Requests, TimeOut(r) PROVE TypeOK'
  <2>1. Goto(r, "orphan") \/ Answer(r)
    BY <1>8 DEF TimeOut
  <2>2. req' \in [Requests -> [pc : HandlerPCs, id : Deliveries \cup {NoDelivery}]]
    BY <2>1, ReqType DEF HandlerPCs
  <2> QED BY <1>8, <2>2 DEF TimeOut
<1>9. CASE Reconstruct
  BY <1>9, WindowsAreShort DEF Reconstruct
<1>10. CASE ReconstructFails
  BY <1>10 DEF ReconstructFails
<1>11. CASE FetchPending
  <2>1. PendingWebhookEvents \subseteq Deliveries
    <3> SUFFICES ASSUME NEW d \in PendingWebhookEvents PROVE d \in Deliveries
      OBVIOUS
    <3>1. PICK i \in PendingPositions : d = rows[i]
      BY DEF PendingWebhookEvents
    <3> QED BY <3>1 DEF PendingPositions
  <2> QED BY <1>11, <2>1 DEF FetchPending, AfterDrain
<1>12. CASE FetchFails
  BY <1>12 DEF FetchFails, AfterDrain
<1>13. CASE Evaluate
  <2>1. cur' \in Deliveries
    BY <1>13 DEF Evaluate
  <2> QED BY <1>13, <2>1, PushBounded DEF Evaluate
<1>14. CASE PersistCommits
  <2>1. cur \in Deliveries
    BY <1>14 DEF PersistCommits, Stored
  <2> QED BY <1>14, <2>1 DEF PersistCommits
<1>15. CASE PersistFails
  BY <1>15 DEF PersistFails, RestoreWindow, AfterDrain
<1>16. CASE Recv
  <2>1. chan' \in 0..EventBuffer
    BY <1>16 DEF Recv
  <2>2. lastDrain' \in BOOLEAN
    BY <1>16 DEF Recv
  <2> QED BY <1>16, <2>1, <2>2 DEF Recv
<1>17. CASE BeginShutdown \/ DropSenders \/ Restart
  BY <1>17 DEF BeginShutdown, DropSenders, Restart
<1>18. CASE Exit \/ Crash
  <2>1. VolatileReset /\ phase' = "down" /\ UNCHANGED <<durable, acked, cycles, faults>>
    BY <1>18 DEF Exit, Crash
  <2>2. crashes' \in 0..MaxCrashes
    BY <1>18 DEF Exit, Crash
  <2>3. req' \in [Requests -> [pc : HandlerPCs, id : Deliveries \cup {NoDelivery}]]
    BY <2>1 DEF VolatileReset
  <2>4. window' \in Seq(Deliveries) /\ saved' \in Seq(Deliveries)
        /\ Len(window') <= DetectorWindow /\ Len(saved') <= DetectorWindow
    BY <2>1 DEF VolatileReset
  <2>5. lastDrain' \in BOOLEAN /\ wedged' \in BOOLEAN
    BY <2>1 DEF VolatileReset
  <2>6. chan' \in 0..EventBuffer /\ batch' \subseteq Deliveries /\ wpc' \in WorkerPCs
        /\ cur' \in Deliveries \cup {NoDelivery}
    BY <2>1 DEF VolatileReset
  <2> QED BY <2>1, <2>2, <2>3, <2>4, <2>5, <2>6
<1>19. CASE UNCHANGED vars
  BY <1>19 DEF vars
<1> QED
  BY <1>1, <1>2, <1>3, <1>4, <1>5, <1>6, <1>7, <1>8, <1>9, <1>10, <1>11, <1>12, <1>13,
     <1>14, <1>15, <1>16, <1>17, <1>18, <1>19 DEF Next, HandlerStep, WorkerStep

\* Steps that leave the tables alone keep what depends on them only.
LEMMA SameTables ==
    ASSUME SafetyInv, UNCHANGED durable
    PROVE  /\ Stored' = Stored
           /\ TablesAgree'
           /\ UNCHANGED cycles => ProcessedExactlyOnce'
           /\ UNCHANGED acked => AckedIsDurable'
           /\ UNCHANGED req => HandlersSafe'
           /\ UNCHANGED worker => BatchIsPending'
<1>1. rows' = rows /\ deliveries' = deliveries /\ processed' = processed
  BY DEF durable
<1>2. Stored' = Stored
  BY <1>1 DEF Stored
<1>3. UNCHANGED worker => InFlight' = InFlight
  BY DEF worker, InFlight
<1>4. UNCHANGED worker => BatchIsPending'
  BY <1>1, <1>2, <1>3 DEF SafetyInv, BatchIsPending, worker
<1> QED
  BY <1>1, <1>2, <1>4 DEF SafetyInv, TablesAgree, ProcessedExactlyOnce, AckedIsDurable,
     HandlersSafe

\* An empty-handed worker, as after a drain, a restart or a fetch that found
\* nothing.
LEMMA EmptyHanded ==
    ASSUME batch' = {}, wpc' \notin {"process", "persist"}
    PROVE  BatchIsPending'
BY DEF BatchIsPending, InFlight

LEMMA HandlerSafetyStep ==
    ASSUME TypeOK, SafetyInv, NEW r \in Requests,
           \/ \E d \in Deliveries : Receive(r, d)
           \/ HandlerStep(r)
           \/ TimeOut(r)
    PROVE  SafetyInv'
<1> USE DEF Answer, Goto, Idle
<1>0. req \in [Requests -> [pc : HandlerPCs, id : Deliveries \cup {NoDelivery}]]
  BY DEF TypeOK
<1>1. ASSUME NEW d \in Deliveries, Receive(r, d) PROVE SafetyInv'
  <2>1. UNCHANGED durable /\ UNCHANGED worker /\ UNCHANGED cycles /\ UNCHANGED acked
    BY <1>1 DEF Receive
  <2>2. HandlersSafe'
    BY <1>0, <1>1, <2>1, SameTables DEF Receive, SafetyInv, HandlersSafe
  <2> QED BY <2>1, <2>2, SameTables DEF SafetyInv
<1>2. CASE AlreadyProcessed(r)
  <2>1. UNCHANGED durable /\ UNCHANGED worker /\ UNCHANGED cycles
    BY <1>2 DEF AlreadyProcessed
  <2>2. HandlersSafe'
    BY <1>0, <1>2, <2>1, SameTables DEF AlreadyProcessed, SafetyInv, HandlersSafe
  <2>3. AckedIsDurable'
    BY <1>2, <2>1, SameTables DEF AlreadyProcessed, SafetyInv, AckedIsDurable, TablesAgree
  <2> QED BY <2>1, <2>2, <2>3, SameTables DEF SafetyInv
<1>3. CASE NotYetProcessed(r)
  <2>1. UNCHANGED durable /\ UNCHANGED worker /\ UNCHANGED cycles /\ UNCHANGED acked
    BY <1>3 DEF NotYetProcessed
  <2>2. HandlersSafe'
    BY <1>0, <1>3, <2>1, SameTables DEF NotYetProcessed, SafetyInv, HandlersSafe
  <2> QED BY <2>1, <2>2, SameTables DEF SafetyInv
<1>4. CASE Admit(r)
  <2>1. UNCHANGED durable /\ UNCHANGED worker /\ UNCHANGED cycles /\ UNCHANGED acked
    BY <1>4 DEF Admit
  <2>2. HandlersSafe'
    BY <1>0, <1>4, <2>1, SameTables DEF Admit, SafetyInv, HandlersSafe
  <2> QED BY <2>1, <2>2, SameTables DEF SafetyInv
<1>5. CASE EnqueueCommits(r)
  <2>1. req[r].id \in Deliveries
    BY <1>5 DEF EnqueueCommits, SafetyInv, HandlersSafe
  <2>2. TablesAgree' /\ Stored' = Stored \cup {req[r].id} /\ processed' = processed
    BY <1>5, <2>1, EnqueueFacts DEF EnqueueCommits, SafetyInv
  <2>3. UNCHANGED worker /\ UNCHANGED cycles /\ UNCHANGED acked
    BY <1>5 DEF EnqueueCommits
  <2>4. HandlersSafe'
    BY <1>0, <1>5, <2>1, <2>2 DEF EnqueueCommits, SafetyInv, HandlersSafe
  <2>5. InFlight' = InFlight
    BY <2>3 DEF worker, InFlight
  <2>6. BatchIsPending'
    BY <2>2, <2>3, <2>5 DEF worker, SafetyInv, BatchIsPending
  <2>7. AckedIsDurable' /\ ProcessedExactlyOnce'
    BY <2>2, <2>3 DEF SafetyInv, AckedIsDurable, ProcessedExactlyOnce
  <2> QED BY <2>2, <2>4, <2>6, <2>7 DEF SafetyInv
<1>6. CASE EnqueueFails(r)
  <2>1. UNCHANGED durable /\ UNCHANGED worker /\ UNCHANGED cycles /\ UNCHANGED acked
    BY <1>6 DEF EnqueueFails
  <2>2. HandlersSafe'
    BY <1>0, <1>6, <2>1, SameTables DEF EnqueueFails, SafetyInv, HandlersSafe
  <2> QED BY <2>1, <2>2, SameTables DEF SafetyInv
<1>7. CASE WakeAndAck(r)
  <2>1. UNCHANGED durable /\ UNCHANGED worker /\ UNCHANGED cycles
    BY <1>7 DEF WakeAndAck
  <2>2. HandlersSafe'
    BY <1>0, <1>7, <2>1, SameTables DEF WakeAndAck, SafetyInv, HandlersSafe
  <2>3. AckedIsDurable'
    BY <1>7, <2>1, SameTables DEF WakeAndAck, SafetyInv, AckedIsDurable, HandlersSafe
  <2> QED BY <2>1, <2>2, <2>3, SameTables DEF SafetyInv
<1>8. CASE TimeOut(r)
  <2>1. UNCHANGED durable /\ UNCHANGED worker /\ UNCHANGED cycles /\ UNCHANGED acked
    BY <1>8 DEF TimeOut
  <2>2. HandlersSafe'
    BY <1>0, <1>8, <2>1, SameTables DEF TimeOut, SafetyInv, HandlersSafe
  <2> QED BY <2>1, <2>2, SameTables DEF SafetyInv
<1> QED
  BY <1>1, <1>2, <1>3, <1>4, <1>5, <1>6, <1>7, <1>8 DEF HandlerStep

LEMMA WorkerSafetyStep ==
    ASSUME TypeOK, SafetyInv, WorkerStep
    PROVE  SafetyInv'
<1>0. ASSUME UNCHANGED durable, UNCHANGED cycles, UNCHANGED acked, UNCHANGED req,
             BatchIsPending'
      PROVE  SafetyInv'
  BY <1>0, SameTables DEF SafetyInv
<1>1. CASE Reconstruct
  <2>1. UNCHANGED <<durable, cycles, acked, req, batch>> /\ wpc = "reconstruct" /\ wpc' = "fetch"
    BY <1>1 DEF Reconstruct, handlers
  <2>2. BatchIsPending'
    BY <2>1, EmptyHanded DEF SafetyInv, BatchIsPending
  <2> QED BY <1>0, <2>1, <2>2
<1>2. CASE ReconstructFails
  <2>1. UNCHANGED <<durable, cycles, acked, req, batch>> /\ wpc = "reconstruct" /\ wpc' = "dead"
    BY <1>2 DEF ReconstructFails
  <2>2. BatchIsPending'
    BY <2>1, EmptyHanded DEF SafetyInv, BatchIsPending
  <2> QED BY <1>0, <2>1, <2>2
<1>3. CASE FetchPending
  <2>1. UNCHANGED <<durable, cycles, acked, req>> /\ batch' = PendingWebhookEvents
    BY <1>3 DEF FetchPending, handlers
  <2>2. PendingWebhookEvents \subseteq Stored \ processed
    BY DEF PendingWebhookEvents, PendingPositions, Stored
  <2>3. CASE batch' = {}
    <3>1. wpc' \notin {"process", "persist"}
      BY <1>3, <2>3 DEF FetchPending, AfterDrain
    <3> QED BY <1>0, <2>1, <2>3, <3>1, EmptyHanded
  <2>4. CASE batch' # {}
    <3>1. wpc' = "process"
      BY <1>3, <2>4 DEF FetchPending
    <3>2. InFlight' = {}
      BY <3>1 DEF InFlight
    <3>3. Stored' = Stored /\ processed' = processed
      BY <2>1, SameTables DEF durable
    <3>4. BatchIsPending'
      BY <2>1, <2>2, <2>4, <3>1, <3>2, <3>3 DEF BatchIsPending
    <3> QED BY <1>0, <2>1, <3>4
  <2> QED BY <2>3, <2>4
<1>4. CASE FetchFails
  <2>1. UNCHANGED <<durable, cycles, acked, req, batch>> /\ wpc = "fetch"
        /\ wpc' \notin {"process", "persist"}
    BY <1>4 DEF FetchFails, AfterDrain, handlers
  <2>2. BatchIsPending'
    BY <2>1, EmptyHanded DEF SafetyInv, BatchIsPending
  <2> QED BY <1>0, <2>1, <2>2
<1>5. CASE Evaluate
  <2>1. UNCHANGED <<durable, cycles, acked, req>> /\ wpc = "process" /\ wpc' = "persist"
        /\ batch' = batch \ {cur'}
    BY <1>5 DEF Evaluate, handlers
  <2>2. cur' \in batch
    BY <1>5 DEF Evaluate
  <2>3. InFlight' = {cur'}
    BY <2>1 DEF InFlight
  <2>4. Stored' = Stored /\ processed' = processed
    BY <2>1, SameTables DEF durable
  <2>5. BatchIsPending'
    BY <2>1, <2>2, <2>3, <2>4 DEF SafetyInv, BatchIsPending
  <2> QED BY <1>0, <2>1, <2>5
<1>6. CASE PersistCommits
  <2>1. /\ wpc = "persist" /\ cur \in Stored \ processed
        /\ processed' = processed \cup {cur}
        /\ cycles' = [cycles EXCEPT ![cur] = @ + 1]
        /\ UNCHANGED <<deliveries, rows, req, batch, acked>>
        /\ wpc' = IF batch = {} THEN "fetch" ELSE "process"
    BY <1>6 DEF PersistCommits, handlers
  <2>2. Stored' = Stored
    BY <2>1 DEF Stored
  <2>3. TablesAgree' /\ HandlersSafe' /\ AckedIsDurable'
    BY <2>1, <2>2 DEF SafetyInv, TablesAgree, HandlersSafe, AckedIsDurable
  <2>4. ProcessedExactlyOnce'
    BY <2>1 DEF TypeOK, SafetyInv, ProcessedExactlyOnce
  <2>5. InFlight = {cur} /\ InFlight' = {}
    BY <2>1 DEF InFlight
  <2>6. BatchIsPending'
    BY <2>1, <2>2, <2>5 DEF SafetyInv, BatchIsPending
  <2> QED BY <2>3, <2>4, <2>6 DEF SafetyInv
<1>7. CASE PersistFails
  <2>1. UNCHANGED <<durable, cycles, acked, req>> /\ batch' = {}
        /\ wpc' \notin {"process", "persist"}
    BY <1>7 DEF PersistFails, AfterDrain, handlers
  <2> QED BY <1>0, <2>1, EmptyHanded
<1>8. CASE Recv
  <2>1. UNCHANGED <<durable, cycles, acked, req, batch>> /\ wpc = "recv" /\ wpc' = "fetch"
    BY <1>8 DEF Recv
  <2>2. BatchIsPending'
    BY <2>1, EmptyHanded DEF SafetyInv, BatchIsPending
  <2> QED BY <1>0, <2>1, <2>2
<1> QED
  BY <1>1, <1>2, <1>3, <1>4, <1>5, <1>6, <1>7, <1>8 DEF WorkerStep

LEMMA SafetyStep == TypeOK /\ SafetyInv /\ [Next]_vars => SafetyInv'
<1> SUFFICES ASSUME TypeOK, SafetyInv, [Next]_vars PROVE SafetyInv'
  OBVIOUS
<1>1. ASSUME NEW r \in Requests,
             (\E d \in Deliveries : Receive(r, d)) \/ HandlerStep(r) \/ TimeOut(r)
      PROVE  SafetyInv'
  BY <1>1, HandlerSafetyStep
<1>2. CASE WorkerStep
  BY <1>2, WorkerSafetyStep
<1>3. CASE BeginShutdown \/ DropSenders \/ Restart
  <2>1. UNCHANGED durable /\ UNCHANGED worker /\ UNCHANGED req /\ UNCHANGED cycles
        /\ UNCHANGED acked
    BY <1>3 DEF BeginShutdown, DropSenders, Restart, handlers
  <2> QED BY <2>1, SameTables DEF SafetyInv
<1>4. CASE Exit \/ Crash
  <2>1. UNCHANGED durable /\ UNCHANGED cycles /\ UNCHANGED acked /\ VolatileReset
    BY <1>4 DEF Exit, Crash
  <2>2. HandlersSafe'
    BY <2>1 DEF VolatileReset, HandlersSafe, Idle
  <2>3. BatchIsPending'
    BY <2>1, EmptyHanded DEF VolatileReset
  <2> QED BY <2>1, <2>2, <2>3, SameTables DEF SafetyInv
<1>5. CASE UNCHANGED vars
  <2>1. UNCHANGED durable /\ UNCHANGED worker /\ UNCHANGED req /\ UNCHANGED cycles
        /\ UNCHANGED acked
    BY <1>5 DEF vars, durable, worker
  <2> QED BY <2>1, SameTables DEF SafetyInv
<1> QED
  BY <1>1, <1>2, <1>3, <1>4, <1>5 DEF Next

\* Spec keeps the types and the safety invariant: the invariants below follow.
THEOREM HandoffInvariant == Spec => [](TypeOK /\ SafetyInv)
<1>1. Init => TypeOK /\ SafetyInv
  BY HandoffInit
<1>2. TypeOK /\ SafetyInv /\ [Next]_vars => (TypeOK /\ SafetyInv)'
  BY TypeStep, SafetyStep
<1> QED BY <1>1, <1>2, PTL DEF Spec

\* Type correctness of btcpay_webhook, the channel and the finding loop.
THEOREM TypeCorrect == Spec => []TypeOK
BY HandoffInvariant, PTL

\* A 200 answer of btcpay_webhook is never followed by the loss of the event,
\* and no delivery drives two committed detector cycles, nor one before it is
\* processed.
THEOREM AckedOnceAndForAll == Spec => []HandoffIsSafe
<1>1. SafetyInv => HandoffIsSafe
  BY DEF SafetyInv, HandoffIsSafe
<1> QED BY <1>1, HandoffInvariant, PTL

-----------------------------------------------------------------------------
(* Processing order, when the wall clock never steps back.                 *)

\* A fetched batch leaves no older pending row behind.
LEMMA FetchIsFrontier ==
    ASSUME TypeOK, TablesAgree,
           NEW i \in 1..Len(rows), NEW j \in 1..Len(rows), i < j,
           rows[j] \in PendingWebhookEvents
    PROVE  rows[i] \in processed \cup PendingWebhookEvents
<1> DEFINE P == PendingPositions
           Upto(k) == {m \in P : m <= k}
<1>1. Len(rows) \in Nat
  BY DEF TypeOK
<1>2. PICK k \in P : rows[k] = rows[j] /\ Cardinality(Upto(k)) <= DetectorWindow
  BY DEF PendingWebhookEvents
<1>3. k = j
  BY <1>2 DEF TablesAgree, PendingPositions
<1>4. CASE i \in P
  <2>1. IsFiniteSet(Upto(j))
    <3>1. IsFiniteSet(1..Len(rows))
      BY <1>1, FS_Interval
    <3>2. Upto(j) \subseteq 1..Len(rows)
      BY DEF PendingPositions
    <3> QED BY <3>1, <3>2, FS_Subset
  <2>2. Upto(i) \subseteq Upto(j)
    BY <1>1 DEF PendingPositions
  <2>3. IsFiniteSet(Upto(i)) /\ Cardinality(Upto(i)) <= Cardinality(Upto(j))
    BY <2>1, <2>2, FS_Subset
  <2>4. Cardinality(Upto(i)) \in Nat /\ Cardinality(Upto(j)) \in Nat
    BY <2>1, <2>3, FS_CardinalityType
  <2>5. Cardinality(Upto(i)) <= DetectorWindow
    BY <1>2, <1>3, <2>3, <2>4
  <2> QED BY <1>4, <2>5 DEF PendingWebhookEvents
<1>5. CASE i \notin P
  BY <1>5 DEF PendingPositions
<1> QED BY <1>4, <1>5

\* A new row is the youngest one.
LEMMA EnqueueIsLast ==
    ASSUME ClockMonotone, TypeOK, TablesAgree, NEW d \in Deliveries, EnqueueWebhookEvent(d)
    PROVE  \/ rows' = rows
           \/ d \notin Stored /\ rows' = Append(rows, d)
<1>1. CASE d \in Stored
  BY <1>1 DEF EnqueueWebhookEvent
<1>2. CASE d \notin Stored
  <2>1. rows' = InsertAt(Len(rows), d)
    BY <1>2 DEF EnqueueWebhookEvent, InsertPositions
  <2>2. rows \in Seq(Deliveries) /\ Len(rows) \in Nat
    BY DEF TypeOK
  <2>3. /\ rows' \in Seq(Deliveries) /\ Len(rows') = Len(rows) + 1
        /\ \A k \in 1..Len(rows) : rows'[k] = rows[k]
        /\ rows'[Len(rows) + 1] = d
    BY <2>1, <2>2, InsertAtFacts
  <2>4. rows' = Append(rows, d)
    BY <2>2, <2>3
  <2> QED BY <1>2, <2>4
<1> QED BY <1>1, <1>2

LEMMA OrderInit == Init => OrderInv
BY DEF Init, OrderInv, AcceptanceOrder, BatchIsFrontier

\* Steps that keep the tables, the batch and the record in flight.
LEMMA SameOrder ==
    ASSUME OrderInv, UNCHANGED <<rows, processed>>,
           \/ UNCHANGED worker
           \/ batch' = {} /\ wpc' # "persist"
    PROVE  OrderInv'
<1>1. AcceptanceOrder'
  BY DEF OrderInv, AcceptanceOrder
<1>2. CASE UNCHANGED worker
  <2>1. batch' = batch /\ InFlight' = InFlight
    BY <1>2 DEF worker, InFlight
  <2> QED BY <1>1, <2>1 DEF OrderInv, BatchIsFrontier
<1>3. CASE batch' = {} /\ wpc' # "persist"
  BY <1>1, <1>3 DEF OrderInv, BatchIsFrontier, InFlight
<1> QED BY <1>2, <1>3

LEMMA OrderStep ==
    ASSUME ClockMonotone, TypeOK, SafetyInv, OrderInv, [Next]_vars
    PROVE  OrderInv'
<1> USE DEF durable
<1>0. Len(rows) \in Nat /\ rows \in Seq(Deliveries)
  BY DEF TypeOK
<1>1. ASSUME NEW r \in Requests, EnqueueCommits(r) PROVE OrderInv'
  <2>1. req[r].id \in Deliveries /\ EnqueueWebhookEvent(req[r].id)
    BY <1>1 DEF EnqueueCommits, SafetyInv, HandlersSafe
  <2>2. UNCHANGED worker /\ processed' = processed
    BY <1>1 DEF EnqueueCommits, EnqueueWebhookEvent
  <2>3. CASE rows' = rows
    BY <2>2, <2>3, SameOrder
  <2>4. CASE req[r].id \notin Stored /\ rows' = Append(rows, req[r].id)
    <3>1. batch' = batch /\ InFlight' = InFlight
      BY <2>2 DEF worker, InFlight
    <3>2. /\ Len(rows') = Len(rows) + 1
          /\ \A k \in 1..Len(rows) : rows'[k] = rows[k]
          /\ rows'[Len(rows) + 1] = req[r].id
      BY <1>0, <2>1, <2>4
    <3>3. req[r].id \notin processed \cup batch \cup InFlight
      BY <2>4 DEF SafetyInv, TablesAgree, BatchIsPending
    <3>4. AcceptanceOrder'
      BY <1>0, <2>2, <3>2, <3>3 DEF OrderInv, AcceptanceOrder
    <3>5. BatchIsFrontier'
      BY <1>0, <2>2, <3>1, <3>2, <3>3 DEF OrderInv, BatchIsFrontier
    <3> QED BY <3>4, <3>5 DEF OrderInv
  <2> QED BY <2>1, <2>3, <2>4, EnqueueIsLast DEF SafetyInv
<1>2. ASSUME NEW r \in Requests,
             \/ \E d \in Deliveries : Receive(r, d)
             \/ AlreadyProcessed(r) \/ NotYetProcessed(r) \/ Admit(r)
             \/ EnqueueFails(r) \/ WakeAndAck(r) \/ TimeOut(r)
      PROVE  OrderInv'
  <2>1. UNCHANGED <<rows, processed>> /\ UNCHANGED worker
    BY <1>2 DEF Receive, AlreadyProcessed, NotYetProcessed, Admit, EnqueueFails, WakeAndAck,
                TimeOut
  <2> QED BY <2>1, SameOrder
<1>3. CASE FetchPending
  <2>1. UNCHANGED <<rows, processed>> /\ batch' = PendingWebhookEvents /\ wpc' # "persist"
    BY <1>3 DEF FetchPending, AfterDrain
  <2>2. InFlight' = {}
    BY <2>1 DEF InFlight
  <2>3. BatchIsFrontier'
    BY <2>1, <2>2, FetchIsFrontier DEF BatchIsFrontier, SafetyInv
  <2> QED BY <2>1, <2>3 DEF OrderInv, AcceptanceOrder
<1>4. CASE Evaluate
  <2>1. UNCHANGED <<rows, processed>> /\ wpc = "process" /\ batch' = batch \ {cur'}
        /\ wpc' = "persist"
    BY <1>4 DEF Evaluate
  <2>2. PICK i0 \in 1..Len(rows) :
            /\ rows[i0] \in batch
            /\ \A j \in 1..Len(rows) : rows[j] \in batch => i0 <= j
            /\ cur' = rows[i0]
    BY <1>4 DEF Evaluate
  <2>3. InFlight = {} /\ InFlight' = {cur'} /\ batch' \cup InFlight' = batch
    BY <2>1, <2>2 DEF InFlight
  <2>4. ASSUME NEW i \in 1..Len(rows), NEW j \in 1..Len(rows),
               rows[i] = cur', rows[j] \in batch'
        PROVE  i < j
    <3>1. i = i0
      BY <2>2, <2>4 DEF SafetyInv, TablesAgree
    <3>2. i0 <= j /\ j # i0
      BY <2>1, <2>2, <2>4
    <3> QED BY <1>0, <3>1, <3>2
  <2>5. BatchIsFrontier'
    BY <2>1, <2>3, <2>4 DEF OrderInv, BatchIsFrontier
  <2> QED BY <2>1, <2>5 DEF OrderInv, AcceptanceOrder
<1>5. CASE PersistCommits
  <2>1. wpc = "persist" /\ wpc' # "persist" /\ processed' = processed \cup {cur}
        /\ UNCHANGED <<rows, batch>>
    BY <1>5 DEF PersistCommits
  <2>2. InFlight = {cur} /\ InFlight' = {} /\ cur \notin batch
    BY <2>1 DEF InFlight, SafetyInv, BatchIsPending
  <2>3. ASSUME NEW i \in 1..Len(rows), NEW j \in 1..Len(rows), i < j, rows[j] = cur
        PROVE  rows[i] \in processed
    <3>1. rows[i] \in processed \cup batch \cup {cur}
      BY <2>2, <2>3 DEF OrderInv, BatchIsFrontier
    <3>2. rows[i] # cur
      BY <1>0, <2>3 DEF SafetyInv, TablesAgree
    <3>3. rows[i] \notin batch
      BY <1>0, <2>2, <2>3 DEF OrderInv, BatchIsFrontier
    <3> QED BY <3>1, <3>2, <3>3
  <2>4. AcceptanceOrder'
    BY <2>1, <2>3 DEF OrderInv, AcceptanceOrder
  <2>5. BatchIsFrontier'
    BY <2>1, <2>2 DEF OrderInv, BatchIsFrontier
  <2> QED BY <2>4, <2>5 DEF OrderInv
<1>6. CASE Reconstruct \/ ReconstructFails \/ FetchFails \/ PersistFails \/ Recv
  <2>1. UNCHANGED <<rows, processed>> /\ wpc' # "persist"
    BY <1>6 DEF Reconstruct, ReconstructFails, FetchFails, PersistFails, Recv, AfterDrain
  <2>2. batch' = {}
    BY <1>6 DEF Reconstruct, ReconstructFails, FetchFails, PersistFails, Recv,
                SafetyInv, BatchIsPending
  <2> QED BY <2>1, <2>2, SameOrder
<1>7. CASE Exit \/ Crash
  <2>1. UNCHANGED <<rows, processed>> /\ batch' = {} /\ wpc' # "persist"
    BY <1>7 DEF Exit, Crash, VolatileReset
  <2> QED BY <2>1, SameOrder
<1>8. CASE BeginShutdown \/ DropSenders \/ Restart
  <2>1. UNCHANGED <<rows, processed>> /\ UNCHANGED worker
    BY <1>8 DEF BeginShutdown, DropSenders, Restart
  <2> QED BY <2>1, SameOrder
<1>9. CASE UNCHANGED vars
  <2>1. UNCHANGED <<rows, processed>> /\ UNCHANGED worker
    BY <1>9 DEF vars, worker
  <2> QED BY <2>1, SameOrder
<1> QED
  BY <1>1, <1>2, <1>3, <1>4, <1>5, <1>6, <1>7, <1>8, <1>9 DEF Next, HandlerStep, WorkerStep

\* Cycles commit in acceptance order, across batches, failures and restarts.
THEOREM ProcessingOrder ==
    ASSUME ClockMonotone
    PROVE  Spec => []AcceptanceOrder
<1>1. Init => OrderInv
  BY OrderInit
<1>2. TypeOK /\ SafetyInv /\ OrderInv /\ [Next]_vars => OrderInv'
  BY OrderStep
<1>3. OrderInv => AcceptanceOrder
  BY DEF OrderInv
<1> QED BY <1>1, <1>2, <1>3, HandoffInvariant, PTL DEF Spec

-----------------------------------------------------------------------------
(* The hand-off implements the durable queue.                              *)

LEMMA QueueStep ==
    ASSUME ClockMonotone, TypeOK, SafetyInv, OrderInv, OrderInv', [Next]_vars
    PROVE  [Queue!Next]_(Queue!qvars)
<1> USE DEF durable
<1>0. Len(rows) \in Nat /\ rows \in Seq(Deliveries)
  BY DEF TypeOK
<1>1. \A d : d \in Stored <=> Queue!InLog(d)
  BY DEF Stored, Queue!InLog
<1>2. ASSUME UNCHANGED <<rows, processed, acked>> PROVE UNCHANGED Queue!qvars
  BY <1>2 DEF Queue!qvars
<1>3. ASSUME UNCHANGED <<rows, processed>>, NEW d \in Deliveries, d \in Stored \cup Legacy,
             acked' = acked \cup {d}
      PROVE  [Queue!Next]_(Queue!qvars)
  <2>1. CASE d \in Legacy
    BY <1>3, <2>1 DEF Queue!qvars
  <2>2. CASE d \notin Legacy
    <3>1. (acked \ Legacy)' = (acked \ Legacy) \cup {d}
      BY <1>3, <2>2
    <3>2. Queue!Answer(d)
      BY <1>1, <1>3, <2>2, <3>1 DEF Queue!Answer
    <3> QED BY <3>2 DEF Queue!Next
  <2> QED BY <2>1, <2>2
<1>4. ASSUME NEW r \in Requests, EnqueueCommits(r) PROVE [Queue!Next]_(Queue!qvars)
  <2>1. req[r].id \in Deliveries /\ EnqueueWebhookEvent(req[r].id)
    BY <1>4 DEF EnqueueCommits, SafetyInv, HandlersSafe
  <2>2. UNCHANGED <<processed, acked>>
    BY <1>4 DEF EnqueueCommits, EnqueueWebhookEvent
  <2>3. CASE rows' = rows
    BY <1>2, <2>2, <2>3
  <2>4. CASE req[r].id \notin Stored /\ rows' = Append(rows, req[r].id)
    <3>1. Queue!Accept(req[r].id)
      BY <1>1, <2>2, <2>4 DEF Queue!Accept
    <3> QED BY <2>1, <3>1 DEF Queue!Next
  <2> QED BY <2>1, <2>3, <2>4, EnqueueIsLast DEF SafetyInv
<1>5. CASE PersistCommits
  <2>1. cur \in Stored \ processed /\ processed' = processed \cup {cur}
        /\ UNCHANGED <<rows, acked>>
    BY <1>5 DEF PersistCommits
  <2>2. PICK i \in 1..Len(rows) : rows[i] = cur
    BY <2>1 DEF Stored
  <2>3. ASSUME NEW j \in 1..(i - 1) PROVE rows[j] \in processed
    <3>1. j \in 1..Len(rows) /\ j < i
      BY <1>0
    <3>2. rows[j] \in processed \cup {cur}
      BY <2>1, <2>2, <3>1 DEF OrderInv, AcceptanceOrder
    <3>3. rows[j] # cur
      BY <1>0, <2>2, <3>1 DEF SafetyInv, TablesAgree
    <3> QED BY <3>2, <3>3
  <2>4. Queue!Complete(i)
    BY <2>1, <2>2, <2>3 DEF Queue!Complete
  <2> QED BY <2>4 DEF Queue!Next
<1>6. ASSUME NEW r \in Requests, AlreadyProcessed(r) PROVE [Queue!Next]_(Queue!qvars)
  <2>1. /\ UNCHANGED <<rows, processed>>
        /\ req[r].id \in deliveries /\ acked' = acked \cup {req[r].id}
    BY <1>6 DEF AlreadyProcessed
  <2>2. req[r].id \in Deliveries /\ req[r].id \in Stored \cup Legacy
    BY <2>1 DEF TypeOK, SafetyInv, TablesAgree
  <2> QED BY <1>3, <2>1, <2>2
<1>7. ASSUME NEW r \in Requests, WakeAndAck(r) PROVE [Queue!Next]_(Queue!qvars)
  <2>1. /\ UNCHANGED <<rows, processed>>
        /\ req[r].pc = "wake" /\ acked' = acked \cup {req[r].id}
    BY <1>7 DEF WakeAndAck
  <2>2. req[r].id \in Deliveries /\ req[r].id \in Stored
    BY <2>1 DEF SafetyInv, HandlersSafe
  <2> QED BY <1>3, <2>1, <2>2
<1>8. ASSUME NEW r \in Requests,
             \/ \E d \in Deliveries : Receive(r, d)
             \/ NotYetProcessed(r) \/ Admit(r) \/ EnqueueFails(r) \/ TimeOut(r)
      PROVE  UNCHANGED <<rows, processed, acked>>
  BY <1>8 DEF Receive, NotYetProcessed, Admit, EnqueueFails, TimeOut
<1>9. CASE Reconstruct \/ ReconstructFails \/ FetchPending \/ FetchFails \/ Evaluate
           \/ PersistFails \/ Recv \/ BeginShutdown \/ DropSenders \/ Exit \/ Crash
           \/ Restart \/ UNCHANGED vars
  <2>1. UNCHANGED <<rows, processed, acked>>
    BY <1>9 DEF Reconstruct, ReconstructFails, FetchPending, FetchFails, Evaluate,
         PersistFails, Recv, BeginShutdown, DropSenders, Exit, Crash, Restart, vars
  <2> QED BY <1>2, <2>1
<1> QED
  BY <1>2, <1>4, <1>5, <1>6, <1>7, <1>8, <1>9 DEF Next, HandlerStep, WorkerStep

\* Handlers, wake-ups, worker, faults, timeouts and restarts implement the
\* durable first-in first-out queue of ADR-0007.
THEOREM HandoffRefinesQueue ==
    ASSUME ClockMonotone
    PROVE  Spec => QueueSpec
<1>1. Init => OrderInv
  BY OrderInit
<1>2. TypeOK /\ SafetyInv /\ OrderInv /\ [Next]_vars => OrderInv'
  BY OrderStep
<1>3. Init => Queue!Init
  BY DEF Init, Queue!Init
<1>4. TypeOK /\ SafetyInv /\ OrderInv /\ OrderInv' /\ [Next]_vars
        => [Queue!Next]_(Queue!qvars)
  BY QueueStep
<1> QED
  BY <1>1, <1>2, <1>3, <1>4, HandoffInvariant, PTL DEF Spec, QueueSpec, Queue!Spec


-----------------------------------------------------------------------------
(* The window in memory.                                                   *)

\* The rows that are processed.
Done == {i \in 1..Len(rows) : rows[i] \in processed}

\* w holds the rows up to the m-th, as many as the window is wide.
IsTail(rs, w, m) ==
    /\ Len(w) = IF m <= DetectorWindow THEN m ELSE DetectorWindow
    /\ \A k \in 1..Len(w) : w[k] = rs[m - Len(w) + k]

\* w holds the newest of the rows rs at the positions D, in their order.
IsNewest(D, rs, w) ==
    /\ Len(w) = IF Cardinality(D) <= DetectorWindow THEN Cardinality(D) ELSE DetectorWindow
    /\ \A k \in 1..Len(w) : \E i \in D :
          w[k] = rs[i] /\ Cardinality({j \in D : j >= i}) = Len(w) - k + 1

\* The newest of the first m rows are their tail.
LEMMA NewestIsTail ==
    ASSUME NEW m \in Nat, NEW rs, NEW w \in Seq(Deliveries)
    PROVE  IsNewest(1..m, rs, w) <=> IsTail(rs, w, m)
<1>1. Len(w) \in Nat /\ DetectorWindow \in Nat
  BY HandoffAssumption
<1>2. Cardinality(1..m) = m
  <2>1. Cardinality(1..m) = IF 1 > m THEN 0 ELSE m - 1 + 1
    BY FS_Interval
  <2> QED
    BY <2>1
<1>3. ASSUME NEW i \in 1..m
      PROVE  Cardinality({j \in 1..m : j >= i}) = m - i + 1
  <2> DEFINE S == {j \in 1..m : j >= i}
  <2>1. S = i..m
    OBVIOUS
  <2>2. Cardinality(i..m) = IF i > m THEN 0 ELSE m - i + 1
    BY FS_Interval
  <2>3. ~(i > m)
    OBVIOUS
  <2> HIDE DEF S
  <2>4. Cardinality(S) = m - i + 1
    BY <2>1, <2>2, <2>3
  <2> QED
    BY <2>4 DEF S
<1>4. ASSUME Len(w) <= m, NEW k \in 1..Len(w)
      PROVE  (\E i \in 1..m : /\ w[k] = rs[i]
                              /\ Cardinality({j \in 1..m : j >= i}) = Len(w) - k + 1)
                <=> w[k] = rs[m - Len(w) + k]
  <2>1. ASSUME NEW i \in 1..m
        PROVE  Cardinality({j \in 1..m : j >= i}) = Len(w) - k + 1 <=> i = m - Len(w) + k
    <3>1. i \in Int /\ Len(w) \in Int /\ k \in Int /\ m \in Int
      BY <1>1
    <3>2. Cardinality({j \in 1..m : j >= i}) = m - i + 1
      BY <1>3
    <3> QED
      BY <3>1, <3>2
  <2>2. m - Len(w) + k \in 1..m
    BY <1>1, <1>4
  <2> QED
    BY <2>1, <2>2
<1>5. IsNewest(1..m, rs, w) => Len(w) <= m
  BY <1>1, <1>2 DEF IsNewest
<1>6. IsTail(rs, w, m) => Len(w) <= m
  BY <1>1 DEF IsTail
<1> QED
  BY <1>2, <1>4, <1>5, <1>6 DEF IsTail, IsNewest

\* Pushing the next row makes the tail that ends in it.
LEMMA PushIsTail ==
    ASSUME rows \in Seq(Deliveries), NEW m \in Nat, m < Len(rows), NEW w \in Seq(Deliveries),
           IsTail(rows, w, m)
    PROVE  IsTail(rows, PushSettlementEvent(w, rows[m + 1]), m + 1)
<1> DEFINE d == rows[m + 1]
           v == PushSettlementEvent(w, d)
<1>1. /\ DetectorWindow \in Nat \ {0} /\ Len(w) \in Nat /\ Len(rows) \in Nat
      /\ Len(w) = (IF m <= DetectorWindow THEN m ELSE DetectorWindow)
      /\ \A k \in 1..Len(w) : w[k] = rows[m - Len(w) + k]
  BY HandoffAssumption DEF IsTail
<1>2. d \in Deliveries
  BY <1>1
<1> HIDE DEF d
<1>3. CASE Len(w) = DetectorWindow
  <2>1. /\ Tail(w) \in Seq(Deliveries) /\ Len(Tail(w)) = Len(w) - 1
        /\ \A k \in 1..(Len(w) - 1) : Tail(w)[k] = w[k + 1]
    BY <1>1, <1>3
  <2>2. v = Append(Tail(w), d)
    BY <1>3 DEF PushSettlementEvent
  <2>3. /\ Len(v) = Len(w) /\ v[Len(w)] = d
        /\ \A k \in 1..(Len(w) - 1) : v[k] = w[k + 1]
    BY <1>1, <1>2, <2>1, <2>2
  <2> HIDE DEF v
  <2>4. ASSUME NEW k \in 1..Len(w)
        PROVE  v[k] = rows[m + 1 - Len(w) + k]
    <3>1. CASE k = Len(w)
      <4>1. m + 1 - Len(w) + Len(w) = m + 1
        BY <1>1
      <4> QED
        BY <2>3, <3>1, <4>1 DEF d
    <3>2. CASE k # Len(w)
      <4>1. k \in 1..(Len(w) - 1) /\ k + 1 \in 1..Len(w) /\ m - Len(w) + (k + 1) = m + 1 - Len(w) + k
        BY <1>1, <3>2
      <4> QED
        BY <1>1, <2>3, <4>1
    <3> QED
      BY <3>1, <3>2
  <2>5. Len(w) = IF m + 1 <= DetectorWindow THEN m + 1 ELSE DetectorWindow
    BY <1>1, <1>3
  <2> QED
    BY <2>3, <2>4, <2>5 DEF IsTail, v, d
<1>4. CASE Len(w) # DetectorWindow
  <2>1. v = Append(w, d)
    BY <1>4 DEF PushSettlementEvent
  <2>2. /\ Len(v) = Len(w) + 1 /\ v[Len(w) + 1] = d
        /\ \A k \in 1..Len(w) : v[k] = w[k]
    BY <1>2, <2>1
  <2> HIDE DEF v
  <2>3. Len(w) = m /\ m + 1 <= DetectorWindow
    BY <1>1, <1>4
  <2>4. ASSUME NEW k \in 1..(m + 1)
        PROVE  v[k] = rows[k]
    <3>1. CASE k = m + 1
      BY <2>2, <2>3, <3>1 DEF d
    <3>2. CASE k # m + 1
      <4>1. k \in 1..m /\ m - m + k = k
        BY <3>2
      <4> QED
        BY <1>1, <2>2, <2>3, <4>1
    <3> QED
      BY <3>1, <3>2
  <2>5. \A k \in 1..(m + 1) : m + 1 - (m + 1) + k = k
    OBVIOUS
  <2>6. Len(v) = m + 1
    BY <2>2, <2>3
  <2>7. \A k \in 1..Len(v) : v[k] = rows[m + 1 - Len(v) + k]
    BY <2>4, <2>5, <2>6
  <2>8. Len(v) = IF m + 1 <= DetectorWindow THEN m + 1 ELSE DetectorWindow
    BY <2>3, <2>6
  <2> QED
    BY <2>7, <2>8 DEF IsTail, v, d
<1> QED
  BY <1>3, <1>4

\* The rows processed are the oldest ones; the window in memory is the one a
\* restart would rebuild, and while a record is in flight it is that one with
\* the record pushed.
WindowInv ==
    /\ \E m \in 0..Len(rows) : Done = 1..m
    /\ WindowMatchesHistory
    /\ wpc = "persist" => window = PushSettlementEvent(saved, cur)

LEMMA WindowInit == Init => WindowInv
<1> SUFFICES ASSUME Init PROVE WindowInv
  OBVIOUS
<1>1. Len(rows) = 0 /\ Done = 1..0 /\ wpc = "reconstruct"
  BY DEF Init, Done
<1> QED
  BY <1>1 DEF WindowInv, WindowMatchesHistory

\* What the worker has in memory matters only while it works.
LEMMA WindowKept ==
    ASSUME WindowInv, UNCHANGED <<rows, processed>>,
           wpc' \in {"fetch", "process", "recv", "stopped"} => IsRecentHistory(window'),
           wpc' = "persist" => /\ IsRecentHistory(saved')
                               /\ window' = PushSettlementEvent(saved', cur')
    PROVE  WindowInv'
<1>1. \A w : IsRecentHistory(w)' <=> IsRecentHistory(w)
  BY DEF IsRecentHistory
<1>2. Done' = Done
  BY DEF Done
<1> QED
  BY <1>1, <1>2 DEF WindowInv, WindowMatchesHistory, IsRecentHistory

LEMMA WindowStep ==
    ASSUME ClockMonotone, TypeOK, SafetyInv, OrderInv, WindowInv, [Next]_vars
    PROVE  WindowInv'
<1>0. Len(rows) \in Nat /\ rows \in Seq(Deliveries)
  BY DEF TypeOK
<1>1. ASSUME NEW r \in Requests, EnqueueCommits(r) PROVE WindowInv'
  <2>1. req[r].id \in Deliveries /\ EnqueueWebhookEvent(req[r].id)
    BY <1>1 DEF EnqueueCommits, SafetyInv, HandlersSafe
  <2>2. UNCHANGED worker /\ processed' = processed
    BY <1>1 DEF EnqueueCommits, EnqueueWebhookEvent
  <2>3. CASE rows' = rows
    BY <2>2, <2>3, WindowKept DEF worker, WindowInv, WindowMatchesHistory
  <2>4. CASE req[r].id \notin Stored /\ rows' = Append(rows, req[r].id)
    <3>1. /\ Len(rows') = Len(rows) + 1
          /\ \A k \in 1..Len(rows) : rows'[k] = rows[k]
          /\ rows'[Len(rows) + 1] = req[r].id
      BY <1>0, <2>1, <2>4
    <3>2. req[r].id \notin processed
      BY <2>4 DEF SafetyInv, TablesAgree
    <3>3. Done' = Done
      <4>1. \A i \in 1..(Len(rows) + 1) :
               rows'[i] \in processed <=> i \in 1..Len(rows) /\ rows[i] \in processed
        BY <1>0, <3>1, <3>2
      <4> QED
        BY <1>0, <2>2, <3>1, <4>1 DEF Done
    <3>4. \A w : IsRecentHistory(w)' <=> IsRecentHistory(w)
      <4>1. \A w : IsRecentHistory(w) <=> IsNewest(Done, rows, w)
        BY DEF IsRecentHistory, Done, IsNewest
      <4>2. \A w : IsRecentHistory(w)' <=> IsNewest(Done', rows', w)
        BY DEF IsRecentHistory, Done, IsNewest
      <4>3. \A i \in Done : rows'[i] = rows[i]
        BY <3>1 DEF Done
      <4> HIDE DEF Done
      <4> QED
        BY <3>3, <4>1, <4>2, <4>3 DEF IsNewest
    <3>5. \E m \in 0..Len(rows') : Done' = 1..m
      BY <1>0, <3>1, <3>3 DEF WindowInv
    <3> QED
      BY <2>2, <3>4, <3>5 DEF worker, WindowInv, WindowMatchesHistory
  <2> QED
    BY <2>1, <2>3, <2>4, EnqueueIsLast DEF SafetyInv
<1>2. ASSUME NEW r \in Requests,
             \/ \E d \in Deliveries : Receive(r, d)
             \/ AlreadyProcessed(r) \/ NotYetProcessed(r) \/ Admit(r)
             \/ EnqueueFails(r) \/ WakeAndAck(r) \/ TimeOut(r)
      PROVE  WindowInv'
  <2>1. UNCHANGED <<rows, processed>> /\ UNCHANGED worker
    BY <1>2 DEF Receive, AlreadyProcessed, NotYetProcessed, Admit, EnqueueFails, WakeAndAck,
                TimeOut, durable
  <2> QED
    BY <2>1, WindowKept DEF worker, WindowInv, WindowMatchesHistory
<1>3. CASE Reconstruct
  <2>1. /\ UNCHANGED <<rows, processed>> /\ IsRecentHistory(window') /\ wpc' = "fetch"
    BY <1>3 DEF Reconstruct, durable
  <2> QED
    BY <2>1, WindowKept
<1>4. CASE FetchPending \/ FetchFails \/ Recv
  <2>1. /\ UNCHANGED <<rows, processed, window>> /\ wpc \in {"fetch", "recv"}
        /\ wpc' \in {"fetch", "process", "recv", "stopped"}
    BY <1>4 DEF FetchPending, FetchFails, Recv, AfterDrain, durable
  <2> QED
    BY <2>1, WindowKept DEF WindowInv, WindowMatchesHistory
<1>5. CASE Evaluate
  <2>1. /\ UNCHANGED <<rows, processed>> /\ wpc = "process" /\ wpc' = "persist"
        /\ saved' = window /\ window' = PushSettlementEvent(window, cur')
    BY <1>5 DEF Evaluate, durable
  <2> QED
    BY <2>1, WindowKept DEF WindowInv, WindowMatchesHistory
<1>6. CASE PersistFails
  <2>1. /\ UNCHANGED <<rows, processed>> /\ wpc = "persist" /\ wpc' \in {"recv", "stopped"}
        /\ window' = saved
    BY <1>6 DEF PersistFails, RestoreWindow, AfterDrain, durable
  <2> QED
    BY <2>1, WindowKept DEF WindowInv, WindowMatchesHistory
<1>7. CASE PersistCommits
  <2>1. /\ rows' = rows /\ processed' = processed \cup {cur} /\ cur \in Stored \ processed
        /\ wpc = "persist" /\ wpc' \in {"fetch", "process"} /\ window' = window
    BY <1>7 DEF PersistCommits
  <2>2. PICK m \in 0..Len(rows) : Done = 1..m
    BY DEF WindowInv
  <2>3. PICK i \in 1..Len(rows) : rows[i] = cur
    BY <2>1 DEF Stored
  <2>4. i > m
    <3>1. i \notin Done
      BY <2>1, <2>3 DEF Done
    <3> QED
      BY <1>0, <2>2, <3>1
  <2>5. i = m + 1
    <3>1. SUFFICES ASSUME i > m + 1 PROVE FALSE
      BY <1>0, <2>4
    <3>2. m + 1 \in 1..Len(rows) /\ m + 1 \notin Done
      BY <1>0, <2>2, <3>1
    <3>3. rows[m + 1] \notin processed
      BY <3>2 DEF Done
    <3>4. InFlight = {cur}
      BY <2>1 DEF InFlight
    <3>5. rows[m + 1] \in processed \cup batch \cup {cur}
      BY <2>3, <3>1, <3>2, <3>4 DEF OrderInv, BatchIsFrontier
    <3>6. rows[m + 1] # cur
      BY <1>0, <2>3, <3>1, <3>2 DEF SafetyInv, TablesAgree
    <3>7. rows[m + 1] \notin batch
      BY <1>0, <2>3, <3>1, <3>2, <3>4 DEF OrderInv, BatchIsFrontier
    <3> QED
      BY <3>3, <3>5, <3>6, <3>7
  <2>6. rows[m + 1] = cur /\ m < Len(rows) /\ m + 1 \in 0..Len(rows) /\ m \in Nat
    BY <1>0, <2>3, <2>5
  <2>7. Done' = 1..(m + 1)
    <3>1. \A j \in 1..Len(rows) : rows[j] = cur <=> j = m + 1
      BY <2>3, <2>5 DEF SafetyInv, TablesAgree
    <3>2. Done' = Done \cup {m + 1}
      BY <2>1, <2>3, <2>5, <3>1 DEF Done
    <3> QED
      BY <2>2, <2>6, <3>2
  <2>8. IsTail(rows, saved, m)
    <3>1. IsRecentHistory(saved) /\ saved \in Seq(Deliveries)
      BY <2>1 DEF WindowInv, WindowMatchesHistory, TypeOK
    <3>2. IsNewest(Done, rows, saved)
      BY <3>1 DEF IsRecentHistory, Done, IsNewest
    <3> QED
      BY <2>2, <2>6, <3>1, <3>2, NewestIsTail
  <2>9. IsTail(rows, window, m + 1)
    <3>1. window = PushSettlementEvent(saved, cur) /\ saved \in Seq(Deliveries)
      BY <2>1 DEF WindowInv, TypeOK
    <3> QED
      BY <1>0, <2>6, <2>8, <3>1, PushIsTail
  <2>10. IsRecentHistory(window)'
    <3>1. window \in Seq(Deliveries) /\ m + 1 \in Nat
      BY <2>6 DEF TypeOK
    <3>2. IsNewest(Done', rows', window')
      BY <2>1, <2>7, <2>9, <3>1, NewestIsTail
    <3> QED
      BY <3>2 DEF IsRecentHistory, Done, IsNewest
  <2> QED
    BY <2>1, <2>6, <2>7, <2>10 DEF WindowInv, WindowMatchesHistory
<1>8. CASE ReconstructFails \/ Exit \/ Crash
  <2>1. UNCHANGED <<rows, processed>> /\ wpc' \in {"dead", "reconstruct"}
    BY <1>8 DEF ReconstructFails, Exit, Crash, VolatileReset, durable
  <2> QED
    BY <2>1, WindowKept
<1>9. CASE BeginShutdown \/ DropSenders \/ Restart \/ UNCHANGED vars
  <2>1. UNCHANGED <<rows, processed>> /\ UNCHANGED worker
    BY <1>9 DEF BeginShutdown, DropSenders, Restart, durable, vars, worker
  <2> QED
    BY <2>1, WindowKept DEF worker, WindowInv, WindowMatchesHistory
<1> QED
  BY <1>1, <1>2, <1>3, <1>4, <1>5, <1>6, <1>7, <1>8, <1>9 DEF Next, HandlerStep, WorkerStep

\* With a clock that does not step back, the evidence window a restart would
\* rebuild is the one in memory, whatever failed, for any window width.
THEOREM WindowSurvives ==
    ASSUME ClockMonotone
    PROVE  Spec => []WindowMatchesHistory
<1>1. Init => OrderInv /\ WindowInv
  BY OrderInit, WindowInit
<1>2. TypeOK /\ SafetyInv /\ OrderInv /\ WindowInv /\ [Next]_vars => OrderInv' /\ WindowInv'
  BY OrderStep, WindowStep
<1>3. WindowInv => WindowMatchesHistory
  BY DEF WindowInv
<1> QED
  BY <1>1, <1>2, <1>3, HandoffInvariant, PTL DEF Spec
=============================================================================
