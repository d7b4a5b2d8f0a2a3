------------------------- MODULE MonitorAlertsProofs ------------------------
(***************************************************************************)
(* Proofs for MonitorAlerts: for any set of keys, cooldown, number of      *)
(* attempts, faults, crashes and scans, the stored dedup state is what was *)
(* last delivered and written down, and it keeps alerts a cooldown apart,  *)
(* wherever a scan has not sent the same alert at the same time.           *)
(***************************************************************************)
EXTENDS MonitorAlerts, TLAPS

\* The initial states.
LEMMA MonitorInit == Init => TypeOK /\ MonitorInv
  BY MonitorAssumption
  DEF Init, TypeOK, MonitorInv, StateMatchesTold, SendJustified, ScanJustified, AlertStates,
      Never, NoScan, InSend

\* What is about to be sent is a legal state.
LEMMA NewStateType ==
    ASSUME TypeOK, key \in Keys
    PROVE  [at |-> at, sev |-> findings[key]] \in AlertStates
  BY DEF TypeOK, AlertStates

\* So is what a scan sends.
LEMMA ScanStateType ==
    ASSUME TypeOK
    PROVE  [at |-> scan.at, sev |-> scan.sev] \in AlertStates
  BY DEF TypeOK, AlertStates

\* The values of variables that hold nothing.
LEMMA EmptyTypes ==
    /\ Never \in AlertStates
    /\ NoScan \in [stage : {"none", "skipping", "sending", "record"}, key : Keys \cup {NoKey},
                   at : 0..MaxTime, sev : 0..2, stored : AlertStates]
  BY MonitorAssumption DEF Never, AlertStates, NoScan

\* Every step preserves the types.
LEMMA MonitorTypeStep == TypeOK /\ MonitorInv /\ [Next]_vars => TypeOK'
<1> SUFFICES ASSUME TypeOK, MonitorInv, [Next]_vars PROVE TypeOK'
  OBVIOUS
<1> USE MonitorAssumption DEF TypeOK, cycle, alert, sent, others, InSend
<1>1. ASSUME NEW f \in [Keys -> 0..2], Ingest(f) PROVE TypeOK'
  BY <1>1 DEF Ingest
<1>2. CASE IngestFails
  BY <1>2 DEF IngestFails, Fault
<1>3. CASE Persist
  BY <1>3 DEF Persist
<1>4. CASE StorageFails
  BY <1>4 DEF StorageFails, NewCycle, Fault
<1>5. ASSUME NEW k \in Keys, Send(k) PROVE TypeOK'
  BY <1>5 DEF Send
<1>6. ASSUME NEW k \in Keys, ReadFails(k) PROVE TypeOK'
  BY <1>6 DEF ReadFails, Fault
<1>7. CASE Skip \/ SinkFails \/ Record \/ WriteFails
  <2>1. key \in Keys
    BY <1>7 DEF Skip, SinkFails, Record, WriteFails, MonitorInv, SendJustified
  <2>2. [at |-> at, sev |-> findings[key]] \in AlertStates
    BY <2>1, NewStateType
  <2>3. AlertDone /\ UNCHANGED <<now, attempt, findings, told, scan, contested, scans, crashes>>
    BY <1>7 DEF Skip, SinkFails, Record, WriteFails
  <2>4. state' \in [Keys -> AlertStates] /\ unrecorded' \subseteq Keys
    BY <1>7, <2>2 DEF Skip, SinkFails, Record, WriteFails
  <2>5. faults' \in 0..MaxFaults
    BY <1>7 DEF Skip, SinkFails, Record, WriteFails, Fault
  <2> QED
    BY <2>3, <2>4, <2>5, EmptyTypes DEF AlertDone, NoAlert
<1>8. CASE Delivered \/ NoAnswer \/ Refused
  <2>1. key \in Keys
    BY <1>8 DEF Delivered, NoAnswer, Refused, MonitorInv, SendJustified
  <2>2. [at |-> at, sev |-> findings[key]] \in AlertStates
    BY <2>1, NewStateType
  <2>3. /\ state' \in [Keys -> AlertStates]
        /\ told' \in [Keys -> AlertStates]
        /\ unrecorded' \subseteq Keys
    BY <1>8, <2>1, <2>2 DEF Delivered, NoAnswer, Refused, Arrives
  <2>4. tries' \in 0..MaxSends
    <3>1. CASE NoAnswer
      BY <3>1 DEF NoAnswer, MonitorInv, SendJustified
    <3> QED
      BY <3>1, <1>8 DEF Delivered, Refused
  <2>5. faults' \in 0..MaxFaults /\ pc' \in InSend
    BY <1>8 DEF Delivered, NoAnswer, Refused, Fault
  <2>6. UNCHANGED <<now, attempt, findings, todo, key, at, stored, scan, contested, scans, crashes>>
    BY <1>8 DEF Delivered, NoAnswer, Refused
  <2> QED
    BY <2>3, <2>4, <2>5, <2>6
<1>9. CASE EndCycle \/ Wake \/ Restart \/ Tick \/ StepBack
  BY <1>9 DEF EndCycle, Wake, Restart, Tick, StepBack, NewCycle
<1>10. CASE Crash
  BY <1>10, EmptyTypes DEF Crash, NoAlert, NewCycle
<1>11. ASSUME NEW k \in Keys, NEW sev \in 1..2, ScanSends(k, sev) PROVE TypeOK'
  BY <1>11 DEF ScanSends
<1>12. CASE ScanDelivered \/ ScanKeeps \/ ScanRecords \/ ScanEnds
  <2>1. scan.key \in Keys
    BY <1>12 DEF ScanDelivered, ScanKeeps, ScanRecords, ScanEnds, MonitorInv, ScanJustified
  <2>2. /\ state' \in [Keys -> AlertStates]
        /\ told' \in [Keys -> AlertStates]
        /\ unrecorded' \subseteq Keys
    BY <1>12, <2>1, ScanStateType
    DEF ScanDelivered, ScanKeeps, ScanRecords, ScanEnds, ScanArrives
  <2>3. scan' \in [stage : {"none", "skipping", "sending", "record"}, key : Keys \cup {NoKey},
                   at : 0..MaxTime, sev : 0..2, stored : AlertStates]
    BY <1>12, EmptyTypes DEF ScanDelivered, ScanKeeps, ScanRecords, ScanEnds
  <2>4. UNCHANGED <<now, pc, cycle, todo, alert, contested, scans, faults, crashes>>
    BY <1>12 DEF ScanDelivered, ScanKeeps, ScanRecords, ScanEnds
  <2> QED
    BY <2>2, <2>3, <2>4
<1>13. CASE UNCHANGED vars
  BY <1>13 DEF vars
<1> QED
  BY <1>1, <1>2, <1>3, <1>4, <1>5, <1>6, <1>7, <1>8, <1>9, <1>10, <1>11, <1>12, <1>13
  DEF Next, Step, Scan

\* An alert that is not suppressed is due by the stored state.
LEMMA NotSuppressedIsSpaced ==
    ASSUME TypeOK, NEW k \in Keys, NEW sev \in 0..2, ~Suppressed(k, sev)
    PROVE  Spaced(state[k], [at |-> now, sev |-> sev])
<1>1. state[k].at \in Nat /\ state[k].sev \in Nat /\ now \in Nat
  BY MonitorAssumption DEF TypeOK, AlertStates
<1> QED
  BY <1>1, MonitorAssumption DEF Suppressed, InCooldown, Escalated, Spaced

\* Every step preserves the agreement of the stored state with what was told.
LEMMA MonitorInvStep == TypeOK /\ MonitorInv /\ [Next]_vars => MonitorInv'
<1> SUFFICES ASSUME TypeOK, MonitorInv, [Next]_vars PROVE MonitorInv'
  OBVIOUS
<1> USE DEF MonitorInv, StateMatchesTold, SendJustified, ScanJustified, InSend
<1>1. CASE \/ \E f \in [Keys -> 0..2] : Ingest(f)
           \/ IngestFails \/ Persist \/ StorageFails
           \/ \E k \in Keys : ReadFails(k)
           \/ WriteFails
           \/ EndCycle \/ Wake \/ Restart \/ Crash
  <2>1. UNCHANGED <<state, told, unrecorded, scan, contested>> /\ pc' \notin InSend
    BY <1>1 DEF sent, others, Ingest, IngestFails, Persist, StorageFails, ReadFails,
       WriteFails, AlertDone, EndCycle, Wake, Restart, Crash
  <2> QED
    BY <2>1
<1>2. ASSUME NEW k \in Keys, Send(k) PROVE MonitorInv'
  <2>1. /\ UNCHANGED <<state, told, unrecorded, findings, scan>>
        /\ key' = k /\ at' = now /\ stored' = state[k] /\ tries' = 0
        /\ pc' = IF Suppressed(k, findings[k]) THEN "skipping" ELSE "sending"
        /\ contested' = contested \cup {j \in {k} : scan.stage # "none" /\ scan.key = k}
    BY <1>2 DEF Send, sent, cycle
  <2>2. ~Suppressed(k, findings[k]) => Spaced(state[k], [at |-> now, sev |-> findings[k]])
    BY NotSuppressedIsSpaced DEF TypeOK
  <2>3. StateMatchesTold'
    BY <2>1
  <2>4. SendJustified'
    BY <2>1, <2>2, MonitorAssumption
  <2>5. ScanJustified'
    BY <2>1
  <2> QED
    BY <2>3, <2>4, <2>5
<1>3. CASE Skip \/ SinkFails
  <2>1. /\ pc' = "alert" /\ UNCHANGED <<told, unrecorded, scan, contested>> /\ key \in Keys
        /\ state' = [state EXCEPT ![key] = stored]
    BY <1>3 DEF Skip, SinkFails, AlertDone, others
  <2>2. \A k \in Keys \ contested : state'[k] = state[k]
    BY <2>1, <1>3 DEF TypeOK, Skip, SinkFails
  <2> QED
    BY <2>1, <2>2
<1>4. CASE Delivered \/ NoAnswer \/ Refused
  <2>1. /\ pc = "sending" /\ pc' \in {"sending", "failed", "record"} /\ key \in Keys
        /\ UNCHANGED <<state, findings, key, at, stored, scan, contested>>
    BY <1>4 DEF Delivered, NoAnswer, Refused, Arrives, cycle, alert, others, sent
  <2>2. \/ /\ unrecorded' = unrecorded \cup {key}
           /\ told' = [told EXCEPT ![key] = [at |-> at, sev |-> findings[key]]]
        \/ UNCHANGED <<told, unrecorded>> /\ pc' # "record"
    BY <1>4 DEF Delivered, NoAnswer, Refused, Arrives, sent
  <2>3. \A k \in Keys : k # key => told'[k] = told[k]
    BY <2>2 DEF TypeOK
  <2>4. pc' = "record" => told'[key] = [at |-> at, sev |-> findings[key]]
    BY <2>1, <2>2 DEF TypeOK
  <2>5. StateMatchesTold'
    BY <2>1, <2>2, <2>3
  <2>8. pc' = "sending" => tries' < MaxSends
    BY <1>4, <2>1, MonitorAssumption DEF Delivered, NoAnswer, Refused, TypeOK
  <2>6. SendJustified'
    BY <2>1, <2>4, <2>8
  <2>7. ScanJustified'
    BY <2>1, <2>3
  <2> QED
    BY <2>5, <2>6, <2>7
<1>5. CASE Record
  <2>1. /\ pc' = "alert" /\ UNCHANGED <<told, scan, contested>> /\ key \in Keys
        /\ unrecorded' = unrecorded \ {key}
        /\ state' = [state EXCEPT ![key] = [at |-> at, sev |-> findings[key]]]
    BY <1>5 DEF Record, AlertDone, others
  <2>2. key \notin contested => told[key] = [at |-> at, sev |-> findings[key]]
    BY <1>5 DEF Record
  <2>3. StateMatchesTold'
    BY <2>1, <2>2 DEF TypeOK
  <2>4. ScanJustified'
    BY <2>1, <1>5 DEF TypeOK, Record
  <2> QED
    BY <2>1, <2>3, <2>4
<1>6. CASE Tick \/ StepBack
  BY <1>6 DEF Tick, StepBack, sent, cycle, alert, others
<1>7. ASSUME NEW k \in Keys, NEW sev \in 1..2, ScanSends(k, sev) PROVE MonitorInv'
  <2>1. /\ UNCHANGED <<state, told, unrecorded, pc, findings, key, at, stored, tries>>
        /\ scan' = [stage |-> IF Suppressed(k, sev) THEN "skipping" ELSE "sending", key |-> k,
                    at |-> now, sev |-> sev, stored |-> state[k]]
        /\ contested' = contested \cup {j \in {k} : pc \in InSend /\ key = k}
    BY <1>7 DEF ScanSends, sent, cycle, alert
  <2>2. ~Suppressed(k, sev) => Spaced(state[k], [at |-> now, sev |-> sev])
    BY NotSuppressedIsSpaced
  <2>3. StateMatchesTold'
    BY <2>1
  <2>4. SendJustified'
    BY <2>1
  <2>5. ScanJustified'
    BY <2>1, <2>2
  <2> QED
    BY <2>3, <2>4, <2>5
<1>8. CASE ScanDelivered
  <2>1. /\ UNCHANGED <<state, pc, findings, key, at, stored, tries, contested>> /\ scan.key \in Keys
        /\ unrecorded' = unrecorded \cup {scan.key}
        /\ told' = [told EXCEPT ![scan.key] = [at |-> scan.at, sev |-> scan.sev]]
        /\ scan.stage = "sending" /\ scan' = [scan EXCEPT !.stage = "record"]
    BY <1>8 DEF ScanDelivered, ScanArrives, cycle, alert
  <2>2. /\ scan'.stage = "record" /\ scan'.key = scan.key /\ scan'.at = scan.at
        /\ scan'.sev = scan.sev /\ scan'.stored = scan.stored
    BY <2>1 DEF TypeOK
  <2>3. told'[scan.key] = [at |-> scan.at, sev |-> scan.sev]
    BY <2>1 DEF TypeOK
  <2>4. \A k \in Keys : k # scan.key => told'[k] = told[k]
    BY <2>1 DEF TypeOK
  <2>5. StateMatchesTold'
    BY <2>1, <2>4
  <2>6. SendJustified'
    BY <2>1, <2>4
  <2>7. ScanJustified'
    BY <2>1, <2>2, <2>3
  <2> QED
    BY <2>5, <2>6, <2>7
<1>9. CASE ScanKeeps
  <2>1. /\ UNCHANGED <<pc, findings, key, at, stored, tries, contested>> /\ scan.key \in Keys
        /\ state' = [state EXCEPT ![scan.key] = scan.stored] /\ scan' = NoScan
    BY <1>9 DEF ScanKeeps, cycle, alert
  <2>2. \A k \in Keys \ contested : state'[k] = state[k]
    BY <2>1, <1>9 DEF TypeOK, ScanKeeps
  <2>3. \/ /\ unrecorded' = unrecorded \cup {scan.key}
           /\ told' = [told EXCEPT ![scan.key] = [at |-> scan.at, sev |-> scan.sev]]
        \/ UNCHANGED <<told, unrecorded>>
    BY <1>9 DEF ScanKeeps, ScanArrives
  <2>4. \A k \in Keys : k # scan.key => told'[k] = told[k]
    BY <2>3 DEF TypeOK
  <2>5. StateMatchesTold'
    BY <2>1, <2>2, <2>3, <2>4
  <2>6. SendJustified'
    BY <2>1, <2>2, <2>4, <1>9 DEF ScanKeeps
  <2>7. ScanJustified'
    BY <2>1 DEF NoScan
  <2> QED
    BY <2>5, <2>6, <2>7
<1>10. CASE ScanRecords
  <2>1. /\ UNCHANGED <<told, pc, findings, key, at, stored, tries, contested>> /\ scan.key \in Keys
        /\ unrecorded' = unrecorded \ {scan.key} /\ scan' = NoScan
        /\ state' = [state EXCEPT ![scan.key] = [at |-> scan.at, sev |-> scan.sev]]
    BY <1>10 DEF ScanRecords, cycle, alert
  <2>2. scan.key \notin contested => told[scan.key] = [at |-> scan.at, sev |-> scan.sev]
    BY <1>10 DEF ScanRecords
  <2>3. StateMatchesTold'
    BY <2>1, <2>2 DEF TypeOK
  <2>4. SendJustified'
    BY <2>1, <1>10 DEF TypeOK, ScanRecords
  <2>5. ScanJustified'
    BY <2>1 DEF NoScan
  <2> QED
    BY <2>3, <2>4, <2>5
<1>11. CASE ScanEnds
  BY <1>11 DEF ScanEnds, NoScan, sent, cycle, alert
<1>12. CASE UNCHANGED vars
  BY <1>12 DEF vars
<1> QED
  BY <1>1, <1>2, <1>3, <1>4, <1>5, <1>6, <1>7, <1>8, <1>9, <1>10, <1>11, <1>12
  DEF Next, Step, Scan

\* The inductive invariant holds.
THEOREM MonitorInvariant == Spec => [](TypeOK /\ MonitorInv)
<1>1. TypeOK /\ MonitorInv /\ [Next]_vars => (TypeOK /\ MonitorInv)'
  BY MonitorTypeStep, MonitorInvStep
<1> QED
  BY MonitorInit, <1>1, PTL DEF Spec

\* The variables have their types: the attempts of ingestion and of Telegram
\* stay within their policies.
THEOREM MonitorTypes == Spec => []TypeOK
  BY MonitorInvariant, PTL

\* The stored dedup state is what the operator was last told.
THEOREM DedupStateIsTruthful == Spec => []StateMatchesTold
<1>1. MonitorInv => StateMatchesTold
  BY DEF MonitorInv
<1> QED
  BY MonitorInvariant, <1>1, PTL

\* Alerts that were written down keep the next one a cooldown away.
THEOREM AlertsAreSpaced == Spec => CooldownHolds
<1>1. TypeOK /\ MonitorInv /\ [Next]_vars =>
        [\A k \in Keys \ (unrecorded \cup contested) :
            k \in unrecorded' => Spaced(told[k], told'[k])]_vars
  <2> SUFFICES ASSUME TypeOK, MonitorInv, Next,
                      NEW k \in Keys, k \notin unrecorded, k \notin contested, k \in unrecorded'
               PROVE  Spaced(told[k], told'[k])
    BY DEF vars
  <2>1. state[k] = told[k]
    BY DEF MonitorInv, StateMatchesTold
  <2>2. CASE Delivered \/ NoAnswer \/ Refused
    <3>1. pc = "sending" /\ k = key
      BY <2>2 DEF Delivered, NoAnswer, Refused, Arrives, sent
    <3>2. told' = [told EXCEPT ![key] = [at |-> at, sev |-> findings[key]]]
      BY <2>2 DEF Delivered, NoAnswer, Refused, Arrives, sent
    <3> QED
      BY <2>1, <3>1, <3>2 DEF MonitorInv, SendJustified, InSend, TypeOK
  <2>3. CASE ScanDelivered \/ ScanKeeps
    <3>1. scan.stage = "sending" /\ k = scan.key
      BY <2>3 DEF ScanDelivered, ScanKeeps, ScanArrives
    <3>2. told' = [told EXCEPT ![scan.key] = [at |-> scan.at, sev |-> scan.sev]]
      BY <2>3 DEF ScanDelivered, ScanKeeps, ScanArrives
    <3> QED
      BY <2>1, <3>1, <3>2 DEF MonitorInv, ScanJustified, TypeOK
  <2>4. CASE ~(Delivered \/ NoAnswer \/ Refused \/ ScanDelivered \/ ScanKeeps)
    <3>1. unrecorded' \subseteq unrecorded
      BY <2>4 DEF Next, Step, Scan, Ingest, IngestFails, Persist, StorageFails, Send, ReadFails,
         Skip, SinkFails, Record, WriteFails, EndCycle, Wake, Restart, Crash, Tick, StepBack,
         ScanSends, ScanRecords, ScanEnds, sent
    <3> QED
      BY <3>1
  <2> QED
    BY <2>2, <2>3, <2>4
<1> QED
  BY MonitorInvariant, <1>1, PTL DEF Spec, CooldownHolds
=============================================================================
