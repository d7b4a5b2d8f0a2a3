----------------------- MODULE OperationalStateProofs -----------------------
(***************************************************************************)
(* Proofs for OperationalState: for any cycle limits and any number of     *)
(* failed storage calls, restarts and scans, no writer of the shared row   *)
(* falsifies another's source, and the times the detectors stamp their     *)
(* findings with never fall.                                               *)
(***************************************************************************)
EXTENDS OperationalState, TLAPS

Row == [lifecycle : {"none", "active", "resolved"}, absent : 0..2,
        first : Times, last : Times]

\* No time in the row is later than the clock, and no finding was observed
\* later than the latest attempt it depends on.
TimesArePast ==
    /\ attemptAt <= now /\ successAt <= now
    /\ \A s \in Chain : node[s].attemptAt <= now

OperationalInv == NoFalseConnection /\ ObservationsAreCurrent /\ TimesArePast

\* What the two UPDATEs of resolve_findings_for_scope leave of an active row.
LEMMA CountAbsenceType ==
    ASSUME NEW r \in Row
    PROVE  Life!CountAbsence(r) \in Row
<1>1. CASE r.absent >= 2
  <2>1. Life!CountAbsence(r) = [r EXCEPT !.lifecycle = "resolved", !.absent = 0]
    BY <1>1 DEF Life!CountAbsence
  <2>2. Life!CountAbsence(r) = [lifecycle |-> "resolved", absent |-> 0,
                                first |-> r.first, last |-> r.last]
    BY <2>1 DEF Row
  <2>3. r.first \in Times /\ r.last \in Times
    BY DEF Row
  <2> QED
    BY <2>2, <2>3 DEF Row
<1>2. CASE ~(r.absent >= 2)
  <2>1. r.absent \in 0..1
    BY <1>2 DEF Row
  <2>2. Life!CountAbsence(r) = [r EXCEPT !.absent = r.absent + 1]
    BY <1>2 DEF Life!CountAbsence
  <2> QED
    BY <2>1, <2>2 DEF Row
<1> QED
  BY <1>1, <1>2

\* What save_finding leaves of a row.
LEMMA SaveFindingType ==
    ASSUME NEW r \in Row, NEW at \in Times
    PROVE  Life!SaveFinding(r, at) \in Row
  BY OperationalAssumption DEF Life!SaveFinding, Life!Earlier, Row, Times

\* A detector's cycle keeps the findings well formed.
LEMMA ResolveType ==
    ASSUME finding \in [Sources -> Row], NEW complete
    PROVE  Life!ResolveFindingsForScopes(finding, complete) \in [Sources -> Row]
  BY CountAbsenceType DEF Life!ResolveFindingsForScopes

\* The time a detector stamps its finding with is a time, and not a later one
\* than now.
LEMMA ObservedAtType ==
    ASSUME TypeOK, NEW s \in Sources
    PROVE  ObservedAt(s) \in Times
  BY OperationalAssumption DEF TypeOK, ObservedAt, Later, Sources, Chain, Times

\* How every step moves the clock and the times of the row.
Forward ==
    /\ now' \in {now, now + 1}
    /\ attemptAt' \in {attemptAt, now} /\ successAt' \in {successAt, now}
    /\ \A c \in Chain : node'[c].attemptAt \in {node[c].attemptAt, now}

\* The only time a step may add to a finding's observations.
ObservesNow == \A s \in Sources : seen'[s] \subseteq seen[s] \cup {ObservedAt(s)}

\* Attempts only move the observation times of the detectors forward.
LEMMA ObservedAtGrows ==
    ASSUME TypeOK, TypeOK', TimesArePast, Forward
    PROVE  TimesArePast' /\ \A s \in Sources : ObservedAt(s) <= ObservedAt(s)'
<1>1. /\ now \in Nat /\ attemptAt \in Nat /\ successAt \in Nat
      /\ now' \in Nat /\ attemptAt' \in Nat /\ successAt' \in Nat
      /\ node["core"].attemptAt \in Nat /\ node["lnd"].attemptAt \in Nat
      /\ node'["core"].attemptAt \in Nat /\ node'["lnd"].attemptAt \in Nat
  BY OperationalAssumption DEF TypeOK, Times, Chain
<1>2. /\ now <= now'
      /\ node["core"].attemptAt <= now /\ node["lnd"].attemptAt <= now
      /\ node'["core"].attemptAt \in {node["core"].attemptAt, now}
      /\ node'["lnd"].attemptAt \in {node["lnd"].attemptAt, now}
      /\ attemptAt <= now /\ successAt <= now
      /\ attemptAt' \in {attemptAt, now} /\ successAt' \in {successAt, now}
  BY <1>1 DEF TimesArePast, Forward, Chain
<1>3. now # 0
  BY DEF TypeOK
<1>4. TimesArePast'
  BY <1>1, <1>2 DEF TimesArePast, Chain
<1>5. ObservedAt("btcpay") <= ObservedAt("btcpay")'
  BY <1>1, <1>2, <1>3 DEF ObservedAt
<1>6. ObservedAt("core") <= ObservedAt("core")'
  BY <1>1, <1>2, <1>3 DEF ObservedAt, Later
<1>7. ObservedAt("lnd") <= ObservedAt("lnd")'
  BY <1>1, <1>2, <1>3 DEF ObservedAt, Later
<1> QED
  BY <1>4, <1>5, <1>6, <1>7 DEF Sources, Chain

\* So an observation that was current stays so.
LEMMA CurrentStays ==
    ASSUME TypeOK, TypeOK', TimesArePast, ObservationsAreCurrent, Forward, ObservesNow
    PROVE  TimesArePast' /\ ObservationsAreCurrent'
<1>1. TimesArePast' /\ \A s \in Sources : ObservedAt(s) <= ObservedAt(s)'
  BY ObservedAtGrows
<1>2. \A s \in Sources : ObservedAt(s) \in Times
  BY ObservedAtType
<1>3. \A s \in Sources : ObservedAt(s)' \in Times
  BY OperationalAssumption DEF TypeOK, ObservedAt, Later, Sources, Chain, Times
<1>4. \A s \in Sources : seen[s] \subseteq Times
  BY DEF TypeOK
<1>5. ASSUME NEW s \in Sources, NEW t \in seen'[s]
      PROVE  t <= ObservedAt(s)'
  <2>1. t \in Times /\ t <= ObservedAt(s)
    BY <1>2, <1>4, OperationalAssumption DEF ObservesNow, ObservationsAreCurrent, Times
  <2>2. ObservedAt(s) \in Nat /\ ObservedAt(s)' \in Nat /\ t \in Nat
    BY <1>2, <1>3, <2>1, OperationalAssumption DEF Times
  <2>3. ObservedAt(s) <= ObservedAt(s)'
    BY <1>1
  <2> QED
    BY <2>1, <2>2, <2>3
<1> QED
  BY <1>1, <1>5 DEF ObservationsAreCurrent

\* The initial states.
LEMMA OperationalInit == Init => TypeOK /\ OperationalInv
<1> SUFFICES ASSUME Init PROVE TypeOK /\ OperationalInv
  OBVIOUS
<1>1. TypeOK
  <2>1. /\ 0 \in Times /\ 1 \in 1..MaxTime /\ 0 \in 0..MaxUpsets
        /\ 0 \in 0..2 /\ 0 \in 0..3 /\ 3 \in 0..3
    BY OperationalAssumption DEF Times
  <2>2. finding \in [Sources -> [lifecycle : {"none", "active", "resolved"}, absent : 0..2,
                                 first : Times, last : Times]]
    BY <2>1 DEF Init, Life!NoRow
  <2>3. /\ node \in [Chain -> [connected : BOOLEAN, attemptAt : Times,
                               snap : {"none", "synced", "behind"}]]
        /\ source \in [kind : {"fixture", "lnd_rest", "btcpay"}, connected : BOOLEAN]
        /\ cycle \in [attempt : Times, success : Times]
        /\ scan \in [pc : {"off", "build", "loaded", "cycle"},
                     kind : {"fixture", "lnd_rest"}]
    BY <2>1 DEF Init, NoScan
  <2>4. /\ seen \in [Sources -> SUBSET Times] /\ missed \in [Sources -> 0..3]
        /\ last \in [Sources -> {"none", "ok", "fail"}]
        /\ poller \in [Sources -> {"tick", "poll", "evaluate"}] /\ polls \in [Sources -> Nat]
    BY <2>1 DEF Init
  <2> QED
    BY <2>1, <2>2, <2>3, <2>4 DEF Init, TypeOK
<1>2. OperationalInv
  BY OperationalAssumption
  DEF Init, OperationalInv, NoFalseConnection, ObservationsAreCurrent, TimesArePast, Greenfield,
      Chain, Sources
<1> QED
  BY <1>1, <1>2

\* What every step is shown to do.
Preserved == TypeOK' /\ Forward /\ ObservesNow /\ NoFalseConnection'

\* An attempt keeps whether its source is connected.
LEMMA AttemptStep ==
    ASSUME TypeOK, NoFalseConnection, NEW s \in Sources, Attempt(s)
    PROVE  Preserved
<1>1. now \in Times
  BY OperationalAssumption DEF TypeOK, Times
<1>2. CASE /\ s = "btcpay" /\ GreenfieldAttempt /\ UNCHANGED upsets
  <2>1. source' \in [kind : {"fixture", "lnd_rest", "btcpay"}, connected : BOOLEAN]
    BY <1>2 DEF GreenfieldAttempt, Greenfield
  <2>2. TypeOK'
    <3>1. attemptAt' = now /\ UNCHANGED <<successAt, node, cycle>>
      BY <1>2 DEF GreenfieldAttempt
    <3>2. /\ poller' \in [Sources -> {"tick", "poll", "evaluate"}]
          /\ polls' \in [Sources -> Nat]
      BY DEF TypeOK, Attempt, Goto
    <3> QED
      BY <1>1, <1>2, <2>1, <3>1, <3>2 DEF TypeOK, Attempt, ghosts
  <2>3. source' = Greenfield(TRUE) => source = Greenfield(TRUE)
    BY <1>2 DEF GreenfieldAttempt, Greenfield
  <2> QED
    BY <1>2, <2>2, <2>3
    DEF Preserved, Attempt, GreenfieldAttempt, Forward, ObservesNow, NoFalseConnection, ghosts
<1>3. CASE /\ s # "btcpay" /\ NodeAttempt(s) /\ UNCHANGED upsets
  <2>1. s \in Chain
    BY <1>3 DEF Sources
  <2>2. node' \in [Chain -> [connected : BOOLEAN, attemptAt : Times,
                             snap : {"none", "synced", "behind"}]]
    <3>1. /\ node[s].connected \in BOOLEAN /\ node[s].snap \in {"none", "synced", "behind"}
          /\ [node[s] EXCEPT !.attemptAt = now] =
                [connected |-> node[s].connected, attemptAt |-> now, snap |-> node[s].snap]
      BY <2>1 DEF TypeOK
    <3>2. [node[s] EXCEPT !.attemptAt = now] \in
             [connected : BOOLEAN, attemptAt : Times, snap : {"none", "synced", "behind"}]
      BY <1>1, <3>1
    <3> QED
      BY <1>3, <2>1, <3>2 DEF NodeAttempt, TypeOK
  <2>3. TypeOK'
    BY <1>3, <2>2 DEF TypeOK, Attempt, NodeAttempt, Goto, ghosts
  <2>4. \A c \in Chain : /\ node'[c].connected = node[c].connected
                         /\ node'[c].attemptAt \in {node[c].attemptAt, now}
    BY <1>3, <2>1 DEF NodeAttempt, TypeOK
  <2> QED
    BY <1>3, <2>3, <2>4
    DEF Preserved, Attempt, NodeAttempt, Forward, ObservesNow, NoFalseConnection, ghosts, Greenfield
<1>4. CASE Upset /\ UNCHANGED row
  <2>1. TypeOK'
    BY <1>4, OperationalAssumption DEF TypeOK, Attempt, Upset, row, Goto, ghosts
  <2> QED
    BY <1>4, <2>1
    DEF Preserved, Attempt, row, Forward, ObservesNow, NoFalseConnection, ghosts, Greenfield
<1> QED
  BY <1>2, <1>3, <1>4 DEF Attempt

\* A recorded outcome is what its source is then shown as.
LEMMA RecordStep ==
    ASSUME TypeOK, NoFalseConnection, NEW s \in Sources, NEW out \in Outcomes(s), Record(s, out)
    PROVE  Preserved
<1>1. now \in Times
  BY OperationalAssumption DEF TypeOK, Times
<1>2. /\ poller' \in [Sources -> {"tick", "poll", "evaluate"}]
      /\ last' \in [Sources -> {"none", "ok", "fail"}]
  BY DEF Record, AfterRecord, Goto, TypeOK
<1>3. CASE s = "btcpay"
  <2>1. GreenfieldOutcome(out)
    BY <1>3 DEF Record
  <2>2. source' \in [kind : {"fixture", "lnd_rest", "btcpay"}, connected : BOOLEAN]
    BY <2>1 DEF GreenfieldOutcome, Greenfield
  <2>3. good' \in 0..3
    BY <2>1 DEF GreenfieldOutcome, TypeOK
  <2>4. TypeOK'
    BY <1>1, <1>2, <2>1, <2>2, <2>3 DEF TypeOK, Record, GreenfieldOutcome
  <2>5. source' = Greenfield(TRUE) => out = "ok"
    BY <2>1 DEF GreenfieldOutcome, Greenfield
  <2>6. /\ \A c \in Chain : last'[c] = last[c]
        /\ out = "ok" => last'["btcpay"] = "ok"
    BY <1>3 DEF Record, TypeOK, Sources, Chain
  <2> QED
    BY <2>1, <2>4, <2>5, <2>6
    DEF Preserved, Record, GreenfieldOutcome, Forward, ObservesNow, NoFalseConnection
<1>4. CASE s # "btcpay"
  <2>1. NodeOutcome(s, out) /\ s \in Chain
    BY <1>4 DEF Record, Sources
  <2>2. out \in {"synced", "behind", "fail"}
    BY <1>4 DEF Outcomes
  <2>3. /\ node[s].snap \in {"none", "synced", "behind"} /\ node[s].attemptAt \in Times
        /\ (out # "fail") \in BOOLEAN
    BY <2>1 DEF TypeOK
  <2>4. node' = [node EXCEPT ![s] =
                    [connected |-> out # "fail",
                     attemptAt |-> IF node[s].attemptAt = 0 THEN now ELSE node[s].attemptAt,
                     snap |-> IF out = "fail" THEN node[s].snap ELSE out]]
    BY <2>1 DEF NodeOutcome
  <2>5. [connected |-> out # "fail",
         attemptAt |-> IF node[s].attemptAt = 0 THEN now ELSE node[s].attemptAt,
         snap |-> IF out = "fail" THEN node[s].snap ELSE out]
            \in [connected : BOOLEAN, attemptAt : Times, snap : {"none", "synced", "behind"}]
    BY <1>1, <2>2, <2>3
  <2>6. node' \in [Chain -> [connected : BOOLEAN, attemptAt : Times,
                             snap : {"none", "synced", "behind"}]]
    BY <2>4, <2>5 DEF TypeOK
  <2>7. TypeOK'
    BY <1>2, <2>1, <2>6 DEF TypeOK, Record, NodeOutcome
  <2>8. /\ \A c \in Chain : node'[c].attemptAt \in {node[c].attemptAt, now}
        /\ \A c \in Chain \ {s} : node'[c].connected = node[c].connected
        /\ node'[s].connected <=> out # "fail"
    BY <2>1, <2>4 DEF TypeOK
  <2>9. /\ \A c \in Sources \ {s} : last'[c] = last[c]
        /\ last'[s] = "ok" <=> out # "fail"
    BY DEF Record, TypeOK
  <2> QED
    BY <1>4, <2>1, <2>7, <2>8, <2>9
    DEF Preserved, Record, NodeOutcome, Forward, ObservesNow, NoFalseConnection, Greenfield, Sources
<1> QED
  BY <1>3, <1>4

\* A detector's cycle touches neither the sources nor their times.
LEMMA EvaluateStep ==
    ASSUME TypeOK, NoFalseConnection, NEW s \in Sources, Evaluate(s)
    PROVE  Preserved
<1> DEFINE complete == IF IsComplete(s) THEN {s} ELSE {}
           resolved == Life!ResolveFindingsForScopes(finding, complete)
<1>1. now \in Times /\ ObservedAt(s) \in Times
  BY OperationalAssumption, ObservedAtType DEF TypeOK, Times
<1>2. resolved \in [Sources -> Row]
  BY ResolveType DEF TypeOK, Row
<1>3. finding' = IF Detects(s) THEN [resolved EXCEPT ![s] = Life!SaveFinding(resolved[s], ObservedAt(s))]
                 ELSE resolved
  BY DEF Evaluate
<1>4. finding' \in [Sources -> Row]
  <2>1. Life!SaveFinding(resolved[s], ObservedAt(s)) \in Row
    BY <1>1, <1>2, SaveFindingType
  <2> HIDE DEF resolved
  <2> QED
    BY <1>2, <1>3, <2>1
<1>5. seen' = IF Detects(s) THEN [seen EXCEPT ![s] = seen[s] \cup {ObservedAt(s)}] ELSE seen
  BY DEF Evaluate
<1>6. seen' \in [Sources -> SUBSET Times]
  BY <1>1, <1>5 DEF TypeOK
<1>7. missed' \in [Sources -> 0..3]
  <2>1. missed[s] \in 0..3 /\ Life!Earlier(missed[s] + 1, 3) \in 0..3
    BY DEF TypeOK, Life!Earlier
  <2>2. missed' \in {missed, [missed EXCEPT ![s] = 0],
                     [missed EXCEPT ![s] = Life!Earlier(missed[s] + 1, 3)]}
    BY DEF Evaluate
  <2> QED
    BY <2>1, <2>2 DEF TypeOK
<1>8. cycle' \in [attempt : Times, success : Times]
  BY <1>1 DEF Evaluate
<1>9. TypeOK'
  BY <1>4, <1>6, <1>7, <1>8 DEF TypeOK, Evaluate, Goto, Row
<1>10. ObservesNow
  BY <1>5 DEF ObservesNow, TypeOK
<1> QED
  BY <1>9, <1>10 DEF Preserved, Evaluate, Forward, NoFalseConnection, Greenfield

\* Failed calls, restarts and the clock leave the tables alone.
LEMMA QuietStep ==
    ASSUME TypeOK, NoFalseConnection,
           \/ \E s \in Sources, out \in {"ok", "fail", "synced", "behind"} : RecordFails(s, out)
           \/ \E s \in Sources : EvaluateFails(s)
           \/ ScanDies \/ Restart \/ Tick \/ UNCHANGED vars
    PROVE  Preserved
<1>1. UNCHANGED tables /\ UNCHANGED <<last, good>>
  BY DEF RecordFails, EvaluateFails, ScanDies, Restart, Tick, vars, tables, ghosts
<1>2. UNCHANGED <<source, attemptAt, successAt, node, cycle, finding, seen, missed, last, good>>
  BY <1>1 DEF tables, row
<1>3. now' \in 1..MaxTime /\ now' \in {now, now + 1}
  BY OperationalAssumption
  DEF TypeOK, RecordFails, EvaluateFails, ScanDies, Restart, Tick, vars
<1>4. /\ poller' \in [Sources -> {"tick", "poll", "evaluate"}]
      /\ limit' \in Limits /\ polls' \in [Sources -> Nat]
  BY DEF TypeOK, RecordFails, EvaluateFails, ScanDies, Restart, Tick, vars, agent, Goto
<1>5. wedged' \in BOOLEAN
  BY DEF TypeOK, RecordFails, EvaluateFails, ScanDies, Restart, Tick, vars, agent, TransactionFails
<1>6. upsets' \in 0..MaxUpsets
  BY OperationalAssumption
  DEF TypeOK, RecordFails, EvaluateFails, ScanDies, Restart, Tick, vars, TransactionFails, Upset
<1>8. scan' \in [pc : {"off", "build", "loaded", "cycle"}, kind : {"fixture", "lnd_rest"}]
  BY DEF TypeOK, RecordFails, EvaluateFails, ScanDies, Restart, Tick, vars, NoScan
<1>9. TypeOK'
  BY <1>2, <1>3, <1>4, <1>5, <1>6, <1>8 DEF TypeOK
<1> QED
  BY <1>2, <1>3, <1>9 DEF Preserved, Forward, ObservesNow, NoFalseConnection, Greenfield

\* A scan never shows Greenfield as connected.
LEMMA ScanStep ==
    ASSUME TypeOK, NoFalseConnection,
           \/ \E kind \in {"fixture", "lnd_rest"} : ScanAttempt(kind)
           \/ ScanIngests \/ ScanIngestFails \/ ScanCycle
    PROVE  Preserved
<1>1. now \in Times
  BY OperationalAssumption DEF TypeOK, Times
<1>2. /\ UNCHANGED <<now, node, finding, agent, last, good, seen, missed>>
      /\ attemptAt' \in {attemptAt, now} /\ successAt' \in {successAt, now}
  BY DEF ScanAttempt, ScanIngests, ScanIngestFails, ScanCycle, ghosts
<1>3. scan' \in [pc : {"off", "build", "loaded", "cycle"}, kind : {"fixture", "lnd_rest"}]
  <2>1. /\ scan.kind \in {"fixture", "lnd_rest"}
        /\ \A pc : [scan EXCEPT !.pc = pc] = [pc |-> pc, kind |-> scan.kind]
    BY DEF TypeOK
  <2>2. \E pc \in {"off", "build", "loaded", "cycle"}, kind \in {"fixture", "lnd_rest"} :
           scan' = [pc |-> pc, kind |-> kind]
    BY <2>1 DEF ScanAttempt, ScanIngests, ScanIngestFails, ScanCycle, NoScan
  <2> QED
    BY <2>2
<1>4. cycle' \in [attempt : Times, success : Times]
  BY <1>1 DEF TypeOK, ScanAttempt, ScanIngests, ScanIngestFails, ScanCycle
<1>6. upsets' \in 0..MaxUpsets
  <2>1. Upset \/ UNCHANGED upsets
    BY DEF ScanAttempt, ScanIngests, ScanIngestFails, ScanCycle
  <2> QED
    BY <2>1, OperationalAssumption DEF TypeOK, Upset
<1>7. \/ source' = source
      \/ \E kind \in {"fixture", "lnd_rest"}, up \in BOOLEAN : source' = ScanSource(kind, up)
  <2>1. CASE \E kind \in {"fixture", "lnd_rest"} : ScanAttempt(kind)
    BY <2>1 DEF ScanAttempt
  <2>2. CASE ScanIngests \/ ScanIngestFails
    <3>1. scan.kind \in {"fixture", "lnd_rest"}
      BY DEF TypeOK
    <3> QED
      BY <2>2, <3>1 DEF ScanIngests, ScanIngestFails
  <2>3. CASE ScanCycle
    BY <2>3 DEF ScanCycle
  <2> QED
    BY <2>1, <2>2, <2>3
<1>8. /\ source' \in [kind : {"fixture", "lnd_rest", "btcpay"}, connected : BOOLEAN]
      /\ source' = source \/ source'.kind # "btcpay"
  <2>1. \A kind, up : ScanSource(kind, up) = [kind |-> kind, connected |-> kind = "fixture" \/ up]
    BY DEF ScanSource
  <2>2. ASSUME NEW kind \in {"fixture", "lnd_rest"}, NEW up \in BOOLEAN
        PROVE  /\ ScanSource(kind, up) \in [kind : {"fixture", "lnd_rest", "btcpay"},
                                           connected : BOOLEAN]
               /\ ScanSource(kind, up).kind # "btcpay"
    BY <2>1
  <2> QED
    BY <1>7, <2>2 DEF TypeOK
<1>9. TypeOK'
  BY <1>1, <1>2, <1>3, <1>4, <1>6, <1>8 DEF TypeOK, agent
<1>10. NoFalseConnection'
  BY <1>2, <1>8 DEF NoFalseConnection, Greenfield
<1> QED
  BY <1>2, <1>9, <1>10 DEF Preserved, Forward, ObservesNow

\* Every step preserves the type invariant and the inductive invariant.
LEMMA OperationalStep == TypeOK /\ OperationalInv /\ [Next]_vars => TypeOK' /\ OperationalInv'
<1> SUFFICES ASSUME TypeOK, OperationalInv, [Next]_vars
             PROVE  TypeOK' /\ OperationalInv'
  OBVIOUS
<1>1. NoFalseConnection /\ ObservationsAreCurrent /\ TimesArePast
  BY DEF OperationalInv
<1>2. Preserved
  <2>1. CASE \E s \in Sources : Attempt(s)
    BY <1>1, <2>1, AttemptStep
  <2>2. CASE \E s \in Sources : \E out \in Outcomes(s) : Record(s, out)
    BY <1>1, <2>2, RecordStep
  <2>3. CASE \E s \in Sources : \E out \in Outcomes(s) : RecordFails(s, out)
    <3>1. \A s \in Sources : Outcomes(s) \subseteq {"ok", "fail", "synced", "behind"}
      BY DEF Outcomes
    <3> QED
      BY <1>1, <2>3, <3>1, QuietStep
  <2>4. CASE \E s \in Sources : Evaluate(s)
    BY <1>1, <2>4, EvaluateStep
  <2>5. CASE \E s \in Sources : EvaluateFails(s)
    BY <1>1, <2>5, QuietStep
  <2>6. CASE \/ \E kind \in {"fixture", "lnd_rest"} : ScanAttempt(kind)
             \/ ScanIngests \/ ScanIngestFails \/ ScanCycle
    BY <1>1, <2>6, ScanStep
  <2>7. CASE ScanDies \/ Restart \/ Tick \/ UNCHANGED vars
    BY <1>1, <2>7, QuietStep
  <2> QED
    BY <2>1, <2>2, <2>3, <2>4, <2>5, <2>6, <2>7 DEF Next
<1> QED
  BY <1>1, <1>2, CurrentStays DEF Preserved, OperationalInv

\* For any cycle limits and any number of failures, restarts and scans the
\* row, the findings and the loops stay well formed.
THEOREM OperationalTypes == Spec => []TypeOK
<1>1. Spec => [](TypeOK /\ OperationalInv)
  BY OperationalInit, OperationalStep, PTL DEF Spec
<1> QED
  BY <1>1, PTL

\* The pollers and scans that share the row never show a source as connected
\* against the last outcome recorded for it.
THEOREM SourcesAreNotConfused == Spec => []NoFalseConnection
<1>1. Spec => [](TypeOK /\ OperationalInv)
  BY OperationalInit, OperationalStep, PTL DEF Spec
<1>2. OperationalInv => NoFalseConnection
  BY DEF OperationalInv
<1> QED
  BY <1>1, <1>2, PTL

\* Nor are findings that are stamped with the latest attempt of several sources
\* ever taken for replays of older ones.
THEOREM RowStaysTrue == Spec => []RowIsTrue
<1>1. Spec => [](TypeOK /\ OperationalInv)
  BY OperationalInit, OperationalStep, PTL DEF Spec
<1>2. OperationalInv => RowIsTrue
  BY DEF OperationalInv, RowIsTrue
<1> QED
  BY <1>1, <1>2, PTL

\* A correlation blames or clears only sources whose last recorded outcome
\* was a success.
THEOREM CorrelationsAreJustified == Spec => CorrelationIsJustified
<1>1. Spec => []NoFalseConnection
  BY SourcesAreNotConfused
<1>2. ASSUME NoFalseConnection
      PROVE  /\ Observes("core") => last["btcpay"] = "ok" /\ last["core"] = "ok"
             /\ Observes("lnd") => \A s \in Sources : last[s] = "ok"
  BY <1>2 DEF NoFalseConnection, Observes, Detects, CoreBehind, LightningBehind, IsComplete, Usable,
         Sources, Chain
<1> QED
  BY <1>1, <1>2, PTL DEF CorrelationIsJustified


-----------------------------------------------------------------------------
(* The outage of BTCPay.                                                   *)

\* A finding's last observation is one that was made.
LastIsSeen == \A s \in Sources : finding[s].lifecycle # "none" => finding[s].last \in seen[s]

\* How the finding of BTCPay follows the good outcomes since the last bad one:
\* before its cycle is committed it is one outcome behind.
OutageShape ==
    /\ poller["btcpay"] # "evaluate" =>
          /\ finding["btcpay"].lifecycle = "active" <=> good < 3
          /\ finding["btcpay"].lifecycle = "active" => finding["btcpay"].absent = good
    /\ poller["btcpay"] = "evaluate" =>
          /\ source = Greenfield(good # 0)
          /\ good \in {1, 2} => /\ finding["btcpay"].lifecycle = "active"
                                /\ finding["btcpay"].absent = good - 1
          /\ good = 3 /\ finding["btcpay"].lifecycle = "active" => finding["btcpay"].absent = 2

OutageInv == LastIsSeen /\ (upsets = 0 => ~wedged /\ scan.pc = "off" /\ OutageShape)

\* What two UPDATEs and the upsert of a cycle of detector s leave of its row.
AfterUpdates(s) ==
    IF IsComplete(s) /\ finding[s].lifecycle = "active"
    THEN Life!CountAbsence(finding[s]) ELSE finding[s]

RowAfter(s) ==
    IF Detects(s) THEN Life!SaveFinding(AfterUpdates(s), ObservedAt(s)) ELSE AfterUpdates(s)

\* A detector's cycle writes its own finding only.
LEMMA EvaluateRows ==
    ASSUME TypeOK, NEW s \in Sources, Evaluate(s)
    PROVE  /\ finding' = [f \in Sources |-> IF f = s THEN RowAfter(s) ELSE finding[f]]
           /\ seen' = [f \in Sources |-> IF f = s /\ Detects(s)
                                         THEN seen[f] \cup {ObservedAt(s)} ELSE seen[f]]
<1> DEFINE complete == IF IsComplete(s) THEN {s} ELSE {}
           resolved == Life!ResolveFindingsForScopes(finding, complete)
<1>1. resolved = [f \in Sources |-> IF f = s THEN AfterUpdates(s) ELSE finding[f]]
  <2>1. \A f \in Sources : Life!Matches(f, complete) <=> f = s /\ IsComplete(s)
    BY DEF Life!Matches
  <2>2. resolved = [f \in Sources |->
                       IF Life!Matches(f, complete) /\ finding[f].lifecycle = "active"
                       THEN Life!CountAbsence(finding[f]) ELSE finding[f]]
    BY DEF Life!ResolveFindingsForScopes
  <2> HIDE DEF resolved, complete
  <2> QED
    BY <2>1, <2>2 DEF AfterUpdates
<1>2. finding' = IF Detects(s)
                 THEN [resolved EXCEPT ![s] = Life!SaveFinding(resolved[s], ObservedAt(s))]
                 ELSE resolved
  BY DEF Evaluate
<1>3. seen' = IF Detects(s) THEN [seen EXCEPT ![s] = seen[s] \cup {ObservedAt(s)}] ELSE seen
  BY DEF Evaluate
<1>4. finding' = [f \in Sources |-> IF f = s THEN RowAfter(s) ELSE finding[f]]
  <2> HIDE DEF resolved
  <2> QED
    BY <1>1, <1>2 DEF RowAfter
<1>5. seen \in [Sources -> SUBSET Times]
  BY DEF TypeOK
<1>6. seen' = [f \in Sources |-> IF f = s /\ Detects(s)
                                 THEN seen[f] \cup {ObservedAt(s)} ELSE seen[f]]
  BY <1>3, <1>5
<1> QED
  BY <1>4, <1>6

\* The updates neither insert a row nor touch its times.
LEMMA UpdatesKeepTimes ==
    ASSUME TypeOK, NEW s \in Sources
    PROVE  /\ AfterUpdates(s) \in Row
           /\ AfterUpdates(s).last = finding[s].last
           /\ AfterUpdates(s).lifecycle = "none" <=> finding[s].lifecycle = "none"
<1>1. finding[s] \in Row
  BY DEF TypeOK, Row
<1>2. Life!CountAbsence(finding[s]) \in Row
  BY <1>1, CountAbsenceType
<1>3. /\ Life!CountAbsence(finding[s]).last = finding[s].last
      /\ finding[s].lifecycle = "active" => Life!CountAbsence(finding[s]).lifecycle # "none"
  BY <1>1 DEF Life!CountAbsence, Row
<1> QED
  BY <1>1, <1>2, <1>3 DEF AfterUpdates

\* An observation is stamped with a time at or after the finding's last one,
\* so the upsert takes it.
LEMMA ObservationIsTaken ==
    ASSUME TypeOK, ObservationsAreCurrent, LastIsSeen, NEW s \in Sources, Detects(s)
    PROVE  /\ RowAfter(s).lifecycle = "active" /\ RowAfter(s).absent = 0
           /\ RowAfter(s).last = ObservedAt(s)
<1> DEFINE r == AfterUpdates(s)
<1>1. r \in Row /\ r.last = finding[s].last /\ (r.lifecycle = "none" <=> finding[s].lifecycle = "none")
  BY UpdatesKeepTimes
<1>2. finding[s].lifecycle # "none" => finding[s].last <= ObservedAt(s)
  BY DEF LastIsSeen, ObservationsAreCurrent
<1>3. RowAfter(s) = Life!SaveFinding(r, ObservedAt(s))
  BY DEF RowAfter
<1>4. ObservedAt(s) \in Nat /\ r.last \in Nat
  BY <1>1, ObservedAtType, OperationalAssumption DEF Row, Times
<1> HIDE DEF r
<1>5. CASE r.lifecycle = "none"
  BY <1>3, <1>5 DEF Life!SaveFinding
<1>6. CASE r.lifecycle # "none"
  <2>1. ObservedAt(s) >= r.last
    BY <1>1, <1>2, <1>4, <1>6
  <2> QED
    BY <1>3, <1>6, <2>1 DEF Life!SaveFinding
<1> QED
  BY <1>5, <1>6

LEMMA OutageInit == Init => OutageInv
  BY DEF Init, OutageInv, OutageShape, LastIsSeen, NoScan, Life!NoRow, Sources

\* The detector's cycle is where the finding catches up with the outcomes.
LEMMA OutageEvaluate ==
    ASSUME TypeOK, OperationalInv, OutageInv, NEW s \in Sources, Evaluate(s)
    PROVE  OutageInv'
<1>1. /\ finding' = [f \in Sources |-> IF f = s THEN RowAfter(s) ELSE finding[f]]
      /\ seen' = [f \in Sources |-> IF f = s /\ Detects(s)
                                    THEN seen[f] \cup {ObservedAt(s)} ELSE seen[f]]
  BY EvaluateRows
<1>2. LastIsSeen /\ ObservationsAreCurrent
  BY DEF OutageInv, OperationalInv
<1>3. Detects(s) => /\ RowAfter(s).lifecycle = "active" /\ RowAfter(s).absent = 0
                    /\ RowAfter(s).last = ObservedAt(s)
  BY <1>2, ObservationIsTaken
<1>4. ~Detects(s) => RowAfter(s) = AfterUpdates(s)
  BY DEF RowAfter
<1>5. LastIsSeen'
  <2>1. /\ AfterUpdates(s).last = finding[s].last
        /\ AfterUpdates(s).lifecycle = "none" <=> finding[s].lifecycle = "none"
    BY UpdatesKeepTimes
  <2>2. ASSUME NEW f \in Sources, finding'[f].lifecycle # "none"
        PROVE  finding'[f].last \in seen'[f]
    BY <1>1, <1>2, <1>3, <1>4, <2>1, <2>2 DEF LastIsSeen
  <2> QED
    BY <2>2 DEF LastIsSeen
<1>6. ASSUME upsets' = 0
      PROVE  ~wedged' /\ scan'.pc = "off" /\ OutageShape'
  <2>1. upsets = 0 /\ ~wedged /\ scan.pc = "off" /\ OutageShape
    BY <1>6 DEF OutageInv, Evaluate
  <2>2. /\ UNCHANGED <<wedged, scan, good, source>> /\ poller[s] = "evaluate"
        /\ poller' = [poller EXCEPT ![s] = "tick"]
    BY DEF Evaluate, Goto
  <2>3. CASE s # "btcpay"
    <3>1. finding'["btcpay"] = finding["btcpay"] /\ poller'["btcpay"] = poller["btcpay"]
      BY <1>1, <2>2, <2>3 DEF Sources, TypeOK
    <3> QED
      BY <2>1, <2>2, <3>1 DEF OutageShape, Greenfield
  <2>4. CASE s = "btcpay"
    <3>1. /\ source = Greenfield(good # 0)
          /\ good \in {1, 2} => /\ finding["btcpay"].lifecycle = "active"
                                /\ finding["btcpay"].absent = good - 1
          /\ good = 3 /\ finding["btcpay"].lifecycle = "active" => finding["btcpay"].absent = 2
      BY <2>1, <2>2, <2>4 DEF OutageShape
    <3>2. poller'["btcpay"] = "tick" /\ finding'["btcpay"] = RowAfter("btcpay") /\ good \in 0..3
      BY <1>1, <2>2, <2>4 DEF TypeOK, Sources
    <3>3. IsComplete("btcpay") /\ (Detects("btcpay") <=> good = 0)
      BY <3>1 DEF IsComplete, Detects, BackendUnreachable, Greenfield
    <3>4. CASE good = 0
      BY <1>3, <2>2, <2>4, <2>1, <3>2, <3>3, <3>4 DEF OutageShape
    <3>5. CASE good # 0
      <4>1. RowAfter("btcpay") = IF finding["btcpay"].lifecycle = "active"
                                 THEN Life!CountAbsence(finding["btcpay"]) ELSE finding["btcpay"]
        BY <1>4, <2>4, <3>3, <3>5 DEF AfterUpdates
      <4>2. finding["btcpay"] \in Row
        BY DEF TypeOK, Row, Sources
      <4>3. CASE good \in {1, 2}
        <5>1. RowAfter("btcpay") = [finding["btcpay"] EXCEPT !.absent = good]
          BY <3>1, <4>1, <4>2, <4>3 DEF Life!CountAbsence
        <5> QED
          BY <2>1, <2>2, <3>1, <3>2, <4>2, <4>3, <5>1 DEF OutageShape, Row
      <4>4. CASE good = 3
        <5>1. RowAfter("btcpay").lifecycle # "active"
          <6>1. CASE finding["btcpay"].lifecycle = "active"
            <7>1. finding["btcpay"].absent = 2
              BY <3>1, <4>4, <6>1
            <7>2. RowAfter("btcpay") = [finding["btcpay"] EXCEPT !.lifecycle = "resolved",
                                                                 !.absent = 0]
              BY <4>1, <6>1, <7>1 DEF Life!CountAbsence
            <7> QED
              BY <4>2, <7>2 DEF Row
          <6> QED
            BY <4>1, <6>1
        <5> QED
          BY <2>1, <2>2, <3>2, <4>4, <5>1 DEF OutageShape
      <4> QED
        BY <3>2, <3>5, <4>3, <4>4
    <3> QED
      BY <3>4, <3>5
  <2> QED
    BY <2>3, <2>4
<1> QED
  BY <1>5, <1>6 DEF OutageInv


\* An outcome that is written down, good or bad, is one the finding has not
\* yet followed.
LEMMA OutageRecord ==
    ASSUME TypeOK, OutageInv, NEW s \in Sources, NEW out \in Outcomes(s), Record(s, out)
    PROVE  OutageInv'
<1>1. UNCHANGED <<finding, seen, wedged, scan, upsets>> /\ poller[s] = "poll"
  BY DEF Record
<1>2. LastIsSeen'
  BY <1>1 DEF OutageInv, LastIsSeen
<1>3. ASSUME upsets' = 0
      PROVE  OutageShape'
  <2>1. OutageShape
    BY <1>1, <1>3 DEF OutageInv
  <2>2. CASE s = "btcpay"
    <3>1. /\ finding["btcpay"].lifecycle = "active" <=> good < 3
          /\ finding["btcpay"].lifecycle = "active" => finding["btcpay"].absent = good
      BY <1>1, <2>1, <2>2 DEF OutageShape
    <3>2. poller'["btcpay"] = "evaluate" /\ out \in {"ok", "fail"}
      BY <2>2 DEF Record, Goto, AfterRecord, TypeOK, Outcomes, Chain, Sources
    <3>3. /\ source' = Greenfield(out = "ok")
          /\ good' = IF out = "fail" THEN 0 ELSE IF good < 3 THEN good + 1 ELSE 3
          /\ good \in 0..3
      BY <2>2 DEF Record, GreenfieldOutcome, TypeOK
    <3>4. CASE out = "fail"
      BY <3>2, <3>3, <3>4 DEF OutageShape, Greenfield
    <3>5. CASE out = "ok"
      <4>1. source' = Greenfield(good' # 0) /\ good' \in 1..3
        BY <3>3, <3>5 DEF Greenfield
      <4>2. good' \in {1, 2} => finding["btcpay"].lifecycle = "active"
                                 /\ finding["btcpay"].absent = good' - 1
        BY <3>1, <3>3, <3>5
      <4>3. good' = 3 /\ finding["btcpay"].lifecycle = "active" => finding["btcpay"].absent = 2
        BY <3>1, <3>3, <3>5
      <4> QED
        BY <1>1, <3>2, <4>1, <4>2, <4>3 DEF OutageShape
    <3> QED
      BY <3>2, <3>4, <3>5
  <2>3. CASE s # "btcpay"
    <3>1. UNCHANGED <<source, good>> /\ poller'["btcpay"] = poller["btcpay"]
      BY <2>3 DEF Record, NodeOutcome, Goto, TypeOK, Sources
    <3> QED
      BY <1>1, <2>1, <3>1 DEF OutageShape, Greenfield
  <2> QED
    BY <2>2, <2>3
<1> QED
  BY <1>1, <1>2, <1>3 DEF OutageInv

\* Every other step leaves the finding, the outcomes and, while there is no
\* upset, the source of a poll that waits for its cycle.
LEMMA OutageQuiet ==
    ASSUME TypeOK, OutageInv,
           \/ \E s \in Sources : Attempt(s) \/ EvaluateFails(s)
           \/ \E s \in Sources : \E out \in Outcomes(s) : RecordFails(s, out)
           \/ \E kind \in {"fixture", "lnd_rest"} : ScanAttempt(kind)
           \/ ScanIngests \/ ScanIngestFails \/ ScanCycle \/ ScanDies
           \/ Restart \/ Tick \/ UNCHANGED vars
    PROVE  OutageInv'
<1>1. UNCHANGED <<finding, seen, good>>
  BY DEF Attempt, EvaluateFails, RecordFails, ScanAttempt, ScanIngests, ScanIngestFails,
         ScanCycle, ScanDies, Restart, Tick, vars, tables, row, ghosts
<1>2. LastIsSeen'
  BY <1>1 DEF OutageInv, LastIsSeen
<1>3. ASSUME upsets' = 0
      PROVE  ~wedged' /\ scan'.pc = "off" /\ OutageShape'
  <2>1. upsets \in Nat
    BY OperationalAssumption DEF TypeOK
  <2>2. ~Upset
    BY <1>3, <2>1 DEF Upset
  <2>3. CASE \E s \in Sources : Attempt(s)
    <3>1. PICK s \in Sources : Attempt(s)
      BY <2>3
    <3>2. UNCHANGED <<wedged, scan, upsets>> /\ poller[s] = "tick"
      BY <3>1, <2>2 DEF Attempt
    <3>3. OutageShape /\ ~wedged /\ scan.pc = "off"
      BY <1>3, <3>2 DEF OutageInv
    <3>4. poller' = [poller EXCEPT ![s] = "poll"]
      BY <3>1 DEF Attempt, Goto
    <3>5. s # "btcpay" => UNCHANGED source
      BY <2>2, <3>1 DEF Attempt, NodeAttempt
    <3>6. CASE s = "btcpay"
      <4>1. poller["btcpay"] = "tick" /\ poller'["btcpay"] = "poll"
        BY <3>2, <3>4, <3>6 DEF TypeOK
      <4> QED
        BY <1>1, <3>2, <3>3, <4>1 DEF OutageShape
    <3>7. CASE s # "btcpay"
      <4>1. poller'["btcpay"] = poller["btcpay"]
        BY <3>4, <3>7 DEF TypeOK
      <4> QED
        BY <1>1, <3>2, <3>3, <3>5, <3>7, <4>1 DEF OutageShape, Greenfield
    <3> QED
      BY <3>6, <3>7
  <2>4. CASE \/ \E s \in Sources : EvaluateFails(s)
             \/ \E s \in Sources : \E out \in Outcomes(s) : RecordFails(s, out)
    <3>1. wedged
      BY <2>2, <2>4 DEF EvaluateFails, RecordFails, TransactionFails
    <3>2. upsets = 0
      BY <1>3, <2>2, <2>4 DEF EvaluateFails, RecordFails, TransactionFails
    <3> QED
      BY <3>1, <3>2 DEF OutageInv
  <2>5. CASE ScanIngests \/ ScanIngestFails \/ ScanCycle \/ ScanDies
    <3>1. upsets = 0 /\ scan.pc # "off"
      BY <1>3, <2>5 DEF ScanIngests, ScanIngestFails, ScanCycle, ScanDies
    <3> QED
      BY <3>1 DEF OutageInv
  <2>6. CASE \/ \E kind \in {"fixture", "lnd_rest"} : ScanAttempt(kind)
             \/ Restart
    BY <2>2, <2>6 DEF ScanAttempt, Restart
  <2>7. CASE Tick \/ UNCHANGED vars
    <3>1. UNCHANGED <<poller, source, wedged, scan, upsets>>
      BY <2>7 DEF Tick, vars, agent, tables, row
    <3> QED
      BY <1>1, <1>3, <3>1 DEF OutageInv, OutageShape, Greenfield
  <2> QED
    BY <2>3, <2>4, <2>5, <2>6, <2>7
<1> QED
  BY <1>2, <1>3 DEF OutageInv

LEMMA OutageStep ==
    TypeOK /\ OperationalInv /\ OutageInv /\ [Next]_vars => OutageInv'
<1> SUFFICES ASSUME TypeOK, OperationalInv, OutageInv, [Next]_vars
             PROVE  OutageInv'
  OBVIOUS
<1>1. CASE \E s \in Sources : Evaluate(s)
  BY <1>1, OutageEvaluate
<1>2. CASE \E s \in Sources : \E out \in Outcomes(s) : Record(s, out)
  BY <1>2, OutageRecord
<1>3. CASE \/ \E s \in Sources : Attempt(s) \/ EvaluateFails(s)
           \/ \E s \in Sources : \E out \in Outcomes(s) : RecordFails(s, out)
           \/ \E kind \in {"fixture", "lnd_rest"} : ScanAttempt(kind)
           \/ ScanIngests \/ ScanIngestFails \/ ScanCycle \/ ScanDies
           \/ Restart \/ Tick \/ UNCHANGED vars
  BY <1>3, OutageQuiet
<1> QED
  BY <1>1, <1>2, <1>3 DEF Next

\* Without failed calls, restarts or scans the finding about BTCPay is open
\* exactly from the first failed poll to the third good one in a row, however
\* the other pollers interleave (evaluate_persisted_greenfield_state,
\* resolve_findings_for_scope).
THEOREM OutageIsFollowed == Spec => []OutageIsTracked
<1>1. Init => TypeOK /\ OperationalInv /\ OutageInv
  BY OperationalInit, OutageInit
<1>2. TypeOK /\ OperationalInv /\ OutageInv /\ [Next]_vars
         => TypeOK' /\ OperationalInv' /\ OutageInv'
  BY OperationalStep, OutageStep
<1>3. OutageInv => OutageIsTracked
  BY DEF OutageInv, OutageShape, OutageIsTracked
<1> QED
  BY <1>1, <1>2, <1>3, PTL DEF Spec

-----------------------------------------------------------------------------
(* The refinement of FindingLifecycle.                                     *)

\* Faults, polls, scans and the clock leave the lifecycle's tables alone.
LEMMA OthersStutter ==
    ASSUME [Next]_vars, ~ \E s \in Sources : Evaluate(s)
    PROVE  UNCHANGED Life!vars
<1>1. UNCHANGED <<finding, seen, missed>>
  BY DEF Next, Attempt, Record, RecordFails, EvaluateFails, ScanAttempt, ScanIngests,
         ScanIngestFails, ScanCycle, ScanDies, Restart, Tick, vars, tables
<1> QED
  BY <1>1 DEF Life!vars

\* A detector's cycle is a cycle of the lifecycle with its one scope.
LEMMA EvaluateIsCycle ==
    ASSUME TypeOK, NEW s \in Sources, Evaluate(s)
    PROVE  Life!Next
<1> DEFINE complete == IF IsComplete(s) THEN {s} ELSE {}
           obs == IF Detects(s) THEN {s} ELSE {}
           at == ObservedAt(s)
           resolved == Life!ResolveFindingsForScopes(finding, complete)
           none == [f \in Sources |-> "none"]
           zero == [f \in Sources |-> 0]
<1>1. at \in Life!Times
  BY ObservedAtType DEF Life!Times, Times
<1>2. finding' = [f \in Sources |->
                     IF f \in obs THEN Life!SaveFinding(resolved[f], at) ELSE resolved[f]]
  <2>1. finding' = IF Detects(s) THEN [resolved EXCEPT ![s] = Life!SaveFinding(resolved[s], at)]
                   ELSE resolved
    BY DEF Evaluate
  <2>2. resolved = [f \in Sources |-> resolved[f]]
    BY DEF Life!ResolveFindingsForScopes
  <2> HIDE DEF resolved, at
  <2> QED
    BY <2>1, <2>2
<1>3. seen' = [f \in Sources |-> IF f \in obs THEN seen[f] \cup {at} ELSE seen[f]]
  <2>1. seen' = IF Detects(s) THEN [seen EXCEPT ![s] = seen[s] \cup {at}] ELSE seen
    BY DEF Evaluate
  <2> HIDE DEF at
  <2> QED
    BY <2>1 DEF TypeOK
<1>4. missed' = [f \in Sources |->
                    IF f \in obs /\ Life!Current(f, at) THEN 0
                    ELSE IF f \in complete THEN Life!Earlier(missed[f] + 1, 3) ELSE missed[f]]
  <2>1. missed' = IF Detects(s) /\ Life!Current(s, at) THEN [missed EXCEPT ![s] = 0]
                  ELSE IF IsComplete(s)
                  THEN [missed EXCEPT ![s] = Life!Earlier(missed[s] + 1, 3)] ELSE missed
    BY DEF Evaluate
  <2> HIDE DEF at
  <2> QED
    BY <2>1 DEF TypeOK
<1>5. Life!SyncRecommendationLifecycles(none, resolved) = none
  BY DEF Life!SyncRecommendationLifecycles
<1>6. \A f \in Sources : ~Life!IsNew(none, f)
  BY DEF Life!IsNew
<1>7. Life!Cycle(complete, obs, at)
  <2> HIDE DEF complete, obs, at
  <2> QED
    BY <1>2, <1>3, <1>4, <1>5, <1>6 DEF Life!Cycle
<1>8. complete \in SUBSET {s} /\ obs \in SUBSET {f \in Sources : f \in {s}}
  OBVIOUS
<1> QED
  BY <1>1, <1>7, <1>8 DEF Life!Next

\* Whatever the pollers, scans, faults and restarts do to the shared row, the
\* operational findings go through the same life as all others
\* (persist_operational_detector_cycle and persist_cycle).
THEOREM OperationalRefinesLifecycle == Spec => LifecycleSpec
<1>1. Init => Life!Init
  BY DEF Init, Life!Init
<1>2. TypeOK /\ [Next]_vars => [Life!Next]_(Life!vars)
  BY OthersStutter, EvaluateIsCycle
<1> QED
  BY <1>1, <1>2, OperationalTypes, PTL DEF Spec, LifecycleSpec, Life!Spec
=============================================================================
