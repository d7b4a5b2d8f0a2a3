----------------------- MODULE FindingLifecycleProofs -----------------------
(***************************************************************************)
(* Proofs for FindingLifecycle: for any set of findings, scopes and        *)
(* pipelines and any observation times, findings open and close exactly as *)
(* the hysteresis promises, and recommendations follow.  And for           *)
(* ActionApproval, the decisions on what is recommended: for any number of *)
(* actions and operators the stage of an action is the one its audit trail *)
(* ends with and approval is human, and the trail of an action that no two *)
(* commands have held at once is a legal history.                          *)
(***************************************************************************)
EXTENDS FindingLifecycle, ActionApproval, TLAPS

Row == [lifecycle : {"none", "active", "resolved"}, absent : 0..2,
        first : Times, last : Times]

\* What the two UPDATEs of resolve_findings_for_scope leave of an active row.
LEMMA CountAbsenceFacts ==
    ASSUME NEW row \in Row, row.lifecycle = "active"
    PROVE  /\ CountAbsence(row) \in Row
           /\ CountAbsence(row).first = row.first
           /\ CountAbsence(row).last = row.last
           /\ row.absent = 2 => CountAbsence(row).lifecycle = "resolved"
           /\ row.absent # 2 => /\ CountAbsence(row).lifecycle = "active"
                                /\ CountAbsence(row).absent = row.absent + 1
<1>1. CASE row.absent = 2
  <2>1. CountAbsence(row) = [row EXCEPT !.lifecycle = "resolved", !.absent = 0]
    BY <1>1 DEF CountAbsence
  <2>2. CountAbsence(row) = [lifecycle |-> "resolved", absent |-> 0,
                             first |-> row.first, last |-> row.last]
    BY <2>1 DEF Row
  <2>3. row.first \in Times /\ row.last \in Times
    BY DEF Row
  <2> QED
    BY <1>1, <2>2, <2>3 DEF Row
<1>2. CASE row.absent # 2
  <2>1. row.absent \in 0..1
    BY <1>2 DEF Row
  <2>2. CountAbsence(row) = [row EXCEPT !.absent = row.absent + 1]
    BY <2>1 DEF CountAbsence
  <2> QED
    BY <1>2, <2>1, <2>2 DEF Row
<1> QED
  BY <1>1, <1>2

\* What save_finding's upsert leaves of a row.
LEMMA SaveFindingFacts ==
    ASSUME NEW row \in Row, NEW at \in Times
    PROVE  /\ SaveFinding(row, at) \in Row
           /\ SaveFinding(row, at).lifecycle # "none"
           /\ row.lifecycle = "none" =>
                 SaveFinding(row, at) = [lifecycle |-> "active", absent |-> 0,
                                         first |-> at, last |-> at]
           /\ row.lifecycle # "none" /\ at >= row.last =>
                 /\ SaveFinding(row, at).lifecycle = "active"
                 /\ SaveFinding(row, at).absent = 0
                 /\ SaveFinding(row, at).last = at
           /\ row.lifecycle # "none" /\ at < row.last =>
                 /\ SaveFinding(row, at).lifecycle = row.lifecycle
                 /\ SaveFinding(row, at).absent = row.absent
                 /\ SaveFinding(row, at).last = row.last
           /\ row.lifecycle # "none" =>
                 SaveFinding(row, at).first = Earlier(row.first, at)
  BY LifecycleAssumption DEF SaveFinding, Row, Earlier, Times

\* The initial states.
LEMMA LifecycleInit == Init => TypeOK /\ LifecycleInv
  BY LifecycleAssumption
  DEF Init, TypeOK, LifecycleInv, RowExists, CounterIsExact, SeenIntervalIsExact,
      ClosedFindingHasNoAdvice, OneCreationAudit, NoRow, Times

\* One committed cycle, seen by one finding.
LEMMA CycleStep ==
    ASSUME TypeOK, LifecycleInv,
           NEW complete \in SUBSET Scopes, NEW obs \in SUBSET Findings, NEW at \in Times,
           Cycle(complete, obs, at)
    PROVE  TypeOK' /\ LifecycleInv'
<1> DEFINE resolved == ResolveFindingsForScopes(finding, complete)
           synced   == SyncRecommendationLifecycles(rec, resolved)
           new      == {f \in obs : IsNew(synced, f)}
<1>1. /\ finding' = [f \in Findings |->
                        IF f \in obs THEN SaveFinding(resolved[f], at) ELSE resolved[f]]
      /\ rec' = [f \in Findings |-> IF f \in new THEN "active" ELSE synced[f]]
      /\ audit' = [f \in Findings |-> IF f \in new THEN audit[f] + 1 ELSE audit[f]]
      /\ seen' = [f \in Findings |-> IF f \in obs THEN seen[f] \cup {at} ELSE seen[f]]
      /\ missed' = [f \in Findings |->
                       IF f \in obs /\ Current(f, at) THEN 0
                       ELSE IF ScopeOf[f] \in complete THEN Earlier(missed[f] + 1, 3)
                       ELSE missed[f]]
  BY DEF Cycle
<1>2. ASSUME NEW f \in Findings
      PROVE  /\ finding[f] \in Row /\ resolved[f] \in Row
             /\ resolved[f].lifecycle = "none" <=> finding[f].lifecycle = "none"
             /\ resolved[f].first = finding[f].first
             /\ resolved[f].last = finding[f].last
             /\ resolved[f].lifecycle = "resolved" <=>
                   \/ finding[f].lifecycle = "resolved"
                   \/ /\ finding[f].lifecycle = "active" /\ finding[f].absent = 2
                      /\ Matches(f, complete)
             /\ resolved[f].lifecycle = "active" =>
                   resolved[f].absent = IF Matches(f, complete) THEN finding[f].absent + 1
                                                                ELSE finding[f].absent
  <2>1. finding[f] \in Row
    BY DEF TypeOK, Row
  <2>2. CASE Matches(f, complete) /\ finding[f].lifecycle = "active"
    <3>1. resolved[f] = CountAbsence(finding[f])
      BY <2>2 DEF ResolveFindingsForScopes
    <3> QED
      BY <2>1, <2>2, <3>1, CountAbsenceFacts DEF Row
  <2>3. CASE ~(Matches(f, complete) /\ finding[f].lifecycle = "active")
    <3>1. resolved[f] = finding[f]
      BY <2>3 DEF ResolveFindingsForScopes
    <3> QED
      BY <2>1, <2>3, <3>1 DEF Row
  <2> QED
    BY <2>2, <2>3
<1>3. ASSUME NEW f \in Findings
      PROVE  /\ rec[f] \in {"none", "active", "resolved"}
             /\ synced[f] = IF rec[f] = "active" /\ resolved[f].lifecycle = "resolved"
                            THEN "resolved" ELSE rec[f]
             /\ f \in new <=> /\ f \in obs /\ ScopeOf[f] \in Recommending
                              /\ synced[f] = "none"
  BY DEF TypeOK, SyncRecommendationLifecycles, IsNew
<1>4. ASSUME NEW f \in Findings
      PROVE  Current(f, at) <=> finding[f].lifecycle = "none" \/ at >= finding[f].last
  <2>1. finding[f].lifecycle = "none" <=> seen[f] = {}
    BY DEF LifecycleInv, RowExists
  <2>2. seen[f] \subseteq Times /\ finding[f].last \in Times
    BY DEF TypeOK
  <2>3. seen[f] # {} => /\ finding[f].last \in seen[f]
                        /\ \A t \in seen[f] : t <= finding[f].last
    BY DEF LifecycleInv, SeenIntervalIsExact
  <2> QED
    BY <2>1, <2>2, <2>3, LifecycleAssumption DEF Current, Times
<1> HIDE DEF resolved, synced, new
<1>5. TypeOK'
  <2>1. ASSUME NEW f \in Findings PROVE finding'[f] \in Row
    BY <1>1, <1>2, SaveFindingFacts
  <2>2. finding' \in [Findings -> Row]
    BY <1>1, <2>1
  <2>3. rec' \in [Findings -> {"none", "active", "resolved"}]
    BY <1>1, <1>3
  <2>4. audit' \in [Findings -> Nat]
    BY <1>1 DEF TypeOK
  <2>5. seen' \in [Findings -> SUBSET Times]
    BY <1>1 DEF TypeOK
  <2>6. missed' \in [Findings -> 0..3]
    BY <1>1 DEF TypeOK, Earlier
  <2> QED
    BY <2>2, <2>3, <2>4, <2>5, <2>6 DEF TypeOK, Row
<1>6. ASSUME NEW f \in Findings PROVE RowExists(f)'
  <2>1. RowExists(f)
    BY DEF LifecycleInv
  <2>2. CASE f \in obs
    <3>1. finding'[f].lifecycle # "none" /\ seen'[f] # {}
      BY <1>1, <1>2, <2>2, SaveFindingFacts
    <3>2. rec'[f] # "none" <=> ScopeOf[f] \in Recommending
      BY <1>1, <1>3, <2>1, <2>2 DEF RowExists
    <3> QED
      BY <3>1, <3>2 DEF RowExists
  <2>3. CASE f \notin obs
    <3>1. /\ finding'[f].lifecycle = "none" <=> finding[f].lifecycle = "none"
          /\ seen'[f] = seen[f]
          /\ rec'[f] = synced[f]
      BY <1>1, <1>2, <1>3, <2>3
    <3> QED
      BY <1>3, <2>1, <3>1 DEF RowExists
  <2> QED
    BY <2>2, <2>3
<1>7. ASSUME NEW f \in Findings PROVE CounterIsExact(f)'
  <2>1. /\ missed[f] \in 0..3
        /\ missed'[f] = IF f \in obs /\ Current(f, at) THEN 0
                        ELSE IF ScopeOf[f] \in complete THEN Earlier(missed[f] + 1, 3)
                        ELSE missed[f]
    BY <1>1 DEF TypeOK
  <2>2. /\ finding[f].absent \in 0..2
        /\ finding[f].last \in Nat /\ at \in Nat
    BY <1>2, LifecycleAssumption DEF Row, Times
  <2>3. CASE f \in obs /\ Current(f, at)
    <3>1. finding'[f].lifecycle = "active" /\ finding'[f].absent = 0
      BY <1>1, <1>2, <1>4, <2>3, SaveFindingFacts
    <3> QED
      BY <2>1, <2>3, <3>1 DEF CounterIsExact
  <2>4. CASE ~(f \in obs /\ Current(f, at))
    <3>1. /\ finding'[f].lifecycle = resolved[f].lifecycle
          /\ finding'[f].absent = resolved[f].absent
      BY <1>1, <1>2, <1>4, <2>2, <2>4, SaveFindingFacts
    <3>2. CounterIsExact(f)
      BY DEF LifecycleInv
    <3>3. CASE Matches(f, complete)
      <4>1. missed'[f] = Earlier(missed[f] + 1, 3) /\ ScopeOf[f] \notin Unprovenanced
        BY <2>1, <2>4, <3>3 DEF Matches
      <4>2. CASE finding[f].lifecycle = "resolved"
        BY <1>2, <2>1, <3>1, <3>2, <4>1, <4>2 DEF CounterIsExact, Earlier
      <4>3. CASE finding[f].lifecycle = "active" /\ finding[f].absent = 2
        <5>1. finding'[f].lifecycle = "resolved"
          BY <1>2, <3>1, <3>3, <4>3
        <5>2. missed'[f] = 3
          BY <2>1, <3>2, <4>1, <4>3 DEF CounterIsExact, Earlier
        <5> QED
          BY <5>1, <5>2 DEF CounterIsExact
      <4>4. CASE finding[f].lifecycle = "active" /\ finding[f].absent # 2
        <5>1. finding'[f].lifecycle # "resolved"
          BY <1>2, <3>1, <4>4
        <5>2. finding'[f].lifecycle = "active" => finding'[f].absent = finding[f].absent + 1
          BY <1>2, <3>1, <3>3
        <5>3. missed'[f] = finding[f].absent + 1
          BY <2>1, <2>2, <3>2, <4>1, <4>4 DEF CounterIsExact, Earlier
        <5> QED
          BY <5>1, <5>2, <5>3 DEF CounterIsExact
      <4>5. CASE finding[f].lifecycle = "none"
        <5>1. finding'[f].lifecycle = "none"
          BY <1>2, <3>1, <4>5
        <5> QED
          BY <5>1 DEF CounterIsExact
      <4> QED
        BY <1>2, <4>2, <4>3, <4>4, <4>5 DEF Row
    <3>4. CASE ~Matches(f, complete)
      <4>1. ScopeOf[f] \notin Unprovenanced => missed'[f] = missed[f]
        BY <2>1, <2>4, <3>4 DEF Matches
      <4>2. missed[f] = 3 => missed'[f] = 3
        BY <2>1, <2>4 DEF Earlier
      <4>3. /\ finding'[f].lifecycle = "resolved" => finding[f].lifecycle = "resolved"
            /\ finding'[f].lifecycle = "active" => /\ finding[f].lifecycle = "active"
                                                  /\ finding'[f].absent = finding[f].absent
        BY <1>2, <3>1, <3>4 DEF Row
      <4> QED
        BY <3>2, <4>1, <4>2, <4>3 DEF CounterIsExact
    <3> QED
      BY <3>3, <3>4
  <2> QED
    BY <2>3, <2>4
<1>8. SeenIntervalIsExact'
  <2> SUFFICES ASSUME NEW f \in Findings, seen'[f] # {}
               PROVE  /\ finding'[f].first \in seen'[f] /\ finding'[f].last \in seen'[f]
                      /\ \A t \in seen'[f] : finding'[f].first <= t /\ t <= finding'[f].last
    BY DEF SeenIntervalIsExact
  <2>1. /\ seen[f] \subseteq Nat /\ at \in Nat
        /\ finding[f].first \in Nat /\ finding[f].last \in Nat
    BY <1>2, LifecycleAssumption DEF Row, Times, TypeOK
  <2>2. finding[f].lifecycle = "none" <=> seen[f] = {}
    BY DEF LifecycleInv, RowExists
  <2>3. seen[f] # {} =>
          /\ finding[f].first \in seen[f] /\ finding[f].last \in seen[f]
          /\ \A t \in seen[f] : finding[f].first <= t /\ t <= finding[f].last
    BY DEF LifecycleInv, SeenIntervalIsExact
  <2>4. CASE f \notin obs
    BY <1>1, <1>2, <2>3, <2>4
  <2>5. CASE f \in obs /\ finding[f].lifecycle = "none"
    <3>1. finding'[f].first = at /\ finding'[f].last = at /\ seen'[f] = {at}
      BY <1>1, <1>2, <2>2, <2>5, SaveFindingFacts
    <3> QED
      BY <2>1, <3>1
  <2>6. CASE f \in obs /\ finding[f].lifecycle # "none"
    <3>1. /\ seen'[f] = seen[f] \cup {at}
          /\ finding'[f].first = Earlier(finding[f].first, at)
          /\ finding'[f].last = IF at >= finding[f].last THEN at ELSE finding[f].last
      BY <1>1, <1>2, <2>1, <2>6, SaveFindingFacts
    <3> QED
      BY <2>1, <2>2, <2>3, <2>6, <3>1 DEF Earlier
  <2> QED
    BY <2>4, <2>5, <2>6
<1>9. ClosedFindingHasNoAdvice'
  <2> SUFFICES ASSUME NEW f \in Findings, finding'[f].lifecycle = "resolved"
               PROVE  rec'[f] # "active"
    BY DEF ClosedFindingHasNoAdvice
  <2>1. resolved[f].lifecycle = "resolved"
    <3>1. CASE f \notin obs
      BY <1>1, <3>1
    <3>2. CASE f \in obs
      <4>1. finding'[f] = SaveFinding(resolved[f], at)
        BY <1>1, <3>2
      <4>2. resolved[f].last \in Nat /\ at \in Nat
        BY <1>2, LifecycleAssumption DEF Row, Times
      <4> QED
        BY <1>2, <4>1, <4>2, SaveFindingFacts
    <3> QED
      BY <3>1, <3>2
  <2>2. synced[f] # "active"
    BY <1>3, <2>1
  <2>3. f \notin new
    BY <1>2, <1>3, <2>1 DEF LifecycleInv, RowExists
  <2> QED
    BY <1>1, <2>2, <2>3
<1>10. OneCreationAudit'
  <2> SUFFICES ASSUME NEW f \in Findings
               PROVE  audit'[f] = IF rec'[f] = "none" THEN 0 ELSE 1
    BY DEF OneCreationAudit
  <2>1. audit[f] = IF rec[f] = "none" THEN 0 ELSE 1
    BY DEF LifecycleInv, OneCreationAudit
  <2> QED
    BY <1>1, <1>3, <2>1
<1> QED
  BY <1>5, <1>6, <1>7, <1>8, <1>9, <1>10 DEF LifecycleInv

\* The inductive invariant holds.
THEOREM LifecycleInvariant == Spec => [](TypeOK /\ LifecycleInv)
<1>1. TypeOK /\ LifecycleInv /\ [Next]_vars => (TypeOK /\ LifecycleInv)'
  <2> SUFFICES ASSUME TypeOK, LifecycleInv, [Next]_vars
               PROVE  (TypeOK /\ LifecycleInv)'
    OBVIOUS
  <2>1. CASE Next
    <3>1. PICK complete \in SUBSET Scopes, obs \in SUBSET Findings, at \in Times :
                  Cycle(complete, obs, at)
      BY <2>1, LifecycleAssumption DEF Next
    <3> QED
      BY <3>1, CycleStep
  <2>2. CASE UNCHANGED vars
    BY <2>2 DEF vars, TypeOK, LifecycleInv, RowExists, CounterIsExact,
       SeenIntervalIsExact, ClosedFindingHasNoAdvice, OneCreationAudit
  <2> QED
    BY <2>1, <2>2
<1> QED
  BY LifecycleInit, <1>1, PTL DEF Spec

\* Type correctness of the tables.
THEOREM LifecycleTypeCorrect == Spec => []TypeOK
  BY LifecycleInvariant, PTL

\* Nothing but three complete cycles without the condition closes a finding.
THEOREM NoEarlyResolution == Spec => []ResolvedOnlyAfterAbsence
<1>1. LifecycleInv => ResolvedOnlyAfterAbsence
  BY DEF LifecycleInv, CounterIsExact, ResolvedOnlyAfterAbsence
<1> QED
  BY LifecycleInvariant, <1>1, PTL

\* Three complete cycles without the condition do close a finding that carries
\* the provenance its scope is matched by.
THEOREM NoMissedResolution == Spec => []AbsenceResolves
<1>1. TypeOK /\ LifecycleInv => AbsenceResolves
  <2> SUFFICES ASSUME TypeOK, LifecycleInv, NEW f \in Findings,
                      missed[f] = 3, ScopeOf[f] \notin Unprovenanced,
                      finding[f].lifecycle = "active"
               PROVE  FALSE
    BY DEF AbsenceResolves
  <2>1. finding[f].absent = 3
    BY DEF LifecycleInv, CounterIsExact
  <2>2. finding[f].absent \in 0..2
    BY DEF TypeOK
  <2> QED
    BY <2>1, <2>2
<1> QED
  BY LifecycleInvariant, <1>1, PTL

\* first_seen_at and last_seen_at bound every observation, whatever its order.
THEOREM SeenInterval == Spec => []SeenIntervalIsExact
<1>1. LifecycleInv => SeenIntervalIsExact
  BY DEF LifecycleInv
<1> QED
  BY LifecycleInvariant, <1>1, PTL

\* The cascade of the finding's resolution closes its advice with it, and the
\* is_new check of persist_cycle keeps one creation row per recommendation.
THEOREM AdviceFollowsFinding == Spec => []AdviceIsConsistent
<1>1. LifecycleInv => AdviceIsConsistent
  BY DEF LifecycleInv, AdviceIsConsistent
<1> QED
  BY LifecycleInvariant, <1>1, PTL
-----------------------------------------------------------------------------
(* Action approval: the decisions that operators take on the actions       *)
(* recommended for findings.                                               *)

Entry == [from : Stages \cup {"none"}, to : Stages, actor : Actors]

\* What appending a row does to an audit trail.
LEMMA AppendedRow ==
    ASSUME NEW s \in Seq(Entry), NEW e \in Entry
    PROVE  /\ Append(s, e) \in Seq(Entry)
           /\ Append(s, e) # <<>>
           /\ Len(Append(s, e)) = Len(s) + 1
           /\ Append(s, e)[Len(s) + 1] = e
           /\ \A i \in 1..Len(s) : Append(s, e)[i] = s[i]
  OBVIOUS

\* The initial states.
LEMMA ApprovalStart == ApprovalInit => ApprovalTypeOK /\ ApprovalInv /\ ReadIsCurrent /\ LegalHistory
<1> SUFFICES ASSUME ApprovalInit PROVE ApprovalTypeOK /\ ApprovalInv /\ ReadIsCurrent /\ LegalHistory
  OBVIOUS
<1>1. ApprovalTypeOK
  BY ApprovalAssumption DEF ApprovalInit, ApprovalTypeOK, Idle, Actors
<1>2. ApprovalInv /\ ReadIsCurrent
  BY DEF ApprovalInit, ApprovalInv, ChecksPassed, StageIsAudited, ApprovedByHuman, ReadIsCurrent, Holds,
     Idle
<1>3. LegalHistory
  BY DEF ApprovalInit, LegalHistory
<1> QED
  BY <1>1, <1>2, <1>3

\* A step that appends a row and sets the stage to match keeps both in step.
LEMMA AuditedStep ==
    ASSUME ApprovalTypeOK, StageIsAudited, ApprovedByHuman,
           NEW a \in Actions, NEW from \in Stages \cup {"none"}, NEW to \in Stages,
           NEW actor \in Actors, to = "Approved" => actor = "human",
           stage' = [stage EXCEPT ![a] = to], Audited(a, from, to, actor)
    PROVE  /\ stage' \in [Actions -> Stages \cup {"none"}]
           /\ trail' \in [Actions -> Seq(Entry)]
           /\ StageIsAudited' /\ ApprovedByHuman'
<1> DEFINE e == [from |-> from, to |-> to, actor |-> actor]
<1>1. e \in Entry
  BY DEF Entry
<1>2. trail \in [Actions -> Seq(Entry)] /\ stage \in [Actions -> Stages \cup {"none"}]
  BY DEF ApprovalTypeOK, Entry
<1>3. /\ trail' = [trail EXCEPT ![a] = Append(trail[a], e)]
      /\ trail'[a] = Append(trail[a], e)
      /\ \A b \in Actions \ {a} : trail'[b] = trail[b] /\ stage'[b] = stage[b]
      /\ stage'[a] = to
  BY <1>2 DEF Audited
<1>4. trail' \in [Actions -> Seq(Entry)] /\ stage' \in [Actions -> Stages \cup {"none"}]
  BY <1>1, <1>2, <1>3, AppendedRow
<1> HIDE DEF e
<1>5. trail'[a] # <<>> /\ trail'[a][Len(trail'[a])] = e
  BY <1>1, <1>2, <1>3, AppendedRow
<1>6. e.to = to /\ e.actor = actor
  BY DEF e
<1>7. StageIsAudited'
  BY <1>3, <1>5, <1>6 DEF StageIsAudited, Last
<1>8. ApprovedByHuman'
  BY <1>3, <1>5, <1>6 DEF ApprovedByHuman, Last
<1> QED
  BY <1>4, <1>7, <1>8

\* Every step preserves the invariant, whatever the number of operators.
LEMMA ApprovalStep == ApprovalTypeOK /\ ApprovalInv /\ [ApprovalNext]_approvalVars => ApprovalTypeOK' /\ ApprovalInv'
<1> SUFFICES ASSUME ApprovalTypeOK, ApprovalInv, [ApprovalNext]_approvalVars PROVE ApprovalTypeOK' /\ ApprovalInv'
  OBVIOUS
<1> USE DEF ApprovalInv
<1>1. ASSUME NEW a \in Actions, Recommend(a) PROVE ApprovalTypeOK' /\ ApprovalInv'
  <2>1. /\ stage' \in [Actions -> Stages \cup {"none"}] /\ trail' \in [Actions -> Seq(Entry)]
        /\ StageIsAudited' /\ ApprovedByHuman'
    BY <1>1, AuditedStep DEF Recommend, Stages, Actors
  <2>2. ChecksPassed'
    BY <1>1 DEF Recommend, ChecksPassed, ApprovalTypeOK
  <2>3. ApprovalTypeOK'
    BY <1>1, <2>1 DEF Recommend, ApprovalTypeOK, Entry
  <2> QED
    BY <2>1, <2>2, <2>3
<1>2. ASSUME NEW c \in Operators, NEW a \in Actions, NEW to \in {"Approved", "Rejected"},
             NEW actor \in Actors, ReadAndCheck(c, a, to, actor)
      PROVE  ApprovalTypeOK' /\ ApprovalInv'
  <2>1. StageIsAudited' /\ ApprovedByHuman'
    BY <1>2 DEF ReadAndCheck, StageIsAudited, ApprovedByHuman, Last
  <2>2. commands' \in 0..MaxCommands
    BY <1>2, ApprovalAssumption DEF ReadAndCheck, ApprovalTypeOK
  <2>3. CASE stage[a] # "none" /\ TransitionAllowed(stage[a], to, actor)
    <3> DEFINE held == [pc |-> "write", id |-> a, from |-> stage[a], to |-> to,
                        actor |-> actor]
    <3>1. cli' = [cli EXCEPT ![c] = held]
      BY <1>2, <2>3 DEF ReadAndCheck
    <3>2. held \in [pc : {"idle", "write"}, id : Actions \cup {NoAction},
                    from : Stages \cup {"none"}, to : Stages \cup {"none"}, actor : Actors]
      BY DEF ApprovalTypeOK, Stages
    <3>3. /\ held.pc = "write" /\ held.id = a /\ held.from = stage[a]
          /\ held.to = to /\ held.actor = actor
      OBVIOUS
    <3> HIDE DEF held
    <3>4. ApprovalTypeOK'
      BY <1>2, <2>2, <3>1, <3>2 DEF ReadAndCheck, ApprovalTypeOK
    <3>5. \A d \in Operators : cli'[d] = IF d = c THEN held ELSE cli[d]
      BY <3>1 DEF ApprovalTypeOK
    <3>6. stage' = stage
      BY <1>2 DEF ReadAndCheck
    <3>7. ChecksPassed'
      BY <2>3, <3>3, <3>5, <3>6 DEF ChecksPassed
    <3> QED
      BY <2>1, <3>4, <3>7
  <2>4. CASE ~(stage[a] # "none" /\ TransitionAllowed(stage[a], to, actor))
    <3>1. UNCHANGED <<cli, stage, trail, contended>>
      BY <1>2, <2>4 DEF ReadAndCheck
    <3> QED
      BY <2>1, <2>2, <3>1 DEF ChecksPassed, ApprovalTypeOK
  <2> QED
    BY <2>3, <2>4
<1>3. ASSUME NEW c \in Operators, WriteTransition(c) PROVE ApprovalTypeOK' /\ ApprovalInv'
  <2>1. /\ cli[c].id \in Actions /\ cli[c].from \in Stages \cup {"none"}
        /\ cli[c].to \in Stages /\ cli[c].actor \in Actors
        /\ cli[c].to = "Approved" => cli[c].actor = "human"
    BY <1>3 DEF WriteTransition, ChecksPassed, TransitionAllowed, ApprovalTypeOK, Stages, Actors
  <2>2. /\ stage' \in [Actions -> Stages \cup {"none"}] /\ trail' \in [Actions -> Seq(Entry)]
        /\ StageIsAudited' /\ ApprovedByHuman'
    BY <1>3, <2>1, AuditedStep DEF WriteTransition
  <2>3. ChecksPassed'
    BY <1>3, <2>1 DEF WriteTransition, ChecksPassed, ApprovalTypeOK, Idle, Stages
  <2>4. ApprovalTypeOK'
    BY <1>3, <2>2 DEF WriteTransition, ApprovalTypeOK, Entry, Idle, Actors
  <2> QED
    BY <2>2, <2>3, <2>4
<1>4. ASSUME NEW c \in Operators, CommandFails(c) PROVE ApprovalTypeOK' /\ ApprovalInv'
  <2>1. StageIsAudited' /\ ApprovedByHuman'
    BY <1>4 DEF CommandFails, StageIsAudited, ApprovedByHuman, Last
  <2>2. ChecksPassed' /\ ApprovalTypeOK'
    BY <1>4 DEF CommandFails, ChecksPassed, ApprovalTypeOK, Idle, Actors
  <2> QED
    BY <2>1, <2>2
<1>5. CASE UNCHANGED approvalVars
  BY <1>5 DEF approvalVars, ApprovalTypeOK, ChecksPassed, StageIsAudited, ApprovedByHuman, Last
<1> QED
  BY <1>1, <1>2, <1>3, <1>4, <1>5 DEF ApprovalNext

\* The inductive invariant of any number of operators.
THEOREM ApprovalInvariant == ApprovalSpec => [](ApprovalTypeOK /\ ApprovalInv)
  BY ApprovalStart, ApprovalStep, PTL DEF ApprovalSpec

\* Stages, audit rows and the commands' local state keep their types.
THEOREM ApprovalTypes == ApprovalSpec => []ApprovalTypeOK
  BY ApprovalInvariant, PTL

\* The stage of an action is the one its audit trail ends with, and nothing but
\* a human approves it.
THEOREM AuditTrailIsComplete == ApprovalSpec => []DecisionsAreAudited
<1>1. ApprovalInv => DecisionsAreAudited
  BY DEF ApprovalInv, DecisionsAreAudited
<1> QED
  BY ApprovalInvariant, <1>1, PTL

\* No cycle that sees the finding again resets an operator's decision.
THEOREM DecisionsAreKept == ApprovalSpec => DecisionSurvivesCycles
<1>1. ApprovalTypeOK /\ ApprovalInv /\ [ApprovalNext]_approvalVars =>
        [\A a \in Actions : stage[a] # "none" =>
            stage'[a] # "Recommended" \/ stage'[a] = stage[a]]_approvalVars
  <2> SUFFICES ASSUME ApprovalTypeOK, ApprovalInv, ApprovalNext, NEW a \in Actions, stage[a] # "none"
               PROVE  stage'[a] # "Recommended" \/ stage'[a] = stage[a]
    BY DEF approvalVars
  <2> QED
    BY DEF ApprovalNext, Recommend, ReadAndCheck, WriteTransition, CommandFails, ApprovalInv,
       ChecksPassed, ApprovalTypeOK
<1> QED
  BY ApprovalInvariant, <1>1, PTL DEF ApprovalSpec, DecisionSurvivesCycles

\* Every step keeps the histories of uncontended actions legal.
LEMMA HistoryStep ==
    ASSUME ApprovalTypeOK, ApprovalInv, ReadIsCurrent, LegalHistory, [ApprovalNext]_approvalVars
    PROVE  ReadIsCurrent' /\ LegalHistory'
<1>0. trail \in [Actions -> Seq(Entry)]
  BY DEF ApprovalTypeOK, Entry
<1>1. ASSUME NEW a \in Actions, NEW from \in Stages \cup {"none"}, NEW to \in Stages,
             NEW actor \in Actors, Audited(a, from, to, actor), contended' = contended,
             \/ a \in contended
             \/ stage[a] = "none" /\ from = "none" /\ to = "Recommended"
             \/ /\ stage[a] \notin {"none", "Rejected"} /\ from = stage[a]
                /\ to \in {"Approved", "Rejected"}
      PROVE  LegalHistory'
  <2> DEFINE e == [from |-> from, to |-> to, actor |-> actor]
  <2>1. e \in Entry /\ e.from = from /\ e.to = to
    BY DEF Entry
  <2>2. /\ trail'[a] = Append(trail[a], e)
        /\ \A b \in Actions \ {a} : trail'[b] = trail[b]
    BY <1>0, <1>1 DEF Audited
  <2> HIDE DEF e
  <2>3. /\ Len(trail'[a]) = Len(trail[a]) + 1
        /\ trail'[a][Len(trail[a]) + 1] = e
        /\ \A i \in 1..Len(trail[a]) : trail'[a][i] = trail[a][i]
        /\ Len(trail[a]) \in Nat
    BY <1>0, <2>1, <2>2, AppendedRow
  <2>4. IF Len(trail[a]) = 0 THEN stage[a] = "none"
                             ELSE stage[a] = trail[a][Len(trail[a])].to
    BY <1>0 DEF ApprovalInv, StageIsAudited, Last
  <2>5. Len(trail[a]) # 0 => trail[a][Len(trail[a])] \in Entry
    BY <1>0
  <2> SUFFICES ASSUME NEW b \in Actions \ contended, NEW i \in 1..Len(trail'[b])
               PROVE  IF i = 1 THEN trail'[b][i].from = "none" /\ trail'[b][i].to = "Recommended"
                      ELSE /\ trail'[b][i].from = trail'[b][i - 1].to
                           /\ trail'[b][i].from \notin {"none", "Rejected"}
                           /\ trail'[b][i].to \in {"Approved", "Rejected"}
    BY <1>1 DEF LegalHistory
  <2>6. CASE b # a
    BY <2>2, <2>6 DEF LegalHistory
  <2>7. CASE b = a /\ i <= Len(trail[a])
    <3>1. i \in 1..Len(trail[a]) /\ (i # 1 => i - 1 \in 1..Len(trail[a]))
      BY <2>3, <2>7
    <3>2. /\ trail'[b][i] = trail[b][i]
          /\ i # 1 => trail'[b][i - 1] = trail[b][i - 1]
      BY <2>3, <2>7, <3>1
    <3> QED
      BY <2>7, <3>1, <3>2 DEF LegalHistory
  <2>8. CASE b = a /\ i = Len(trail[a]) + 1
    <3>1. trail'[b][i] = e
      BY <2>3, <2>8
    <3>2. CASE i = 1
      BY <1>1, <2>1, <2>3, <2>4, <2>8, <3>1, <3>2
    <3>3. CASE i # 1
      <4>1. Len(trail[a]) # 0 /\ trail'[b][i - 1] = trail[a][Len(trail[a])]
        BY <2>3, <2>8, <3>3
      <4>2. stage[a] \in Stages
        BY <2>4, <2>5, <4>1 DEF Entry
      <4> QED
        BY <1>1, <2>1, <2>4, <2>8, <3>1, <3>3, <4>1, <4>2 DEF Stages
    <3> QED
      BY <3>2, <3>3
  <2> QED
    BY <2>3, <2>6, <2>7, <2>8
<1>2. ASSUME NEW a \in Actions, Recommend(a) PROVE ReadIsCurrent' /\ LegalHistory'
  <2>1. LegalHistory'
    BY <1>1, <1>2 DEF Recommend, Stages, Actors
  <2>2. ReadIsCurrent'
    BY <1>2 DEF Recommend, ReadIsCurrent, Holds, ApprovalInv, ChecksPassed, ApprovalTypeOK
  <2> QED
    BY <2>1, <2>2
<1>3. ASSUME NEW c \in Operators, NEW a \in Actions, NEW to \in {"Approved", "Rejected"},
             NEW actor \in Actors, ReadAndCheck(c, a, to, actor)
      PROVE  ReadIsCurrent' /\ LegalHistory'
  <2>1. LegalHistory'
    BY <1>3 DEF ReadAndCheck, LegalHistory
  <2>2. CASE UNCHANGED <<cli, contended>>
    BY <1>3, <2>1, <2>2 DEF ReadAndCheck, ReadIsCurrent, Holds
  <2>3. CASE ~UNCHANGED <<cli, contended>>
    <3> DEFINE held == [pc |-> "write", id |-> a, from |-> stage[a], to |-> to,
                        actor |-> actor]
    <3>1. /\ cli' = [cli EXCEPT ![c] = held]
          /\ contended' = IF \E d \in Operators : Holds(d, a)
                          THEN contended \cup {a} ELSE contended
          /\ stage' = stage
      BY <1>3, <2>3 DEF ReadAndCheck
    <3>2. held.pc = "write" /\ held.id = a /\ held.from = stage[a]
      OBVIOUS
    <3> HIDE DEF held
    <3>3. \A d \in Operators : cli'[d] = IF d = c THEN held ELSE cli[d]
      BY <3>1 DEF ApprovalTypeOK
    <3>4. ReadIsCurrent'
      BY <3>1, <3>2, <3>3 DEF ReadIsCurrent, Holds
    <3> QED
      BY <2>1, <3>4
  <2> QED
    BY <2>1, <2>2, <2>3
<1>4. ASSUME NEW c \in Operators, WriteTransition(c) PROVE ReadIsCurrent' /\ LegalHistory'
  <2>1. /\ cli[c].id \in Actions
        /\ cli[c].to \in {"Approved", "Rejected"}
        /\ CanTransition(cli[c].from, cli[c].to)
        /\ stage[cli[c].id] # "none"
        /\ cli[c].actor \in Actors /\ cli[c].from \in Stages \cup {"none"}
    BY <1>4 DEF WriteTransition, ApprovalInv, ChecksPassed, TransitionAllowed, ApprovalTypeOK
  <2>2. cli[c].from # "Rejected"
    BY <2>1 DEF CanTransition
  <2>3. cli[c].id \in contended \/ cli[c].from = stage[cli[c].id]
    BY <1>4, <2>1 DEF WriteTransition, ReadIsCurrent, Holds
  <2>4. LegalHistory'
    BY <1>1, <1>4, <2>1, <2>2, <2>3 DEF WriteTransition, Stages
  <2>5. \A d \in Operators : cli'[d] = IF d = c THEN Idle ELSE cli[d]
    BY <1>4 DEF WriteTransition, ApprovalTypeOK
  <2>6. \A b \in Actions \ {cli[c].id} : stage'[b] = stage[b]
    BY <1>4 DEF WriteTransition, ApprovalTypeOK
  <2>7. Idle.pc # "write"
    BY DEF Idle
  <2>8. ReadIsCurrent'
    BY <1>4, <2>5, <2>6, <2>7 DEF WriteTransition, ReadIsCurrent, Holds
  <2> QED
    BY <2>4, <2>8
<1>5. ASSUME NEW c \in Operators, CommandFails(c) PROVE ReadIsCurrent' /\ LegalHistory'
  <2>1. \A d \in Operators : cli'[d] = IF d = c THEN Idle ELSE cli[d]
    BY <1>5 DEF CommandFails, ApprovalTypeOK
  <2>2. Idle.pc # "write"
    BY DEF Idle
  <2>3. ReadIsCurrent'
    BY <1>5, <2>1, <2>2 DEF CommandFails, ReadIsCurrent, Holds
  <2>4. LegalHistory'
    BY <1>5 DEF CommandFails, LegalHistory
  <2> QED
    BY <2>3, <2>4
<1>6. CASE UNCHANGED approvalVars
  BY <1>6 DEF approvalVars, ReadIsCurrent, Holds, LegalHistory
<1> QED
  BY <1>2, <1>3, <1>4, <1>5, <1>6 DEF ApprovalNext

\* Whatever other operators do, the audit trail of an action that no two
\* commands have held at once is a legal history.
THEOREM UncontendedHistoryIsLegal == ApprovalSpec => []LegalHistory
<1>1. ApprovalTypeOK /\ ApprovalInv /\ ReadIsCurrent /\ LegalHistory /\ [ApprovalNext]_approvalVars
        => (ReadIsCurrent /\ LegalHistory)'
  BY HistoryStep
<1> QED
  BY ApprovalStart, ApprovalInvariant, <1>1, PTL DEF ApprovalSpec
=============================================================================
