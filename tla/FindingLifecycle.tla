-------------------------- MODULE FindingLifecycle --------------------------
(***************************************************************************)
(* How detector cycles open, refresh and close findings in SQLite, and how *)
(* recommendations follow them (crates/rieko-storage/src/sqlite.rs,        *)
(* crates/rieko-cli/src/commands/common.rs and agent.rs).                  *)
(*                                                                         *)
(* A cycle is one transaction: resolve_findings_for_scope, then            *)
(* sync_recommendation_lifecycles, then save_finding for each observed     *)
(* finding and, in the scan and monitor pipelines, the recommendations     *)
(* that do not exist yet with their audit row.  A cycle that fails is      *)
(* rolled back and changes nothing.                                        *)
(*                                                                         *)
(* Data abstraction.  A finding is its stable identity (detector, version, *)
(* network, node, channel); its scope is the detector/network/node of the  *)
(* cycles that can observe it.  Its recommendation is the rebalance review *)
(* every observation of it recommends; module AnalysisPipeline, which      *)
(* implements this one, adds the fee review, severity, evidence and the    *)
(* detectors.  Times are arbitrary: the wall clock may step back, and      *)
(* observations may be replayed.                                           *)
(***************************************************************************)
EXTENDS Naturals

CONSTANTS
    Findings,        \* stable finding identities
    Scopes,          \* FindingCycleScope: detector, network, node
    ScopeOf,         \* the scope whose cycles observe a finding
    Pipelines,       \* sets of scopes that are evaluated and committed together
    Recommending,    \* scopes of scan and monitor, the pipelines that recommend
    Unprovenanced,   \* chain-scoped detectors run with DetectorContext.source = None
    MaxTime          \* bound: distinct observation times

ASSUME LifecycleAssumption ==
    /\ ScopeOf \in [Findings -> Scopes]
    /\ Pipelines \subseteq SUBSET Scopes
    /\ Recommending \subseteq Scopes
    /\ Unprovenanced \subseteq Scopes
    /\ MaxTime \in Nat

VARIABLES
    finding,   \* table findings
    rec,       \* lifecycle of the finding's row in table recommendations
    audit,     \* creation rows of its action in table audit
    seen,      \* observation: the times it was observed at
    missed     \* observation: complete cycles since it was last seen as current (up to 3)

vars == <<finding, rec, audit, seen, missed>>

Times == 0..MaxTime
NoRow == [lifecycle |-> "none", absent |-> 0, first |-> 0, last |-> 0]

TypeOK ==
    /\ finding \in [Findings -> [lifecycle : {"none", "active", "resolved"},
                                 absent : 0..2, first : Times, last : Times]]
    /\ rec \in [Findings -> {"none", "active", "resolved"}]
    /\ audit \in [Findings -> Nat]
    /\ seen \in [Findings -> SUBSET Times]
    /\ missed \in [Findings -> 0..3]

-----------------------------------------------------------------------------
(* The statements of a cycle, as functions on the tables.                  *)

\* The UPDATEs' predicate: detector and node match, and the network in the
\* row's provenance IS the scope's.  Findings saved without provenance carry
\* no network, so a chain-scoped scope never matches them.
Matches(f, complete) == ScopeOf[f] \in complete \ Unprovenanced

\* Faulty variant: the two UPDATEs in the other order.
CountThenResolve(row) ==
    IF row.absent >= 1
    THEN [row EXCEPT !.lifecycle = "resolved", !.absent = 0]
    ELSE [row EXCEPT !.absent = @ + 1]

\* Faulty variant: absences stay at the threshold.
CountToTwo(row) == IF row.absent >= 2 THEN row ELSE [row EXCEPT !.absent = @ + 1]

\* The two UPDATEs on one active row.
CountAbsence(row) ==
    IF row.absent >= 2
    THEN [row EXCEPT !.lifecycle = "resolved", !.absent = 0]
    ELSE [row EXCEPT !.absent = @ + 1]

\* resolve_findings_for_scope for every scope of the cycle; only the complete
\* ones do anything.
ResolveFindingsForScopes(F, complete) ==
    [f \in Findings |->
        IF Matches(f, complete) /\ F[f].lifecycle = "active" THEN CountAbsence(F[f]) ELSE F[f]]

\* Faulty variant: no cascade.
NoSync(R, F) == R

\* sync_recommendation_lifecycles.
SyncRecommendationLifecycles(R, F) ==
    [f \in Findings |->
        IF R[f] = "active" /\ F[f].lifecycle = "resolved" THEN "resolved" ELSE R[f]]

Earlier(a, b) == IF a <= b THEN a ELSE b

\* Faulty variant: the upsert takes the excluded row's times.
OverwriteRow(row, at) ==
    [lifecycle |-> "active", absent |-> 0, first |-> at, last |-> at]

\* save_finding: insert, or update; an observation older than last_seen_at
\* only lowers first_seen_at.
SaveFinding(row, at) ==
    CASE row.lifecycle = "none" ->
            [lifecycle |-> "active", absent |-> 0, first |-> at, last |-> at]
      [] row.lifecycle # "none" /\ at >= row.last ->
            [lifecycle |-> "active", absent |-> 0, first |-> Earlier(row.first, at), last |-> at]
      [] OTHER -> [row EXCEPT !.first = Earlier(@, at)]

\* persist_cycle_locked: is_new, when the pipeline recommends at all.
IsNew(R, f) == ScopeOf[f] \in Recommending /\ R[f] = "none"

-----------------------------------------------------------------------------
\* Observation at is not older than every earlier one.
Current(f, at) == \A t \in seen[f] : t <= at

\* One committed cycle that covered the scopes `complete' completely and
\* observed the findings obs at time at: persist_cycle (scan, monitor),
\* persist_finding_cycle (webhooks), persist_operational_detector_cycle.
Cycle(complete, obs, at) ==
    LET resolved == ResolveFindingsForScopes(finding, complete)
        synced   == SyncRecommendationLifecycles(rec, resolved)
        new      == {f \in obs : IsNew(synced, f)}
    IN  /\ finding' = [f \in Findings |->
                          IF f \in obs THEN SaveFinding(resolved[f], at) ELSE resolved[f]]
        /\ rec' = [f \in Findings |-> IF f \in new THEN "active" ELSE synced[f]]
        /\ audit' = [f \in Findings |-> IF f \in new THEN audit[f] + 1 ELSE audit[f]]
        /\ seen' = [f \in Findings |-> IF f \in obs THEN seen[f] \cup {at} ELSE seen[f]]
        /\ missed' = [f \in Findings |->
                         IF f \in obs /\ Current(f, at) THEN 0
                         ELSE IF ScopeOf[f] \in complete THEN Earlier(missed[f] + 1, 3)
                         ELSE missed[f]]

Init ==
    /\ finding = [f \in Findings |-> NoRow]
    /\ rec = [f \in Findings |-> "none"]
    /\ audit = [f \in Findings |-> 0]
    /\ seen = [f \in Findings |-> {}]
    /\ missed = [f \in Findings |-> 0]

Next ==
    \E p \in Pipelines, at \in Times :
        \E complete \in SUBSET p, obs \in SUBSET {f \in Findings : ScopeOf[f] \in p} :
            Cycle(complete, obs, at)

Spec == Init /\ [][Next]_vars

-----------------------------------------------------------------------------
(* Properties.                                                             *)

\* A finding is closed only when at least three complete cycles of its own
\* scope passed since it was last seen as current: no flapping condition, no
\* incomplete cycle and no cycle of another scope closes it.
ResolvedOnlyAfterAbsence ==
    \A f \in Findings : finding[f].lifecycle = "resolved" => missed[f] = 3

\* The other way round, for findings that carry provenance: three complete
\* cycles without a current observation close a finding, and a replayed older
\* observation does not reopen it.
AbsenceResolves ==
    \A f \in Findings :
        missed[f] = 3 /\ ScopeOf[f] \notin Unprovenanced => finding[f].lifecycle # "active"

\* first_seen_at and last_seen_at are the earliest and the latest of all the
\* times the finding was observed at, in whatever order they were saved.
SeenIntervalIsExact ==
    \A f \in Findings : seen[f] # {} =>
        /\ finding[f].first \in seen[f] /\ finding[f].last \in seen[f]
        /\ \A t \in seen[f] : finding[f].first <= t /\ t <= finding[f].last

\* After every cycle the advice for a closed finding is closed too.
ClosedFindingHasNoAdvice ==
    \A f \in Findings : finding[f].lifecycle = "resolved" => rec[f] # "active"

\* A recommendation gets exactly one creation row in the audit log however
\* often its finding is seen, closed and seen again.
OneCreationAudit ==
    \A f \in Findings : audit[f] = IF rec[f] = "none" THEN 0 ELSE 1

\* Advice follows its finding and is created once: the cascade closes it with
\* the finding, and neither a closed and reopened finding nor a replayed
\* observation creates it again.
AdviceIsConsistent == ClosedFindingHasNoAdvice /\ OneCreationAudit

(* The inductive strengthening of the invariants above, per finding.       *)

\* A finding has a row once it was seen, and advice if its pipeline recommends.
RowExists(f) ==
    /\ finding[f].lifecycle = "none" <=> seen[f] = {}
    /\ rec[f] # "none" <=> finding[f].lifecycle # "none" /\ ScopeOf[f] \in Recommending

\* consecutive_absent counts the missed cycles of an active finding, and the
\* third one closes it; without provenance it is never counted.
CounterIsExact(f) ==
    /\ finding[f].lifecycle = "resolved" => missed[f] = 3
    /\ finding[f].lifecycle = "active" /\ ScopeOf[f] \notin Unprovenanced
          => finding[f].absent = missed[f]

LifecycleInv ==
    /\ \A f \in Findings : RowExists(f) /\ CounterIsExact(f)
    /\ SeenIntervalIsExact /\ ClosedFindingHasNoAdvice /\ OneCreationAudit
=============================================================================
