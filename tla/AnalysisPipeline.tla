-------------------------- MODULE AnalysisPipeline --------------------------
(***************************************************************************)
(* The pipeline of rieko monitor and rieko scan from LND's channel list to *)
(* the tables: GraphSource::build, the in-memory history and its warm-up   *)
(* from channel_snapshots, the detectors, the recommendation engine, the   *)
(* transaction of persist_cycle and the cleanup that follows it            *)
(* (crates/rieko-cli/src/commands/monitor.rs, scan.rs, common.rs,          *)
(* crates/rieko-graph/src/history.rs).                                     *)
(*                                                                         *)
(* The monitor is one process that may be killed between any two steps and *)
(* loses its history then; a scan is a second process with no history that *)
(* works on the same database.  The agent evaluates invoice windows on an  *)
(* empty graph (module WebhookHandoff has how it gets them).  Lifecycle    *)
(* rules are those of module FindingLifecycle, which this one refines.     *)
(***************************************************************************)
EXTENDS RecommendationEngine, Listings

CONSTANTS
    Channels,       \* channel identities
    RawChannels,    \* channel lists LND may report
    Fixtures,       \* channel lists a fixture may hold
    Node,           \* the --node argument of scan and monitor
    Identities,     \* what a cycle may take for the node: identity_pubkey of LND,
                    \* or Node when GetInfo fails
    MaxHistory,     \* InMemoryHistory::new(200)
    InvoiceWindows, \* webhooks whose events the agent may hold, as sequences of types
    Retention,      \* the policy of the monitor's arguments
    DefaultRetention, \* RetentionPolicy::default(), the policy of a scan
    MaxTime         \* bound: observations

\* Ages after which a row may be deleted, how many rows a channel keeps (0:
\* no cap, which is None or Some(0)), and the time between two cleanups.  The
\* total cap is None in both policies.
RetentionPolicies == [age : Nat, closed_age : Nat, cap : Nat, interval : Nat]

ASSUME PipelineAssumption ==
    /\ NodeWide \notin Channels
    /\ MaxHistory \in Nat /\ Window <= MaxHistory
    /\ MaxTime \in Nat /\ InvoiceWindows \subseteq Seq(STRING)
    /\ RawChannels \cup Fixtures \subseteq [Channels -> RawEntries]
    /\ {Retention, DefaultRetention} \subseteq RetentionPolicies

VARIABLES
    phase,     \* the monitor: "down", "idle" (before ingestion), "observed", or
               \* "persisted" (before the cleanup)
    first,     \* cycle == 1 has not begun
    graph,     \* the InMemoryGraph of this cycle
    hist,      \* InMemoryHistory, per channel, oldest push first
    disk,      \* table channel_snapshots, per channel and node
    cleaned,   \* last_cleanup_success of the operational_state row, 0 for none
    scans,     \* scans that have persisted and not ended
    finding,   \* table findings: the lifecycle columns of module FindingLifecycle
    detail,    \* table findings: severity, evidence and provenance
    advice,    \* table recommendations: lifecycle per finding and action type
    seen, missed, \* observations of module FindingLifecycle
    now        \* time of the last observation

vars == <<phase, first, graph, hist, disk, cleaned, scans, finding, detail, advice, seen,
          missed, now>>

FindingIds ==
    {<<d, c>> : d \in {"channel_liquidity", "liquidity_trend"}, c \in Channels}
        \cup {<<"settlement_reliability", NodeWide>>}

ActionTypes == {"rebalance_channel", "update_fee_policy"}

\* Every finding's rebalance review is the recommendation FindingLifecycle
\* follows; each recommendation has one creation row in table audit.
Lifecycle == INSTANCE FindingLifecycle WITH
    Findings <- FindingIds,
    Scopes <- DetectorIds,
    ScopeOf <- [f \in FindingIds |-> f[1]],
    Pipelines <- {DetectorIds \ {"settlement_reliability"}, {"settlement_reliability"}},
    Recommending <- DetectorIds \ {"settlement_reliability"},
    Unprovenanced <- {"settlement_reliability"},
    rec <- [f \in FindingIds |-> advice[<<f, "rebalance_channel">>]],
    audit <- [f \in FindingIds |-> IF advice[<<f, "rebalance_channel">>] = "none" THEN 0 ELSE 1]

EmptyGraph == [c \in Channels |-> NoChannel]
NoDetail == [severity |-> "none", evidence |-> "none", refs |-> {}]

\* What a channel may be stored under.
Nodes == {Node} \cup Identities

Snapshots == [node : Nodes, ratio : Nat, status : Statuses, ts : 1..MaxTime]

TypeOK ==
    /\ phase \in {"down", "idle", "observed", "persisted"} /\ first \in BOOLEAN
    /\ \A c \in DOMAIN graph : graph[c] # NoChannel => SnapshotOf(graph[c]) \in Snapshots
    /\ hist \in [Channels -> Seq(Snapshots)]
    /\ disk \in [Channels -> [Nodes -> SUBSET Snapshots]]
    /\ cleaned \in 0..MaxTime /\ scans \in Nat
    /\ Lifecycle!TypeOK
    /\ advice \in [FindingIds \X ActionTypes -> {"none", "active", "resolved"}]
    /\ \A f \in FindingIds : finding[f].lifecycle = "none" <=> detail[f].severity = "none"
    /\ now \in 0..MaxTime

-----------------------------------------------------------------------------
(* Ingestion and history.                                                  *)

\* GraphSource::build on a live node: malformed channels are skipped.
BuildLive(raw, node, at) ==
    [c \in Channels |-> IF Malformed(raw[c]) THEN NoChannel ELSE NormalizeChannel(raw[c], node, at)]

\* load_fixture: one malformed channel fails the whole file.
FixtureLoads(raw) == \A c \in Channels : ~Malformed(raw[c])

BuildFixture(raw, at) == [c \in Channels |-> NormalizeChannel(raw[c], Node, at)]

Capped(bucket) ==
    IF Len(bucket) <= MaxHistory THEN bucket
    ELSE SubSeq(bucket, Len(bucket) - MaxHistory + 1, Len(bucket))

\* InMemoryHistory::push for the channels of the graph.
Push(h, g) ==
    [c \in Channels |-> IF g[c] = NoChannel THEN h[c] ELSE Capped(Append(h[c], SnapshotOf(g[c])))]

OldestFirst(rows) == Listed(rows, {p \in rows \X rows : p[1].ts < p[2].ts})

\* recent_channel_snapshots_for_network with the --node argument.
PersistedFor(c) == OldestFirst(disk[c][Node])

\* InMemoryHistory::warm_from_snapshots: the newest MaxHistory rows, oldest
\* first, behind what is in the bucket already.
WarmFromSnapshots(h, g) ==
    [c \in Channels |-> IF g[c] = NoChannel THEN h[c] ELSE h[c] \o Capped(PersistedFor(c))]

-----------------------------------------------------------------------------
(* The transaction.                                                        *)

\* save_channel_snapshot for the channels of the graph.
SaveSnapshots(rows, g) ==
    [c \in Channels |->
        IF g[c] = NoChannel THEN rows[c]
        ELSE [rows[c] EXCEPT ![g[c].node] = @ \cup {SnapshotOf(g[c])}]]

IdOf(f) == <<f.detector, f.channel>>

\* DetectorCycle.scope.complete of the two detectors that see the graph; the
\* settlement detector has no events here, so its scope is never complete.
CompleteScopes(g, h) ==
    {d \in DetectorIds : \/ d = "channel_liquidity" /\ LiquidityIsComplete(g)
                         \/ d = "liquidity_trend" /\ DriftIsComplete(g, h)}

DetectorFindings(g, h) == LiquidityRun(g) \cup DriftRun(g, h)

\* Faulty variant: a recommendation is new when its finding is.
NewWithFinding(rows, id, type) == finding[id].lifecycle = "none"

\* recommendation_for_action finds no row for the action.
IsNewAction(rows, id, type) == rows[<<id, type>>] = "none"

\* Faulty variant: advice is not synced with the findings just resolved.
AdviceUnsynced(resolved, fs) ==
    [k \in DOMAIN advice |->
        IF \E f \in fs : /\ IdOf(f) = k[1]
                         /\ k[2] \in {r.type : r \in Recommend(f)}
                         /\ IsNewAction(advice, k[1], k[2])
        THEN "active" ELSE advice[k]]

\* sync_recommendation_lifecycles, then save_recommendation of what is new.
AdviceAfter(resolved, fs) ==
    LET synced == [k \in DOMAIN advice |->
                      IF advice[k] = "active" /\ resolved[k[1]].lifecycle = "resolved"
                      THEN "resolved" ELSE advice[k]]
    IN  [k \in DOMAIN advice |->
            IF \E f \in fs : /\ IdOf(f) = k[1]
                             /\ k[2] \in {r.type : r \in Recommend(f)}
                             /\ IsNewAction(synced, k[1], k[2])
            THEN "active" ELSE synced[k]]

\* persist_cycle: resolve the complete scopes, sync, save findings and advice.
PersistFindings(complete, fs, at, recommends) ==
    LET resolved == Lifecycle!ResolveFindingsForScopes(finding, complete)
        obs == {IdOf(f) : f \in fs}
    IN  /\ finding' = [id \in FindingIds |->
                          IF id \in obs THEN Lifecycle!SaveFinding(resolved[id], at) ELSE resolved[id]]
        /\ detail' = [id \in FindingIds |->
                         IF id \in obs
                         THEN LET f == CHOOSE f \in fs : IdOf(f) = id
                              IN  [severity |-> f.severity, evidence |-> f.evidence, refs |-> f.refs]
                         ELSE detail[id]]
        /\ advice' = AdviceAfter(resolved, IF recommends THEN fs ELSE {})
        /\ seen' = [id \in FindingIds |-> IF id \in obs THEN seen[id] \cup {at} ELSE seen[id]]
        /\ missed' = [id \in FindingIds |->
                         IF id \in obs THEN 0
                         ELSE IF id[1] \in complete THEN Lifecycle!Earlier(missed[id] + 1, 3)
                         ELSE missed[id]]

Findings == <<finding, detail, advice, seen, missed>>

-----------------------------------------------------------------------------
(* The cleanup.                                                            *)

\* run_cleanup_if_due, which reads the clock and the stamp once.
Due(policy) == cleaned = 0 \/ now - cleaned >= policy.interval

\* max_age_for_status, the cutoffs of prune_channel_snapshots.
AgeOf(policy, status) == IF IsClosed(status) THEN policy.closed_age ELSE policy.age
Expired(policy, r, at) == r.ts < at - AgeOf(policy, r.status)

Newer(rows, r) == {x \in rows : x.ts > r.ts}

\* Faulty variant: the row whose number is the cap is deleted too.
NewestButOne(rows, cap) == IF cap = 0 THEN rows ELSE {r \in rows : Cardinality(Newer(rows, r)) + 1 < cap}

\* ROW_NUMBER() OVER (... ORDER BY ts DESC) > cap.
Newest(rows, cap) == IF cap = 0 THEN rows ELSE {r \in rows : Cardinality(Newer(rows, r)) < cap}

\* What prune_channel_snapshots leaves; module SnapshotTables has its
\* statements one by one.
Retained(policy) ==
    [c \in Channels |-> [n \in Nodes |->
        Newest({r \in disk[c][n] : ~Expired(policy, r, now)}, policy.cap)]]

-----------------------------------------------------------------------------
(* The monitor.                                                            *)

\* The process is gone, and its graph and history with it.
Stop ==
    /\ phase' = "down" /\ first' = TRUE
    /\ graph' = EmptyGraph
    /\ hist' = [c \in Channels |-> <<>>]
    /\ UNCHANGED <<scans, Findings, now>>

Start ==
    /\ phase = "down"
    /\ phase' = "idle"
    /\ UNCHANGED <<first, graph, hist, disk, cleaned, scans, Findings, now>>

\* A cycle's ingestion succeeds; GetInfo may fail, and --node is used then.
Ingest(raw, node) ==
    /\ phase = "idle" /\ now < MaxTime
    /\ now' = now + 1
    /\ graph' = BuildLive(raw, node, now')
    /\ hist' = IF first THEN WarmFromSnapshots(Push(hist, graph'), graph') ELSE Push(hist, graph')
    /\ first' = FALSE
    /\ phase' = "observed"
    /\ UNCHANGED <<disk, cleaned, scans, Findings>>

\* Every retry of the round failed: the cycle is skipped, and counts.
IngestFails ==
    /\ phase = "idle"
    /\ first' = FALSE
    /\ UNCHANGED <<phase, graph, hist, disk, cleaned, scans, Findings, now>>

PersistCommits ==
    LET fs == DetectorFindings(graph, hist)
    IN  /\ phase = "observed"
        /\ \A f \in fs : Accepts(f)
        /\ disk' = SaveSnapshots(disk, graph)
        /\ PersistFindings(CompleteScopes(graph, hist), fs, now, TRUE)
        /\ phase' = "persisted" /\ graph' = EmptyGraph
        /\ UNCHANGED <<first, hist, cleaned, scans, now>>

\* The engine refuses a finding or the storage fails: rolled back, and run
\* returns the error.
PersistFails ==
    /\ phase = "observed"
    /\ Stop
    /\ UNCHANGED <<disk, cleaned>>

\* Not due: the cycle ends without a cleanup.
CleanupSkipped ==
    /\ phase = "persisted" /\ ~Due(Retention)
    /\ phase' = "idle"
    /\ UNCHANGED <<first, graph, hist, disk, cleaned, scans, Findings, now>>

\* The cleanup is due, or the stamp could not be read, which counts as none.
CleanupRuns ==
    /\ phase = "persisted"
    /\ phase' = "idle"
    /\ disk' = Retained(Retention) /\ cleaned' = now
    /\ UNCHANGED <<first, graph, hist, scans, Findings, now>>

\* The attempt, the pass or the record of its success fails, and run returns
\* the error.
CleanupFails ==
    /\ phase = "persisted"
    /\ Stop
    /\ disk' \in {disk, Retained(Retention)}
    /\ UNCHANGED cleaned

Crash ==
    /\ phase # "down"
    /\ Stop
    /\ UNCHANGED <<disk, cleaned>>

MonitorNext ==
    \/ Start \/ IngestFails \/ PersistCommits \/ PersistFails \/ Crash
    \/ CleanupSkipped \/ CleanupRuns \/ CleanupFails
    \/ \E raw \in RawChannels, node \in Identities : Ingest(raw, node)

-----------------------------------------------------------------------------
(* The other writers.                                                      *)

\* One rieko scan of a fixture up to its cleanup: build, detect without
\* history, persist.
Scan(raw) ==
    LET g == BuildFixture(raw, now + 1)
        fs == DetectorFindings(g, NoHistory)
    IN  /\ now < MaxTime
        /\ FixtureLoads(raw)
        /\ \A f \in fs : Accepts(f)
        /\ now' = now + 1
        /\ disk' = SaveSnapshots(disk, g)
        /\ PersistFindings(CompleteScopes(g, NoHistory), fs, now', TRUE)
        /\ scans' = scans + 1
        /\ UNCHANGED <<phase, first, graph, hist, cleaned>>

\* It cleans up with the default policy and shares the stamp with the monitor;
\* the record of the success may fail.
ScanCleans ==
    /\ scans > 0
    /\ scans' = scans - 1
    /\ disk' = Retained(DefaultRetention) /\ cleaned' \in {cleaned, now}
    /\ UNCHANGED <<phase, first, graph, hist, Findings, now>>

\* No cleanup is due, it fails, or the process is killed.
ScanEnds ==
    /\ scans > 0
    /\ scans' = scans - 1
    /\ UNCHANGED <<phase, first, graph, hist, disk, cleaned, Findings, now>>

\* process_pending_webhook_event: the settlement detector on an empty graph,
\* with unknown chain state; its scope is complete, nothing is recommended.
Settle(w) ==
    LET fs == SettlementRun(Normalized(w), EmptyGraph, Node, "unknown")
    IN  /\ now < MaxTime
        /\ now' = now + 1
        /\ PersistFindings({"settlement_reliability"}, fs, now', FALSE)
        /\ UNCHANGED <<phase, first, graph, hist, disk, cleaned, scans>>

Init ==
    /\ phase = "down" /\ first = TRUE
    /\ graph = EmptyGraph
    /\ hist = [c \in Channels |-> <<>>]
    /\ disk = [c \in Channels |-> [n \in Nodes |-> {}]]
    /\ cleaned = 0 /\ scans = 0
    /\ finding = [f \in FindingIds |-> Lifecycle!NoRow]
    /\ detail = [f \in FindingIds |-> NoDetail]
    /\ advice = [k \in FindingIds \X ActionTypes |-> "none"]
    /\ seen = [f \in FindingIds |-> {}]
    /\ missed = [f \in FindingIds |-> 0]
    /\ now = 0

Next ==
    \/ MonitorNext
    \/ ScanCleans \/ ScanEnds
    \/ \E raw \in Fixtures : Scan(raw)
    \/ \E w \in InvoiceWindows : Settle(w)

Spec == Init /\ [][Next]_vars

\* The monitor alone, restarts included.
MonitorSpec == Init /\ [][MonitorNext]_vars

-----------------------------------------------------------------------------
(* Properties.                                                             *)

\* The contract between detectors and engine.  A refused finding rolls the
\* whole cycle back and ends the monitor; the only finding the detectors can
\* build that the engine refuses is a trend whose window begins with a
\* snapshot taken while the balance exceeded the capacity.
OnlyOversizedStartIsRefused ==
    phase = "observed" =>
        \A f \in DetectorFindings(graph, hist) :
            ~Accepts(f) => f.detector = "liquidity_trend" /\ f.evidence.start > Whole

\* Unknown data closes nothing: a cycle that saw an open channel it could not
\* classify counts no absence for any finding about liquidity or its trend.
UnclassifiedClosesNothing ==
    phase = "observed" /\ phase' = "persisted" /\ Unclassified(graph) # {} =>
        \A f \in FindingIds : finding'[f].absent <= finding[f].absent
                              /\ (finding'[f].lifecycle = "resolved" => finding[f].lifecycle = "resolved")

\* A scan, which has no history, never counts a trend as gone, whatever the
\* channels look like when it runs between two cycles of the monitor.
ScanLeavesTrends ==
    UNCHANGED phase /\ now' # now =>
        \A c \in Channels : finding'[<<"liquidity_trend", c>>] = finding[<<"liquidity_trend", c>>]

\* The silence of a detector that could not look is never counted as absence:
\* not for an open channel nobody could classify, and not for the trends a
\* process without history cannot see.
SilenceIsNotAbsence == [][UnclassifiedClosesNothing /\ ScanLeavesTrends]_vars

\* A policy lets go of a row of the table that has outlived the age of its
\* status, or behind which the channel has its cap of newer rows, or had them
\* before one of those outlived its own age.
MayBeGone(policy, rows, r, at) ==
    \/ Expired(policy, r, at)
    \/ policy.cap > 0 /\ \/ Cardinality(Newer(rows, r)) >= policy.cap
                         \/ \E p \in {Retention, DefaultRetention} :
                                r.ts < at - p.age \/ r.ts < at - p.closed_age

\* A snapshot of a channel is a row, or retention may have deleted it.
IsAccounted(rows, r, at) ==
    \/ r \in rows[r.node]
    \/ \E policy \in {Retention, DefaultRetention} : MayBeGone(policy, rows[r.node], r, at)

\* Evidence outlives the cleanup: every snapshot the provenance of a stored
\* finding refers to is a row of channel_snapshots, or its age or a cap allows
\* its deletion by whichever of monitor and scan is stricter.  Failed commits,
\* crashes, warm-ups from a pruned table, a history that remembers rows long
\* deleted and cleanups between a cycle's observation and its commit do not
\* lose one earlier.
EvidenceIsKept ==
    \A d \in {"channel_liquidity", "liquidity_trend"}, c \in Channels :
        \A r \in detail[<<d, c>>].refs : IsAccounted(disk[c], r, now)

\* The advice follows the condition: whatever a liquidity finding looked like
\* when it was first seen, as soon as it is stored as an inbound one both
\* reviews exist, and the rebalance review exists for every finding stored.
AdviceCoversFinding ==
    \A d \in {"channel_liquidity", "liquidity_trend"}, c \in Channels :
        finding[<<d, c>>].lifecycle # "none" =>
            /\ advice[<<<<d, c>>, "rebalance_channel">>] # "none"
            /\ detail[<<d, c>>].evidence.direction = "inbound"
                  => advice[<<<<d, c>>, "update_fee_policy">>] # "none"

\* The two sides of a channel are judged alike: a channel and the one with
\* its balances exchanged get findings of the same severity and opposite
\* direction, or both get none.
Mirrored(channel) ==
    [channel EXCEPT !.local = channel.remote, !.remote = channel.local,
                    !.ratio = LocalRatio(channel.capacity, channel.remote),
                    !.imbalance = Imbalance(channel.capacity, channel.remote, channel.local)]

SidesAreJudgedAlike ==
    LET judged == [c \in Channels |-> IF graph[c] = NoChannel THEN NoChannel ELSE Mirrored(graph[c])]
        Opposite(d) == IF d = "inbound" THEN "outbound" ELSE "inbound"
    IN  (\A c \in Present(graph) : graph[c].local + graph[c].remote = graph[c].capacity) =>
            {<<f.channel, f.severity, f.evidence.direction>> : f \in LiquidityRun(graph)} =
            {<<f.channel, f.severity, Opposite(f.evidence.direction)>> : f \in LiquidityRun(judged)}

\* One more failed invoice, with the same settled ones or any number fewer,
\* never makes the settlement finding milder, and never makes it vanish.
WorseWindowIsNotMilder ==
    LET id == <<"settlement_reliability", NodeWide>>
        events(e, settled) == [k \in 1..e.expired + 1 |-> "invoice_expired"] \o
                                 [k \in 1..settled |-> "invoice_settled"]
        worse(e, settled) == SettlementRun(events(e, settled), EmptyGraph, Node, "unknown")
    IN  finding[id].lifecycle # "none" =>
            \A settled \in 0..detail[id].evidence.settled :
                /\ worse(detail[id].evidence, settled) # {}
                /\ detail[id].severity = "critical" =>
                      \A f \in worse(detail[id].evidence, settled) : f.severity = "critical"

\* What the detectors return can be used: the engine refuses one kind of
\* finding only, and severities follow the condition.
DetectorsAreSound == OnlyOversizedStartIsRefused /\ SidesAreJudgedAlike /\ WorseWindowIsNotMilder

\* The pipeline is an implementation of the lifecycle: what the detectors
\* report, cycle by cycle, are lifecycle cycles and nothing else touches the
\* rows.
ImplementsLifecycle == Lifecycle!Spec

\* crates/rieko-cli/src/commands/monitor.rs:251 says the history is warmed
\* "so drift detection survives a restart": after a committed cycle a channel
\* whose newest snapshots on disk show the decline has a trend finding.
TrendSurvivesRestart ==
    phase = "idle" =>
        \A c \in Channels, n \in Nodes :
            LET snaps == RecentChannelSnapshots(OldestFirst(disk[c][n]), Window)
            IN  /\ Len(snaps) >= MinHistory
                /\ IsOpen(snaps[1].status) /\ snaps[1].ts = now /\ snaps[1].ratio < 25
                /\ snaps[Len(snaps)].ratio - snaps[1].ratio >= 5
                => finding[<<"liquidity_trend", c>>].last = now
=============================================================================
