---------------------------- MODULE Simulations -----------------------------
(***************************************************************************)
(* The simulation service (crates/rieko-simulation-app/src/lib.rs, the     *)
(* simulation routes of crates/rieko-api/src/routes.rs, the command        *)
(* rieko simulations create and the simulation tables of                   *)
(* crates/rieko-storage/src/sqlite.rs).                                    *)
(*                                                                         *)
(* Requests come through the API, whose storage handle lives as long as    *)
(* the process, or from a command with a connection of its own.  Each runs *)
(* in one BEGIN IMMEDIATE transaction and is one step here; storage faults *)
(* hit its inserts, its COMMIT or its ROLLBACK.  Between requests the      *)
(* clock advances, the monitor records observations of the channels and    *)
(* updates the finding, the finding resolves and retention deletes         *)
(* snapshots.  Observations, findings and advice are those of modules      *)
(* Detectors and RecommendationEngine.                                     *)
(***************************************************************************)
EXTENDS RecommendationEngine, RedistributionModel, FiniteSets

CONSTANTS
    Channels,    \* channel identities
    Target,      \* the channel the finding is about
    Reports,     \* what a cycle may see: raw channels, and the node it records
                 \* (identity_pubkey, or Node)
    Node,        \* the configured node, which findings carry
    Reserve,     \* channel reserve on either side
    Commands,    \* requests: [rec, source, destination, amount, allow_stale]
    Freshness,   \* DEFAULT_FRESHNESS (15 minutes)
    MaxAge,      \* RetentionPolicy.snapshot_max_age (30 days)
    MaxTime, MaxObservations, MaxSims, MaxFaults   \* bounds

ASSUME SimulationAssumption ==
    /\ Target \in Channels
    /\ Freshness \in Nat /\ MaxAge \in Nat /\ Reserve \in Nat
    /\ MaxTime \in Nat /\ MaxObservations \in Nat /\ MaxSims \in Nat /\ MaxFaults \in Nat
    /\ Commands \subseteq [rec : {"rebalance_channel", "update_fee_policy", "trend_review"},
                            source : Channels, destination : Channels,
                            amount : Nat, allow_stale : BOOLEAN]
    /\ \A report \in Reports, c \in Channels :
           LET raw == report.channels[c]
           IN  raw.capacity \in Int /\ raw.local \in Int /\ raw.remote \in Int

VARIABLES
    now,      \* Utc::now(), which does not step back
    snaps,    \* table channel_snapshots
    finding,  \* the row of the liquidity finding of Target
    recs,     \* action types with a row in table recommendations
    sims,     \* table simulations, in the order of created_at
    events,   \* table simulation_events: statuses per simulation
    stuck,    \* the API's connection has a transaction open that nobody ends
    faults,   \* storage faults so far
    answer    \* what the last request returned

vars == <<now, snaps, finding, recs, sims, events, stuck, faults, answer>>

NoFinding == [lifecycle |-> "none"]
NoAnswer == [kind |-> "none"]
NoProjection == [deltas |-> {}, warnings |-> {}]

RunStatuses == {"completed", "stale", "unsupported", "invalid_input"}
ErrorKinds == {"invalid_request", "recommendation_not_found", "finding_not_found", "finding_inactive",
               "snapshot_not_found", "unsupported_recommendation", "future_dated_input",
               "stale_input", "invalid_input", "storage", "immutable"}

TypeOK ==
    /\ now \in 0..MaxTime
    /\ finding # NoFinding =>
          finding.lifecycle \in {"active", "resolved"} /\ finding.direction \in {"outbound", "inbound"}
    /\ recs \subseteq {"rebalance_channel", "update_fee_policy"}
    /\ Len(sims) = Len(events)
    /\ \A k \in DOMAIN sims : sims[k].status \in RunStatuses /\ sims[k].requested_at \in 0..now
    /\ stuck \in BOOLEAN /\ faults \in 0..MaxFaults
    /\ answer = NoAnswer \/ answer.kind \in {"created", "reused"} \cup ErrorKinds

-----------------------------------------------------------------------------
(* Lookups.                                                                *)

\* channel_snapshot_at: network, node, channel and time must all match.
SnapshotAt(node, c, t) == {s \in snaps : s.node = node /\ s.channel = c /\ s.ts = t}

\* A finding of another detector that is active all the time.
TrendFinding ==
    [detector |-> "liquidity_trend", lifecycle |-> "active", node |-> Node, channel |-> Target,
     direction |-> "outbound", observed_at |-> 0, digest |-> <<>>]

\* The finding a recommendation belongs to.
FindingOf(rec) == IF rec = "trend_review" THEN TrendFinding ELSE finding

TypeOf(rec) == IF rec = "update_fee_policy" THEN rec ELSE "rebalance_channel"

RecommendationExists(rec) == rec = "trend_review" \/ rec \in recs

\* validate_command and the checks before the transaction.
ValidateCommand(cmd) == cmd.amount > 0

\* context_or_unsupported.
ContextOrUnsupported(rec, kind) ==
    IF Supports(TypeOf(rec)) THEN kind ELSE "unsupported_recommendation"

\* parse_finding_direction is Ok: the finding of the liquidity detector, whose
\* evidence has one direction.
ParsesDirection(f) == f.detector = "channel_liquidity" /\ f.direction \in {"outbound", "inbound"}

\* The canonical input of a request whose two snapshots are s and d.
SimulationInput(cmd, f, s, d) ==
    [rec |-> cmd.rec, type |-> TypeOf(cmd.rec), recommendation_target |-> f.channel,
     finding_channel |-> f.channel, direction |-> f.direction, node |-> f.node,
     provenance |-> [channel |-> f.channel, configured_node |-> f.node,
                     observed_at |-> f.observed_at, digest |-> f.digest],
     source |-> cmd.source, destination |-> cmd.destination, amount |-> cmd.amount,
     source_snapshot |-> s, destination_snapshot |-> d]

\* Faulty variant: the first run of an input is taken.
OldestByInputHash(input) ==
    LET same == {k \in DOMAIN sims : sims[k].input = input}
    IN  IF same = {} THEN 0 ELSE CHOOSE k \in same : \A j \in same : k <= j

\* simulation_v2_by_input_hash: the newest run of the input, or 0.
SimulationByInputHash(input) ==
    LET same == {k \in DOMAIN sims : sims[k].input = input}
    IN  IF same = {} THEN 0 ELSE CHOOSE k \in same : \A j \in same : j <= k

\* simulation_view: a completed run is shown as stale once its snapshots are.
ViewStatus(rec, t) ==
    IF rec.status = "completed" /\ IsStaleAt(rec.input, t, Freshness) THEN "stale" ELSE rec.status

\* simulation_value, which the older routes use.
SimulationValueStatus(rec, t) ==
    IF rec.status = "completed" /\ t - rec.source_observed_at > Freshness THEN "stale" ELSE rec.status

\* error_kind_for_view.
ErrorKindForView(rec) ==
    CASE rec.error = "future_dated_input" -> "future_dated_input"
      [] rec.error # "future_dated_input" /\ rec.status = "unsupported" -> "unsupported_recommendation"
      [] rec.error # "future_dated_input" /\ rec.status = "stale" -> "stale_input"
      [] rec.error # "future_dated_input" /\ rec.status = "invalid_input" -> "invalid_input"

-----------------------------------------------------------------------------
(* create_in_transaction.  A result has its kind, the existing record it   *)
(* shows (or 0) and the record it would add (a set of at most one).        *)

Refused(kind) == [kind |-> kind, shows |-> 0, adds |-> {}]

\* Faulty variant: stale results are reused without being asked for.
ReuseAny(cmd, k) ==
    IF sims[k].projection # NoProjection
    THEN [kind |-> "reused", shows |-> k, adds |-> {}]
    ELSE [kind |-> ErrorKindForView(sims[k]), shows |-> k, adds |-> {}]

\* An earlier run of the same input answers the request.
ReuseExisting(cmd, k) ==
    IF sims[k].projection # NoProjection
    THEN IF IsStaleAt(sims[k].input, now, Freshness) /\ ~cmd.allow_stale
         THEN [kind |-> "stale_input", shows |-> k, adds |-> {}]
         ELSE [kind |-> "reused", shows |-> k, adds |-> {}]
    ELSE [kind |-> ErrorKindForView(sims[k]), shows |-> k, adds |-> {}]

\* evaluate_and_persist: status, error code and projection of a new run.
Evaluate(cmd, input) ==
    LET stale == IsStaleAt(input, now, Freshness)
        run(status, error, projection) ==
            [input |-> input, status |-> status, error |-> error, projection |-> projection,
             source_observed_at |-> input.source_snapshot.ts, requested_at |-> now]
    IN  CASE ~Supports(input.type) -> run("unsupported", "unsupported_recommendation", NoProjection)
          [] Supports(input.type) /\ IsFutureAt(input, now) ->
                run("invalid_input", "future_dated_input", NoProjection)
          [] Supports(input.type) /\ stale /\ ~cmd.allow_stale ->
                run("stale", "stale_input", NoProjection)
          [] Supports(input.type) /\ ~IsFutureAt(input, now) /\ (stale => cmd.allow_stale) ->
                IF Validate(input)
                THEN run(IF stale THEN "stale" ELSE "completed", "none", Simulate(input))
                ELSE run("invalid_input", "invalid_input", NoProjection)

\* The unique index on input_hash of runs with a projection.
SaveSimulationConflicts(rec) ==
    /\ rec.projection # NoProjection
    /\ \E k \in DOMAIN sims : sims[k].input = rec.input /\ sims[k].projection # NoProjection

\* evaluate_and_persist, the answer.
EvaluateAndPersist(cmd, input) ==
    LET rec == Evaluate(cmd, input)
    IN  IF SaveSimulationConflicts(rec) THEN Refused("immutable")
        ELSE [kind  |-> IF rec.error = "none" THEN "created" ELSE rec.error,
              shows |-> 0, adds |-> {rec}]

\* create_in_transaction, from the finding on.
CreateForFinding(cmd, f) ==
    LET source == SnapshotAt(f.node, cmd.source, f.observed_at)
        destination == SnapshotAt(f.node, cmd.destination, f.observed_at)
    IN  IF source = {} \/ destination = {}
        THEN Refused(ContextOrUnsupported(cmd.rec, "snapshot_not_found"))
        ELSE LET input == SimulationInput(cmd, f, CHOOSE s \in source : TRUE,
                                                  CHOOSE d \in destination : TRUE)
                 k == SimulationByInputHash(input)
             IN  IF k = 0 \/ (k > 0 /\ sims[k].projection = NoProjection
                                    /\ sims[k].status = "stale" /\ cmd.allow_stale)
                 THEN EvaluateAndPersist(cmd, input)
                 ELSE ReuseExisting(cmd, k)

CreateInTransaction(cmd) ==
    LET f == FindingOf(cmd.rec)
        kind == CASE ~RecommendationExists(cmd.rec) -> "recommendation_not_found"
                  [] RecommendationExists(cmd.rec) /\ f.lifecycle = "none" -> "finding_not_found"
                  [] RecommendationExists(cmd.rec) /\ f.lifecycle = "resolved" -> "finding_inactive"
                  [] RecommendationExists(cmd.rec) /\ f.lifecycle = "active" -> "none"
    IN  CASE kind = "recommendation_not_found" -> Refused(kind)
          [] kind \in {"finding_not_found", "finding_inactive"} ->
                Refused(ContextOrUnsupported(cmd.rec, kind))
          [] kind = "none" ->
                IF Supports(TypeOf(cmd.rec)) /\ ~ParsesDirection(f)
                THEN Refused("unsupported_recommendation")
                ELSE CreateForFinding(cmd, f)

-----------------------------------------------------------------------------
(* create_simulation.                                                      *)

Tables == <<now, snaps, finding, recs>>

Answered(kind, k, cmd) ==
    answer' = IF kind \in {"created", "reused"}
              THEN [kind |-> kind, sim |-> k, allow_stale |-> cmd.allow_stale]
              ELSE [kind |-> kind]

\* The request fails before or at BEGIN.
CreateRefused(cmd) ==
    /\ ~ValidateCommand(cmd) \/ stuck
    /\ Answered(IF ValidateCommand(cmd) THEN "storage" ELSE "invalid_request", 0, cmd)
    /\ UNCHANGED <<Tables, sims, events, stuck, faults>>

\* Faulty variant: no events.
RecordOnly(rec) ==
    sims' = Append(sims, rec) /\ UNCHANGED events

\* save_simulation_v2 and the two events of persist_outcome.
PersistOutcome(rec) ==
    /\ sims' = Append(sims, rec)
    /\ events' = Append(events, <<"requested", rec.status>>)

\* Every storage call succeeds.
CreateEnds(cmd, r) ==
    /\ IF r.adds = {}
       THEN UNCHANGED <<sims, events>> /\ Answered(r.kind, r.shows, cmd)
       ELSE /\ Len(sims) < MaxSims
            /\ \E rec \in r.adds : PersistOutcome(rec)
            /\ Answered(r.kind, Len(sims) + 1, cmd)
    /\ UNCHANGED <<Tables, stuck, faults>>

\* An insert or the COMMIT fails and the transaction is rolled back; or the
\* ROLLBACK after a reuse fails and is repeated.
CreateFails(cmd, r) ==
    /\ faults < MaxFaults /\ (r.adds # {} \/ r.shows # 0)
    /\ faults' = faults + 1
    /\ Answered("storage", 0, cmd)
    /\ UNCHANGED <<Tables, sims, events, stuck>>

\* The ROLLBACK of a refused request fails and is not repeated: the API's
\* handle keeps the transaction and with it the database's write lock.
RollbackFails(by, cmd, r) ==
    /\ faults < MaxFaults /\ r.adds = {} /\ r.shows = 0
    /\ faults' = faults + 1
    /\ stuck' = (by = "api")
    /\ Answered("storage", 0, cmd)
    /\ UNCHANGED <<Tables, sims, events>>

CreateSimulation(cmd) ==
    \/ CreateRefused(cmd)
    \/ /\ ValidateCommand(cmd) /\ ~stuck
       /\ LET r == CreateInTransaction(cmd)
          IN  \/ CreateEnds(cmd, r)
              \/ CreateFails(cmd, r)
              \/ \E by \in {"api", "command"} : RollbackFails(by, cmd, r)

RestartApi ==
    /\ stuck
    /\ stuck' = FALSE
    /\ answer' = NoAnswer
    /\ UNCHANGED <<Tables, sims, events, faults>>

-----------------------------------------------------------------------------
(* The rest of the system.                                                 *)

Tick ==
    /\ now < MaxTime
    /\ now' = now + 1
    /\ answer' = NoAnswer
    /\ UNCHANGED <<snaps, finding, recs, sims, events, stuck, faults>>

ObservedTimes == {s.ts : s \in snaps}

\* One cycle of the monitor that commits.  Needs the write lock.
Observe(report) ==
    LET graph == [c \in Channels |-> IF Malformed(report.channels[c]) THEN NoChannel
                                     ELSE NormalizeChannel(report.channels[c], report.node, now)]
        snapshot(c) == ChannelSnapshot(c, report.node, graph[c], Reserve)
        found == {f \in LiquidityRun(graph) : f.channel = Target}
    IN  /\ ~stuck
        /\ now \notin ObservedTimes /\ Cardinality(ObservedTimes) < MaxObservations
        /\ snaps' = snaps \cup {snapshot(c) : c \in Present(graph)}
        /\ IF found = {} THEN UNCHANGED <<finding, recs>>
           ELSE \E f \in found :
                  /\ finding' = [detector |-> f.detector, lifecycle |-> "active", node |-> Node,
                                 channel |-> Target, direction |-> f.evidence.direction,
                                 observed_at |-> now, digest |-> StateDigest(snapshot(Target))]
                  /\ recs' = recs \cup {r.type : r \in Recommend(f)}
        /\ answer' = NoAnswer
        /\ UNCHANGED <<now, sims, events, stuck, faults>>

\* The third complete cycle without the finding (module FindingLifecycle).
Resolve ==
    /\ ~stuck /\ finding.lifecycle = "active" /\ finding.observed_at < now
    /\ finding' = [finding EXCEPT !.lifecycle = "resolved"]
    /\ answer' = NoAnswer
    /\ UNCHANGED <<now, snaps, recs, sims, events, stuck, faults>>

\* prune_channel_snapshots touches no other table.
Prune ==
    /\ ~stuck /\ \E s \in snaps : s.ts < now - MaxAge
    /\ snaps' = {s \in snaps : s.ts >= now - MaxAge}
    /\ answer' = NoAnswer
    /\ UNCHANGED <<now, finding, recs, sims, events, stuck, faults>>

Init ==
    /\ now = 0 /\ snaps = {} /\ finding = NoFinding /\ recs = {}
    /\ sims = <<>> /\ events = <<>>
    /\ stuck = FALSE /\ faults = 0 /\ answer = NoAnswer

Next ==
    \/ \E cmd \in Commands : CreateSimulation(cmd)
    \/ RestartApi \/ Tick \/ Resolve \/ Prune
    \/ \E report \in Reports : Observe(report)

Spec == Init /\ [][Next]_vars

-----------------------------------------------------------------------------
(* Comparisons.                                                            *)

Comparable(j, k) ==
    /\ sims[j].input.rec = sims[k].input.rec
    /\ sims[j].projection # NoProjection /\ sims[k].projection # NoProjection

\* compare_simulations: projected_local_balance_delta of right over left.
CompareSimulations(j, k) ==
    FindingDelta(sims[k].input, sims[k].projection).local_after
        - FindingDelta(sims[j].input, sims[j].projection).local_after

-----------------------------------------------------------------------------
(* Properties.                                                             *)

\* A request that did not allow stale input is never answered with a
\* projection of snapshots older than the freshness bound, be it computed or
\* reused, however long ago it was computed and whatever was allowed then.
ServedProjectionIsFresh ==
    answer # NoAnswer /\ answer.kind \in {"created", "reused"} /\ ~answer.allow_stale =>
        ~IsStaleAt(sims[answer.sim].input, now, Freshness)

\* The answer to a repeated request is never the uniqueness error of the
\* simulations table: the lookup by input finds the run with the projection
\* whatever refused, stale and forced runs of the same input surround it.
RepeatIsNeverRejected == answer.kind # "immutable"

\* The record and its lifecycle events are written together, through faults
\* in every storage call.
EventsFollowRecord ==
    \A k \in DOMAIN sims : events[k] = <<"requested", sims[k].status>>

\* What a projection promises is what the detector will say: it clears the
\* finding exactly if LiquidityDetector would report nothing for the channel
\* in the projected state, and it moves the channel away from the drained
\* side.
ClearsIfDetectorIsSilent ==
    \A k \in DOMAIN sims : sims[k].projection # NoProjection =>
        LET i == sims[k].input
            d == FindingDelta(i, sims[k].projection)
            after == NormalizeChannel(RawChannel(TRUE, d.capacity, d.local_after, d.remote_after, {}),
                                      Node, now)
        IN  /\ d.clears_finding <=> LiquidityRun([c \in {Target} |-> after]) = {}
            /\ (d.local_after > d.local_before) <=> (i.direction = "outbound")

\* A projection creates and destroys nothing: what leaves one channel reaches
\* the other, no side goes below zero and no channel above its capacity.
ProjectionConservesFunds ==
    \A k \in DOMAIN sims :
        \A d, e \in sims[k].projection.deltas :
            /\ d.local_after \in 0..d.capacity /\ d.remote_after \in 0..d.capacity
            /\ d.local_after + d.remote_after = d.local_before + d.remote_before
            /\ d # e => d.local_after + e.local_after = d.local_before + e.local_before

\* The two generations of API routes show the same status for every run at
\* every time, although one computes the age from the canonical input and the
\* other from a column.
RoutesAgree ==
    \A k \in DOMAIN sims : ViewStatus(sims[k], now) = SimulationValueStatus(sims[k], now)

\* Comparing two runs on the same observation shows the difference of the
\* amounts they move, in the direction of the finding.
ComparisonIsOfAmounts ==
    \A j, k \in DOMAIN sims :
        Comparable(j, k) /\ sims[j].input.source_snapshot = sims[k].input.source_snapshot
                         /\ sims[j].input.destination_snapshot = sims[k].input.destination_snapshot =>
            CompareSimulations(j, k) =
                (IF sims[j].input.direction = "outbound" THEN 1 ELSE -1)
                    * (sims[k].input.amount - sims[j].input.amount)

\* A hop of the older route projection is reported as balanced only if it
\* can carry the amount: the balance moved by exactly that much and fits the
\* capacity; and the first hop is what the direct projection shows.
ClearedHopCarriesAmount ==
    \A s \in {x \in snaps : x.channel = Target} :
    \A t \in {x \in snaps : x.ts = s.ts}, ratio \in {10, 50} :
        LET before == <<s, t, t>>
            hops == ProjectRebalanceRoute(s, ratio, before)
        IN  s.capacity > 0 =>
              /\ hops[1] = Project(s, "rebalance_channel", TRUE, ratio)
              /\ \A k \in 1..3 : hops[k].clears =>
                  /\ hops[k].local \in 0..before[k].capacity
                  /\ Distance(hops[k].local, before[k].local) = hops[k].delta

\* What the service stores stays coherent through faults, repetitions and the
\* passing of time: record and events together, one status for all routes, and
\* every repetition finds the run it repeats.
RunsAreCoherent == EventsFollowRecord /\ RoutesAgree /\ RepeatIsNeverRejected

\* What the projections say is what would happen and what the detector would
\* then see.
ProjectionsAreSound ==
    /\ ProjectionConservesFunds /\ ClearsIfDetectorIsSilent
    /\ ComparisonIsOfAmounts /\ ClearedHopCarriesAmount
=============================================================================
