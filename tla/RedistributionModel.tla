------------------------ MODULE RedistributionModel -------------------------
(***************************************************************************)
(* The deterministic projections of crates/rieko-simulation: the model     *)
(* "liquidity-redistribution" of src/model.rs, which the simulation        *)
(* service runs, and the older what-if projections of src/lib.rs.  Pure    *)
(* operators, no state.                                                    *)
(*                                                                         *)
(* Data abstraction.  Amounts and balances are in percent of Whole, as in  *)
(* module LightningChannel, so no sum of them leaves 64 bits.  A digest is *)
(* the tuple of the fields it is computed from and the input hash the      *)
(* input itself: both are treated as injective.  Texts and the constant    *)
(* assumptions and confidence of a result are left out.                    *)
(***************************************************************************)
EXTENDS LightningChannel, Sequences

\* ChannelSnapshot with the fields a projection reads.
ChannelSnapshot(channel, node, ch, reserve) ==
    [channel |-> channel, node |-> node, ts |-> ch.last_seen, status |-> ch.status,
     capacity |-> ch.capacity, local |-> ch.local, remote |-> ch.remote, ratio |-> ch.ratio,
     spendable_outbound |-> IF ch.local > reserve THEN ch.local - reserve ELSE 0,
     spendable_inbound |-> IF ch.remote > reserve THEN ch.remote - reserve ELSE 0]

\* channel_snapshot_state_digest: everything but the time.
StateDigest(s) == [f \in DOMAIN s \ {"ts"} |-> s[f]]

SnapshotImbalance(s) == Imbalance(s.capacity, s.local, s.remote)

-----------------------------------------------------------------------------
(* LiquidityRedistributionModel.  An input has the recommendation's type   *)
(* and target, the finding's channel, node and direction, its provenance   *)
(* (channel, configured node, time and digest of the snapshot it refers    *)
(* to), the parameters and the two snapshots.                              *)

\* SimulationInput::finding_snapshot.
FindingSnapshot(i) ==
    IF i.destination_snapshot.channel = i.finding_channel
    THEN i.destination_snapshot ELSE i.source_snapshot

ObservedAt(i) == FindingSnapshot(i).ts

IsStaleAt(i, t, freshness) == t - ObservedAt(i) > freshness

IsFutureAt(i, t) == ObservedAt(i) > t

Supports(type) == type = "rebalance_channel"

\* Node, channel and provenance name the same things.
IdentityIsCoherent(i) ==
    /\ i.provenance.configured_node = i.node
    /\ i.recommendation_target = i.finding_channel
    /\ i.provenance.channel = i.finding_channel

\* The channel that lacks outbound receives, the one that lacks inbound gives.
SideMatchesDirection(i) ==
    i.finding_channel = IF i.direction = "outbound" THEN i.destination ELSE i.source

\* The snapshots are the finding's observation, of the named channels, of one
\* node and of one moment.
SnapshotsAreTheFindings(i) ==
    /\ i.provenance.observed_at = ObservedAt(i)
    /\ i.provenance.digest = StateDigest(FindingSnapshot(i))
    /\ i.source # i.destination
    /\ i.source_snapshot.channel = i.source /\ i.destination_snapshot.channel = i.destination
    /\ i.source_snapshot.node = i.node /\ i.destination_snapshot.node = i.node
    /\ i.source_snapshot.ts = i.destination_snapshot.ts

ValidateSnapshot(s) ==
    /\ s.status = "active" /\ s.capacity > 0
    /\ s.local + s.remote <= s.capacity
    /\ s.ratio \in 0..100 /\ s.ratio = LocalRatio(s.capacity, s.local)

\* The recorded state still shows what the finding says.
DirectionMatchesState(i) ==
    LET s == FindingSnapshot(i)
    IN  \/ i.direction = "outbound" /\ SnapshotImbalance(s) = "OutboundDrained"
        \/ i.direction = "outbound" /\ SnapshotImbalance(s) = "SeverelyDrained" /\ s.ratio < 50
        \/ i.direction = "inbound" /\ SnapshotImbalance(s) = "InboundDrained"
        \/ i.direction = "inbound" /\ SnapshotImbalance(s) = "SeverelyDrained" /\ s.ratio >= 50

\* Faulty variant: only the capacities bound the amount.
CapacityCovers(i) ==
    /\ i.amount > 0 /\ i.amount <= i.source_snapshot.capacity
    /\ i.destination_snapshot.local + i.amount <= i.destination_snapshot.capacity

AmountFits(i) ==
    /\ i.amount > 0
    /\ i.amount <= i.source_snapshot.spendable_outbound
    /\ i.amount <= i.destination_snapshot.spendable_inbound
    /\ i.amount <= i.source_snapshot.local /\ i.amount <= i.destination_snapshot.remote
    /\ i.destination_snapshot.local + i.amount <= i.destination_snapshot.capacity

Validate(i) ==
    /\ IdentityIsCoherent(i)
    /\ SideMatchesDirection(i)
    /\ SnapshotsAreTheFindings(i)
    /\ ValidateSnapshot(i.source_snapshot) /\ ValidateSnapshot(i.destination_snapshot)
    /\ DirectionMatchesState(i)
    /\ AmountFits(i)

BuildWarnings(source, destination, amount) ==
    (IF amount > source.capacity \div 2 \/ amount > destination.capacity \div 2
     THEN {"amount_exceeds_half_capacity"} ELSE {})
    \cup (IF source.local - amount < source.capacity \div 100
          THEN {"source_balance_near_reserve"} ELSE {})
    \cup (IF destination.local + amount > destination.capacity - destination.capacity \div 100
          THEN {"destination_balance_near_capacity"} ELSE {})

\* ProjectedDelta of one of the two channels.
Delta(i, s, local, remote) ==
    [channel |-> s.channel, capacity |-> s.capacity,
     local_before |-> s.local, local_after |-> local,
     remote_before |-> s.remote, remote_after |-> remote,
     clears_finding |-> i.finding_channel = s.channel
                        /\ Imbalance(s.capacity, local, remote) = "Balanced"]

\* simulate, for an input that validates.
Simulate(i) ==
    [deltas |-> {Delta(i, i.source_snapshot, i.source_snapshot.local - i.amount,
                                             i.source_snapshot.remote + i.amount),
                 Delta(i, i.destination_snapshot, i.destination_snapshot.local + i.amount,
                                                  i.destination_snapshot.remote - i.amount)},
     warnings |-> BuildWarnings(i.source_snapshot, i.destination_snapshot, i.amount)]

\* baseline and projected are the states of the finding's channel.
FindingDelta(i, result) == CHOOSE d \in result.deltas : d.channel = i.finding_channel

-----------------------------------------------------------------------------
(* The projections of lib.rs, on normalized channels.  No command runs     *)
(* them any more; they are public and tested.                              *)

Distance(x, y) == IF x < y THEN y - x ELSE x - y

\* f64::clamp to 0..1.
Clamped(ratio) == CASE ratio < 0 -> 0 [] ratio > 100 -> 100 [] ratio \in 0..100 -> ratio

\* local and remote balance after moving a channel to a ratio.
AtRatio(ch, ratio) ==
    LET local == (Clamped(ratio) * ch.capacity) \div 100
    IN  [local |-> local, remote |-> ch.capacity - local, delta |-> Distance(local, ch.local),
         clears |-> Imbalance(ch.capacity, local, ch.capacity - local) = "Balanced"]

Unmoved(ch) == [local |-> ch.local, remote |-> ch.remote, delta |-> 0, clears |-> FALSE]

\* Simulator::project: only a rebalance with a target moves anything.
Project(ch, type, hasTarget, ratio) ==
    IF Supports(type) /\ hasTarget THEN AtRatio(ch, ratio) ELSE Unmoved(ch)

\* A hop behind the first: the amount leaves an even hop and enters an odd one.
RouteHop(ch, i, delta) ==
    LET local == IF i % 2 = 0 /\ delta > 0
                 THEN IF ch.local > delta THEN ch.local - delta ELSE 0
                 ELSE ch.local + delta
        remote == IF ch.capacity > local THEN ch.capacity - local ELSE 0
    IN  [local |-> local, remote |-> remote, delta |-> delta,
         clears |-> Imbalance(ch.capacity, local, remote) = "Balanced"]

\* Simulator::project_rebalance_route, hops numbered from 0.
ProjectRebalanceRoute(source, ratio, route) ==
    LET delta == AtRatio(source, ratio).delta
    IN  [k \in 1..Len(route) |->
            IF k = 1 THEN [AtRatio(route[k], ratio) EXCEPT !.delta = delta]
            ELSE RouteHop(route[k], k - 1, delta)]
=============================================================================
