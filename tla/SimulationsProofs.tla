------------------------- MODULE SimulationsProofs -------------------------
(***************************************************************************)
(* Proofs for Simulations: for any channels, reports, requests and bounds, *)
(* what the service stores is coherent, what it serves is as fresh as was  *)
(* asked for, and what a projection promises is what the detector will     *)
(* then see.                                                               *)
(***************************************************************************)
EXTENDS Simulations, SequenceTheorems, TLAPS

-----------------------------------------------------------------------------
(* The inductive invariant.                                                *)

\* What a cycle records has times and balances that are natural numbers.
IsSnapshot(s) == s.ts \in Nat /\ s.capacity \in Nat /\ s.local \in Nat /\ s.remote \in Nat

\* An input is about the finding of Target and two snapshots of one time.
IsInput(i) ==
    /\ i.finding_channel = Target
    /\ IsSnapshot(i.source_snapshot) /\ IsSnapshot(i.destination_snapshot)
    /\ i.source_snapshot.ts = i.destination_snapshot.ts
    /\ i.amount \in Nat

\* A run that was refused says why; one that was not has the projection of an
\* input that validated.
IsRun(rec) ==
    /\ IsInput(rec.input)
    /\ rec.source_observed_at = rec.input.source_snapshot.ts
    /\ rec.status \in RunStatuses
    /\ rec.projection = NoProjection =>
          \/ rec.status = "unsupported" /\ rec.error = "unsupported_recommendation"
          \/ rec.status = "invalid_input" /\ rec.error \in {"future_dated_input", "invalid_input"}
          \/ rec.status = "stale" /\ rec.error = "stale_input"
    /\ rec.projection # NoProjection =>
          rec.projection = Simulate(rec.input) /\ Validate(rec.input)

FindingIsOfTarget ==
    finding # NoFinding =>
        finding.channel = Target /\ finding.node = Node /\ finding.observed_at \in Nat

\* No run of an input follows one of it that has a projection.
ProjectedRunIsLast ==
    \A j, k \in DOMAIN sims :
        sims[j].input = sims[k].input /\ sims[j].projection # NoProjection => k <= j

\* Every input that has runs has a newest one.
NewestRunExists ==
    \A k \in DOMAIN sims : \E m \in DOMAIN sims :
        /\ sims[m].input = sims[k].input
        /\ \A j \in DOMAIN sims : sims[j].input = sims[k].input => j <= m

StoredInv ==
    /\ \A s \in snaps : IsSnapshot(s)
    /\ FindingIsOfTarget
    /\ \A k \in DOMAIN sims : IsRun(sims[k])
    /\ ProjectedRunIsLast /\ NewestRunExists
    /\ EventsFollowRecord /\ RepeatIsNeverRejected /\ ServedProjectionIsFresh

IsSequence(s) == \E S : s \in Seq(S)

\* The invariant the steps preserve.
Sound == TypeOK /\ IsSequence(sims) /\ IsSequence(events) /\ StoredInv

-----------------------------------------------------------------------------
(* Lemmas about the operators.                                             *)

\* A sequence is still one with an element appended, which comes last.
LEMMA AppendedSequence ==
    ASSUME NEW s, IsSequence(s), NEW e
    PROVE  /\ IsSequence(Append(s, e))
           /\ Len(s) \in Nat /\ DOMAIN s = 1..Len(s)
           /\ Len(Append(s, e)) = Len(s) + 1
           /\ DOMAIN Append(s, e) = 1..(Len(s) + 1)
           /\ \A k \in 1..Len(s) : Append(s, e)[k] = s[k]
           /\ Append(s, e)[Len(s) + 1] = e
<1>1. PICK S : s \in Seq(S)
  BY DEF IsSequence
<1>2. s \in Seq(S \cup {e})
  BY <1>1
<1>3. Append(s, e) \in Seq(S \cup {e})
  BY <1>2
<1> QED
  BY <1>2, <1>3 DEF IsSequence

\* The class of a liquidity profile is one of the five.
LEMMA ImbalanceIsClass ==
    ASSUME NEW capacity \in Nat, NEW local \in Nat, NEW remote \in Nat
    PROVE  /\ Imbalance(capacity, local, remote) \in
                  {"Unknown", "SeverelyDrained", "OutboundDrained", "InboundDrained", "Balanced"}
           /\ capacity > 0 /\ local <= capacity /\ remote <= capacity =>
                  Imbalance(capacity, local, remote) # "Unknown"
           /\ ~(capacity > 0 /\ local <= capacity /\ remote <= capacity) =>
                  Imbalance(capacity, local, remote) = "Unknown"
<1>1. LocalRatio(capacity, local) \in Int
  <2>1. CASE capacity = 0
    BY <2>1 DEF LocalRatio
  <2>2. CASE capacity # 0
    <3>1. capacity > 0 /\ local * 100 \in Int
      BY <2>2
    <3>2. (local * 100) \div capacity \in Int
      BY <3>1
    <3> QED
      BY <2>2, <3>2 DEF LocalRatio
  <2> QED
    BY <2>1, <2>2
<1> DEFINE r == LocalRatio(capacity, local)
<1>2. CASE capacity > 0 /\ local <= capacity /\ remote <= capacity
  <2>1. CASE r < 3 \/ r > 97
    BY <1>1, <1>2, <2>1 DEF Imbalance
  <2>2. CASE r >= 3 /\ r < 10
    BY <1>1, <1>2, <2>2 DEF Imbalance
  <2>3. CASE r > 90 /\ r <= 97
    BY <1>1, <1>2, <2>3 DEF Imbalance
  <2>4. CASE r >= 10 /\ r <= 90
    BY <1>1, <1>2, <2>4 DEF Imbalance
  <2> QED
    BY <1>1, <1>2, <2>1, <2>2, <2>3, <2>4
<1>3. CASE ~(capacity > 0 /\ local <= capacity /\ remote <= capacity)
  BY <1>3 DEF Imbalance
<1> QED
  BY <1>2, <1>3

\* The state that a drained channel's finding shows has one of two directions.
LEMMA DirectionIsKnown ==
    ASSUME NEW ch, ch.ratio \in Int,
           ch.imbalance \in {"SeverelyDrained", "OutboundDrained", "InboundDrained"}
    PROVE  Direction(ch) \in {"outbound", "inbound"}
<1>1. ch.imbalance = "SeverelyDrained" \/ ch.imbalance = "OutboundDrained" \/ ch.imbalance = "InboundDrained"
  OBVIOUS
<1>2. ch.ratio < 50 \/ ch.ratio >= 50
  OBVIOUS
<1> QED
  BY <1>1, <1>2 DEF Direction

\* The finding's snapshot is one of the two, and its time is theirs.
LEMMA ObservedAtIsTheSource ==
    ASSUME NEW i, IsInput(i)
    PROVE  /\ ObservedAt(i) = i.source_snapshot.ts /\ ObservedAt(i) \in Nat
           /\ FindingSnapshot(i) \in {i.source_snapshot, i.destination_snapshot}
  BY DEF IsInput, IsSnapshot, ObservedAt, FindingSnapshot

\* The two deltas of a projection of a validated input: one of the finding's
\* channel, one of the other, told apart by their channels.
LEMMA FindingDeltaIs ==
    ASSUME NEW i, IsInput(i), Validate(i)
    PROVE  /\ i.direction \in {"outbound", "inbound"}
           /\ i.direction = "outbound" =>
                 /\ FindingSnapshot(i) = i.destination_snapshot
                 /\ FindingDelta(i, Simulate(i)) =
                       Delta(i, i.destination_snapshot, i.destination_snapshot.local + i.amount,
                                                        i.destination_snapshot.remote - i.amount)
           /\ i.direction = "inbound" =>
                 /\ FindingSnapshot(i) = i.source_snapshot
                 /\ FindingDelta(i, Simulate(i)) =
                       Delta(i, i.source_snapshot, i.source_snapshot.local - i.amount,
                                                   i.source_snapshot.remote + i.amount)
<1> DEFINE give == Delta(i, i.source_snapshot, i.source_snapshot.local - i.amount,
                                               i.source_snapshot.remote + i.amount)
           take == Delta(i, i.destination_snapshot, i.destination_snapshot.local + i.amount,
                                                    i.destination_snapshot.remote - i.amount)
<1>1. Simulate(i).deltas = {give, take}
  BY DEF Simulate
<1>2. give.channel = i.source /\ take.channel = i.destination /\ i.source # i.destination
  BY DEF Delta, Validate, SnapshotsAreTheFindings
<1>3. i.direction \in {"outbound", "inbound"}
  BY DEF Validate, DirectionMatchesState
<1>4. CASE i.direction = "outbound"
  <2>1. i.finding_channel = i.destination
    BY <1>4 DEF Validate, SideMatchesDirection
  <2>2. FindingDelta(i, Simulate(i)) = take
    BY <1>1, <1>2, <2>1 DEF FindingDelta
  <2>3. FindingSnapshot(i) = i.destination_snapshot
    BY <2>1 DEF FindingSnapshot, Validate, SnapshotsAreTheFindings
  <2> QED
    BY <1>3, <1>4, <2>2, <2>3
<1>5. CASE i.direction = "inbound"
  <2>1. i.finding_channel = i.source
    BY <1>5 DEF Validate, SideMatchesDirection
  <2>2. FindingDelta(i, Simulate(i)) = give
    BY <1>1, <1>2, <2>1 DEF FindingDelta
  <2>3. FindingSnapshot(i) = i.source_snapshot
    BY <1>2, <2>1 DEF FindingSnapshot, Validate, SnapshotsAreTheFindings
  <2> QED
    BY <1>3, <1>5, <2>2, <2>3
<1> QED
  BY <1>3, <1>4, <1>5

\* The fields of a delta.
LEMMA DeltaIs ==
    ASSUME NEW i, NEW s, NEW local, NEW remote
    PROVE  LET d == Delta(i, s, local, remote)
           IN  /\ d.channel = s.channel /\ d.capacity = s.capacity
               /\ d.local_before = s.local /\ d.local_after = local
               /\ d.remote_before = s.remote /\ d.remote_after = remote
               /\ d.clears_finding <=> /\ i.finding_channel = s.channel
                                       /\ Imbalance(s.capacity, local, remote) = "Balanced"
  BY DEF Delta

\* What the finding's channel has after the projection.
LEMMA LocalAfterIs ==
    ASSUME NEW i, IsInput(i), Validate(i)
    PROVE  /\ i.direction = "outbound" =>
                 FindingDelta(i, Simulate(i)).local_after = i.destination_snapshot.local + i.amount
           /\ i.direction = "inbound" =>
                 FindingDelta(i, Simulate(i)).local_after = i.source_snapshot.local - i.amount
  BY FindingDeltaIs, DeltaIs

\* Opposite directions are read off disjoint classes.
LEMMA DirectionIsOfState ==
    ASSUME NEW i, NEW j, DirectionMatchesState(i), DirectionMatchesState(j),
           FindingSnapshot(i) = FindingSnapshot(j), FindingSnapshot(i).ratio \in Int
    PROVE  i.direction = j.direction
  BY DEF DirectionMatchesState

\* What leaves one channel reaches the other, within both capacities.
LEMMA ProjectionConserves ==
    ASSUME NEW i, IsInput(i), Validate(i), NEW d \in Simulate(i).deltas, NEW e \in Simulate(i).deltas
    PROVE  /\ d.local_after \in 0..d.capacity /\ d.remote_after \in 0..d.capacity
           /\ d.local_after + d.remote_after = d.local_before + d.remote_before
           /\ d # e => d.local_after + e.local_after = d.local_before + e.local_before
<1> DEFINE src == i.source_snapshot
           dst == i.destination_snapshot
           give == Delta(i, src, src.local - i.amount, src.remote + i.amount)
           take == Delta(i, dst, dst.local + i.amount, dst.remote - i.amount)
<1>1. d \in {give, take} /\ e \in {give, take}
  BY DEF Simulate
<1>2. /\ src.capacity \in Nat /\ src.local \in Nat /\ src.remote \in Nat
      /\ dst.capacity \in Nat /\ dst.local \in Nat /\ dst.remote \in Nat
      /\ i.amount \in Nat
  BY DEF IsInput, IsSnapshot
<1>3. /\ src.local + src.remote <= src.capacity /\ dst.local + dst.remote <= dst.capacity
      /\ i.amount <= src.local /\ i.amount <= dst.remote
      /\ dst.local + i.amount <= dst.capacity
  BY DEF Validate, ValidateSnapshot, AmountFits
<1>4. /\ give.capacity = src.capacity /\ give.local_after = src.local - i.amount
      /\ give.remote_after = src.remote + i.amount
      /\ give.local_before = src.local /\ give.remote_before = src.remote
  BY DEF Delta
<1>5. /\ take.capacity = dst.capacity /\ take.local_after = dst.local + i.amount
      /\ take.remote_after = dst.remote - i.amount
      /\ take.local_before = dst.local /\ take.remote_before = dst.remote
  BY DEF Delta
<1> HIDE DEF src, dst, give, take
<1>6. /\ give.local_after \in 0..give.capacity /\ give.remote_after \in 0..give.capacity
      /\ give.local_after + give.remote_after = give.local_before + give.remote_before
  BY <1>2, <1>3, <1>4
<1>7. /\ take.local_after \in 0..take.capacity /\ take.remote_after \in 0..take.capacity
      /\ take.local_after + take.remote_after = take.local_before + take.remote_before
  BY <1>2, <1>3, <1>5
<1>8. give.local_after + take.local_after = give.local_before + take.local_before
  BY <1>2, <1>4, <1>5
<1>9. take.local_after + give.local_after = take.local_before + give.local_before
  BY <1>2, <1>4, <1>5
<1> QED
  BY <1>1, <1>6, <1>7, <1>8, <1>9

\* A graph of one active channel has no liquidity finding exactly if its class
\* is balanced or unknown.
LEMMA DetectorIsSilent ==
    ASSUME NEW capacity \in Nat, NEW local \in Nat, NEW remote \in Nat, NEW t
    PROVE  LET ch == NormalizeChannel(RawChannel(TRUE, capacity, local, remote, {}), Node, t)
           IN  LiquidityRun([c \in {Target} |-> ch]) = {}
                  <=> Imbalance(capacity, local, remote) \in {"Balanced", "Unknown"}
<1> DEFINE ch == NormalizeChannel(RawChannel(TRUE, capacity, local, remote, {}), Node, t)
           graph == [c \in {Target} |-> ch]
<1>1. ch.imbalance = Imbalance(capacity, local, remote)
  BY DEF NormalizeChannel, RawChannel
<1>2. ch.status = "active"
  <2>1. ClassifyStatusBits({}) = "active"
    BY DEF ClassifyStatusBits
  <2> QED
    BY <2>1 DEF NormalizeChannel, RawChannel
<1> HIDE DEF ch
<1>3. ch # NoChannel
  BY <1>2 DEF NoChannel
<1>4. Open(graph) = {Target}
  BY <1>2, <1>3 DEF Open, Present, IsOpen
<1>5. Drained(graph) = {} <=> ch.imbalance \in {"Balanced", "Unknown"}
  BY <1>4 DEF Drained
<1>6. LiquidityRun(graph) = {} <=> Drained(graph) = {}
  BY DEF LiquidityRun
<1> QED
  BY <1>1, <1>5, <1>6 DEF ch

\* The finding's channel is cleared exactly if the detector would be silent on
\* it, and moves away from the drained side.
LEMMA ProjectionClears ==
    ASSUME NEW i, IsInput(i), Validate(i), NEW t
    PROVE  LET d == FindingDelta(i, Simulate(i))
               after == NormalizeChannel(RawChannel(TRUE, d.capacity, d.local_after, d.remote_after, {}),
                                         Node, t)
           IN  /\ d.clears_finding <=> LiquidityRun([c \in {Target} |-> after]) = {}
               /\ (d.local_after > d.local_before) <=> (i.direction = "outbound")
<1> DEFINE d == FindingDelta(i, Simulate(i))
           src == i.source_snapshot
           dst == i.destination_snapshot
<1>1. /\ src.capacity \in Nat /\ src.local \in Nat /\ src.remote \in Nat
      /\ dst.capacity \in Nat /\ dst.local \in Nat /\ dst.remote \in Nat
      /\ i.amount \in Nat
  BY DEF IsInput, IsSnapshot
<1>2. /\ src.local + src.remote <= src.capacity /\ dst.local + dst.remote <= dst.capacity
      /\ src.capacity > 0 /\ dst.capacity > 0
      /\ i.amount > 0 /\ i.amount <= src.local /\ i.amount <= dst.remote
      /\ dst.local + i.amount <= dst.capacity
  BY DEF Validate, ValidateSnapshot, AmountFits
<1>3. /\ d.capacity \in Nat /\ d.local_after \in Nat /\ d.remote_after \in Nat
      /\ d.capacity > 0 /\ d.local_after <= d.capacity /\ d.remote_after <= d.capacity
      /\ d.clears_finding <=> Imbalance(d.capacity, d.local_after, d.remote_after) = "Balanced"
      /\ (d.local_after > d.local_before) <=> (i.direction = "outbound")
  <2>1. CASE i.direction = "outbound"
    <3>1. d = Delta(i, dst, dst.local + i.amount, dst.remote - i.amount)
      BY <2>1, FindingDeltaIs
    <3>2. i.finding_channel = dst.channel
      BY <2>1 DEF Validate, SideMatchesDirection, SnapshotsAreTheFindings
    <3>3. /\ d.capacity = dst.capacity /\ d.local_before = dst.local
          /\ d.local_after = dst.local + i.amount /\ d.remote_after = dst.remote - i.amount
      BY <3>1, DeltaIs
    <3>4. d.clears_finding <=> Imbalance(d.capacity, d.local_after, d.remote_after) = "Balanced"
      BY <3>1, <3>2, <3>3, DeltaIs
    <3>5. /\ d.capacity \in Nat /\ d.local_after \in Nat /\ d.remote_after \in Nat
          /\ d.local_after <= d.capacity /\ d.remote_after <= d.capacity
      BY <1>1, <1>2, <3>3
    <3>6. (d.local_after > d.local_before) <=> (i.direction = "outbound")
      BY <1>1, <1>2, <2>1, <3>3
    <3> QED
      BY <1>2, <3>3, <3>4, <3>5, <3>6
  <2>2. CASE i.direction = "inbound"
    <3>1. d = Delta(i, src, src.local - i.amount, src.remote + i.amount)
      BY <2>2, FindingDeltaIs
    <3>2. i.finding_channel = src.channel
      BY <2>2 DEF Validate, SideMatchesDirection, SnapshotsAreTheFindings
    <3>3. /\ d.capacity = src.capacity /\ d.local_before = src.local
          /\ d.local_after = src.local - i.amount /\ d.remote_after = src.remote + i.amount
      BY <3>1, DeltaIs
    <3>4. d.clears_finding <=> Imbalance(d.capacity, d.local_after, d.remote_after) = "Balanced"
      BY <3>1, <3>2, <3>3, DeltaIs
    <3>5. /\ d.capacity \in Nat /\ d.local_after \in Nat /\ d.remote_after \in Nat
          /\ d.local_after <= d.capacity /\ d.remote_after <= d.capacity
      BY <1>1, <1>2, <3>3
    <3>6. (d.local_after > d.local_before) <=> (i.direction = "outbound")
      BY <1>1, <1>2, <2>2, <3>3
    <3> QED
      BY <1>2, <3>3, <3>4, <3>5, <3>6
  <2> QED
    BY <2>1, <2>2, FindingDeltaIs
<1> HIDE DEF d
<1>4. Imbalance(d.capacity, d.local_after, d.remote_after) # "Unknown"
  BY <1>3, ImbalanceIsClass
<1>5. LET after == NormalizeChannel(RawChannel(TRUE, d.capacity, d.local_after, d.remote_after, {}),
                                    Node, t)
      IN  LiquidityRun([c \in {Target} |-> after]) = {}
            <=> Imbalance(d.capacity, d.local_after, d.remote_after) \in {"Balanced", "Unknown"}
  BY <1>3, DetectorIsSilent
<1> QED
  BY <1>3, <1>4, <1>5 DEF d

\* Two projections on the same snapshots differ by the difference of the
\* amounts, in the finding's direction.
LEMMA ComparisonIs ==
    ASSUME NEW i, NEW j, IsInput(i), IsInput(j), Validate(i), Validate(j),
           i.source_snapshot = j.source_snapshot, i.destination_snapshot = j.destination_snapshot
    PROVE  FindingDelta(j, Simulate(j)).local_after - FindingDelta(i, Simulate(i)).local_after
              = (IF i.direction = "outbound" THEN 1 ELSE -1) * (j.amount - i.amount)
<1>1. FindingSnapshot(i) = FindingSnapshot(j)
  BY DEF FindingSnapshot, IsInput
<1>2. FindingSnapshot(i).ratio \in Int
  BY ObservedAtIsTheSource DEF Validate, ValidateSnapshot
<1>3. i.direction = j.direction
  BY <1>1, <1>2, DirectionIsOfState DEF Validate
<1>4. /\ i.source_snapshot.local \in Nat /\ i.destination_snapshot.local \in Nat
      /\ i.amount \in Nat /\ j.amount \in Nat
  BY DEF IsInput, IsSnapshot
<1>5. CASE i.direction = "outbound"
  <2>1. /\ FindingDelta(i, Simulate(i)).local_after = i.destination_snapshot.local + i.amount
        /\ FindingDelta(j, Simulate(j)).local_after = i.destination_snapshot.local + j.amount
    <3>1. FindingDelta(i, Simulate(i)).local_after = i.destination_snapshot.local + i.amount
      BY <1>5, LocalAfterIs
    <3>2. FindingDelta(j, Simulate(j)).local_after = j.destination_snapshot.local + j.amount
      BY <1>3, <1>5, LocalAfterIs
    <3> QED
      BY <3>1, <3>2
  <2> QED
    BY <1>4, <1>5, <2>1
<1>6. CASE i.direction = "inbound"
  <2>1. /\ FindingDelta(i, Simulate(i)).local_after = i.source_snapshot.local - i.amount
        /\ FindingDelta(j, Simulate(j)).local_after = i.source_snapshot.local - j.amount
    <3>1. FindingDelta(i, Simulate(i)).local_after = i.source_snapshot.local - i.amount
      BY <1>6, LocalAfterIs
    <3>2. FindingDelta(j, Simulate(j)).local_after = j.source_snapshot.local - j.amount
      BY <1>3, <1>6, LocalAfterIs
    <3> QED
      BY <3>1, <3>2
  <2> QED
    BY <1>4, <1>6, <2>1
<1> QED
  BY <1>5, <1>6, FindingDeltaIs

\* A channel without local balance is not balanced.
LEMMA EmptyIsNotBalanced ==
    ASSUME NEW capacity \in Nat, NEW remote \in Nat
    PROVE  Imbalance(capacity, 0, remote) # "Balanced"
<1>1. CASE capacity = 0
  BY <1>1, ImbalanceIsClass
<1>2. CASE capacity # 0
  <2>1. LocalRatio(capacity, 0) = 0
    <3>1. capacity \in Nat \ {0} /\ 0 * 100 = 0
      BY <1>2
    <3>2. 0 \div capacity = 0
      BY <3>1
    <3> QED
      BY <1>2, <3>1, <3>2 DEF LocalRatio
  <2> QED
    BY <1>2, <2>1 DEF Imbalance
<1> QED
  BY <1>1, <1>2

\* The balance a channel has at a ratio fits its capacity.
LEMMA AtRatioFits ==
    ASSUME NEW ch, IsSnapshot(ch), NEW ratio \in {10, 50}
    PROVE  /\ AtRatio(ch, ratio).local \in 0..ch.capacity
           /\ AtRatio(ch, ratio).delta = Distance(AtRatio(ch, ratio).local, ch.local)
           /\ AtRatio(ch, ratio).delta \in Nat
           /\ [AtRatio(ch, ratio) EXCEPT !.delta = AtRatio(ch, ratio).delta] = AtRatio(ch, ratio)
<1>1. Clamped(ratio) = ratio
  BY DEF Clamped
<1>2. ch.capacity \in Nat /\ ch.local \in Nat
  BY DEF IsSnapshot
<1>3. (ratio * ch.capacity) \div 100 \in 0..ch.capacity
  <2>1. CASE ratio = 10
    BY <1>2, <2>1
  <2>2. CASE ratio = 50
    BY <1>2, <2>2
  <2> QED
    BY <2>1, <2>2
<1> QED
  BY <1>1, <1>2, <1>3 DEF AtRatio, Distance

\* A later hop that is reported as balanced carries the amount.
LEMMA RouteHopFits ==
    ASSUME NEW ch, IsSnapshot(ch), NEW delta \in Nat, NEW n \in {1, 2}
    PROVE  LET hop == RouteHop(ch, n, delta)
           IN  /\ hop.delta = delta
               /\ hop.clears => hop.local \in 0..ch.capacity /\ Distance(hop.local, ch.local) = delta
<1> DEFINE hop == RouteHop(ch, n, delta)
<1>1. ch.capacity \in Nat /\ ch.local \in Nat
  BY DEF IsSnapshot
<1>2. hop.delta = delta
  BY DEF RouteHop
<1>3. \/ hop.local = ch.local + delta
      \/ ch.local > delta /\ hop.local = ch.local - delta
      \/ ch.local <= delta /\ hop.local = 0
  <2>1. 1 % 2 = 1 /\ 2 % 2 = 0
    OBVIOUS
  <2> QED
    BY <1>1, <2>1 DEF RouteHop
<1>4. /\ hop.local \in Nat /\ hop.remote \in Nat
      /\ hop.clears <=> Imbalance(ch.capacity, hop.local, hop.remote) = "Balanced"
  <2>1. hop.local \in Nat
    BY <1>1, <1>3
  <2>2. hop.remote = IF ch.capacity > hop.local THEN ch.capacity - hop.local ELSE 0
    BY DEF RouteHop
  <2>3. hop.clears <=> Imbalance(ch.capacity, hop.local, hop.remote) = "Balanced"
    BY DEF RouteHop
  <2> QED
    BY <1>1, <2>1, <2>2, <2>3
<1> HIDE DEF hop
<1>5. ASSUME hop.clears
      PROVE  hop.local \in 0..ch.capacity /\ Distance(hop.local, ch.local) = delta
  <2>1. hop.local <= ch.capacity
    BY <1>1, <1>4, <1>5, ImbalanceIsClass
  <2>2. hop.local # 0
    BY <1>1, <1>4, <1>5, EmptyIsNotBalanced
  <2> QED
    BY <1>1, <1>3, <1>4, <2>1, <2>2 DEF Distance
<1> QED
  BY <1>2, <1>5 DEF hop

\* The older route projection over a channel and twice another one.
HopsCarry(s, t, ratio) ==
    LET before == <<s, t, t>>
        hops == ProjectRebalanceRoute(s, ratio, before)
    IN  /\ hops[1] = Project(s, "rebalance_channel", TRUE, ratio)
        /\ \A k \in 1..3 : hops[k].clears =>
              /\ hops[k].local \in 0..before[k].capacity
              /\ Distance(hops[k].local, before[k].local) = hops[k].delta

\* Its first hop is the direct projection and every balanced hop carries the
\* amount.
LEMMA RouteHopsCarry ==
    ASSUME NEW s, NEW t, IsSnapshot(s), IsSnapshot(t), NEW ratio \in {10, 50}
    PROVE  HopsCarry(s, t, ratio)
<1> DEFINE before == <<s, t, t>>
           hops == ProjectRebalanceRoute(s, ratio, before)
           delta == AtRatio(s, ratio).delta
<1>1. Len(before) = 3 /\ before[1] = s /\ before[2] = t /\ before[3] = t
  OBVIOUS
<1>2. hops[1] = AtRatio(s, ratio)
  BY <1>1, AtRatioFits DEF ProjectRebalanceRoute
<1>3. hops[2] = RouteHop(t, 1, delta) /\ hops[3] = RouteHop(t, 2, delta)
  BY <1>1 DEF ProjectRebalanceRoute
<1>4. delta \in Nat
  BY AtRatioFits
<1>5. Project(s, "rebalance_channel", TRUE, ratio) = AtRatio(s, ratio)
  BY DEF Project, Supports
<1> HIDE DEF before, hops, delta
<1>6. hops[1].local \in 0..before[1].capacity /\ Distance(hops[1].local, before[1].local) = hops[1].delta
  BY <1>1, <1>2, AtRatioFits
<1>7. \A k \in {2, 3} : hops[k].clears =>
         hops[k].local \in 0..before[k].capacity /\ Distance(hops[k].local, before[k].local) = hops[k].delta
  BY <1>1, <1>3, <1>4, RouteHopFits
<1>8. 1..3 = {1, 2, 3}
  OBVIOUS
<1> QED
  BY <1>2, <1>5, <1>6, <1>7, <1>8 DEF HopsCarry, before, hops

-----------------------------------------------------------------------------
(* Requests.                                                               *)

\* An empty projection is not what a simulation computes.
LEMMA SimulatedIsProjection ==
    ASSUME NEW i
    PROVE  Simulate(i) # NoProjection
<1>1. Simulate(i).deltas # {}
  BY DEF Simulate
<1> QED
  BY <1>1 DEF NoProjection

\* evaluate_and_persist builds a run, which has no error exactly if it has a
\* projection, of input as fresh as the request asked for.
LEMMA EvaluatedRun ==
    ASSUME Sound, NEW cmd \in Commands, NEW i, IsInput(i)
    PROVE  LET rec == Evaluate(cmd, i)
           IN  /\ IsRun(rec) /\ rec.input = i /\ rec.requested_at = now
               /\ rec.error \in {"none"} \cup (ErrorKinds \ {"immutable"})
               /\ rec.projection # NoProjection <=> rec.error = "none"
               /\ rec.error = "none" => cmd.allow_stale \/ ~IsStaleAt(i, now, Freshness)
<1> DEFINE rec == Evaluate(cmd, i)
           run(status, error, projection) ==
               [input |-> i, status |-> status, error |-> error, projection |-> projection,
                source_observed_at |-> i.source_snapshot.ts, requested_at |-> now]
           stale == IsStaleAt(i, now, Freshness)
           Refusals == {<<"unsupported", "unsupported_recommendation">>,
                        <<"invalid_input", "future_dated_input">>,
                        <<"stale", "stale_input">>, <<"invalid_input", "invalid_input">>}
<1>1. \/ \E x \in Refusals : rec = run(x[1], x[2], NoProjection)
      \/ /\ Validate(i) /\ (stale => cmd.allow_stale)
         /\ \E status \in {"stale", "completed"} : rec = run(status, "none", Simulate(i))
  <2>1. cmd.allow_stale \in BOOLEAN
    BY SimulationAssumption
  <2>2. CASE ~Supports(i.type)
    <3>1. rec \in {run("unsupported", "unsupported_recommendation", NoProjection)}
      BY <2>2 DEF Evaluate
    <3> QED
      BY <3>1
  <2>3. CASE Supports(i.type) /\ IsFutureAt(i, now)
    <3>1. ~stale
      BY <2>3, ObservedAtIsTheSource, SimulationAssumption DEF IsFutureAt, IsStaleAt, Sound, TypeOK
    <3>2. rec \in {run("invalid_input", "future_dated_input", NoProjection)}
      BY <2>3, <3>1 DEF Evaluate
    <3> QED
      BY <3>2
  <2>4. CASE Supports(i.type) /\ ~IsFutureAt(i, now) /\ stale /\ ~cmd.allow_stale
    <3>1. rec \in {run("stale", "stale_input", NoProjection)}
      BY <2>4 DEF Evaluate
    <3> QED
      BY <3>1
  <2>5. CASE Supports(i.type) /\ ~IsFutureAt(i, now) /\ (stale => cmd.allow_stale)
    <3>1. rec = IF Validate(i) THEN run(IF stale THEN "stale" ELSE "completed", "none", Simulate(i))
                ELSE run("invalid_input", "invalid_input", NoProjection)
      BY <2>1, <2>5 DEF Evaluate
    <3> QED
      BY <2>5, <3>1
  <2> QED
    BY <2>1, <2>2, <2>3, <2>4, <2>5
<1> HIDE DEF rec
<1>2. CASE \E x \in Refusals : rec = run(x[1], x[2], NoProjection)
  BY <1>2 DEF IsRun, IsInput, RunStatuses, ErrorKinds, rec
<1>3. CASE /\ Validate(i) /\ (stale => cmd.allow_stale)
           /\ \E status \in {"stale", "completed"} : rec = run(status, "none", Simulate(i))
  BY <1>3, SimulatedIsProjection DEF IsRun, IsInput, RunStatuses, ErrorKinds, rec
<1> QED
  BY <1>1, <1>2, <1>3

\* What a request may be answered with: an error, an existing run that has a
\* projection and is fresh enough, or a new run of an input of which no run has
\* a projection.
Answers(cmd, r) ==
    \/ r.adds = {} /\ r.kind \in ErrorKinds \ {"immutable"}
    \/ /\ r.adds = {} /\ r.kind = "reused" /\ r.shows \in DOMAIN sims
       /\ cmd.allow_stale \/ ~IsStaleAt(sims[r.shows].input, now, Freshness)
    \/ \E rec :
          /\ r.adds = {rec} /\ IsRun(rec) /\ rec.requested_at = now
          /\ r.kind \in {"created"} \cup (ErrorKinds \ {"immutable"})
          /\ r.kind = "created" => cmd.allow_stale \/ ~IsStaleAt(rec.input, now, Freshness)
          /\ \A k \in DOMAIN sims : sims[k].input = rec.input => sims[k].projection = NoProjection

\* simulation_v2_by_input_hash finds the newest run of an input, if there is one.
LEMMA NewestRunIsFound ==
    ASSUME Sound, NEW i, NEW k, k = SimulationByInputHash(i)
    PROVE  \/ k = 0 /\ \A j \in DOMAIN sims : sims[j].input # i
           \/ /\ k \in DOMAIN sims /\ sims[k].input = i /\ k > 0
              /\ \A j \in DOMAIN sims : sims[j].input = i => j <= k
<1> DEFINE same == {j \in DOMAIN sims : sims[j].input = i}
<1>1. CASE same = {}
  BY <1>1 DEF SimulationByInputHash
<1>2. CASE same # {}
  <2>1. PICK j \in same : TRUE
    BY <1>2
  <2>2. \E m \in same : \A n \in same : n <= m
    BY <2>1 DEF Sound, StoredInv, NewestRunExists
  <2>3. k \in same /\ \A n \in same : n <= k
    BY <1>2, <2>2 DEF SimulationByInputHash
  <2>4. k > 0
    BY <2>3, AppendedSequence DEF Sound
  <2> QED
    BY <2>3, <2>4
<1> QED
  BY <1>1, <1>2

\* An existing run answers.
LEMMA ReuseAnswers ==
    ASSUME Sound, NEW cmd \in Commands, NEW k \in DOMAIN sims
    PROVE  Answers(cmd, ReuseExisting(cmd, k))
<1>1. cmd.allow_stale \in BOOLEAN
  BY SimulationAssumption
<1>2. IsRun(sims[k])
  BY DEF Sound, StoredInv
<1>3. CASE sims[k].projection # NoProjection
  BY <1>1, <1>3 DEF ReuseExisting, Answers, ErrorKinds
<1>4. CASE sims[k].projection = NoProjection
  <2>1. ErrorKindForView(sims[k]) \in ErrorKinds \ {"immutable"}
    BY <1>2, <1>4 DEF IsRun, ErrorKindForView, ErrorKinds
  <2> QED
    BY <1>4, <2>1 DEF ReuseExisting, Answers
<1> QED
  BY <1>3, <1>4

\* A new run answers, where no run of the input has a projection.
LEMMA PersistAnswers ==
    ASSUME Sound, NEW cmd \in Commands, NEW i, IsInput(i),
           \A k \in DOMAIN sims : sims[k].input = i => sims[k].projection = NoProjection
    PROVE  Answers(cmd, EvaluateAndPersist(cmd, i))
<1> DEFINE rec == Evaluate(cmd, i)
           r == EvaluateAndPersist(cmd, i)
<1>1. /\ IsRun(rec) /\ rec.input = i /\ rec.requested_at = now
      /\ rec.error \in {"none"} \cup (ErrorKinds \ {"immutable"})
      /\ rec.error = "none" => cmd.allow_stale \/ ~IsStaleAt(i, now, Freshness)
  BY EvaluatedRun
<1>2. ~SaveSimulationConflicts(rec)
  BY <1>1 DEF SaveSimulationConflicts
<1>3. r.adds = {rec} /\ r.kind = IF rec.error = "none" THEN "created" ELSE rec.error
  BY <1>2 DEF EvaluateAndPersist
<1> HIDE DEF rec, r
<1>4. r.kind \in {"created"} \cup (ErrorKinds \ {"immutable"})
  BY <1>1, <1>3
<1>5. r.kind = "created" => cmd.allow_stale \/ ~IsStaleAt(rec.input, now, Freshness)
  <2>1. "created" \notin ErrorKinds
    BY DEF ErrorKinds
  <2> QED
    BY <1>1, <1>3, <2>1
<1>6. \A k \in DOMAIN sims : sims[k].input = rec.input => sims[k].projection = NoProjection
  BY <1>1
<1>7. Answers(cmd, r)
  BY <1>1, <1>3, <1>4, <1>5, <1>6 DEF Answers
<1> QED
  BY <1>7 DEF r

\* create_in_transaction from an active finding on.
LEMMA ForFindingAnswers ==
    ASSUME Sound, NEW cmd \in Commands, NEW f, f.channel = Target, f.observed_at \in Nat
    PROVE  Answers(cmd, CreateForFinding(cmd, f))
<1> DEFINE source == SnapshotAt(f.node, cmd.source, f.observed_at)
           destination == SnapshotAt(f.node, cmd.destination, f.observed_at)
           s == CHOOSE x \in source : TRUE
           d == CHOOSE x \in destination : TRUE
           i == SimulationInput(cmd, f, s, d)
           k == SimulationByInputHash(i)
<1>1. CASE source = {} \/ destination = {}
  <2>1. CreateForFinding(cmd, f) = Refused(ContextOrUnsupported(cmd.rec, "snapshot_not_found"))
    BY <1>1 DEF CreateForFinding
  <2> QED
    BY <2>1 DEF ContextOrUnsupported, Refused, Answers, ErrorKinds
<1>2. CASE source # {} /\ destination # {}
  <2>1. s \in source /\ d \in destination
    BY <1>2
  <2>2. s \in snaps /\ d \in snaps /\ s.ts = f.observed_at /\ d.ts = f.observed_at
    BY <2>1 DEF SnapshotAt
  <2>3. cmd.amount \in Nat
    BY SimulationAssumption
  <2>4. /\ i.finding_channel = f.channel /\ i.source_snapshot = s /\ i.destination_snapshot = d
        /\ i.amount = cmd.amount
    BY DEF SimulationInput
  <2>5. IsInput(i)
    BY <2>2, <2>3, <2>4 DEF IsInput, Sound, StoredInv
  <2>6. CreateForFinding(cmd, f) =
           IF k = 0 \/ (k > 0 /\ sims[k].projection = NoProjection
                              /\ sims[k].status = "stale" /\ cmd.allow_stale)
           THEN EvaluateAndPersist(cmd, i) ELSE ReuseExisting(cmd, k)
    BY <1>2 DEF CreateForFinding
  <2> HIDE DEF i, k
  <2>7. \/ k = 0 /\ \A j \in DOMAIN sims : sims[j].input # i
        \/ /\ k \in DOMAIN sims /\ sims[k].input = i /\ k > 0
           /\ \A j \in DOMAIN sims : sims[j].input = i => j <= k
    BY NewestRunIsFound DEF k
  <2>8. CASE k = 0
    BY <2>5, <2>6, <2>7, <2>8, PersistAnswers
  <2>9. CASE /\ k > 0 /\ k \in DOMAIN sims /\ sims[k].input = i
             /\ \A j \in DOMAIN sims : sims[j].input = i => j <= k
    <3>1. CASE sims[k].projection = NoProjection /\ sims[k].status = "stale" /\ cmd.allow_stale
      <4>1. ASSUME NEW j \in DOMAIN sims, sims[j].input = i, sims[j].projection # NoProjection
            PROVE  FALSE
        <5>1. j <= k /\ k <= j
          BY <2>9, <4>1 DEF Sound, StoredInv, ProjectedRunIsLast
        <5>2. j \in Nat /\ k \in Nat
          BY <2>9, AppendedSequence DEF Sound
        <5>3. j = k
          BY <5>1, <5>2
        <5> QED
          BY <3>1, <4>1, <5>3
      <4> QED
        BY <2>5, <2>6, <2>9, <3>1, <4>1, PersistAnswers
    <3>2. CASE ~(sims[k].projection = NoProjection /\ sims[k].status = "stale" /\ cmd.allow_stale)
      <4>1. CreateForFinding(cmd, f) = ReuseExisting(cmd, k)
        BY <2>6, <2>9, <3>2
      <4> QED
        BY <2>9, <4>1, ReuseAnswers
    <3> QED
      BY <3>1, <3>2
  <2> QED
    BY <2>7, <2>8, <2>9
<1> QED
  BY <1>1, <1>2

\* create_in_transaction.
LEMMA TransactionAnswers ==
    ASSUME Sound, NEW cmd \in Commands
    PROVE  Answers(cmd, CreateInTransaction(cmd))
<1> DEFINE f == FindingOf(cmd.rec)
<1>1. f.lifecycle \in {"none", "resolved", "active"}
  BY DEF FindingOf, TrendFinding, Sound, TypeOK, NoFinding
<1>2. f.lifecycle = "active" => f.channel = Target /\ f.observed_at \in Nat
  BY DEF FindingOf, TrendFinding, Sound, StoredInv, FindingIsOfTarget, NoFinding
<1>3. CASE ~RecommendationExists(cmd.rec)
  BY <1>3 DEF CreateInTransaction, Refused, Answers, ErrorKinds
<1>4. CASE RecommendationExists(cmd.rec) /\ f.lifecycle \in {"none", "resolved"}
  <2>1. \E kind \in {"finding_not_found", "finding_inactive"} :
           CreateInTransaction(cmd) = Refused(ContextOrUnsupported(cmd.rec, kind))
    BY <1>4 DEF CreateInTransaction
  <2> QED
    BY <2>1 DEF ContextOrUnsupported, Refused, Answers, ErrorKinds
<1>5. CASE RecommendationExists(cmd.rec) /\ f.lifecycle = "active"
  <2>1. CreateInTransaction(cmd) = IF Supports(TypeOf(cmd.rec)) /\ ~ParsesDirection(f)
                                   THEN Refused("unsupported_recommendation")
                                   ELSE CreateForFinding(cmd, f)
    BY <1>5 DEF CreateInTransaction
  <2>2. Answers(cmd, Refused("unsupported_recommendation"))
    BY DEF Refused, Answers, ErrorKinds
  <2>3. Answers(cmd, CreateForFinding(cmd, f))
    BY <1>2, <1>5, ForFindingAnswers
  <2> QED
    BY <2>1, <2>2, <2>3
<1> QED
  BY <1>1, <1>3, <1>4, <1>5

-----------------------------------------------------------------------------
(* The steps.                                                              *)

\* Initially nothing is stored.
LEMMA SimulationsInit == Init => Sound
<1> SUFFICES ASSUME Init PROVE Sound
  OBVIOUS
<1>1. IsSequence(sims) /\ IsSequence(events)
  BY DEF Init, IsSequence
<1>2. TypeOK
  <2>1. 0 \in 0..MaxTime /\ 0 \in 0..MaxFaults
    BY SimulationAssumption
  <2>2. DOMAIN sims = {} /\ Len(sims) = Len(events)
    BY DEF Init
  <2> QED
    BY <2>1, <2>2 DEF Init, TypeOK
<1>3. StoredInv
  BY DEF Init, StoredInv, FindingIsOfTarget, ProjectedRunIsLast, NewestRunExists,
         EventsFollowRecord, RepeatIsNeverRejected, ServedProjectionIsFresh, NoAnswer
<1> QED
  BY <1>1, <1>2, <1>3 DEF Sound

\* A run is stored with its events: the invariant of the two tables.
LEMMA PersistStep ==
    ASSUME Sound, NEW rec, IsRun(rec), PersistOutcome(rec),
           \A k \in DOMAIN sims : sims[k].input = rec.input => sims[k].projection = NoProjection
    PROVE  /\ IsSequence(sims)' /\ IsSequence(events)'
           /\ Len(sims)' = Len(sims) + 1 /\ Len(sims)' = Len(events)'
           /\ Len(sims) \in Nat /\ Len(sims)' \in DOMAIN sims' /\ sims'[Len(sims)'] = rec
           /\ \A k \in DOMAIN sims' : k = Len(sims)' \/ (k \in DOMAIN sims /\ sims'[k] = sims[k])
           /\ \A k \in DOMAIN sims' : IsRun(sims'[k])
           /\ ProjectedRunIsLast' /\ NewestRunExists' /\ EventsFollowRecord'
<1> DEFINE n == Len(sims) + 1
<1>1. /\ sims' = Append(sims, rec) /\ events' = Append(events, <<"requested", rec.status>>)
      /\ Len(events) = Len(sims)
  BY DEF PersistOutcome, Sound, TypeOK
<1>2. /\ IsSequence(sims)' /\ Len(sims) \in Nat /\ DOMAIN sims = 1..Len(sims)
      /\ Len(sims)' = n /\ DOMAIN sims' = 1..n
      /\ \A k \in 1..Len(sims) : sims'[k] = sims[k]
      /\ sims'[n] = rec
  BY <1>1, AppendedSequence DEF Sound
<1>3. /\ IsSequence(events)' /\ Len(events)' = n
      /\ \A k \in 1..Len(sims) : events'[k] = events[k]
      /\ events'[n] = <<"requested", rec.status>>
  BY <1>1, AppendedSequence DEF Sound
<1>4. \A k \in DOMAIN sims' : k = n \/ (k \in DOMAIN sims /\ sims'[k] = sims[k] /\ k < n)
  BY <1>2
<1>5. \A k \in DOMAIN sims' : IsRun(sims'[k])
  BY <1>2, <1>4 DEF Sound, StoredInv
<1>6. ProjectedRunIsLast'
  <2>1. SUFFICES ASSUME NEW j \in DOMAIN sims', NEW k \in DOMAIN sims',
                        sims'[j].input = sims'[k].input, sims'[j].projection # NoProjection
                 PROVE  k <= j
    BY DEF ProjectedRunIsLast
  <2>2. CASE j = n
    BY <1>2, <2>2
  <2>3. CASE j # n /\ k = n
    BY <1>2, <1>4, <2>1, <2>3
  <2>4. CASE j # n /\ k # n
    BY <1>4, <2>1, <2>4 DEF Sound, StoredInv, ProjectedRunIsLast
  <2> QED
    BY <2>2, <2>3, <2>4
<1>7. NewestRunExists'
  <2>1. SUFFICES ASSUME NEW k \in DOMAIN sims'
                 PROVE  \E m \in DOMAIN sims' :
                           /\ sims'[m].input = sims'[k].input
                           /\ \A j \in DOMAIN sims' : sims'[j].input = sims'[k].input => j <= m
    BY DEF NewestRunExists
  <2>2. CASE sims'[k].input = rec.input
    <3>1. n \in DOMAIN sims' /\ sims'[n].input = sims'[k].input /\ \A j \in DOMAIN sims' : j <= n
      BY <1>2, <2>2
    <3> QED
      BY <3>1
  <2>3. CASE sims'[k].input # rec.input
    <3>1. k \in DOMAIN sims /\ sims'[k] = sims[k]
      BY <1>2, <1>4, <2>3
    <3>2. PICK m \in DOMAIN sims :
             /\ sims[m].input = sims[k].input
             /\ \A j \in DOMAIN sims : sims[j].input = sims[k].input => j <= m
      BY <3>1 DEF Sound, StoredInv, NewestRunExists
    <3>3. m \in DOMAIN sims' /\ sims'[m] = sims[m]
      BY <1>2
    <3> QED
      BY <1>2, <1>4, <2>3, <3>1, <3>2, <3>3
  <2> QED
    BY <2>2, <2>3
<1>8. EventsFollowRecord'
  <2>1. \A k \in DOMAIN sims : events[k] = <<"requested", sims[k].status>>
    BY DEF Sound, StoredInv, EventsFollowRecord
  <2> QED
    BY <1>2, <1>3, <1>4, <2>1 DEF EventsFollowRecord
<1> QED
  BY <1>2, <1>3, <1>4, <1>5, <1>6, <1>7, <1>8

\* Where nothing is stored and the answer names no run, the invariant is kept.
LEMMA RefusedStep ==
    ASSUME Sound, UNCHANGED <<Tables, sims, events>>, stuck' \in BOOLEAN, faults' \in 0..MaxFaults,
           answer' = answer \/ answer' = NoAnswer
              \/ (\E kind \in ErrorKinds \ {"immutable"} : answer' = [kind |-> kind])
    PROVE  Sound'
<1>1. \/ answer' = answer
      \/ answer'.kind \notin {"created", "reused", "immutable"}
         /\ (answer' = NoAnswer \/ answer'.kind \in ErrorKinds)
  BY DEF NoAnswer, ErrorKinds
<1>2. TypeOK'
  BY <1>1 DEF Sound, TypeOK, Tables
<1>3. RepeatIsNeverRejected' /\ ServedProjectionIsFresh'
  BY <1>1 DEF Sound, StoredInv, RepeatIsNeverRejected, ServedProjectionIsFresh, Tables
<1>4. StoredInv'
  BY <1>3 DEF Sound, StoredInv, FindingIsOfTarget, ProjectedRunIsLast, NewestRunExists,
              EventsFollowRecord, Tables
<1> QED
  BY <1>2, <1>4 DEF Sound

\* create_simulation.
LEMMA CreateStep ==
    ASSUME Sound, NEW cmd \in Commands, CreateSimulation(cmd)
    PROVE  Sound'
<1> DEFINE r == CreateInTransaction(cmd)
<1>1. cmd.allow_stale \in BOOLEAN
  BY SimulationAssumption
<1>2. {"storage", "invalid_request"} \subseteq ErrorKinds \ {"immutable"}
      /\ "created" \notin ErrorKinds /\ "reused" \notin ErrorKinds
  BY DEF ErrorKinds
<1>3. CASE CreateRefused(cmd)
  <2>1. answer' \in {[kind |-> "storage"], [kind |-> "invalid_request"]}
    BY <1>3 DEF CreateRefused, Answered
  <2> QED
    BY <1>2, <1>3, <2>1, RefusedStep DEF CreateRefused, Sound, TypeOK
<1>4. CASE CreateFails(cmd, r) \/ \E by \in {"api", "command"} : RollbackFails(by, cmd, r)
  <2>1. answer' = [kind |-> "storage"]
    BY <1>4 DEF CreateFails, RollbackFails, Answered
  <2>2. UNCHANGED <<Tables, sims, events>> /\ faults' = faults + 1 /\ faults < MaxFaults
    BY <1>4 DEF CreateFails, RollbackFails
  <2>3. stuck' \in BOOLEAN
    BY <1>4 DEF CreateFails, RollbackFails, Sound, TypeOK
  <2>4. faults' \in 0..MaxFaults
    BY <2>2, SimulationAssumption DEF Sound, TypeOK
  <2> QED
    BY <1>2, <2>1, <2>2, <2>3, <2>4, RefusedStep
<1>5. CASE CreateEnds(cmd, r)
  <2>1. Answers(cmd, r)
    BY TransactionAnswers
  <2>2. UNCHANGED <<Tables, stuck, faults>>
    BY <1>5 DEF CreateEnds
  <2> HIDE DEF r
  <2>3. CASE r.adds = {} /\ r.kind \in ErrorKinds \ {"immutable"}
    <3>1. UNCHANGED <<sims, events>> /\ answer' = [kind |-> r.kind]
      BY <1>2, <1>5, <2>3 DEF CreateEnds, Answered
    <3> QED
      BY <2>2, <2>3, <3>1, RefusedStep DEF Sound, TypeOK
  <2>4. CASE /\ r.adds = {} /\ r.kind = "reused" /\ r.shows \in DOMAIN sims
             /\ cmd.allow_stale \/ ~IsStaleAt(sims[r.shows].input, now, Freshness)
    <3>1. /\ UNCHANGED <<sims, events>>
          /\ answer' = [kind |-> "reused", sim |-> r.shows, allow_stale |-> cmd.allow_stale]
      BY <1>5, <2>4 DEF CreateEnds, Answered
    <3>2. TypeOK'
      BY <2>2, <3>1 DEF Sound, TypeOK, Tables
    <3>3. RepeatIsNeverRejected' /\ ServedProjectionIsFresh'
      BY <2>2, <2>4, <3>1 DEF RepeatIsNeverRejected, ServedProjectionIsFresh, Tables
    <3>4. StoredInv'
      BY <2>2, <3>1, <3>3 DEF Sound, StoredInv, FindingIsOfTarget, ProjectedRunIsLast,
                              NewestRunExists, EventsFollowRecord, Tables
    <3> QED
      BY <3>1, <3>2, <3>4 DEF Sound
  <2>5. CASE \E rec :
                /\ r.adds = {rec} /\ IsRun(rec) /\ rec.requested_at = now
                /\ r.kind \in {"created"} \cup (ErrorKinds \ {"immutable"})
                /\ r.kind = "created" => cmd.allow_stale \/ ~IsStaleAt(rec.input, now, Freshness)
                /\ \A k \in DOMAIN sims : sims[k].input = rec.input => sims[k].projection = NoProjection
    <3>1. PICK rec :
             /\ r.adds = {rec} /\ IsRun(rec) /\ rec.requested_at = now
             /\ r.kind \in {"created"} \cup (ErrorKinds \ {"immutable"})
             /\ r.kind = "created" => cmd.allow_stale \/ ~IsStaleAt(rec.input, now, Freshness)
             /\ \A k \in DOMAIN sims : sims[k].input = rec.input => sims[k].projection = NoProjection
      BY <2>5
    <3>2. PersistOutcome(rec) /\ Answered(r.kind, Len(sims) + 1, cmd)
      BY <1>5, <3>1 DEF CreateEnds
    <3>3. /\ IsSequence(sims)' /\ IsSequence(events)'
          /\ Len(sims)' = Len(sims) + 1 /\ Len(sims)' = Len(events)'
          /\ Len(sims) \in Nat /\ Len(sims)' \in DOMAIN sims' /\ sims'[Len(sims)'] = rec
          /\ \A k \in DOMAIN sims' : k = Len(sims)' \/ (k \in DOMAIN sims /\ sims'[k] = sims[k])
          /\ \A k \in DOMAIN sims' : IsRun(sims'[k])
          /\ ProjectedRunIsLast' /\ NewestRunExists' /\ EventsFollowRecord'
      BY <3>1, <3>2, PersistStep
    <3>4. \/ r.kind = "created"
             /\ answer' = [kind |-> "created", sim |-> Len(sims)', allow_stale |-> cmd.allow_stale]
          \/ r.kind \in ErrorKinds \ {"immutable"} /\ answer' = [kind |-> r.kind]
      BY <1>2, <3>1, <3>2, <3>3 DEF Answered
    <3>5. answer'.kind \in {"created"} \cup (ErrorKinds \ {"immutable"})
      BY <3>4
    <3>6. TypeOK'
      <4>1. \A k \in DOMAIN sims' : sims'[k].status \in RunStatuses /\ sims'[k].requested_at \in 0..now'
        BY <2>2, <3>1, <3>3 DEF Sound, TypeOK, Tables, IsRun
      <4> QED
        BY <2>2, <3>3, <3>5, <4>1 DEF Sound, TypeOK, Tables
    <3>7. RepeatIsNeverRejected'
      BY <3>5, <1>2 DEF RepeatIsNeverRejected
    <3>8. ServedProjectionIsFresh'
      BY <1>1, <1>2, <2>2, <3>1, <3>3, <3>4 DEF ServedProjectionIsFresh, Tables
    <3>9. StoredInv'
      BY <2>2, <3>3, <3>7, <3>8 DEF Sound, StoredInv, FindingIsOfTarget, Tables
    <3> QED
      BY <3>3, <3>6, <3>9 DEF Sound
  <2> QED
    BY <2>1, <2>3, <2>4, <2>5 DEF Answers
<1> QED
  BY <1>3, <1>4, <1>5 DEF CreateSimulation

\* A step that stores no run and forgets the answer.
LEMMA QuietStep ==
    ASSUME Sound, UNCHANGED <<sims, events, faults>>, answer' = NoAnswer, stuck' \in BOOLEAN,
           now' \in 0..MaxTime, now <= now',
           \A s \in snaps' : IsSnapshot(s), FindingIsOfTarget',
           finding' # NoFinding =>
              finding'.lifecycle \in {"active", "resolved"} /\ finding'.direction \in {"outbound", "inbound"},
           recs' \subseteq {"rebalance_channel", "update_fee_policy"}
    PROVE  Sound'
<1>1. \A k \in DOMAIN sims : sims[k].requested_at \in 0..now'
  BY SimulationAssumption DEF Sound, TypeOK
<1>2. TypeOK'
  BY <1>1 DEF Sound, TypeOK
<1>3. RepeatIsNeverRejected' /\ ServedProjectionIsFresh'
  BY DEF NoAnswer, RepeatIsNeverRejected, ServedProjectionIsFresh
<1>4. StoredInv'
  BY <1>3 DEF Sound, StoredInv, ProjectedRunIsLast, NewestRunExists, EventsFollowRecord
<1> QED
  BY <1>2, <1>4 DEF Sound

\* A ratio is a number.
LEMMA RatioIsInt ==
    ASSUME NEW capacity \in Nat, NEW local \in Nat
    PROVE  LocalRatio(capacity, local) \in Int
<1>1. CASE capacity = 0
  BY <1>1 DEF LocalRatio
<1>2. CASE capacity # 0
  <2>1. capacity > 0 /\ local * 100 \in Int
    BY <1>2
  <2>2. (local * 100) \div capacity \in Int
    BY <2>1
  <2> QED
    BY <1>2, <2>2 DEF LocalRatio
<1> QED
  BY <1>1, <1>2

\* The fields of a normalized channel.
LEMMA NormalizedIs ==
    ASSUME NEW raw, NEW node, NEW t
    PROVE  LET capacity == IF raw.capacity < 0 THEN 0 ELSE raw.capacity
               ch == NormalizeChannel(raw, node, t)
           IN  /\ ch.last_seen = t /\ ch.capacity = capacity
               /\ ch.local = raw.local /\ ch.remote = raw.remote
               /\ ch.ratio = LocalRatio(capacity, raw.local)
               /\ ch.imbalance = Imbalance(capacity, raw.local, raw.remote)
  BY DEF NormalizeChannel

\* One cycle of the monitor.
LEMMA ObserveStep ==
    ASSUME Sound, NEW report \in Reports, Observe(report)
    PROVE  Sound'
<1> DEFINE graph == [c \in Channels |-> IF Malformed(report.channels[c]) THEN NoChannel
                                        ELSE NormalizeChannel(report.channels[c], report.node, now)]
           snapshot(c) == ChannelSnapshot(c, report.node, graph[c], Reserve)
           found == {f \in LiquidityRun(graph) : f.channel = Target}
<1>1. /\ snaps' = snaps \cup {snapshot(c) : c \in Present(graph)}
      /\ \/ UNCHANGED <<finding, recs>>
         \/ \E f \in found :
               /\ finding' = [detector |-> f.detector, lifecycle |-> "active", node |-> Node,
                              channel |-> Target, direction |-> f.evidence.direction,
                              observed_at |-> now, digest |-> StateDigest(snapshot(Target))]
               /\ recs' = recs \cup {r.type : r \in Recommend(f)}
      /\ answer' = NoAnswer /\ UNCHANGED <<now, sims, events, stuck, faults>>
  BY DEF Observe
<1>2. now \in Nat /\ now \in 0..MaxTime
  BY SimulationAssumption DEF Sound, TypeOK
<1>3. ASSUME NEW c \in Present(graph)
      PROVE  /\ c \in Channels /\ graph[c].last_seen = now
             /\ graph[c].capacity \in Nat /\ graph[c].local \in Nat /\ graph[c].remote \in Nat
             /\ graph[c].ratio \in Int
             /\ graph[c].imbalance \in
                   {"Unknown", "SeverelyDrained", "OutboundDrained", "InboundDrained", "Balanced"}
  <2> DEFINE raw == report.channels[c]
             capacity == IF raw.capacity < 0 THEN 0 ELSE raw.capacity
  <2>1. c \in Channels /\ graph[c] # NoChannel
    BY DEF Present
  <2>2. ~Malformed(raw) /\ graph[c] = NormalizeChannel(raw, report.node, now)
    BY <2>1
  <2>3. raw.capacity \in Int /\ raw.local \in Int /\ raw.remote \in Int
    BY <2>1, SimulationAssumption
  <2>4. capacity \in Nat /\ raw.local \in Nat /\ raw.remote \in Nat
    BY <2>2, <2>3 DEF Malformed
  <2>5. /\ graph[c].last_seen = now /\ graph[c].capacity = capacity
        /\ graph[c].local = raw.local /\ graph[c].remote = raw.remote
        /\ graph[c].ratio = LocalRatio(capacity, raw.local)
        /\ graph[c].imbalance = Imbalance(capacity, raw.local, raw.remote)
    BY <2>2, NormalizedIs
  <2> HIDE DEF raw, capacity, graph
  <2> QED
    BY <2>1, <2>4, <2>5, RatioIsInt, ImbalanceIsClass
<1> HIDE DEF graph
<1>4. \A s \in snaps' : IsSnapshot(s)
  <2>1. ASSUME NEW c \in Present(graph) PROVE IsSnapshot(snapshot(c))
    BY <1>2, <1>3 DEF ChannelSnapshot, IsSnapshot
  <2> QED
    BY <1>1, <2>1 DEF Sound, StoredInv
<1>5. ASSUME NEW f \in found
      PROVE  f.evidence.direction \in {"outbound", "inbound"}
             /\ {r.type : r \in Recommend(f)} \subseteq {"rebalance_channel", "update_fee_policy"}
  <2>1. PICK c \in Drained(graph) :
           /\ f.detector = "channel_liquidity" /\ f.channel = c
           /\ f.evidence.direction = Direction(graph[c])
    BY DEF LiquidityRun, Finding
  <2>2. c \in Present(graph) /\ graph[c].imbalance \notin {"Balanced", "Unknown"}
    BY DEF Drained, Open
  <2>3. Direction(graph[c]) \in {"outbound", "inbound"}
    BY <1>3, <2>2, DirectionIsKnown
  <2>4. Recommend(f) = RecommendLiquidity(f)
    BY <2>1 DEF Recommend
  <2>5. \A r \in Recommend(f) : r.type \in {"rebalance_channel", "update_fee_policy"}
    BY <2>4 DEF RecommendLiquidity, RebalanceReview, FeeReview, Review
  <2> QED
    BY <2>1, <2>3, <2>5
<1>6. /\ FindingIsOfTarget'
      /\ finding' # NoFinding =>
            finding'.lifecycle \in {"active", "resolved"} /\ finding'.direction \in {"outbound", "inbound"}
      /\ recs' \subseteq {"rebalance_channel", "update_fee_policy"}
  <2>1. CASE UNCHANGED <<finding, recs>>
    BY <2>1 DEF Sound, TypeOK, StoredInv, FindingIsOfTarget
  <2>2. CASE ~UNCHANGED <<finding, recs>>
    <3>1. PICK f \in found :
             /\ finding' = [detector |-> f.detector, lifecycle |-> "active", node |-> Node,
                            channel |-> Target, direction |-> f.evidence.direction,
                            observed_at |-> now, digest |-> StateDigest(snapshot(Target))]
             /\ recs' = recs \cup {r.type : r \in Recommend(f)}
      BY <1>1, <2>2
    <3> HIDE DEF found
    <3>2. /\ finding'.channel = Target /\ finding'.node = Node /\ finding'.observed_at = now
          /\ finding'.lifecycle = "active" /\ finding'.direction = f.evidence.direction
      BY <3>1
    <3>3. recs' \subseteq {"rebalance_channel", "update_fee_policy"}
      BY <1>5, <3>1 DEF Sound, TypeOK
    <3> QED
      BY <1>2, <1>5, <3>2, <3>3 DEF FindingIsOfTarget
  <2> QED
    BY <2>1, <2>2
<1> QED
  BY <1>1, <1>2, <1>4, <1>6, QuietStep DEF Sound, TypeOK

\* The clock, the restart, the resolution and the retention.
LEMMA OtherStep ==
    ASSUME Sound, RestartApi \/ Tick \/ Resolve \/ Prune
    PROVE  Sound'
<1>1. /\ UNCHANGED <<sims, events, faults>> /\ answer' = NoAnswer /\ stuck' \in BOOLEAN
      /\ recs' = recs /\ snaps' \subseteq snaps
  BY DEF RestartApi, Tick, Resolve, Prune, Tables, Sound, TypeOK
<1>2. now' \in 0..MaxTime /\ now <= now'
  BY SimulationAssumption DEF RestartApi, Tick, Resolve, Prune, Tables, Sound, TypeOK
<1>3. \/ finding' = finding
      \/ finding.lifecycle = "active" /\ finding' = [finding EXCEPT !.lifecycle = "resolved"]
  BY DEF RestartApi, Tick, Resolve, Prune, Tables
<1>4. /\ FindingIsOfTarget'
      /\ finding' # NoFinding =>
            finding'.lifecycle \in {"active", "resolved"} /\ finding'.direction \in {"outbound", "inbound"}
  <2>1. CASE finding' = finding
    BY <2>1 DEF Sound, TypeOK, StoredInv, FindingIsOfTarget
  <2>2. CASE finding.lifecycle = "active" /\ finding' = [finding EXCEPT !.lifecycle = "resolved"]
    <3>1. finding # NoFinding
      BY <2>2 DEF NoFinding
    <3>2. /\ finding.channel = Target /\ finding.node = Node /\ finding.observed_at \in Nat
          /\ finding.direction \in {"outbound", "inbound"}
      BY <3>1 DEF Sound, TypeOK, StoredInv, FindingIsOfTarget
    <3>3. /\ finding'.channel = finding.channel /\ finding'.node = finding.node
          /\ finding'.observed_at = finding.observed_at /\ finding'.direction = finding.direction
          /\ finding'.lifecycle \in {"active", "resolved"}
      BY <2>2
    <3> QED
      BY <3>2, <3>3 DEF FindingIsOfTarget
  <2> QED
    BY <1>3, <2>1, <2>2
<1>5. \A s \in snaps' : IsSnapshot(s)
  BY <1>1 DEF Sound, StoredInv
<1>6. recs' \subseteq {"rebalance_channel", "update_fee_policy"}
  BY <1>1 DEF Sound, TypeOK
<1> QED
  BY <1>1, <1>2, <1>4, <1>5, <1>6, QuietStep

-----------------------------------------------------------------------------
(* The theorems.                                                           *)

\* Every step preserves the invariant.
LEMMA SimulationsInvariant == Spec => []Sound
<1>1. Sound /\ [Next]_vars => Sound'
  <2> SUFFICES ASSUME Sound, [Next]_vars PROVE Sound'
    OBVIOUS
  <2>1. ASSUME NEW cmd \in Commands, CreateSimulation(cmd) PROVE Sound'
    BY <2>1, CreateStep
  <2>2. ASSUME NEW report \in Reports, Observe(report) PROVE Sound'
    BY <2>2, ObserveStep
  <2>3. CASE RestartApi \/ Tick \/ Resolve \/ Prune
    BY <2>3, OtherStep
  <2>4. CASE UNCHANGED vars
    <3>1. UNCHANGED <<now, snaps, finding, recs, sims, events, stuck, faults, answer>>
      BY <2>4 DEF vars
    <3> QED
      BY <3>1, RefusedStep DEF Tables, Sound, TypeOK
  <2> QED
    BY <2>1, <2>2, <2>3, <2>4 DEF Next
<1> QED
  BY <1>1, SimulationsInit, PTL DEF Spec

\* Every variable of the simulation service has its type; in particular every
\* answer is one of the documented kinds.
THEOREM SimulationTypes == Spec => []TypeOK
<1>1. Sound => TypeOK
  BY DEF Sound
<1> QED
  BY <1>1, SimulationsInvariant, PTL

\* A request that did not allow stale input is answered with no projection of
\* snapshots older than the freshness bound (create_in_transaction and
\* evaluate_and_persist of rieko-simulation-app).
THEOREM ServedIsFresh == Spec => []ServedProjectionIsFresh
<1>1. Sound => ServedProjectionIsFresh
  BY DEF Sound, StoredInv
<1> QED
  BY <1>1, SimulationsInvariant, PTL

\* Both generations of routes show one status for every run, at every time:
\* the two snapshots of an input are of one observation.
LEMMA RoutesShowOneStatus == Sound => RoutesAgree
<1> SUFFICES ASSUME Sound, NEW k \in DOMAIN sims
             PROVE  ViewStatus(sims[k], now) = SimulationValueStatus(sims[k], now)
  BY DEF RoutesAgree
<1>1. IsRun(sims[k])
  BY DEF Sound, StoredInv
<1>2. ObservedAt(sims[k].input) = sims[k].source_observed_at
  BY <1>1, ObservedAtIsTheSource DEF IsRun
<1> QED
  BY <1>2 DEF ViewStatus, SimulationValueStatus, IsStaleAt

\* Records and events are written together, no repeated request runs into the
\* unique index of the simulations table, and all routes agree (persist_outcome,
\* simulation_v2_by_input_hash, simulation_view).
THEOREM StoredRunsAreCoherent == Spec => []RunsAreCoherent
<1>1. Sound => RunsAreCoherent
  BY RoutesShowOneStatus DEF Sound, StoredInv, RunsAreCoherent
<1> QED
  BY <1>1, SimulationsInvariant, PTL

\* What a projection promises is what the detector of the next cycle sees, it
\* conserves funds, comparisons show the difference of the amounts, and a
\* balanced hop carries the amount (model.rs and lib.rs of rieko-simulation).
THEOREM ProjectionsKeepTheirPromise == Spec => []ProjectionsAreSound
<1>1. ASSUME Sound PROVE ProjectionsAreSound
  <2>1. ASSUME NEW k \in DOMAIN sims, sims[k].projection # NoProjection
        PROVE  /\ IsInput(sims[k].input) /\ Validate(sims[k].input)
               /\ sims[k].projection = Simulate(sims[k].input)
    BY <1>1, <2>1 DEF Sound, StoredInv, IsRun
  <2>2. ProjectionConservesFunds
    <3>1. SUFFICES ASSUME NEW k \in DOMAIN sims,
                          NEW d \in sims[k].projection.deltas, NEW e \in sims[k].projection.deltas
                   PROVE  /\ d.local_after \in 0..d.capacity /\ d.remote_after \in 0..d.capacity
                          /\ d.local_after + d.remote_after = d.local_before + d.remote_before
                          /\ d # e => d.local_after + e.local_after = d.local_before + e.local_before
      BY DEF ProjectionConservesFunds
    <3>2. sims[k].projection # NoProjection
      BY DEF NoProjection
    <3> QED
      BY <2>1, <3>2, ProjectionConserves
  <2>3. ClearsIfDetectorIsSilent
    <3>1. ASSUME NEW k \in DOMAIN sims, sims[k].projection # NoProjection
          PROVE  LET i == sims[k].input
                     d == FindingDelta(i, sims[k].projection)
                     after == NormalizeChannel(RawChannel(TRUE, d.capacity, d.local_after,
                                                          d.remote_after, {}), Node, now)
                 IN  /\ d.clears_finding <=> LiquidityRun([c \in {Target} |-> after]) = {}
                     /\ (d.local_after > d.local_before) <=> (i.direction = "outbound")
      <4> DEFINE i == sims[k].input
      <4>1. IsInput(i) /\ Validate(i) /\ sims[k].projection = Simulate(i)
        BY <2>1, <3>1
      <4> HIDE DEF i
      <4>2. LET d == FindingDelta(i, Simulate(i))
                after == NormalizeChannel(RawChannel(TRUE, d.capacity, d.local_after,
                                                     d.remote_after, {}), Node, now)
            IN  /\ d.clears_finding <=> LiquidityRun([c \in {Target} |-> after]) = {}
                /\ (d.local_after > d.local_before) <=> (i.direction = "outbound")
        BY <4>1, ProjectionClears
      <4> QED
        BY <4>1, <4>2 DEF i
    <3> QED
      BY <3>1 DEF ClearsIfDetectorIsSilent
  <2>4. ComparisonIsOfAmounts
    BY <2>1, ComparisonIs DEF ComparisonIsOfAmounts, Comparable, CompareSimulations
  <2>5. ClearedHopCarriesAmount
    <3>1. \A s \in snaps : IsSnapshot(s)
      BY <1>1 DEF Sound, StoredInv
    <3>2. ASSUME NEW s \in snaps, NEW t \in snaps, NEW ratio \in {10, 50}
          PROVE  HopsCarry(s, t, ratio)
      BY <3>1, RouteHopsCarry
    <3> QED
      BY <3>2 DEF ClearedHopCarriesAmount, HopsCarry
  <2> QED
    BY <2>2, <2>3, <2>4, <2>5 DEF ProjectionsAreSound
<1> QED
  BY <1>1, SimulationsInvariant, PTL
=============================================================================
