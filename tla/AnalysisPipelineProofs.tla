----------------------- MODULE AnalysisPipelineProofs -----------------------
(***************************************************************************)
(* Proofs for AnalysisPipeline: for any channels, reports, fixtures,       *)
(* history limits, event windows and retention policies, what the          *)
(* detectors return is sound, the evidence of every stored finding is kept *)
(* as long as a policy lets it, advice follows its finding, and the        *)
(* pipeline implements the finding lifecycle.                              *)
(***************************************************************************)
EXTENDS AnalysisPipeline, FiniteSetTheorems, SequenceTheorems, WellFoundedInduction, TLAPS

-----------------------------------------------------------------------------
(* Normalized channels.                                                    *)

\* LiquidityProfile's class of a balance in percent.
ClassOf(r) ==
    IF r < 3 \/ r > 97 THEN "SeverelyDrained"
    ELSE IF r < 10 THEN "OutboundDrained" ELSE IF r > 90 THEN "InboundDrained" ELSE "Balanced"

Classes == {"Unknown", "SeverelyDrained", "OutboundDrained", "InboundDrained", "Balanced"}

\* What Normalizer::channel makes of an entry.
NormalChannels ==
    {ch \in [status : Statuses, node : Nodes, capacity : {0, Whole}, local : Nat, remote : Nat,
             ratio : Nat, imbalance : Classes, last_seen : 1..MaxTime] :
        /\ ch.ratio = LocalRatio(ch.capacity, ch.local)
        /\ ch.imbalance = Imbalance(ch.capacity, ch.local, ch.remote)}

IsGraph(g) == g \in [Channels -> NormalChannels \cup {NoChannel}]

\* A balance is its own percentage of a whole channel.
LEMMA RatioIs ==
    ASSUME NEW local \in Nat
    PROVE  LocalRatio(Whole, local) = local /\ LocalRatio(0, local) = 0
<1>1. (local * 100) \div 100 = local
  OBVIOUS
<1> QED
  BY <1>1 DEF LocalRatio, Whole

\* The class of every profile.
LEMMA ClassIs ==
    ASSUME NEW local \in Nat, NEW remote \in Nat
    PROVE  /\ Imbalance(0, local, remote) = "Unknown"
           /\ Imbalance(Whole, local, remote) =
                 IF local <= Whole /\ remote <= Whole THEN ClassOf(local) ELSE "Unknown"
<1>1. LocalRatio(Whole, local) = local /\ Whole = 100
  BY RatioIs DEF Whole
<1>2. Imbalance(0, local, remote) = "Unknown"
  BY DEF Imbalance
<1>3. CASE ~(local <= Whole /\ remote <= Whole)
  BY <1>1, <1>2, <1>3 DEF Imbalance
<1>4. CASE local <= Whole /\ remote <= Whole
  <2>1. CASE local < 3 \/ local > 97
    BY <1>1, <1>4, <2>1 DEF Imbalance, ClassOf
  <2>2. CASE local >= 3 /\ local < 10
    BY <1>1, <1>4, <2>2 DEF Imbalance, ClassOf
  <2>3. CASE local > 90 /\ local <= 97
    BY <1>1, <1>4, <2>3 DEF Imbalance, ClassOf
  <2>4. CASE local >= 10 /\ local <= 90
    BY <1>1, <1>4, <2>4 DEF Imbalance, ClassOf
  <2> QED
    BY <1>2, <1>4, <2>1, <2>2, <2>3, <2>4
<1> QED
  BY <1>2, <1>3, <1>4

\* A status is one of the nine for any flags.
LEMMA StatusType ==
    ASSUME NEW bits
    PROVE  ClassifyStatusBits(bits) \in Statuses
<1>1. CASE bits \ {1, 2, 4, 8, 16, 32, 64} # {}
  BY <1>1 DEF ClassifyStatusBits, Statuses
<1>2. CASE bits \ {1, 2, 4, 8, 16, 32, 64} = {}
  <2>1. bits \subseteq {1, 2, 4, 8, 16, 32, 64}
    BY <1>2
  <2>2. CASE bits = {}
    BY <1>2, <2>2 DEF ClassifyStatusBits, Statuses
  <2>3. CASE bits \cap {1, 4} # {}
    BY <1>2, <2>1, <2>3 DEF ClassifyStatusBits, Statuses
  <2>4. CASE bits # {} /\ bits \cap {1, 4} = {} /\ bits \cap {2, 16, 32, 64} # {}
    <3>1. bits \subseteq {2, 8, 16, 32, 64}
      BY <2>1, <2>4
    <3> QED
      BY <1>2, <2>1, <2>4, <3>1 DEF ClassifyStatusBits, Statuses
  <2>5. CASE bits # {} /\ bits \cap {1, 4} = {} /\ bits \cap {2, 16, 32, 64} = {}
    <3>1. \A b \in bits : b = 8
      BY <2>1, <2>5
    <3>2. bits = {8}
      BY <2>5, <3>1
    <3> QED
      BY <1>2, <2>1, <2>5, <3>2 DEF ClassifyStatusBits, Statuses
  <2> QED
    BY <2>2, <2>3, <2>4, <2>5
<1> QED
  BY <1>1, <1>2

\* A well-formed entry becomes a normalized channel.
LEMMA NormalizedIs ==
    ASSUME NEW raw \in RawEntries, ~Malformed(raw), NEW node \in Nodes, NEW at \in 1..MaxTime
    PROVE  NormalizeChannel(raw, node, at) \in NormalChannels
<1> DEFINE capacity == IF raw.capacity < 0 THEN 0 ELSE raw.capacity
           ch == NormalizeChannel(raw, node, at)
<1>1. capacity \in {0, Whole} /\ raw.local \in Nat /\ raw.remote \in Nat
  BY DEF RawEntries, Malformed, Whole
<1>2. ch = [status |-> ClassifyStatusBits(raw.flags), node |-> node, capacity |-> capacity,
            local |-> raw.local, remote |-> raw.remote,
            ratio |-> LocalRatio(capacity, raw.local),
            imbalance |-> Imbalance(capacity, raw.local, raw.remote), last_seen |-> at]
  BY DEF NormalizeChannel
<1>3. ClassifyStatusBits(raw.flags) \in Statuses
  BY StatusType
<1>4. LocalRatio(capacity, raw.local) \in Nat
  BY <1>1, RatioIs
<1>5. Imbalance(capacity, raw.local, raw.remote) \in Classes
  BY <1>1, ClassIs DEF Classes, ClassOf
<1>6. ch \in [status : Statuses, node : Nodes, capacity : {0, Whole}, local : Nat, remote : Nat,
              ratio : Nat, imbalance : Classes, last_seen : 1..MaxTime]
  <2> HIDE DEF capacity, ch
  <2> QED
    BY <1>1, <1>2, <1>3, <1>4, <1>5
<1>7. /\ ch.ratio = LocalRatio(ch.capacity, ch.local)
      /\ ch.imbalance = Imbalance(ch.capacity, ch.local, ch.remote)
  <2> HIDE DEF capacity, ch
  <2> QED
    BY <1>2
<1> HIDE DEF ch
<1> QED
  BY <1>6, <1>7 DEF NormalChannels, ch

\* What a normalized channel is and what its snapshot keeps of it.
LEMMA NormalFacts ==
    ASSUME NEW ch \in NormalChannels
    PROVE  /\ ch # NoChannel
           /\ ch.status \in Statuses /\ ch.node \in Nodes /\ ch.capacity \in {0, Whole}
           /\ ch.local \in Nat /\ ch.remote \in Nat /\ ch.ratio \in Nat
           /\ ch.ratio = LocalRatio(ch.capacity, ch.local)
           /\ ch.imbalance = Imbalance(ch.capacity, ch.local, ch.remote)
           /\ SnapshotOf(ch) \in Snapshots
<1>1. ch.status # "none"
  BY DEF NormalChannels, Statuses
<1>2. NoChannel.status = "none"
  BY DEF NoChannel
<1>3. ch # NoChannel
  BY <1>1, <1>2
<1>4. SnapshotOf(ch) \in Snapshots
  BY DEF NormalChannels, SnapshotOf, Snapshots
<1> QED
  BY <1>3, <1>4 DEF NormalChannels

\* A channel that could be classified has the whole capacity and its class.
LEMMA ClassifiedFacts ==
    ASSUME NEW ch \in NormalChannels, ch.imbalance # "Unknown"
    PROVE  /\ ch.capacity = Whole /\ ch.ratio = ch.local /\ ch.ratio \in 0..100
           /\ ch.imbalance = ClassOf(ch.ratio)
<1>1. /\ ch.capacity \in {0, Whole} /\ ch.local \in Nat /\ ch.remote \in Nat
      /\ ch.ratio = LocalRatio(ch.capacity, ch.local)
      /\ ch.imbalance = Imbalance(ch.capacity, ch.local, ch.remote)
  BY NormalFacts
<1>2. ch.capacity = Whole
  BY <1>1, ClassIs
<1>3. ch.ratio = ch.local
  BY <1>1, <1>2, RatioIs
<1>4. ch.local <= Whole /\ ch.imbalance = ClassOf(ch.local)
  BY <1>1, <1>2, ClassIs
<1> QED
  BY <1>1, <1>2, <1>3, <1>4 DEF Whole

\* A drained channel is drained on the side its direction names.
LEMMA DrainedFacts ==
    ASSUME NEW ch \in NormalChannels, ch.imbalance \notin {"Balanced", "Unknown"}
    PROVE  /\ ch.capacity = Whole /\ ch.ratio = ch.local /\ ch.ratio \in 0..100
           /\ Direction(ch) = IF ch.ratio < 50 THEN "outbound" ELSE "inbound"
<1>1. /\ ch.capacity = Whole /\ ch.ratio = ch.local /\ ch.ratio \in 0..100
      /\ ch.imbalance = ClassOf(ch.ratio)
  BY ClassifiedFacts
<1>2. CASE ch.imbalance = "SeverelyDrained"
  BY <1>1, <1>2 DEF Direction
<1>3. CASE ch.imbalance = "OutboundDrained"
  BY <1>1, <1>3 DEF Direction, ClassOf
<1>4. CASE ch.imbalance = "InboundDrained"
  BY <1>1, <1>4 DEF Direction, ClassOf
<1> QED
  BY <1>1, <1>2, <1>3, <1>4 DEF ClassOf


-----------------------------------------------------------------------------
(* The detectors.                                                          *)

\* What every finding about a channel of the graph has.
IsAbout(f, detector, g) ==
    \E c \in Channels :
        /\ f.detector = detector /\ f.channel = c
        /\ g[c] \in NormalChannels /\ c \in Open(g) \ Unclassified(g)

Graded(f) == f.severity \in {"warning", "critical"}

\* The engine accepts every liquidity finding, which refers to the snapshot of
\* its channel in the graph.
LEMMA LiquidityFindingIs ==
    ASSUME NEW g, IsGraph(g), NEW f \in LiquidityRun(g)
    PROVE  /\ IsAbout(f, "channel_liquidity", g) /\ Graded(f) /\ Accepts(f)
           /\ f.refs = {SnapshotOf(g[f.channel])}
           /\ f.evidence.direction \in {"outbound", "inbound"}
<1>1. PICK c \in Drained(g) :
         f = Finding("channel_liquidity", c, LiquiditySeverity(g[c].ratio),
                     [direction |-> Direction(g[c]), local_ratio |-> g[c].ratio,
                      capacity |-> g[c].capacity],
                     {SnapshotOf(g[c])})
  BY DEF LiquidityRun
<1>2. /\ c \in Channels /\ g[c] \in NormalChannels /\ c \in Open(g) \ Unclassified(g)
      /\ g[c].imbalance \notin {"Balanced", "Unknown"}
  BY DEF Drained, Open, Present, Unclassified, IsGraph
<1>3. /\ g[c].capacity = Whole /\ g[c].ratio \in 0..100
      /\ Direction(g[c]) \in {"outbound", "inbound"}
  BY <1>2, DrainedFacts
<1>4. /\ f.detector = "channel_liquidity" /\ f.channel = c
      /\ f.severity = LiquiditySeverity(g[c].ratio)
      /\ f.evidence.direction = Direction(g[c])
      /\ f.evidence.local_ratio = g[c].ratio /\ f.evidence.capacity = g[c].capacity
      /\ f.refs = {SnapshotOf(g[c])}
  BY <1>1 DEF Finding
<1>5. Graded(f)
  BY <1>4 DEF Graded, LiquiditySeverity
<1>6. Accepts(f)
  BY <1>2, <1>3, <1>4, <1>5, PipelineAssumption
  DEF Accepts, ValidCommon, ValidLiquidity, ChannelGiven, RequiredRatio, RequiredPositiveNumber,
      Whole, DetectorIds, Graded
<1> QED
  BY <1>2, <1>3, <1>4, <1>5, <1>6 DEF IsAbout

\* A nonempty set of natural numbers has a least one.
LEMMA LeastIs ==
    ASSUME NEW S, S \subseteq Nat, S # {}
    PROVE  Least(S) \in S /\ \A y \in S : Least(S) <= y
<1> DEFINE R == {p \in Nat \X Nat : p[1] < p[2]}
<1>1. R = OpToRel(<, Nat)
  BY DEF OpToRel
<1>2. IsWellFoundedOn(R, Nat)
  BY <1>1, NatLessThanWellFounded
<1>3. \A x, y \in Nat : y < x => <<y, x>> \in R
  OBVIOUS
<1> HIDE DEF R
<1>4. PICK x \in S : \A y \in S : ~ (<<y, x>> \in R)
  BY <1>2, WFMin
<1>5. \A y \in S : ~ (y < x)
  BY <1>3, <1>4
<1>6. \A y \in S : x <= y
  BY <1>4, <1>5
<1> QED
  BY <1>4, <1>6 DEF Least

\* The last entries of a bucket are entries of it.
LEMMA RecentIs ==
    ASSUME NEW S, NEW bucket \in Seq(S), NEW limit \in Nat
    PROVE  /\ RecentChannelSnapshots(bucket, limit) \in Seq(S)
           /\ Len(RecentChannelSnapshots(bucket, limit)) =
                 IF Len(bucket) <= limit THEN Len(bucket) ELSE limit
<1> DEFINE n == IF Len(bucket) <= limit THEN Len(bucket) ELSE limit
           snaps == RecentChannelSnapshots(bucket, limit)
<1>1. n \in Nat /\ n <= Len(bucket) /\ Len(bucket) \in Nat
  OBVIOUS
<1>2. snaps = [i \in 1..n |-> bucket[Len(bucket) + 1 - i]]
  BY DEF RecentChannelSnapshots
<1>3. \A i \in 1..n : bucket[Len(bucket) + 1 - i] \in S
  BY <1>1
<1> HIDE DEF n, snaps
<1>4. snaps \in [1..n -> S]
  BY <1>2, <1>3
<1>5. snaps \in Seq(S)
  BY <1>1, <1>4, SeqDef
<1>6. Len(snaps) = n
  BY <1>1, <1>4, <1>5, LenProperties
<1> QED
  BY <1>5, <1>6 DEF n, snaps

IsHistory(h) == \A c \in Channels : h[c] \in Seq(Snapshots)

\* A trend refers to entries of its channel's bucket, and the engine accepts it
\* unless its window began above the capacity.
LEMMA TrendFindingIs ==
    ASSUME NEW g, IsGraph(g), NEW h, IsHistory(h), NEW f \in DriftRun(g, h)
    PROVE  /\ IsAbout(f, "liquidity_trend", g) /\ Graded(f)
           /\ f.evidence.start <= Whole => Accepts(f)
           /\ f.evidence.start \in Nat /\ f.evidence.direction = "draining"
           /\ \A S : h[f.channel] \in Seq(S) => f.refs \subseteq S
<1> DEFINE snaps(c) == RecentChannelSnapshots(h[c], Window)
           start(c) == snaps(c)[Len(snaps(c))].ratio
<1>1. PICK c \in Drifting(g, h) :
         f = Finding("liquidity_trend", c,
                     IF start(c) - g[c].ratio >= 15 THEN "critical" ELSE "warning",
                     [direction |-> "draining", start |-> start(c), current |-> g[c].ratio,
                      decline |-> start(c) - g[c].ratio,
                      min_in_window |-> Least(Ratios(snaps(c))), window |-> Len(snaps(c))],
                     {snaps(c)[i] : i \in 1..Len(snaps(c))})
  BY DEF DriftRun
<1>2. /\ c \in Channels /\ g[c] \in NormalChannels /\ c \in Open(g) \ Unclassified(g)
      /\ Len(snaps(c)) >= MinHistory /\ start(c) - g[c].ratio >= 5 /\ g[c].ratio < 25
  BY DEF Drifting, Open, Present, IsGraph
<1>3. Window \in Nat /\ MinHistory \in Nat \ {0}
  BY DetectorAssumption
<1>4. snaps(c) \in Seq(Snapshots)
  BY <1>2, <1>3, RecentIs DEF IsHistory
<1>5. \A S : h[c] \in Seq(S) => snaps(c) \in Seq(S)
  BY <1>3, RecentIs
<1>6. g[c].ratio \in Nat
  BY <1>2, NormalFacts
<1> HIDE DEF snaps
<1>7. Len(snaps(c)) \in Nat \ {0} /\ \A i \in 1..Len(snaps(c)) : snaps(c)[i] \in Snapshots
  BY <1>2, <1>3, <1>4
<1>8. \A i \in 1..Len(snaps(c)) : snaps(c)[i].ratio \in Nat
  BY <1>7 DEF Snapshots
<1>9. start(c) \in Nat /\ start(c) \in Ratios(snaps(c)) /\ Ratios(snaps(c)) \subseteq Nat
  BY <1>7, <1>8 DEF Ratios
<1>10. Least(Ratios(snaps(c))) \in Nat /\ Least(Ratios(snaps(c))) <= start(c)
  BY <1>9, LeastIs
<1> HIDE DEF start
<1>11. /\ f.detector = "liquidity_trend" /\ f.channel = c
       /\ f.severity = IF start(c) - g[c].ratio >= 15 THEN "critical" ELSE "warning"
       /\ f.evidence.direction = "draining" /\ f.evidence.start = start(c)
       /\ f.evidence.current = g[c].ratio /\ f.evidence.decline = start(c) - g[c].ratio
       /\ f.evidence.min_in_window = Least(Ratios(snaps(c)))
       /\ f.evidence.window = Len(snaps(c))
       /\ f.refs = {snaps(c)[i] : i \in 1..Len(snaps(c))}
  BY <1>1 DEF Finding
<1>12. Graded(f)
  BY <1>11 DEF Graded
<1>13. ASSUME f.evidence.start <= Whole PROVE Accepts(f)
  <2>1. /\ RequiredRatio(f.evidence.start) /\ RequiredRatio(f.evidence.current)
        /\ RequiredRatio(f.evidence.decline) /\ RequiredRatio(f.evidence.min_in_window)
    <3>1. \A s, r, m \in Nat : s <= 100 /\ m <= s /\ r < 25 /\ s - r >= 5
             => s \in 0..100 /\ r \in 0..100 /\ s - r \in 0..100 /\ m \in 0..100
      OBVIOUS
    <3>2. /\ f.evidence.start \in Nat /\ f.evidence.current \in Nat
          /\ f.evidence.min_in_window \in Nat
          /\ f.evidence.decline = f.evidence.start - f.evidence.current
      BY <1>6, <1>9, <1>10, <1>11
    <3>3. f.evidence.start <= 100 /\ f.evidence.min_in_window <= f.evidence.start
      BY <1>10, <1>11, <1>13 DEF Whole
    <3>4. f.evidence.current < 25 /\ f.evidence.start - f.evidence.current >= 5
      BY <1>2, <1>11 DEF start
    <3> QED
      BY <3>1, <3>2, <3>3, <3>4 DEF RequiredRatio
  <2>2. RequiredPositiveNumber(f.evidence.window)
    BY <1>7, <1>11 DEF RequiredPositiveNumber
  <2>3. ChannelGiven(f)
    BY <1>2, <1>11, PipelineAssumption DEF ChannelGiven
  <2> QED
    BY <1>11, <1>12, <2>1, <2>2, <2>3
    DEF Accepts, ValidCommon, ValidTrend, DetectorIds, Graded
<1>14. ASSUME NEW S, h[f.channel] \in Seq(S) PROVE f.refs \subseteq S
  BY <1>5, <1>11, <1>14
<1> QED
  BY <1>2, <1>9, <1>11, <1>12, <1>13, <1>14 DEF IsAbout


-----------------------------------------------------------------------------
(* Both sides of a channel.                                                *)

\* Exchanging the balances of a normalized channel gives a normalized channel.
LEMMA MirroredIs ==
    ASSUME NEW ch \in NormalChannels
    PROVE  /\ Mirrored(ch) \in NormalChannels
           /\ Mirrored(ch).status = ch.status /\ Mirrored(ch).capacity = ch.capacity
           /\ Mirrored(ch).local = ch.remote /\ Mirrored(ch).remote = ch.local
<1>1. /\ ch.status \in Statuses /\ ch.node \in Nodes /\ ch.capacity \in {0, Whole}
      /\ ch.local \in Nat /\ ch.remote \in Nat /\ ch.last_seen \in 1..MaxTime
      /\ ch \in [status : Statuses, node : Nodes, capacity : {0, Whole}, local : Nat, remote : Nat,
                 ratio : Nat, imbalance : Classes, last_seen : 1..MaxTime]
  BY DEF NormalChannels
<1> DEFINE ratio == LocalRatio(ch.capacity, ch.remote)
           class == Imbalance(ch.capacity, ch.remote, ch.local)
<1>2. ratio \in Nat
  BY <1>1, RatioIs
<1>3. class \in Classes
  BY <1>1, ClassIs DEF Classes, ClassOf
<1>4. Mirrored(ch) = [ch EXCEPT !.local = ch.remote, !.remote = ch.local,
                                !.ratio = ratio, !.imbalance = class]
  BY DEF Mirrored
<1> HIDE DEF ratio, class
<1>5. Mirrored(ch) \in [status : Statuses, node : Nodes, capacity : {0, Whole}, local : Nat,
                        remote : Nat, ratio : Nat, imbalance : Classes, last_seen : 1..MaxTime]
  BY <1>1, <1>2, <1>3, <1>4
<1>6. /\ Mirrored(ch).status = ch.status /\ Mirrored(ch).capacity = ch.capacity
      /\ Mirrored(ch).local = ch.remote /\ Mirrored(ch).remote = ch.local
      /\ Mirrored(ch).ratio = ratio /\ Mirrored(ch).imbalance = class
  BY <1>1, <1>4
<1> QED
  BY <1>5, <1>6 DEF NormalChannels, ratio, class

\* Whether a channel whose balances add up to its capacity is drained, how
\* badly and on which side, seen from the other end.
LEMMA OtherEnd ==
    ASSUME NEW ch \in NormalChannels, ch.local + ch.remote = ch.capacity
    PROVE  LET m == Mirrored(ch)
               drained == ch.imbalance \notin {"Balanced", "Unknown"}
           IN  /\ m.imbalance \notin {"Balanced", "Unknown"} <=> drained
               /\ drained => /\ LiquiditySeverity(m.ratio) = LiquiditySeverity(ch.ratio)
                             /\ Direction(m) = "inbound" <=> Direction(ch) = "outbound"
                             /\ Direction(m) \in {"inbound", "outbound"}
                             /\ Direction(ch) \in {"inbound", "outbound"}
<1> DEFINE m == Mirrored(ch)
           drained == ch.imbalance \notin {"Balanced", "Unknown"}
<1>1. /\ m \in NormalChannels /\ m.capacity = ch.capacity
      /\ m.local = ch.remote /\ m.remote = ch.local
  BY MirroredIs
<1>2. /\ ch.local \in Nat /\ ch.remote \in Nat /\ ch.capacity \in {0, Whole}
      /\ ch.imbalance = Imbalance(ch.capacity, ch.local, ch.remote)
      /\ ch.ratio = LocalRatio(ch.capacity, ch.local)
  BY NormalFacts
<1>3. /\ m.imbalance = Imbalance(ch.capacity, ch.remote, ch.local)
      /\ m.ratio = LocalRatio(ch.capacity, ch.remote)
  BY <1>1, NormalFacts
<1> HIDE DEF m
<1>4. CASE ch.capacity = 0
  <2>1. ch.imbalance = "Unknown" /\ m.imbalance = "Unknown"
    BY <1>2, <1>3, <1>4, ClassIs
  <2> QED
    BY <2>1 DEF m
<1>5. CASE ch.capacity = Whole
  <2>1. /\ ch.local + ch.remote = 100 /\ ch.local <= Whole /\ ch.remote <= Whole
    BY <1>2, <1>5 DEF Whole
  <2>2. ch.imbalance = ClassOf(ch.local) /\ m.imbalance = ClassOf(ch.remote)
    BY <1>2, <1>3, <1>5, <2>1, ClassIs
  <2>3. ch.ratio = ch.local /\ m.ratio = ch.remote
    BY <1>2, <1>3, <1>5, RatioIs
  <2>4. \A x \in Nat : ClassOf(x) \notin {"Balanced", "Unknown"} <=> x < 10 \/ x > 90
    BY DEF ClassOf
  <2>5. m.imbalance \notin {"Balanced", "Unknown"} <=> drained
    BY <1>2, <2>1, <2>2, <2>4
  <2>6. ASSUME drained
        PROVE  /\ LiquiditySeverity(m.ratio) = LiquiditySeverity(ch.ratio)
               /\ Direction(m) = "inbound" <=> Direction(ch) = "outbound"
               /\ Direction(m) \in {"inbound", "outbound"}
               /\ Direction(ch) \in {"inbound", "outbound"}
    <3>1. LiquiditySeverity(m.ratio) = LiquiditySeverity(ch.ratio)
      BY <1>2, <2>1, <2>3 DEF LiquiditySeverity
    <3>2. Direction(ch) = IF ch.ratio < 50 THEN "outbound" ELSE "inbound"
      BY <2>6, DrainedFacts
    <3>3. Direction(m) = IF m.ratio < 50 THEN "outbound" ELSE "inbound"
      BY <1>1, <2>5, <2>6, DrainedFacts
    <3>4. ch.ratio < 10 \/ ch.ratio > 90
      BY <1>2, <2>2, <2>3, <2>4, <2>6
    <3> QED
      BY <1>2, <2>1, <2>3, <3>1, <3>2, <3>3, <3>4
  <2> HIDE DEF drained
  <2> QED
    BY <2>5, <2>6 DEF m, drained
<1> QED
  BY <1>2, <1>4, <1>5

\* The detector judges a graph and its mirror image alike.
LEMMA SidesAreAlike ==
    ASSUME IsGraph(graph)
    PROVE  SidesAreJudgedAlike
<1> DEFINE judged == [c \in Channels |-> IF graph[c] = NoChannel THEN NoChannel ELSE Mirrored(graph[c])]
           Opposite(d) == IF d = "inbound" THEN "outbound" ELSE "inbound"
<1> SUFFICES ASSUME \A c \in Present(graph) : graph[c].local + graph[c].remote = graph[c].capacity
             PROVE  {<<f.channel, f.severity, f.evidence.direction>> : f \in LiquidityRun(graph)} =
                    {<<f.channel, f.severity, Opposite(f.evidence.direction)>> :
                        f \in LiquidityRun(judged)}
  BY DEF SidesAreJudgedAlike
<1>1. ASSUME NEW g, DOMAIN g = Channels
      PROVE  /\ \A f \in LiquidityRun(g) : \E c \in Drained(g) :
                   /\ f.channel = c /\ f.severity = LiquiditySeverity(g[c].ratio)
                   /\ f.evidence.direction = Direction(g[c])
             /\ \A c \in Drained(g) : \E f \in LiquidityRun(g) :
                   /\ f.channel = c /\ f.severity = LiquiditySeverity(g[c].ratio)
                   /\ f.evidence.direction = Direction(g[c])
  <2> DEFINE of(c) == Finding("channel_liquidity", c, LiquiditySeverity(g[c].ratio),
                              [direction |-> Direction(g[c]), local_ratio |-> g[c].ratio,
                               capacity |-> g[c].capacity],
                              {SnapshotOf(g[c])})
  <2>1. LiquidityRun(g) = {of(c) : c \in Drained(g)}
    BY DEF LiquidityRun
  <2>2. \A c : /\ of(c).channel = c /\ of(c).severity = LiquiditySeverity(g[c].ratio)
               /\ of(c).evidence.direction = Direction(g[c])
    BY DEF Finding
  <2> HIDE DEF of
  <2> QED
    BY <2>1, <2>2
<1>2. DOMAIN graph = Channels /\ DOMAIN judged = Channels
  BY DEF IsGraph
<1>3. ASSUME NEW c \in Channels
      PROVE  /\ c \in Drained(judged) <=> c \in Drained(graph)
             /\ c \in Drained(graph) =>
                   /\ LiquiditySeverity(judged[c].ratio) = LiquiditySeverity(graph[c].ratio)
                   /\ Direction(graph[c]) = Opposite(Direction(judged[c]))
  <2>1. graph[c] \in NormalChannels \/ graph[c] = NoChannel
    BY DEF IsGraph
  <2>2. CASE graph[c] = NoChannel
    BY <1>2, <2>2 DEF Drained, Open, Present
  <2>3. CASE graph[c] \in NormalChannels
    <3>1. graph[c] # NoChannel /\ judged[c] = Mirrored(graph[c])
      BY <2>3, NormalFacts
    <3>2. Mirrored(graph[c]) # NoChannel /\ Mirrored(graph[c]).status = graph[c].status
      BY <2>3, MirroredIs, NormalFacts
    <3>3. graph[c].local + graph[c].remote = graph[c].capacity
      BY <1>2, <3>1 DEF Present
    <3> HIDE DEF judged
    <3>4. /\ c \in Drained(graph) <=> IsOpen(graph[c].status)
                                      /\ graph[c].imbalance \notin {"Balanced", "Unknown"}
          /\ c \in Drained(judged) <=> IsOpen(graph[c].status)
                                       /\ Mirrored(graph[c]).imbalance \notin {"Balanced", "Unknown"}
      BY <1>2, <3>1, <3>2 DEF Drained, Open, Present
    <3> QED
      BY <2>3, <3>1, <3>3, <3>4, OtherEnd
  <2> QED
    BY <2>1, <2>2, <2>3
<1>4. Drained(graph) \subseteq Channels /\ Drained(judged) \subseteq Channels
  BY <1>2 DEF Drained, Open, Present
<1> HIDE DEF judged, Opposite
<1>5. ASSUME NEW f \in LiquidityRun(graph)
      PROVE  \E e \in LiquidityRun(judged) :
                <<f.channel, f.severity, f.evidence.direction>> =
                <<e.channel, e.severity, Opposite(e.evidence.direction)>>
  BY <1>1, <1>2, <1>3, <1>4
<1>6. ASSUME NEW e \in LiquidityRun(judged)
      PROVE  \E f \in LiquidityRun(graph) :
                <<f.channel, f.severity, f.evidence.direction>> =
                <<e.channel, e.severity, Opposite(e.evidence.direction)>>
  BY <1>1, <1>2, <1>3, <1>4
<1> QED
  BY <1>5, <1>6


-----------------------------------------------------------------------------
(* The settlement detector.                                                *)

\* Counting the events of a sequence gives a number.
LEMMA CountType ==
    ASSUME NEW n \in Nat, NEW events, DOMAIN events = 1..n, NEW kinds
    PROVE  CountOf(events, kinds) \in Nat
<1>1. IsFiniteSet(1..n)
  BY FS_Interval
<1>2. {k \in DOMAIN events : events[k] \in kinds} \subseteq 1..n
  OBVIOUS
<1>3. IsFiniteSet({k \in DOMAIN events : events[k] \in kinds})
  BY <1>1, <1>2, FS_Subset
<1> QED
  BY <1>3, FS_CardinalityType DEF CountOf

\* On the agent's empty graph there is one finding, about the node, or none.
LEMMA SettlementOnEmpty ==
    ASSUME NEW events, NEW chain
    PROVE  LET e == ExpiredCount(events)
               s == SettledCount(events)
           IN  /\ ~SettlementDegraded(e, s) =>
                     SettlementRun(events, EmptyGraph, Node, chain) = {}
               /\ SettlementDegraded(e, s) =>
                     \E f : /\ SettlementRun(events, EmptyGraph, Node, chain) = {f}
                            /\ IdOf(f) = <<"settlement_reliability", NodeWide>>
                            /\ f.detector = "settlement_reliability"
                            /\ f.severity = SettlementSeverity(e, s, FALSE)
                            /\ f.evidence.expired = e /\ f.evidence.settled = s
<1> DEFINE e == ExpiredCount(events)
           s == SettledCount(events)
           drained == DrainedForSettlement(EmptyGraph, Node)
           inactive == InactiveForSettlement(EmptyGraph, Node)
           f == SettlementFinding(NodeWide, e, s, EmptyGraph, Node, chain)
<1>1. drained = {} /\ inactive = {}
  BY DEF DrainedForSettlement, InactiveForSettlement, Open, Present, EmptyGraph
<1>2. \A d : IsBottleneck(EmptyGraph, Node, d) <=> d = NodeWide
  BY <1>1 DEF IsBottleneck
<1>3. SettlementRun(events, EmptyGraph, Node, chain) =
         {SettlementFinding(c, e, s, EmptyGraph, Node, chain) :
             c \in {d \in DOMAIN EmptyGraph \cup {NodeWide} :
                      SettlementDegraded(e, s) /\ IsBottleneck(EmptyGraph, Node, d)}}
  BY DEF SettlementRun
<1>4. /\ f.detector = "settlement_reliability" /\ f.channel = NodeWide
      /\ f.severity = SettlementSeverity(e, s, FALSE)
      /\ f.evidence.expired = e /\ f.evidence.settled = s
  <2>1. f = Finding("settlement_reliability", NodeWide,
                    SettlementSeverity(e, s, drained # {} /\ inactive # {}),
                    [expired |-> e, settled |-> s, chain |-> chain,
                     root_cause |-> RootCause(chain, drained \cup inactive # {})], {})
    BY DEF SettlementFinding
  <2>2. (drained # {} /\ inactive # {}) = FALSE
    BY <1>1
  <2> HIDE DEF e, s, f, drained, inactive
  <2> QED
    BY <2>1, <2>2 DEF Finding
<1>5. IdOf(f) = <<"settlement_reliability", NodeWide>>
  BY <1>4 DEF IdOf
<1>6. CASE ~SettlementDegraded(e, s)
  <2> HIDE DEF e, s
  <2> QED
    BY <1>3, <1>6 DEF e, s
<1>7. CASE SettlementDegraded(e, s)
  <2>1. {d \in DOMAIN EmptyGraph \cup {NodeWide} :
           SettlementDegraded(e, s) /\ IsBottleneck(EmptyGraph, Node, d)} = {NodeWide}
    BY <1>2, <1>7
  <2>2. SettlementRun(events, EmptyGraph, Node, chain) = {f}
    BY <1>3, <2>1
  <2> HIDE DEF f
  <2> QED
    BY <1>4, <1>5, <1>7, <2>2
<1> QED
  BY <1>6, <1>7

\* The settlement finding stored is one of a degraded window.
SettlementIsDegraded ==
    LET id == <<"settlement_reliability", NodeWide>>
        e  == detail[id].evidence
    IN  finding[id].lifecycle # "none" =>
            /\ e.expired \in Nat /\ e.settled \in Nat
            /\ SettlementDegraded(e.expired, e.settled)
            /\ detail[id].severity = SettlementSeverity(e.expired, e.settled, FALSE)

\* The events of m failures and n successes are counted as such.
LEMMA CountsOfWindow ==
    ASSUME NEW m \in Nat, NEW n \in Nat
    PROVE  LET w == [k \in 1..m |-> "invoice_expired"] \o [k \in 1..n |-> "invoice_settled"]
           IN  ExpiredCount(w) = m /\ SettledCount(w) = n
<1> DEFINE a == [k \in 1..m |-> "invoice_expired"]
           b == [k \in 1..n |-> "invoice_settled"]
           w == a \o b
<1>1. /\ a \in Seq({"invoice_expired", "invoice_settled"}) /\ Len(a) = m
      /\ b \in Seq({"invoice_expired", "invoice_settled"}) /\ Len(b) = n
  <2>1. /\ a \in [1..m -> {"invoice_expired", "invoice_settled"}]
        /\ b \in [1..n -> {"invoice_expired", "invoice_settled"}]
    OBVIOUS
  <2>2. /\ a \in Seq({"invoice_expired", "invoice_settled"})
        /\ b \in Seq({"invoice_expired", "invoice_settled"})
    BY <2>1, SeqDef
  <2> QED
    BY <2>1, <2>2, LenProperties
<1>2. /\ w \in Seq({"invoice_expired", "invoice_settled"}) /\ Len(w) = m + n
      /\ \A i \in 1..(m + n) : w[i] = IF i <= m THEN a[i] ELSE b[i - m]
  <2> HIDE DEF a, b
  <2> QED
    BY <1>1, ConcatProperties
<1>3. DOMAIN w = 1..(m + n)
  <2> HIDE DEF w
  <2> QED
    BY <1>2, LenProperties
<1>4. \A i \in 1..(m + n) : w[i] = IF i <= m THEN "invoice_expired" ELSE "invoice_settled"
  <2> SUFFICES ASSUME NEW i \in 1..(m + n)
               PROVE  (IF i <= m THEN a[i] ELSE b[i - m]) =
                         IF i <= m THEN "invoice_expired" ELSE "invoice_settled"
    BY <1>2
  <2> QED
    OBVIOUS
<1> HIDE DEF a, b, w
<1>5. {k \in DOMAIN w : w[k] \in {"invoice_expired", "payment_failed"}} = 1..m
  BY <1>3, <1>4
<1>6. {k \in DOMAIN w : w[k] \in {"invoice_settled", "invoice_payment_received",
                                  "payment_succeeded"}} = (m + 1)..(m + n)
  BY <1>3, <1>4
<1>7. Cardinality(1..m) = m /\ Cardinality((m + 1)..(m + n)) = n
  BY FS_Interval
<1>8. ExpiredCount(w) = m /\ SettledCount(w) = n
  BY <1>5, <1>6, <1>7 DEF ExpiredCount, SettledCount, CountOf
<1> QED
  BY <1>8 DEF w, a, b

\* One more failure and no more successes keep a degraded window degraded, and
\* as severe.
LEMMA WorseIsNotMilder ==
    ASSUME SettlementIsDegraded
    PROVE  WorseWindowIsNotMilder
<1> DEFINE id == <<"settlement_reliability", NodeWide>>
           e == detail[id].evidence
<1> SUFFICES ASSUME finding[id].lifecycle # "none", NEW n \in 0..e.settled
             PROVE  LET events == [k \in 1..e.expired + 1 |-> "invoice_expired"] \o
                                     [k \in 1..n |-> "invoice_settled"]
                        worse == SettlementRun(events, EmptyGraph, Node, "unknown")
                    IN  /\ worse # {}
                        /\ detail[id].severity = "critical" => \A f \in worse : f.severity = "critical"
  BY DEF WorseWindowIsNotMilder
<1> DEFINE events == [k \in 1..e.expired + 1 |-> "invoice_expired"] \o
                        [k \in 1..n |-> "invoice_settled"]
           worse == SettlementRun(events, EmptyGraph, Node, "unknown")
<1> SUFFICES /\ worse # {}
             /\ detail[id].severity = "critical" => \A f \in worse : f.severity = "critical"
  OBVIOUS
<1>1. /\ e.expired \in Nat /\ e.settled \in Nat /\ SettlementDegraded(e.expired, e.settled)
      /\ detail[id].severity = SettlementSeverity(e.expired, e.settled, FALSE)
  BY DEF SettlementIsDegraded
<1> HIDE DEF e, id
<1> n \in Nat /\ n <= e.settled
  BY <1>1
<1>2. ExpiredCount(events) = e.expired + 1 /\ SettledCount(events) = n
  BY <1>1, CountsOfWindow
<1>3. SettlementDegraded(e.expired + 1, n)
  BY <1>1 DEF SettlementDegraded
<1>4. SettlementSeverity(e.expired, e.settled, FALSE) = "critical" =>
         SettlementSeverity(e.expired + 1, n, FALSE) = "critical"
  BY <1>1 DEF SettlementSeverity
<1> HIDE DEF events
<1>5. \E f : worse = {f} /\ f.severity = SettlementSeverity(e.expired + 1, n, FALSE)
  BY <1>2, <1>3, SettlementOnEmpty
<1> QED
  BY <1>1, <1>4, <1>5


-----------------------------------------------------------------------------
(* The transaction of a cycle.                                             *)

Row == [lifecycle : {"none", "active", "resolved"}, absent : 0..2,
        first : Lifecycle!Times, last : Lifecycle!Times]

\* The scopes that scan and monitor cover, and those of the agent.
ScanScopes == DetectorIds \ {"settlement_reliability"}
AgentScopes == {"settlement_reliability"}

\* What the detectors of the scopes p hand over.
IsReport(fs, p) ==
    \A f \in fs : IdOf(f) \in FindingIds /\ f.detector \in p /\ Graded(f)

\* The two UPDATEs leave a row, and whether there is one.
LEMMA ResolvedIs ==
    ASSUME TypeOK, NEW complete, NEW id \in FindingIds
    PROVE  LET r == Lifecycle!ResolveFindingsForScopes(finding, complete)[id]
           IN  /\ finding[id] \in Row /\ r \in Row
               /\ r.lifecycle = "none" <=> finding[id].lifecycle = "none"
               /\ ~Lifecycle!Matches(id, complete) => r = finding[id]
<1> DEFINE r == Lifecycle!ResolveFindingsForScopes(finding, complete)[id]
           row == finding[id]
<1>1. row \in Row
  BY DEF TypeOK, Lifecycle!TypeOK, Row
<1>2. r = IF Lifecycle!Matches(id, complete) /\ row.lifecycle = "active"
          THEN Lifecycle!CountAbsence(row) ELSE row
  BY DEF Lifecycle!ResolveFindingsForScopes
<1>3. /\ Lifecycle!CountAbsence(row) \in Row
      /\ row.lifecycle # "none" => Lifecycle!CountAbsence(row).lifecycle # "none"
  <2> HIDE DEF row
  <2>1. CASE row.absent >= 2
    <3>1. Lifecycle!CountAbsence(row) = [row EXCEPT !.lifecycle = "resolved", !.absent = 0]
      BY <2>1 DEF Lifecycle!CountAbsence
    <3>2. Lifecycle!CountAbsence(row) = [lifecycle |-> "resolved", absent |-> 0,
                                         first |-> row.first, last |-> row.last]
      BY <1>1, <3>1 DEF Row
    <3>3. row.first \in Lifecycle!Times /\ row.last \in Lifecycle!Times
      BY <1>1 DEF Row
    <3> QED
      BY <3>2, <3>3 DEF Row
  <2>2. CASE ~(row.absent >= 2)
    <3>1. Lifecycle!CountAbsence(row) = [row EXCEPT !.absent = row.absent + 1]
      BY <2>2 DEF Lifecycle!CountAbsence
    <3>2. row.absent + 1 \in 0..2
      BY <1>1, <2>2 DEF Row
    <3> QED
      BY <1>1, <3>1, <3>2 DEF Row
  <2> QED
    BY <2>1, <2>2
<1> HIDE DEF r, row
<1> QED
  BY <1>1, <1>2, <1>3 DEF r, row

\* The upsert leaves a row.
LEMMA SavedIs ==
    ASSUME NEW row \in Row, NEW at \in Lifecycle!Times
    PROVE  /\ Lifecycle!SaveFinding(row, at) \in Row
           /\ Lifecycle!SaveFinding(row, at).lifecycle # "none"
           /\ Lifecycle!SaveFinding(row, at).absent <= row.absent
           /\ Lifecycle!SaveFinding(row, at).lifecycle = "resolved" => row.lifecycle = "resolved"
<1>1. MaxTime \in Nat
  BY PipelineAssumption
<1> QED
  BY <1>1 DEF Lifecycle!SaveFinding, Lifecycle!Earlier, Row, Lifecycle!Times

\* Every finding about a channel is recommended a rebalance review, and an
\* inbound one a fee review.
LEMMA RecommendIs ==
    ASSUME NEW f
    PROVE  /\ f.detector \in ScanScopes =>
                 "rebalance_channel" \in {r.type : r \in Recommend(f)}
           /\ f.detector = "channel_liquidity" /\ f.evidence.direction = "inbound" =>
                 "update_fee_policy" \in {r.type : r \in Recommend(f)}
<1>1. RebalanceReview(f).type = "rebalance_channel" /\ FeeReview(f).type = "update_fee_policy"
  BY DEF RebalanceReview, FeeReview, Review
<1>2. CASE f.detector = "channel_liquidity"
  <2>1. Recommend(f) = RecommendLiquidity(f)
    BY <1>2 DEF Recommend
  <2> QED
    BY <1>1, <1>2, <2>1 DEF RecommendLiquidity
<1>3. CASE f.detector = "liquidity_trend"
  <2>1. Recommend(f) = RecommendLiquidityTrend(f)
    BY <1>3 DEF Recommend
  <2> QED
    BY <1>1, <1>3, <2>1 DEF RecommendLiquidityTrend
<1> QED
  BY <1>2, <1>3 DEF ScanScopes, DetectorIds

\* The advice of the cascade.
Synced(resolved, k) ==
    IF advice[k] = "active" /\ resolved[k[1]].lifecycle = "resolved" THEN "resolved" ELSE advice[k]

LEMMA AdviceIs ==
    ASSUME TypeOK, NEW resolved, NEW fs
    PROVE  /\ AdviceAfter(resolved, fs) \in [FindingIds \X ActionTypes -> {"none", "active", "resolved"}]
           /\ \A id \in FindingIds, type \in ActionTypes :
                 AdviceAfter(resolved, fs)[<<id, type>>] =
                    IF \E f \in fs : /\ IdOf(f) = id /\ type \in {r.type : r \in Recommend(f)}
                                     /\ Synced(resolved, <<id, type>>) = "none"
                    THEN "active" ELSE Synced(resolved, <<id, type>>)
<1> DEFINE synced == [k \in DOMAIN advice |->
                         IF advice[k] = "active" /\ resolved[k[1]].lifecycle = "resolved"
                         THEN "resolved" ELSE advice[k]]
           new(k) == \E f \in fs : /\ IdOf(f) = k[1] /\ k[2] \in {r.type : r \in Recommend(f)}
                                   /\ IsNewAction(synced, k[1], k[2])
<1>1. /\ DOMAIN advice = FindingIds \X ActionTypes
      /\ \A k \in DOMAIN advice : advice[k] \in {"none", "active", "resolved"}
  BY DEF TypeOK
<1>2. \A k \in DOMAIN advice : synced[k] = Synced(resolved, k)
  BY DEF Synced
<1>3. \A k \in DOMAIN advice : synced[k] \in {"none", "active", "resolved"}
  BY <1>1
<1>4. AdviceAfter(resolved, fs) = [k \in DOMAIN advice |-> IF new(k) THEN "active" ELSE synced[k]]
  BY DEF AdviceAfter
<1> HIDE DEF synced
<1>5. AdviceAfter(resolved, fs) \in [FindingIds \X ActionTypes -> {"none", "active", "resolved"}]
  <2> HIDE DEF new
  <2> QED
    BY <1>1, <1>3, <1>4
<1>6. ASSUME NEW id \in FindingIds, NEW type \in ActionTypes
      PROVE  AdviceAfter(resolved, fs)[<<id, type>>] =
                IF \E f \in fs : /\ IdOf(f) = id /\ type \in {r.type : r \in Recommend(f)}
                                 /\ Synced(resolved, <<id, type>>) = "none"
                THEN "active" ELSE Synced(resolved, <<id, type>>)
  <2>1. <<id, type>> \in DOMAIN advice
    BY <1>1
  <2>2. new(<<id, type>>) <=>
           \E f \in fs : /\ IdOf(f) = id /\ type \in {r.type : r \in Recommend(f)}
                         /\ Synced(resolved, <<id, type>>) = "none"
    BY <1>2, <2>1 DEF IsNewAction
  <2>3. AdviceAfter(resolved, fs)[<<id, type>>] =
           IF new(<<id, type>>) THEN "active" ELSE synced[<<id, type>>]
    <3> HIDE DEF new
    <3> QED
      BY <1>4, <2>1
  <2> HIDE DEF new
  <2> QED
    BY <1>2, <2>1, <2>2, <2>3
<1> QED
  BY <1>5, <1>6


\* What the row of a report is stored with.
DetailOf(f) == [severity |-> f.severity, evidence |-> f.evidence, refs |-> f.refs]

\* A finding not reported keeps its detail and what the UPDATEs left of its
\* row; a reported one is saved with the detail of a report.
Committed(id, resolved, fs, at) ==
    \/ /\ \A f \in fs : IdOf(f) # id
       /\ finding'[id] = resolved[id] /\ detail'[id] = detail[id]
    \/ \E f \in fs :
          /\ IdOf(f) = id
          /\ finding'[id] = Lifecycle!SaveFinding(resolved[id], at)
          /\ finding'[id].lifecycle # "none" /\ detail'[id] = DetailOf(f)

\* What persist_cycle leaves in the tables, finding by finding.
LEMMA PersistEffect ==
    ASSUME TypeOK, NEW p, NEW complete \in SUBSET p, NEW fs, IsReport(fs, p),
           NEW at \in Lifecycle!Times, NEW recommends \in BOOLEAN,
           PersistFindings(complete, fs, at, recommends)
    PROVE  /\ Lifecycle!TypeOK'
           /\ advice' \in [FindingIds \X ActionTypes -> {"none", "active", "resolved"}]
           /\ \A id \in FindingIds : finding'[id].lifecycle = "none" <=> detail'[id].severity = "none"
           /\ \A id \in FindingIds :
                 Committed(id, Lifecycle!ResolveFindingsForScopes(finding, complete), fs, at)
           /\ \A id \in FindingIds : seen'[id] \subseteq seen[id] \cup {at}
<1> DEFINE resolved == Lifecycle!ResolveFindingsForScopes(finding, complete)
           obs == {IdOf(f) : f \in fs}
           chosen(id) == CHOOSE f \in fs : IdOf(f) = id
           stored(f) == [severity |-> f.severity, evidence |-> f.evidence, refs |-> f.refs]
<1>1. /\ finding' = [id \in FindingIds |->
                        IF id \in obs THEN Lifecycle!SaveFinding(resolved[id], at) ELSE resolved[id]]
      /\ detail' = [id \in FindingIds |-> IF id \in obs THEN stored(chosen(id)) ELSE detail[id]]
      /\ advice' = AdviceAfter(resolved, IF recommends THEN fs ELSE {})
      /\ seen' = [id \in FindingIds |-> IF id \in obs THEN seen[id] \cup {at} ELSE seen[id]]
      /\ missed' = [id \in FindingIds |->
                       IF id \in obs THEN 0
                       ELSE IF id[1] \in complete THEN Lifecycle!Earlier(missed[id] + 1, 3)
                       ELSE missed[id]]
  BY DEF PersistFindings
<1>2. ASSUME NEW id \in FindingIds
      PROVE  /\ finding[id] \in Row /\ resolved[id] \in Row
             /\ resolved[id].lifecycle = "none" <=> finding[id].lifecycle = "none"
  BY ResolvedIs
<1>3. ASSUME NEW id \in obs
      PROVE  /\ chosen(id) \in fs /\ IdOf(chosen(id)) = id
             /\ stored(chosen(id)).severity # "none"
  <2>1. chosen(id) \in fs /\ IdOf(chosen(id)) = id
    OBVIOUS
  <2>2. stored(chosen(id)).severity = chosen(id).severity
    OBVIOUS
  <2> HIDE DEF chosen, stored
  <2> QED
    BY <2>1, <2>2 DEF IsReport, Graded
<1>4. /\ missed \in [FindingIds -> 0..3] /\ seen \in [FindingIds -> SUBSET Lifecycle!Times]
      /\ \A id \in FindingIds : finding[id].lifecycle = "none" <=> detail[id].severity = "none"
  BY DEF TypeOK, Lifecycle!TypeOK
<1>5. advice' \in [FindingIds \X ActionTypes -> {"none", "active", "resolved"}]
  BY <1>1, AdviceIs
<1> HIDE DEF resolved, obs, chosen
<1>6. finding' \in [FindingIds -> Row]
  <2>1. ASSUME NEW id \in FindingIds PROVE finding'[id] \in Row
    BY <1>1, <1>2, SavedIs
  <2> QED
    BY <1>1, <2>1
<1>7. Lifecycle!TypeOK'
  <2>1. \A id \in FindingIds : Lifecycle!Earlier(missed[id] + 1, 3) \in 0..3
    BY <1>4 DEF Lifecycle!Earlier
  <2>2. missed' \in [FindingIds -> 0..3]
    BY <1>1, <1>4, <2>1
  <2>3. seen' \in [FindingIds -> SUBSET Lifecycle!Times]
    BY <1>1, <1>4
  <2>4. /\ [f \in FindingIds |-> advice'[<<f, "rebalance_channel">>]]
              \in [FindingIds -> {"none", "active", "resolved"}]
        /\ [f \in FindingIds |-> IF advice'[<<f, "rebalance_channel">>] = "none" THEN 0 ELSE 1]
              \in [FindingIds -> Nat]
    BY <1>5 DEF ActionTypes
  <2> QED
    BY <1>6, <2>2, <2>3, <2>4 DEF Lifecycle!TypeOK, Row
<1>8. ASSUME NEW id \in FindingIds
      PROVE  /\ finding'[id].lifecycle = "none" <=> detail'[id].severity = "none"
             /\ \/ /\ id \notin obs /\ finding'[id] = resolved[id] /\ detail'[id] = detail[id]
                \/ /\ id \in obs /\ finding'[id] = Lifecycle!SaveFinding(resolved[id], at)
                   /\ finding'[id].lifecycle # "none" /\ detail'[id] = stored(chosen(id))
  <2> HIDE DEF stored
  <2>1. CASE id \in obs
    BY <1>1, <1>2, <1>3, <2>1, SavedIs
  <2>2. CASE id \notin obs
    BY <1>1, <1>2, <1>4, <2>2
  <2> QED
    BY <2>1, <2>2
<1>9. ASSUME NEW id \in FindingIds, id \notin obs
      PROVE  \A f \in fs : IdOf(f) # id
  BY <1>9 DEF obs
<1>10. \A id \in FindingIds : seen'[id] \subseteq seen[id] \cup {at}
  BY <1>1
<1>11. ASSUME NEW id \in FindingIds
       PROVE  \/ /\ \A f \in fs : IdOf(f) # id
                 /\ finding'[id] = resolved[id] /\ detail'[id] = detail[id]
              \/ \E f \in fs :
                    /\ IdOf(f) = id
                    /\ finding'[id] = Lifecycle!SaveFinding(resolved[id], at)
                    /\ finding'[id].lifecycle # "none" /\ detail'[id] = stored(f)
  <2> HIDE DEF stored
  <2>1. CASE id \in obs
    BY <1>3, <1>8, <2>1
  <2>2. CASE id \notin obs
    BY <1>8, <1>9, <2>2
  <2> QED
    BY <2>1, <2>2
<1>12. ASSUME NEW id \in FindingIds
       PROVE  Committed(id, resolved, fs, at)
  <2>1. \A f \in fs : stored(f) = DetailOf(f)
    BY DEF DetailOf
  <2> HIDE DEF resolved, stored
  <2> QED
    BY <1>11, <2>1 DEF Committed
<1> QED
  BY <1>5, <1>7, <1>8, <1>10, <1>12 DEF resolved

\* Committing what the detectors of a pipeline report is a cycle of the
\* lifecycle.
LEMMA PersistIsCycle ==
    ASSUME TypeOK, NEW p \in {ScanScopes, AgentScopes}, NEW complete \in SUBSET p,
           NEW fs, IsReport(fs, p), NEW at \in Lifecycle!Times,
           \A id \in FindingIds : \A t \in seen[id] : t <= at,
           PersistFindings(complete, fs, at, p = ScanScopes)
    PROVE  Lifecycle!Next
<1> DEFINE resolved == Lifecycle!ResolveFindingsForScopes(finding, complete)
           obs == {IdOf(f) : f \in fs}
           scope == [f \in FindingIds |-> f[1]]
           reb(id) == <<id, "rebalance_channel">>
           told == [f \in FindingIds |-> advice[reb(f)]]
           synced == Lifecycle!SyncRecommendationLifecycles(told, resolved)
           new == {f \in obs : Lifecycle!IsNew(synced, f)}
<1>1. /\ finding' = [id \in FindingIds |->
                        IF id \in obs THEN Lifecycle!SaveFinding(resolved[id], at) ELSE resolved[id]]
      /\ advice' = AdviceAfter(resolved, IF p = ScanScopes THEN fs ELSE {})
      /\ seen' = [id \in FindingIds |-> IF id \in obs THEN seen[id] \cup {at} ELSE seen[id]]
      /\ missed' = [id \in FindingIds |->
                       IF id \in obs THEN 0
                       ELSE IF id[1] \in complete THEN Lifecycle!Earlier(missed[id] + 1, 3)
                       ELSE missed[id]]
  BY DEF PersistFindings
<1>2. \A f \in FindingIds : Lifecycle!Current(f, at)
  BY DEF Lifecycle!Current
<1>3. missed' = [f \in FindingIds |->
                    IF f \in obs /\ Lifecycle!Current(f, at) THEN 0
                    ELSE IF scope[f] \in complete THEN Lifecycle!Earlier(missed[f] + 1, 3)
                    ELSE missed[f]]
  <2> HIDE DEF obs
  <2> QED
    BY <1>1, <1>2
<1>4. obs \subseteq {f \in FindingIds : scope[f] \in p}
  <2> SUFFICES ASSUME NEW f \in fs PROVE IdOf(f) \in FindingIds /\ scope[IdOf(f)] \in p
    OBVIOUS
  <2>1. IdOf(f) \in FindingIds /\ f.detector \in p /\ IdOf(f)[1] = f.detector
    BY DEF IsReport, IdOf
  <2> QED
    BY <2>1
<1>5. ASSUME NEW f \in FindingIds
      PROVE  /\ synced[f] = Synced(resolved, reb(f))
             /\ reb(f)[1] = f /\ "rebalance_channel" \in ActionTypes
  <2>1. synced[f] = IF told[f] = "active" /\ resolved[f].lifecycle = "resolved"
                    THEN "resolved" ELSE told[f]
    BY DEF Lifecycle!SyncRecommendationLifecycles
  <2> HIDE DEF synced, resolved
  <2> QED
    BY <2>1 DEF Synced, ActionTypes
<1>6. ASSUME NEW f \in FindingIds
      PROVE  f \in new <=> \E x \in (IF p = ScanScopes THEN fs ELSE {}) :
                              /\ IdOf(x) = f /\ "rebalance_channel" \in {r.type : r \in Recommend(x)}
                              /\ Synced(resolved, reb(f)) = "none"
  <2>1. f \in new <=> f \in obs /\ scope[f] \in ScanScopes /\ synced[f] = "none"
    BY DEF Lifecycle!IsNew, ScanScopes
  <2> HIDE DEF new, synced, resolved
  <2>2. CASE p = ScanScopes
    <3>1. \A x \in fs : "rebalance_channel" \in {r.type : r \in Recommend(x)}
      BY <2>2, RecommendIs DEF IsReport
    <3>2. f \in obs => scope[f] \in ScanScopes
      BY <1>4, <2>2
    <3> QED
      BY <1>5, <2>1, <2>2, <3>1, <3>2
  <2>3. CASE p # ScanScopes
    <3>1. f \in obs => scope[f] \notin ScanScopes
      BY <1>4, <2>3 DEF ScanScopes, AgentScopes
    <3> QED
      BY <2>1, <2>3, <3>1
  <2> QED
    BY <2>2, <2>3
<1>7. ASSUME NEW f \in FindingIds
      PROVE  advice'[reb(f)] = IF f \in new THEN "active" ELSE synced[f]
  <2> HIDE DEF new, synced, resolved
  <2>1. \A F : AdviceAfter(resolved, F)[<<f, "rebalance_channel">>] =
           IF \E x \in F : /\ IdOf(x) = f /\ "rebalance_channel" \in {r.type : r \in Recommend(x)}
                            /\ Synced(resolved, <<f, "rebalance_channel">>) = "none"
           THEN "active" ELSE Synced(resolved, <<f, "rebalance_channel">>)
    BY <1>5, AdviceIs
  <2> QED
    BY <1>1, <1>5, <1>6, <2>1
<1>8. [f \in FindingIds |-> advice'[reb(f)]] =
         [f \in FindingIds |-> IF f \in new THEN "active" ELSE synced[f]]
  <2> HIDE DEF new, synced, reb
  <2> QED
    BY <1>7
<1>9. ASSUME NEW f \in FindingIds
      PROVE  (IF advice'[reb(f)] = "none" THEN 0 ELSE 1) =
                IF f \in new THEN (IF advice[reb(f)] = "none" THEN 0 ELSE 1) + 1
                ELSE (IF advice[reb(f)] = "none" THEN 0 ELSE 1)
  <2>1. f \in new => synced[f] = "none"
    BY DEF Lifecycle!IsNew
  <2>2. synced[f] = "none" <=> advice[reb(f)] = "none"
    <3> HIDE DEF synced, resolved
    <3> QED
      BY <1>5 DEF Synced
  <2> HIDE DEF new, synced, reb
  <2> QED
    BY <1>7, <2>1, <2>2
<1>10. [f \in FindingIds |-> IF advice'[reb(f)] = "none" THEN 0 ELSE 1] =
          [f \in FindingIds |->
              IF f \in new THEN [x \in FindingIds |-> IF advice[reb(x)] = "none" THEN 0 ELSE 1][f] + 1
              ELSE [x \in FindingIds |-> IF advice[reb(x)] = "none" THEN 0 ELSE 1][f]]
  <2> HIDE DEF new, reb
  <2> QED
    BY <1>9
<1>11. Lifecycle!Cycle(complete, obs, at)
  BY <1>1, <1>3, <1>8, <1>10 DEF Lifecycle!Cycle
<1>12. p \in {DetectorIds \ {"settlement_reliability"}, {"settlement_reliability"}}
  BY DEF ScanScopes, AgentScopes
<1>13. obs \in SUBSET {f \in FindingIds : scope[f] \in p}
  BY <1>4
<1> HIDE DEF obs
<1> QED
  BY <1>11, <1>12, <1>13 DEF Lifecycle!Next


-----------------------------------------------------------------------------
(* What the detectors hand over.                                           *)

\* What else the proofs need of a report: trends are draining, and a finding
\* about settlements is one of a degraded window.
IsSoundReport(fs) ==
    \A f \in fs :
        /\ f.detector = "liquidity_trend" => f.evidence.direction = "draining"
        /\ f.detector = "settlement_reliability" =>
              /\ f.evidence.expired \in Nat /\ f.evidence.settled \in Nat
              /\ SettlementDegraded(f.evidence.expired, f.evidence.settled)
              /\ f.severity = SettlementSeverity(f.evidence.expired, f.evidence.settled, FALSE)

\* The report of scan or monitor.
LEMMA ScanReport ==
    ASSUME NEW g, IsGraph(g), NEW h, h = NoHistory \/ IsHistory(h)
    PROVE  /\ IsReport(DetectorFindings(g, h), ScanScopes)
           /\ IsSoundReport(DetectorFindings(g, h))
           /\ CompleteScopes(g, h) \in SUBSET ScanScopes
<1>1. ASSUME NEW f \in DetectorFindings(g, h)
      PROVE  /\ IsAbout(f, "channel_liquidity", g) \/ IsAbout(f, "liquidity_trend", g)
             /\ Graded(f)
             /\ f.detector = "liquidity_trend" => f.evidence.direction = "draining"
  <2>1. CASE f \in LiquidityRun(g)
    <3>1. IsAbout(f, "channel_liquidity", g) /\ Graded(f)
      BY <2>1, LiquidityFindingIs
    <3> QED
      BY <3>1 DEF IsAbout
  <2>2. CASE f \in DriftRun(g, h)
    <3>1. IsHistory(h)
      BY <2>2 DEF DriftRun
    <3> QED
      BY <2>2, <3>1, TrendFindingIs
  <2> QED
    BY <2>1, <2>2 DEF DetectorFindings
<1>2. ASSUME NEW f \in DetectorFindings(g, h)
      PROVE  /\ IdOf(f) \in FindingIds /\ f.detector \in ScanScopes
             /\ f.detector # "settlement_reliability"
  BY <1>1 DEF IsAbout, IdOf, FindingIds, ScanScopes, DetectorIds
<1>3. CompleteScopes(g, h) \in SUBSET ScanScopes
  BY DEF CompleteScopes, ScanScopes, DetectorIds
<1> QED
  BY <1>1, <1>2, <1>3 DEF IsReport, IsSoundReport

\* The report of the agent.
LEMMA AgentReport ==
    ASSUME NEW w \in InvoiceWindows
    PROVE  /\ IsReport(SettlementRun(Normalized(w), EmptyGraph, Node, "unknown"), AgentScopes)
           /\ IsSoundReport(SettlementRun(Normalized(w), EmptyGraph, Node, "unknown"))
<1> DEFINE events == Normalized(w)
           e == ExpiredCount(events)
           s == SettledCount(events)
           fs == SettlementRun(events, EmptyGraph, Node, "unknown")
<1>1. e \in Nat /\ s \in Nat
  <2>1. w \in Seq(STRING)
    BY PipelineAssumption
  <2>2. Len(w) \in Nat /\ DOMAIN events = 1..Len(w)
    BY <2>1 DEF Normalized
  <2> HIDE DEF events
  <2> QED
    BY <2>2, CountType DEF ExpiredCount, SettledCount
<1> HIDE DEF events
<1>2. ASSUME NEW f \in fs
      PROVE  /\ IdOf(f) = <<"settlement_reliability", NodeWide>>
             /\ f.detector = "settlement_reliability"
             /\ f.severity = SettlementSeverity(e, s, FALSE)
             /\ f.evidence.expired = e /\ f.evidence.settled = s
             /\ SettlementDegraded(e, s)
  BY SettlementOnEmpty
<1>3. SettlementSeverity(e, s, FALSE) \in {"warning", "critical"}
  BY DEF SettlementSeverity
<1> HIDE DEF fs, e, s
<1>4. IsReport(fs, AgentScopes)
  <2>1. ASSUME NEW f \in fs
        PROVE  Graded(f)
    BY <1>2, <1>3 DEF Graded
  <2>2. <<"settlement_reliability", NodeWide>> \in FindingIds
    BY DEF FindingIds
  <2> QED
    BY <1>2, <2>1, <2>2 DEF IsReport, AgentScopes
<1>5. IsSoundReport(fs)
  BY <1>1, <1>2 DEF IsSoundReport
<1> QED
  BY <1>4, <1>5 DEF fs, events

-----------------------------------------------------------------------------
(* The history and the snapshots on disk.                                  *)

\* The rows of a channel, and the table.
Table ==
    {rows \in [Nodes -> SUBSET Snapshots] :
        \A n \in Nodes : IsFiniteSet(rows[n]) /\ \A r \in rows[n] : r.node = n}
Rows == [Channels -> Table]

Policies == {Retention, DefaultRetention}

\* The snapshots of a channel that are rows or that retention may have deleted.
Accounted(rows, at) == {r \in Snapshots : IsAccounted(rows, r, at)}

\* What the history of a channel may hold: what the table accounts for, and
\* what this cycle has seen and not yet written.
Known(c) ==
    Accounted(disk[c], now) \cup
        {s \in Snapshots : phase = "observed" /\ graph[c] # NoChannel /\ s = SnapshotOf(graph[c])}

\* A sequence of elements of U is one over U.
LEMMA SequenceOver ==
    ASSUME NEW T, NEW s \in Seq(T), NEW U, \A i \in DOMAIN s : s[i] \in U
    PROVE  s \in Seq(U)
<1>1. Len(s) \in Nat /\ s \in [1..Len(s) -> T] /\ DOMAIN s = 1..Len(s)
  BY LenProperties
<1>2. s \in [1..Len(s) -> U]
  BY <1>1
<1> QED
  BY <1>1, <1>2, SeqDef

\* A sequence over a set is one over a larger set.
LEMMA SequenceGrows ==
    ASSUME NEW S, NEW T, S \subseteq T, NEW s \in Seq(S)
    PROVE  s \in Seq(T)
<1>1. \A i \in DOMAIN s : s[i] \in T
  <2>1. s \in [1..Len(s) -> S] /\ DOMAIN s = 1..Len(s)
    BY LenProperties
  <2> QED
    BY <2>1
<1> QED
  BY <1>1, SequenceOver

\* Capping a bucket keeps its last entries.
LEMMA CappedIs ==
    ASSUME NEW S, NEW bucket \in Seq(S)
    PROVE  Capped(bucket) \in Seq(S)
<1>1. MaxHistory \in Nat /\ Len(bucket) \in Nat
  BY PipelineAssumption
<1>2. CASE Len(bucket) <= MaxHistory
  BY <1>2 DEF Capped
<1>3. CASE ~(Len(bucket) <= MaxHistory)
  <2>1. \A i \in (Len(bucket) - MaxHistory + 1)..Len(bucket) : bucket[i] \in S
    BY <1>1, <1>3
  <2>2. SubSeq(bucket, Len(bucket) - MaxHistory + 1, Len(bucket)) \in Seq(S)
    BY <1>1, <2>1, SubSeqProperties
  <2> QED
    BY <1>3, <2>2 DEF Capped
<1> QED
  BY <1>2, <1>3

\* A push adds the channel's snapshot and no other.
LEMMA PushIs ==
    ASSUME NEW S, NEW h, NEW g, NEW c \in Channels, h[c] \in Seq(S),
           g[c] # NoChannel => SnapshotOf(g[c]) \in S
    PROVE  Push(h, g)[c] \in Seq(S)
<1>1. CASE g[c] = NoChannel
  BY <1>1 DEF Push
<1>2. CASE g[c] # NoChannel
  <2>1. Append(h[c], SnapshotOf(g[c])) \in Seq(S)
    BY <1>2
  <2>2. Capped(Append(h[c], SnapshotOf(g[c]))) \in Seq(S)
    BY <2>1, CappedIs
  <2> QED
    BY <1>2, <2>2 DEF Push
<1> QED
  BY <1>1, <1>2

\* A strict order on S.
Strict(S, before) ==
    /\ \A x \in S : <<x, x>> \notin before
    /\ \A x, y, z \in S : <<x, y>> \in before /\ <<y, z>> \in before => <<x, z>> \in before

\* What a sorted query may return.
Listing(list, S, before) ==
    /\ list \in [1..Cardinality(S) -> S]
    /\ IsInjective(list)
    /\ \A j, k \in DOMAIN list : j < k => <<list[k], list[j]>> \notin before

\* A finite set of a strict order has a member that none comes after.
LEMMA LastIs ==
    ASSUME NEW S, IsFiniteSet(S), S # {}, NEW before, Strict(S, before)
    PROVE  \E x \in S : \A y \in S : <<x, y>> \notin before
<1> DEFINE Up(x) == {y \in S : <<x, y>> \in before}
           Ups == {Up(x) : x \in S}
           R == StrictSubsetOrdering(S)
<1>1. IsWellFoundedOn(R, SUBSET S)
  BY FS_StrictSubsetOrderingWellFounded, FS_FiniteSubsetsOfFinite
<1>2. Ups \subseteq SUBSET S /\ Ups # {}
  OBVIOUS
<1>3. PICK U \in Ups : \A V \in Ups : ~ (<<V, U>> \in R)
  <2> HIDE DEF Ups, R
  <2> QED
    BY <1>1, <1>2, WFMin
<1>4. PICK x \in S : U = Up(x)
  BY <1>3
<1>5. SUFFICES ASSUME NEW y \in S, <<x, y>> \in before
               PROVE  FALSE
  OBVIOUS
<1>6. Up(y) \subseteq Up(x) /\ y \in Up(x) /\ y \notin Up(y)
  BY <1>5 DEF Strict
<1>7. Up(y) \in Ups
  OBVIOUS
<1>8. <<Up(y), Up(x)>> \in R
  BY <1>6 DEF StrictSubsetOrdering
<1> QED
  BY <1>3, <1>4, <1>7, <1>8

\* Every finite set of a strict order can be listed.
LEMMA ListingExists ==
    ASSUME NEW S, IsFiniteSet(S), NEW before, Strict(S, before)
    PROVE  \E list : Listing(list, S, before)
<1> DEFINE Bad == {T \in SUBSET S : ~ \E list : Listing(list, T, before)}
           R == StrictSubsetOrdering(S)
<1>1. SUFFICES ASSUME Bad # {} PROVE FALSE
  OBVIOUS
<1>2. PICK T \in Bad : \A U \in Bad : ~ (<<U, T>> \in R)
  <2>1. IsWellFoundedOn(R, SUBSET S)
    BY FS_StrictSubsetOrderingWellFounded, FS_FiniteSubsetsOfFinite
  <2>2. Bad \subseteq SUBSET S
    OBVIOUS
  <2> HIDE DEF Bad, R
  <2> QED
    BY <1>1, <2>1, <2>2, WFMin
<1>3. T \subseteq S /\ IsFiniteSet(T)
  BY FS_Subset
<1>4. T # {}
  <2>1. ASSUME T = {} PROVE Listing(<<>>, T, before)
    BY <2>1, FS_EmptySet DEF Listing, IsInjective
  <2> QED
    BY <2>1
<1>5. PICK x \in T : \A y \in T : <<x, y>> \notin before
  BY <1>3, <1>4, LastIs DEF Strict
<1> DEFINE U == T \ {x}
           n == Cardinality(T)
<1>6. IsFiniteSet(U) /\ Cardinality(U) = n - 1 /\ n \in Nat /\ n > 0
  BY <1>3, <1>4, FS_RemoveElement, FS_CardinalityType, FS_EmptySet
<1>7. U \notin Bad
  BY <1>2, <1>3 DEF StrictSubsetOrdering
<1>8. PICK rest : Listing(rest, U, before)
  BY <1>3, <1>7
<1> DEFINE list == [k \in 1..n |-> IF k = n THEN x ELSE rest[k]]
<1>9. rest \in [1..(n - 1) -> U] /\ IsInjective(rest)
  BY <1>6, <1>8 DEF Listing
<1>10. list \in [1..n -> T]
  BY <1>6, <1>9
<1>11. IsInjective(list)
  BY <1>6, <1>9 DEF IsInjective
<1>12. \A j, k \in 1..n : j < k => <<list[k], list[j]>> \notin before
  <2>1. SUFFICES ASSUME NEW j \in 1..n, NEW k \in 1..n, j < k
                 PROVE  <<list[k], list[j]>> \notin before
    OBVIOUS
  <2>2. CASE k = n
    BY <1>5, <1>6, <1>9, <2>1, <2>2
  <2>3. CASE k # n
    <3>1. j \in 1..(n - 1) /\ k \in 1..(n - 1) /\ DOMAIN rest = 1..(n - 1)
      BY <1>6, <1>9, <2>1, <2>3
    <3>2. <<rest[k], rest[j]>> \notin before
      BY <1>8, <2>1, <3>1 DEF Listing
    <3> QED
      BY <1>6, <3>1, <3>2
  <2> QED
    BY <2>2, <2>3
<1>13. Listing(list, T, before)
  BY <1>10, <1>11, <1>12 DEF Listing
<1> QED
  BY <1>13

\* What a sorted query returns: every row once, none after one it is before.
LEMMA ListedIs ==
    ASSUME NEW S, IsFiniteSet(S), NEW before, Strict(S, before)
    PROVE  Listed(S, before) \in Seq(S)
<1>1. Listing(Listed(S, before), S, before)
  <2>1. PICK l : Listing(l, S, before)
    BY ListingExists
  <2> QED
    BY <2>1 DEF Listed, Listing
<1>2. Cardinality(S) \in Nat
  BY FS_CardinalityType
<1> QED
  BY <1>1, <1>2 DEF Listing

\* The warm-up adds rows of the channel and no other.
LEMMA WarmIs ==
    ASSUME NEW S, NEW h, NEW g, NEW c \in Channels, h[c] \in Seq(S), disk \in Rows,
           disk[c][Node] \subseteq S
    PROVE  WarmFromSnapshots(h, g)[c] \in Seq(S)
<1> DEFINE rows == disk[c][Node]
           before == {p \in rows \X rows : p[1].ts < p[2].ts}
<1>1. rows \subseteq Snapshots /\ IsFiniteSet(rows)
  BY DEF Rows, Table, Nodes
<1>2. Strict(rows, before)
  <2>1. \A x \in rows : x.ts \in Int
    BY <1>1 DEF Snapshots
  <2> QED
    BY <2>1 DEF Strict
<1> HIDE DEF rows, before
<1>3. Listed(rows, before) \in Seq(rows)
  BY <1>1, <1>2, ListedIs
<1>4. PersistedFor(c) = Listed(rows, before)
  BY DEF PersistedFor, OldestFirst, rows, before
<1>5. PersistedFor(c) \in Seq(S)
  BY <1>3, <1>4, SequenceGrows DEF rows
<1>6. Capped(PersistedFor(c)) \in Seq(S)
  BY <1>5, CappedIs
<1>7. h[c] \o Capped(PersistedFor(c)) \in Seq(S)
  BY <1>6, ConcatProperties
<1> QED
  BY <1>7 DEF WarmFromSnapshots

\* Every row of a channel is accounted for.
LEMMA RowsAreAccounted ==
    ASSUME NEW rows \in Table, NEW at, NEW n \in Nodes
    PROVE  rows[n] \subseteq Accounted(rows, at)
BY DEF Table, Accounted, IsAccounted

\* Saving a graph's snapshots adds them and keeps the rest.
LEMMA SaveIs ==
    ASSUME NEW rows \in Rows, NEW g, IsGraph(g)
    PROVE  /\ SaveSnapshots(rows, g) \in Rows
           /\ \A c \in Channels :
                 /\ \A n \in Nodes : rows[c][n] \subseteq SaveSnapshots(rows, g)[c][n]
                 /\ g[c] # NoChannel =>
                       /\ g[c].node \in Nodes
                       /\ SnapshotOf(g[c]) \in SaveSnapshots(rows, g)[c][g[c].node]
<1> DEFINE new == SaveSnapshots(rows, g)
<1>1. ASSUME NEW c \in Channels
      PROVE  /\ new[c] \in Table
             /\ \A n \in Nodes : rows[c][n] \subseteq new[c][n]
             /\ g[c] # NoChannel => g[c].node \in Nodes /\ SnapshotOf(g[c]) \in new[c][g[c].node]
  <2>1. rows[c] \in Table
    BY DEF Rows
  <2>2. CASE g[c] = NoChannel
    <3>1. new[c] = rows[c]
      BY <2>2 DEF SaveSnapshots
    <3> HIDE DEF new
    <3> QED
      BY <2>1, <2>2, <3>1
  <2>3. CASE g[c] # NoChannel
    <3> DEFINE s == SnapshotOf(g[c])
               m == g[c].node
    <3>1. g[c] \in NormalChannels
      BY <2>3 DEF IsGraph
    <3>2. s \in Snapshots /\ m \in Nodes /\ s.node = m
      BY <3>1, NormalFacts DEF SnapshotOf
    <3>3. new[c] = [rows[c] EXCEPT ![m] = rows[c][m] \cup {s}]
      BY <2>3 DEF SaveSnapshots
    <3> HIDE DEF new, s, m
    <3>4. /\ rows[c] \in [Nodes -> SUBSET Snapshots]
          /\ \A n \in Nodes : IsFiniteSet(rows[c][n]) /\ \A r \in rows[c][n] : r.node = n
      BY <2>1 DEF Table
    <3>5. IsFiniteSet(rows[c][m] \cup {s})
      BY <3>2, <3>4, FS_AddElement
    <3>6. /\ new[c] \in [Nodes -> SUBSET Snapshots]
          /\ new[c][m] = rows[c][m] \cup {s}
          /\ \A n \in Nodes \ {m} : new[c][n] = rows[c][n]
      BY <3>2, <3>3, <3>4
    <3>7. \A n \in Nodes : IsFiniteSet(new[c][n]) /\ \A r \in new[c][n] : r.node = n
      BY <3>2, <3>4, <3>5, <3>6
    <3>8. new[c] \in Table
      BY <3>6, <3>7 DEF Table
    <3>9. \A n \in Nodes : rows[c][n] \subseteq new[c][n]
      BY <3>6
    <3>10. s \in new[c][m]
      BY <3>6
    <3> QED
      BY <3>2, <3>8, <3>9, <3>10 DEF s, m
  <2> QED
    BY <2>2, <2>3
<1>2. new = [c \in Channels |-> new[c]]
  BY DEF SaveSnapshots
<1> HIDE DEF new
<1>3. new \in Rows
  BY <1>1, <1>2 DEF Rows
<1> QED
  BY <1>1, <1>3 DEF new

-----------------------------------------------------------------------------
(* Retention.                                                              *)

\* The policies are records of natural numbers.
LEMMA PoliciesAre ==
    ASSUME NEW p \in Policies
    PROVE  p.age \in Nat /\ p.closed_age \in Nat /\ p.cap \in Nat
BY PipelineAssumption DEF Policies, RetentionPolicies

\* What is newer than a row, in a set and in a part of it.
LEMMA NewerIs ==
    ASSUME NEW S \in SUBSET Snapshots, IsFiniteSet(S), NEW T \in SUBSET S, NEW r \in Snapshots
    PROVE  /\ IsFiniteSet(Newer(S, r)) /\ Newer(T, r) \subseteq Newer(S, r)
           /\ Cardinality(Newer(T, r)) \in Nat /\ Cardinality(Newer(S, r)) \in Nat
           /\ Cardinality(Newer(T, r)) <= Cardinality(Newer(S, r))
<1>1. Newer(S, r) \subseteq S /\ Newer(T, r) \subseteq Newer(S, r)
  BY DEF Newer
<1>2. IsFiniteSet(Newer(S, r)) /\ IsFiniteSet(Newer(T, r))
  BY <1>1, FS_Subset
<1> QED
  BY <1>1, <1>2, FS_Subset, FS_CardinalityType

\* A row that may be gone stays so while rows are added and time passes.
LEMMA GoneStays ==
    ASSUME NEW p \in Policies, NEW T \in SUBSET Snapshots, IsFiniteSet(T), NEW S \in SUBSET T,
           NEW r \in Snapshots, NEW at \in Int, NEW later \in Int, at <= later,
           MayBeGone(p, S, r, at)
    PROVE  MayBeGone(p, T, r, later)
<1>1. /\ r.ts \in Int /\ AgeOf(p, r.status) \in Int
      /\ \A q \in Policies : q.age \in Int /\ q.closed_age \in Int
      /\ p.cap \in Nat
  BY PoliciesAre DEF AgeOf, Snapshots
<1>2. /\ Cardinality(Newer(S, r)) \in Nat /\ Cardinality(Newer(T, r)) \in Nat
      /\ Cardinality(Newer(S, r)) <= Cardinality(Newer(T, r))
  BY NewerIs
<1>3. CASE Expired(p, r, at)
  BY <1>1, <1>3 DEF MayBeGone, Expired
<1>4. CASE p.cap > 0 /\ Cardinality(Newer(S, r)) >= p.cap
  BY <1>1, <1>2, <1>4 DEF MayBeGone
<1>5. CASE p.cap > 0 /\ \E q \in Policies : r.ts < at - q.age \/ r.ts < at - q.closed_age
  BY <1>1, <1>5 DEF MayBeGone, Policies
<1> QED
  BY <1>3, <1>4, <1>5 DEF MayBeGone, Policies

\* What a channel's rows account for they account for with more rows and at a
\* later time.
LEMMA AccountedGrows ==
    ASSUME NEW rows \in Table, NEW more \in Table, \A n \in Nodes : rows[n] \subseteq more[n],
           NEW at \in Int, NEW later \in Int, at <= later
    PROVE  Accounted(rows, at) \subseteq Accounted(more, later)
<1> SUFFICES ASSUME NEW r \in Snapshots, IsAccounted(rows, r, at)
             PROVE  IsAccounted(more, r, later)
  BY DEF Accounted
<1>1. /\ r.node \in Nodes /\ rows[r.node] \subseteq more[r.node]
      /\ more[r.node] \in SUBSET Snapshots /\ IsFiniteSet(more[r.node])
  BY DEF Snapshots, Table
<1>2. CASE r \in rows[r.node]
  BY <1>1, <1>2 DEF IsAccounted
<1>3. CASE \E p \in Policies : MayBeGone(p, rows[r.node], r, at)
  <2>1. PICK p \in Policies : MayBeGone(p, rows[r.node], r, at)
    BY <1>3
  <2>2. MayBeGone(p, more[r.node], r, later)
    BY <1>1, <2>1, GoneStays
  <2> QED
    BY <2>2 DEF IsAccounted, Policies
<1> QED
  BY <1>2, <1>3 DEF IsAccounted, Policies

\* The cap leaves what is newer than a row, or as many newer rows as it is.
LEMMA NewestIs ==
    ASSUME NEW S \in SUBSET Snapshots, IsFiniteSet(S), NEW cap \in Nat, NEW r \in Snapshots
    PROVE  /\ Newest(S, cap) \subseteq S
           /\ \/ Newer(Newest(S, cap), r) = Newer(S, r)
              \/ cap > 0 /\ Cardinality(Newer(Newest(S, cap), r)) >= cap
           /\ r \in S \ Newest(S, cap) => cap > 0 /\ Cardinality(Newer(S, r)) >= cap
<1> DEFINE K == Newest(S, cap)
           X == Newer(S, r) \ K
           before == {p \in X \X X : p[1].ts < p[2].ts}
<1>1. K \subseteq S /\ \A x \in S \ K : cap > 0 /\ ~ (Cardinality(Newer(S, x)) < cap)
  BY DEF Newest
<1>2. \A x \in Snapshots : Cardinality(Newer(S, x)) \in Nat
  BY NewerIs
<1>3. \A x \in S \ K : cap > 0 /\ Cardinality(Newer(S, x)) >= cap
  BY <1>1, <1>2
<1>4. CASE X = {}
  <2>1. Newer(K, r) = Newer(S, r)
    BY <1>1, <1>4 DEF Newer
  <2> QED
    BY <1>1, <1>3, <2>1
<1>5. CASE X # {}
  <2>1. X \subseteq S \ K /\ X \subseteq Snapshots
    BY DEF Newer
  <2>2. IsFiniteSet(X)
    BY <2>1, FS_Subset
  <2>3. \A x \in Snapshots : x.ts \in Int
    BY DEF Snapshots
  <2>4. Strict(X, before)
    BY <2>1, <2>3 DEF Strict
  <2>5. PICK x \in X : \A y \in X : <<x, y>> \notin before
    BY <1>5, <2>2, <2>4, LastIs
  <2>6. cap > 0 /\ Cardinality(Newer(S, x)) >= cap
    BY <1>3, <2>1
  <2>7. Newer(S, x) \subseteq Newer(K, r)
    <3> SUFFICES ASSUME NEW y \in S, y.ts > x.ts
                 PROVE  y \in K /\ y.ts > r.ts
      BY DEF Newer
    <3>1. y.ts > r.ts
      BY <2>1, <2>3 DEF Newer
    <3>2. y \notin X
      BY <2>1, <2>3, <2>5
    <3> QED
      BY <3>1, <3>2 DEF Newer
  <2>8. IsFiniteSet(Newer(K, r)) /\ Cardinality(Newer(K, r)) \in Nat
    BY <1>1, FS_Subset, NewerIs
  <2>9. Cardinality(Newer(S, x)) <= Cardinality(Newer(K, r))
    BY <2>7, <2>8, FS_Subset
  <2>10. Cardinality(Newer(S, x)) \in Nat
    BY <1>2, <2>1
  <2>11. Cardinality(Newer(K, r)) >= cap
    BY <2>6, <2>8, <2>9, <2>10
  <2> QED
    BY <1>1, <1>3, <2>6, <2>11
<1> QED
  BY <1>4, <1>5

\* What a pass leaves of a set of rows accounts for the rest.
LEMMA PassAccounts ==
    ASSUME NEW policy \in Policies, NEW S \in SUBSET Snapshots, IsFiniteSet(S), NEW at \in Int,
           NEW r \in Snapshots,
           r \in S \/ \E p \in Policies : MayBeGone(p, S, r, at)
    PROVE  LET left == Newest({x \in S : ~Expired(policy, x, at)}, policy.cap)
           IN  r \in left \/ \E p \in Policies : MayBeGone(p, left, r, at)
<1> DEFINE young == {x \in S : ~Expired(policy, x, at)}
           left == Newest(young, policy.cap)
<1>1. young \in SUBSET S /\ young \in SUBSET Snapshots /\ IsFiniteSet(young) /\ policy.cap \in Nat
  BY FS_Subset, PoliciesAre
<1>2. /\ left \subseteq young
      /\ \/ Newer(left, r) = Newer(young, r)
         \/ policy.cap > 0 /\ Cardinality(Newer(left, r)) >= policy.cap
      /\ r \in young \ left => policy.cap > 0 /\ Cardinality(Newer(young, r)) >= policy.cap
  <2> HIDE DEF young
  <2> QED
    BY <1>1, NewestIs
<1> HIDE DEF left
<1>3. SUFFICES ASSUME \A p \in Policies : ~MayBeGone(p, left, r, at)
               PROVE  r \in left
  BY DEF left
<1>4. /\ ~Expired(policy, r, at)
      /\ \A p \in Policies : p.cap > 0 => ~ (Cardinality(Newer(left, r)) >= p.cap)
  BY <1>3 DEF MayBeGone
<1>5. Newer(left, r) = Newer(young, r)
  BY <1>2, <1>4
<1>6. CASE r \in S
  BY <1>2, <1>4, <1>5, <1>6
<1>7. ASSUME NEW p \in Policies, MayBeGone(p, S, r, at)
      PROVE  FALSE
  <2>1. ~Expired(p, r, at)
    BY <1>3 DEF MayBeGone
  <2>2. p.cap > 0 /\ Cardinality(Newer(S, r)) >= p.cap
    BY <1>3, <1>7, <2>1 DEF MayBeGone
  <2>3. \A q \in Policies : ~ (r.ts < at - q.age) /\ ~ (r.ts < at - q.closed_age)
    BY <1>3, <2>2 DEF MayBeGone, Policies
  <2>4. Newer(S, r) = Newer(young, r)
    <3> SUFFICES ASSUME NEW x \in S, x.ts > r.ts
                 PROVE  ~Expired(policy, x, at)
      BY DEF Newer
    <3>1. x.ts \in Int /\ r.ts \in Int /\ policy.age \in Int /\ policy.closed_age \in Int
      BY PoliciesAre DEF Snapshots
    <3> QED
      BY <2>3, <3>1 DEF Expired, AgeOf
  <2> QED
    BY <1>4, <1>5, <2>2, <2>4
<1> QED
  BY <1>6, <1>7

\* A pass of either policy keeps the table one, and account of what is deleted.
LEMMA RetainedIs ==
    ASSUME NEW policy \in Policies, disk \in Rows, now \in Int
    PROVE  /\ Retained(policy) \in Rows
           /\ \A c \in Channels : Accounted(disk[c], now) \subseteq Accounted(Retained(policy)[c], now)
<1>1. ASSUME NEW c \in Channels
      PROVE  /\ Retained(policy)[c] \in Table
             /\ Accounted(disk[c], now) \subseteq Accounted(Retained(policy)[c], now)
  <2> DEFINE left(n) == Newest({x \in disk[c][n] : ~Expired(policy, x, now)}, policy.cap)
             new == Retained(policy)[c]
  <2>1. new = [n \in Nodes |-> left(n)]
    BY DEF Retained
  <2>2. disk[c] \in Table
    BY DEF Rows
  <2>3. \A n \in Nodes : left(n) \subseteq disk[c][n]
    BY DEF Newest
  <2> HIDE DEF left, new
  <2>4. new \in Table
    <3>1. \A n \in Nodes : IsFiniteSet(disk[c][n]) /\ disk[c][n] \subseteq Snapshots
      BY <2>2 DEF Table
    <3>2. \A n \in Nodes : IsFiniteSet(left(n)) /\ left(n) \subseteq Snapshots
      BY <2>3, <3>1, FS_Subset
    <3> QED
      BY <2>1, <2>2, <2>3, <3>2 DEF Table
  <2>5. ASSUME NEW r \in Snapshots, IsAccounted(disk[c], r, now)
        PROVE  IsAccounted(new, r, now)
    <3>1. r.node \in Nodes /\ new[r.node] = left(r.node)
      BY <2>1 DEF Snapshots
    <3>2. disk[c][r.node] \in SUBSET Snapshots /\ IsFiniteSet(disk[c][r.node])
      BY <2>2, <3>1 DEF Table
    <3>3. r \in disk[c][r.node] \/ \E p \in Policies : MayBeGone(p, disk[c][r.node], r, now)
      BY <2>5 DEF IsAccounted, Policies
    <3>4. r \in left(r.node) \/ \E p \in Policies : MayBeGone(p, left(r.node), r, now)
      BY <3>2, <3>3, PassAccounts DEF left
    <3> QED
      BY <3>1, <3>4 DEF IsAccounted, Policies
  <2> QED
    BY <2>4, <2>5 DEF Accounted, new
<1>2. Retained(policy) = [c \in Channels |-> Retained(policy)[c]]
  BY DEF Retained
<1>3. Retained(policy) \in Rows
  BY <1>1, <1>2 DEF Rows
<1> QED
  BY <1>1, <1>3


-----------------------------------------------------------------------------
(* The inductive invariant.                                                *)

\* Whatever the history holds of a channel is accounted for or about to be.
HistoryIsKnown == \A c \in Channels : hist[c] \in Seq(Known(c))

ObservedByNow == \A id \in FindingIds : \A t \in seen[id] : t <= now

ChannelDetectors == {"channel_liquidity", "liquidity_trend"}

\* Whatever a finding about a channel refers to is accounted for.
EvidenceIsAccounted ==
    \A d \in ChannelDetectors, c \in Channels :
        detail[<<d, c>>].refs \subseteq Accounted(disk[c], now)

\* What the properties rest on.
PipelineInv ==
    /\ IsGraph(graph)
    /\ disk \in Rows
    /\ HistoryIsKnown
    /\ ObservedByNow
    /\ EvidenceIsAccounted
    /\ AdviceCoversFinding
    /\ SettlementIsDegraded

\* The identities of findings about channels.
LEMMA ChannelIds ==
    /\ \A d \in ChannelDetectors, c \in Channels : <<d, c>> \in FindingIds
    /\ <<"settlement_reliability", NodeWide>> \in FindingIds
    /\ ScanScopes = ChannelDetectors /\ AgentScopes = {"settlement_reliability"}
BY DEF FindingIds, ChannelDetectors, ScanScopes, AgentScopes, DetectorIds

\* What a commit of a report keeps true, when the snapshots it refers to are
\* written with it or accounted for.
LEMMA CommitKeeps ==
    ASSUME TypeOK, PipelineInv, NEW p \in {ScanScopes, AgentScopes}, NEW complete \in SUBSET p,
           NEW fs, IsReport(fs, p), IsSoundReport(fs),
           NEW at \in Lifecycle!Times, now <= at, now' = at,
           PersistFindings(complete, fs, at, p = ScanScopes),
           \A c \in Channels : Accounted(disk[c], now) \subseteq Accounted(disk'[c], now'),
           \A f \in fs : f.detector \in ScanScopes =>
                            f.refs \subseteq Accounted(disk'[f.channel], now')
    PROVE  /\ Lifecycle!TypeOK'
           /\ advice' \in [FindingIds \X ActionTypes -> {"none", "active", "resolved"}]
           /\ \A id \in FindingIds : finding'[id].lifecycle = "none" <=> detail'[id].severity = "none"
           /\ ObservedByNow' /\ EvidenceIsAccounted' /\ AdviceCoversFinding' /\ SettlementIsDegraded'
           /\ Lifecycle!Next
<1> DEFINE resolved == Lifecycle!ResolveFindingsForScopes(finding, complete)
<1>1. /\ Lifecycle!TypeOK'
      /\ advice' \in [FindingIds \X ActionTypes -> {"none", "active", "resolved"}]
      /\ \A id \in FindingIds : finding'[id].lifecycle = "none" <=> detail'[id].severity = "none"
      /\ \A id \in FindingIds : seen'[id] \subseteq seen[id] \cup {at}
  <2>1. (p = ScanScopes) \in BOOLEAN
    OBVIOUS
  <2> QED
    BY <2>1, PersistEffect
<1>2. ASSUME NEW id \in FindingIds
      PROVE  \/ /\ \A f \in fs : IdOf(f) # id
                /\ finding'[id] = resolved[id] /\ detail'[id] = detail[id]
             \/ \E f \in fs :
                   /\ IdOf(f) = id /\ finding'[id].lifecycle # "none"
                   /\ detail'[id] = [severity |-> f.severity, evidence |-> f.evidence, refs |-> f.refs]
  <2>1. (p = ScanScopes) \in BOOLEAN
    OBVIOUS
  <2>2. Committed(id, resolved, fs, at)
    BY <2>1, PersistEffect
  <2> HIDE DEF resolved
  <2> QED
    BY <2>2 DEF Committed, DetailOf
<1>3. ASSUME NEW id \in FindingIds
      PROVE  resolved[id].lifecycle = "none" <=> finding[id].lifecycle = "none"
  BY ResolvedIs
<1> HIDE DEF resolved
<1>4. ASSUME NEW id \in FindingIds, NEW f \in fs, IdOf(f) = id
      PROVE  f.detector = id[1] /\ f.channel = id[2] /\ f.detector \in p
  BY <1>4 DEF IdOf, IsReport
<1>5. ObservedByNow'
  <2>1. now \in Int /\ at \in Int
    BY PipelineAssumption DEF TypeOK, Lifecycle!Times
  <2>2. \A id \in FindingIds : \A t \in seen[id] : t \in Int /\ t <= now
    BY PipelineAssumption DEF PipelineInv, ObservedByNow, TypeOK, Lifecycle!TypeOK, Lifecycle!Times
  <2> QED
    BY <1>1, <2>1, <2>2 DEF ObservedByNow
<1>6. Lifecycle!Next
  <2>1. \A id \in FindingIds : \A t \in seen[id] : t <= at
    BY PipelineAssumption
    DEF PipelineInv, ObservedByNow, TypeOK, Lifecycle!TypeOK, Lifecycle!Times
  <2> QED
    BY <2>1, PersistIsCycle
<1>7. EvidenceIsAccounted'
  <2> SUFFICES ASSUME NEW d \in ChannelDetectors, NEW c \in Channels
               PROVE  detail'[<<d, c>>].refs \subseteq Accounted(disk'[c], now')
    <3>1. EvidenceIsAccounted' <=>
             \A d_1 \in ChannelDetectors, c_1 \in Channels :
                detail'[<<d_1, c_1>>].refs \subseteq Accounted(disk'[c_1], now')
      BY DEF EvidenceIsAccounted, Accounted, IsAccounted, MayBeGone, Newer, Expired, AgeOf
    <3> QED
      BY <3>1
  <2>1. <<d, c>> \in FindingIds /\ <<d, c>>[1] = d /\ <<d, c>>[2] = c
    BY ChannelIds
  <2>2. CASE detail'[<<d, c>>] = detail[<<d, c>>]
    BY <2>2 DEF PipelineInv, EvidenceIsAccounted
  <2>3. CASE \E f \in fs : /\ IdOf(f) = <<d, c>>
                           /\ detail'[<<d, c>>] =
                                 [severity |-> f.severity, evidence |-> f.evidence, refs |-> f.refs]
    <3>1. PICK f \in fs : /\ IdOf(f) = <<d, c>>
                          /\ detail'[<<d, c>>] =
                                [severity |-> f.severity, evidence |-> f.evidence, refs |-> f.refs]
      BY <2>3
    <3>2. f.detector = d /\ f.channel = c /\ detail'[<<d, c>>].refs = f.refs
      BY <1>4, <2>1, <3>1
    <3> QED
      BY <3>2, ChannelIds
  <2> QED
    BY <1>2, <2>1, <2>2, <2>3
<1>8. AdviceCoversFinding'
  <2> SUFFICES ASSUME NEW d \in ChannelDetectors, NEW c \in Channels,
                      finding'[<<d, c>>].lifecycle # "none"
               PROVE  /\ advice'[<<<<d, c>>, "rebalance_channel">>] # "none"
                      /\ detail'[<<d, c>>].evidence.direction = "inbound"
                            => advice'[<<<<d, c>>, "update_fee_policy">>] # "none"
    BY DEF AdviceCoversFinding, ChannelDetectors
  <2> DEFINE id == <<d, c>>
             told == IF p = ScanScopes THEN fs ELSE {}
  <2>1. id \in FindingIds /\ id[1] = d /\ id[2] = c
    BY ChannelIds
  <2>2. advice' = AdviceAfter(resolved, told)
    BY DEF PersistFindings, resolved
  <2> HIDE DEF id, told
  <2>3. ASSUME NEW type \in ActionTypes
        PROVE  /\ advice[<<id, type>>] # "none" => advice'[<<id, type>>] # "none"
               /\ (\E f \in told : IdOf(f) = id /\ type \in {r.type : r \in Recommend(f)})
                     => advice'[<<id, type>>] # "none"
    BY <2>1, <2>2, AdviceIs DEF Synced
  <2>4. "rebalance_channel" \in ActionTypes /\ "update_fee_policy" \in ActionTypes
    BY DEF ActionTypes
  <2>5. CASE finding'[id] = resolved[id] /\ detail'[id] = detail[id]
    <3>1. finding[id].lifecycle # "none"
      BY <1>3, <2>1, <2>5 DEF id
    <3>2. /\ advice[<<id, "rebalance_channel">>] # "none"
          /\ detail[id].evidence.direction = "inbound"
                => advice[<<id, "update_fee_policy">>] # "none"
      BY <3>1 DEF PipelineInv, AdviceCoversFinding, ChannelDetectors, id
    <3> QED
      BY <2>3, <2>4, <2>5, <3>2 DEF id
  <2>6. CASE \E f \in fs : /\ IdOf(f) = id
                           /\ detail'[id] =
                                 [severity |-> f.severity, evidence |-> f.evidence, refs |-> f.refs]
    <3>1. PICK f \in fs : /\ IdOf(f) = id
                          /\ detail'[id] =
                                [severity |-> f.severity, evidence |-> f.evidence, refs |-> f.refs]
      BY <2>6
    <3>2. f.detector = d /\ f.detector \in p
      BY <1>4, <2>1, <3>1
    <3>3. p = ScanScopes /\ f \in told
      BY <3>2, ChannelIds DEF ChannelDetectors, told
    <3>4. "rebalance_channel" \in {r.type : r \in Recommend(f)}
      BY <3>2, <3>3, RecommendIs
    <3>5. detail'[id].evidence.direction = f.evidence.direction
      BY <3>1
    <3>6. f.evidence.direction = "inbound" => "update_fee_policy" \in {r.type : r \in Recommend(f)}
      <4>1. d = "channel_liquidity" \/ d = "liquidity_trend"
        BY DEF ChannelDetectors
      <4> QED
        BY <3>2, <4>1, RecommendIs DEF IsSoundReport
    <3> QED
      BY <2>3, <2>4, <3>1, <3>3, <3>4, <3>5, <3>6 DEF id
  <2> QED
    BY <1>2, <2>1, <2>5, <2>6
<1>9. SettlementIsDegraded'
  <2> DEFINE id == <<"settlement_reliability", NodeWide>>
             e == detail'[id].evidence
  <2> SUFFICES ASSUME finding'[id].lifecycle # "none"
               PROVE  /\ e.expired \in Nat /\ e.settled \in Nat
                      /\ SettlementDegraded(e.expired, e.settled)
                      /\ detail'[id].severity = SettlementSeverity(e.expired, e.settled, FALSE)
    BY DEF SettlementIsDegraded
  <2>1. id \in FindingIds /\ id[1] = "settlement_reliability"
    BY ChannelIds
  <2>2. CASE finding'[id] = resolved[id] /\ detail'[id] = detail[id]
    <3>1. finding[id].lifecycle # "none"
      BY <1>3, <2>1, <2>2
    <3> QED
      BY <2>2, <3>1 DEF PipelineInv, SettlementIsDegraded
  <2>3. CASE \E f \in fs : /\ IdOf(f) = id
                           /\ detail'[id] =
                                 [severity |-> f.severity, evidence |-> f.evidence, refs |-> f.refs]
    <3>1. PICK f \in fs : /\ IdOf(f) = id
                          /\ detail'[id] =
                                [severity |-> f.severity, evidence |-> f.evidence, refs |-> f.refs]
      BY <2>3
    <3>2. f.detector = "settlement_reliability"
      BY <1>4, <2>1, <3>1
    <3>3. e = f.evidence /\ detail'[id].severity = f.severity
      BY <3>1
    <3> QED
      BY <3>2, <3>3 DEF IsSoundReport
  <2> HIDE DEF id
  <2> QED
    BY <1>2, <2>1, <2>2, <2>3
<1> QED
  BY <1>1, <1>5, <1>6, <1>7, <1>8, <1>9


\* The graph a live node's report becomes, and a fixture's.
LEMMA BuiltGraphs ==
    ASSUME NEW raw \in RawChannels \cup Fixtures, NEW at \in 1..MaxTime
    PROVE  /\ \A node \in Nodes : IsGraph(BuildLive(raw, node, at))
           /\ FixtureLoads(raw) => IsGraph(BuildFixture(raw, at))
<1>1. raw \in [Channels -> RawEntries]
  BY PipelineAssumption
<1>2. ASSUME NEW node \in Nodes
      PROVE  IsGraph(BuildLive(raw, node, at))
  <2>1. \A c \in Channels : ~Malformed(raw[c]) => NormalizeChannel(raw[c], node, at) \in NormalChannels
    BY <1>1, NormalizedIs
  <2> QED
    BY <2>1 DEF BuildLive, IsGraph
<1>3. ASSUME FixtureLoads(raw)
      PROVE  IsGraph(BuildFixture(raw, at))
  <2>1. Node \in Nodes
    BY DEF Nodes
  <2>2. \A c \in Channels : NormalizeChannel(raw[c], Node, at) \in NormalChannels
    BY <1>1, <1>3, <2>1, NormalizedIs DEF FixtureLoads
  <2> QED
    BY <2>2 DEF BuildFixture, IsGraph
<1> QED
  BY <1>2, <1>3

\* The snapshots a report refers to are those of the graph and the history.
LEMMA RefsAreKnown ==
    ASSUME NEW g, IsGraph(g), NEW h, h = NoHistory \/ IsHistory(h), NEW known,
           \A c \in Channels : g[c] # NoChannel => SnapshotOf(g[c]) \in known[c],
           h # NoHistory => \A c \in Channels : h[c] \in Seq(known[c])
    PROVE  \A f \in DetectorFindings(g, h) : f.channel \in Channels /\ f.refs \subseteq known[f.channel]
<1> SUFFICES ASSUME NEW f \in DetectorFindings(g, h)
             PROVE  f.channel \in Channels /\ f.refs \subseteq known[f.channel]
  OBVIOUS
<1>1. CASE f \in LiquidityRun(g)
  <2>1. f.refs = {SnapshotOf(g[f.channel])} /\ IsAbout(f, "channel_liquidity", g)
    BY <1>1, LiquidityFindingIs
  <2>2. f.channel \in Channels /\ g[f.channel] # NoChannel
    BY <2>1, NormalFacts DEF IsAbout
  <2> QED
    BY <2>1, <2>2
<1>2. CASE f \in DriftRun(g, h)
  <2>1. h # NoHistory /\ IsHistory(h)
    BY <1>2 DEF DriftRun
  <2>2. IsAbout(f, "liquidity_trend", g) /\ \A S : h[f.channel] \in Seq(S) => f.refs \subseteq S
    BY <1>2, <2>1, TrendFindingIs
  <2>3. f.channel \in Channels
    BY <2>2 DEF IsAbout
  <2>4. h[f.channel] \in Seq(known[f.channel])
    BY <2>1, <2>3
  <2> QED
    BY <2>2, <2>3, <2>4
<1> QED
  BY <1>1, <1>2 DEF DetectorFindings

-----------------------------------------------------------------------------
(* Every step keeps the invariant and is one of the lifecycle.             *)

\* The first state.
LEMMA PipelineStarts == Init => TypeOK /\ PipelineInv /\ Lifecycle!Init
<1> SUFFICES ASSUME Init PROVE TypeOK /\ PipelineInv /\ Lifecycle!Init
  OBVIOUS
<1>1. MaxTime \in Nat
  BY PipelineAssumption
<1>2. \A f \in FindingIds, type \in ActionTypes : advice[<<f, type>>] = "none"
  BY DEF Init
<1>3. \A f \in FindingIds : /\ finding[f] = Lifecycle!NoRow /\ finding[f].lifecycle = "none"
                            /\ detail[f] = NoDetail /\ detail[f].severity = "none"
                            /\ detail[f].refs = {} /\ seen[f] = {} /\ missed[f] = 0
  BY DEF Init, Lifecycle!NoRow, NoDetail
<1>4. \A c \in Channels : graph[c] = NoChannel /\ hist[c] = <<>>
  BY DEF Init, EmptyGraph
<1>5. IsGraph(graph)
  BY DEF Init, EmptyGraph, IsGraph
<1>6. /\ [f \in FindingIds |-> advice[<<f, "rebalance_channel">>]] = [f \in FindingIds |-> "none"]
      /\ [f \in FindingIds |-> IF advice[<<f, "rebalance_channel">>] = "none" THEN 0 ELSE 1]
            = [f \in FindingIds |-> 0]
  BY <1>2 DEF ActionTypes
<1>7. Lifecycle!Init
  BY <1>6 DEF Init, Lifecycle!Init
<1>8. Lifecycle!TypeOK
  <2>1. Lifecycle!NoRow \in [lifecycle : {"none", "active", "resolved"}, absent : 0..2,
                             first : Lifecycle!Times, last : Lifecycle!Times]
    BY <1>1 DEF Lifecycle!NoRow, Lifecycle!Times
  <2> QED
    BY <1>6, <2>1 DEF Init, Lifecycle!TypeOK
<1>9. /\ phase \in {"down", "idle", "observed", "persisted"} /\ first \in BOOLEAN
      /\ now \in 0..MaxTime /\ cleaned \in 0..MaxTime /\ scans \in Nat
      /\ hist \in [Channels -> Seq(Snapshots)]
      /\ disk \in [Channels -> [Nodes -> SUBSET Snapshots]]
      /\ advice \in [FindingIds \X ActionTypes -> {"none", "active", "resolved"}]
  BY <1>1 DEF Init
<1>10. TypeOK
  <2>1. \A c \in DOMAIN graph : graph[c] # NoChannel => SnapshotOf(graph[c]) \in Snapshots
    BY <1>4, <1>5 DEF IsGraph
  <2> QED
    BY <1>3, <1>8, <1>9, <2>1 DEF TypeOK
<1>11. HistoryIsKnown /\ ObservedByNow
  <2>1. \A S : <<>> \in Seq(S)
    OBVIOUS
  <2>2. \A c \in Channels : hist[c] \in Seq(Known(c))
    BY <1>4, <2>1
  <2> QED
    BY <1>3, <2>2 DEF HistoryIsKnown, ObservedByNow
<1>12. EvidenceIsAccounted /\ AdviceCoversFinding /\ SettlementIsDegraded
  BY <1>3, ChannelIds
  DEF EvidenceIsAccounted, AdviceCoversFinding, SettlementIsDegraded, ChannelDetectors
<1>13. disk \in Rows
  BY FS_EmptySet DEF Init, Rows, Table
<1> QED
  BY <1>5, <1>7, <1>10, <1>11, <1>12, <1>13 DEF PipelineInv

\* Snapshots are accounted for in the next state by its own rows and time.
LEMMA AccountedNext ==
    /\ \A c : Accounted(disk[c], now)' = Accounted(disk'[c], now')
    /\ \A c : Known(c)' = Accounted(disk'[c], now') \cup
                 {s \in Snapshots : phase' = "observed" /\ graph'[c] # NoChannel
                                     /\ s = SnapshotOf(graph'[c])}
BY DEF Known, Accounted, IsAccounted, MayBeGone, Newer, Expired, AgeOf, Policies

\* What steps keep that leave the findings alone and account for the rows they
\* delete.
LEMMA FindingsKept ==
    ASSUME TypeOK, PipelineInv, UNCHANGED Findings, disk' \in Rows,
           \A c \in Channels : Accounted(disk[c], now) \subseteq Accounted(disk'[c], now'),
           phase' \in {"down", "idle", "observed", "persisted"}, first' \in BOOLEAN,
           cleaned' \in 0..MaxTime, scans' \in Nat, now' \in 0..MaxTime,
           now <= now', IsGraph(graph)', HistoryIsKnown',
           hist' = [c \in Channels |-> hist'[c]]
    PROVE  TypeOK' /\ PipelineInv' /\ UNCHANGED Lifecycle!vars
<1>1. UNCHANGED <<finding, detail, advice, seen, missed>>
  BY DEF Findings
<1>2. UNCHANGED Lifecycle!vars
  BY <1>1 DEF Lifecycle!vars
<1>3. Lifecycle!TypeOK'
  BY <1>1 DEF TypeOK, Lifecycle!TypeOK
<1>4. hist' \in [Channels -> Seq(Snapshots)]
  <2>1. ASSUME NEW c \in Channels
        PROVE  hist'[c] \in Seq(Snapshots)
    <3>1. hist'[c] \in Seq(Known(c)')
      BY DEF HistoryIsKnown
    <3>2. Known(c)' \subseteq Snapshots
      BY AccountedNext DEF Accounted
    <3> QED
      BY <3>1, <3>2, SequenceGrows
  <2> QED
    BY <2>1
<1>5. \A c \in DOMAIN graph' : graph'[c] # NoChannel => SnapshotOf(graph'[c]) \in Snapshots
  <2>1. \A c \in DOMAIN graph' : graph'[c] # NoChannel => graph'[c] \in NormalChannels
    BY DEF IsGraph
  <2> QED
    BY <2>1, NormalFacts
<1>6. TypeOK'
  <2>1. disk' \in [Channels -> [Nodes -> SUBSET Snapshots]]
    BY DEF Rows, Table
  <2> QED
    BY <1>1, <1>3, <1>4, <1>5, <2>1 DEF TypeOK
<1>7. ObservedByNow'
  <2>1. now \in Int /\ now' \in Int
    BY PipelineAssumption DEF TypeOK
  <2>2. \A id \in FindingIds : \A t \in seen[id] : t \in Int /\ t <= now
    BY PipelineAssumption DEF PipelineInv, ObservedByNow, TypeOK, Lifecycle!TypeOK, Lifecycle!Times
  <2> QED
    BY <1>1, <2>1, <2>2 DEF ObservedByNow
<1>8. EvidenceIsAccounted' /\ AdviceCoversFinding' /\ SettlementIsDegraded'
  <2>1. EvidenceIsAccounted'
    BY <1>1, AccountedNext DEF PipelineInv, EvidenceIsAccounted
  <2>2. AdviceCoversFinding'
    BY <1>1 DEF PipelineInv, AdviceCoversFinding
  <2>3. SettlementIsDegraded'
    BY <1>1 DEF PipelineInv, SettlementIsDegraded
  <2> QED
    BY <2>1, <2>2, <2>3
<1> QED
  BY <1>2, <1>6, <1>7, <1>8 DEF PipelineInv


\* What the history knows stays known while the table accounts for it.
LEMMA OthersLeaveHistory ==
    ASSUME PipelineInv, UNCHANGED <<graph, hist>>,
           phase = "observed" => phase' = "observed",
           \A c \in Channels : Accounted(disk[c], now) \subseteq Accounted(disk'[c], now')
    PROVE  HistoryIsKnown' /\ IsGraph(graph)'
<1>1. ASSUME NEW c \in Channels
      PROVE  hist'[c] \in Seq(Known(c)')
  <2>1. Known(c) \subseteq Known(c)'
    <3>1. Known(c)' = Accounted(disk'[c], now') \cup
             {s \in Snapshots : phase' = "observed" /\ graph'[c] # NoChannel
                                 /\ s = SnapshotOf(graph'[c])}
      BY AccountedNext
    <3> QED
      BY <3>1 DEF Known
  <2>2. hist'[c] \in Seq(Known(c))
    BY DEF PipelineInv, HistoryIsKnown
  <2> QED
    BY <2>1, <2>2, SequenceGrows
<1>2. HistoryIsKnown'
  BY <1>1 DEF HistoryIsKnown
<1>3. IsGraph(graph)'
  BY DEF PipelineInv, IsGraph
<1> QED
  BY <1>2, <1>3

\* A table to which a graph's snapshots were added, at the same time or later,
\* accounts for them and for what it did before.
LEMMA SavedAreAccounted ==
    ASSUME PipelineInv, NEW g, IsGraph(g), disk' = SaveSnapshots(disk, g),
           now \in Int, now' \in Int, now <= now'
    PROVE  /\ disk' \in Rows
           /\ \A c \in Channels :
                 /\ Accounted(disk[c], now) \subseteq Accounted(disk'[c], now')
                 /\ g[c] # NoChannel => SnapshotOf(g[c]) \in Accounted(disk'[c], now')
<1>1. disk \in Rows
  BY DEF PipelineInv
<1>2. disk' \in Rows
  BY <1>1, SaveIs
<1>3. ASSUME NEW c \in Channels
      PROVE  /\ Accounted(disk[c], now) \subseteq Accounted(disk'[c], now')
             /\ g[c] # NoChannel => SnapshotOf(g[c]) \in Accounted(disk'[c], now')
  <2>1. disk[c] \in Table /\ disk'[c] \in Table
    BY <1>1, <1>2 DEF Rows
  <2>2. /\ \A n \in Nodes : disk[c][n] \subseteq disk'[c][n]
        /\ g[c] # NoChannel => g[c].node \in Nodes /\ SnapshotOf(g[c]) \in disk'[c][g[c].node]
    BY <1>1, SaveIs
  <2>3. Accounted(disk[c], now) \subseteq Accounted(disk'[c], now')
    BY <2>1, <2>2, AccountedGrows
  <2>4. \A n \in Nodes : disk'[c][n] \subseteq Accounted(disk'[c], now')
    BY <2>1, RowsAreAccounted
  <2> QED
    BY <2>2, <2>3, <2>4
<1> QED
  BY <1>2, <1>3

\* A table that is left alone accounts for what it did before.
LEMMA RowsStay ==
    ASSUME PipelineInv, UNCHANGED disk, now \in Int, now' \in Int, now <= now'
    PROVE  /\ disk' \in Rows
           /\ \A c \in Channels : Accounted(disk[c], now) \subseteq Accounted(disk'[c], now')
<1>1. disk \in Rows
  BY DEF PipelineInv
<1>2. \A c \in Channels : disk[c] \in Table
  BY <1>1 DEF Rows
<1>3. \A c \in Channels : Accounted(disk[c], now) \subseteq Accounted(disk[c], now')
  BY <1>2, AccountedGrows
<1> QED
  BY <1>1, <1>3

\* A pass of either policy accounts for what it deletes.
LEMMA RowsRetained ==
    ASSUME PipelineInv, NEW policy \in Policies, disk' = Retained(policy), UNCHANGED now, now \in Int
    PROVE  /\ disk' \in Rows
           /\ \A c \in Channels : Accounted(disk[c], now) \subseteq Accounted(disk'[c], now')
<1>1. disk \in Rows
  BY DEF PipelineInv
<1>2. /\ Retained(policy) \in Rows
      /\ \A c \in Channels : Accounted(disk[c], now) \subseteq Accounted(Retained(policy)[c], now)
  BY <1>1, RetainedIs
<1> QED
  BY <1>2

\* What every step keeps, and what it is to the lifecycle.
Preserved == TypeOK' /\ PipelineInv' /\ [Lifecycle!Next]_(Lifecycle!vars)

LEMMA IngestKeeps ==
    ASSUME TypeOK, PipelineInv, NEW raw \in RawChannels, NEW node \in Identities, Ingest(raw, node)
    PROVE  Preserved
<1>1. /\ phase = "idle" /\ phase' = "observed" /\ now' = now + 1
      /\ UNCHANGED <<disk, cleaned, scans>> /\ UNCHANGED Findings
      /\ graph' = BuildLive(raw, node, now') /\ first' = FALSE
      /\ hist' = IF first THEN WarmFromSnapshots(Push(hist, graph'), graph') ELSE Push(hist, graph')
      /\ now' \in 1..MaxTime /\ now <= now' /\ now \in Int /\ now' \in Int
  BY PipelineAssumption DEF Ingest, TypeOK
<1>2. IsGraph(graph)'
  <2>1. node \in Nodes /\ raw \in RawChannels \cup Fixtures
    BY DEF Nodes
  <2> QED
    BY <1>1, <2>1, BuiltGraphs DEF IsGraph
<1>3. /\ disk' \in Rows
      /\ \A c \in Channels : Accounted(disk[c], now) \subseteq Accounted(disk'[c], now')
  BY <1>1, RowsStay
<1>4. ASSUME NEW c \in Channels
      PROVE  hist'[c] \in Seq(Known(c)')
  <2> DEFINE K == Accounted(disk'[c], now') \cup
                {s \in Snapshots : phase' = "observed" /\ graph'[c] # NoChannel
                                    /\ s = SnapshotOf(graph'[c])}
  <2>1. Accounted(disk[c], now) \subseteq K
    BY <1>3
  <2>2. Known(c) = Accounted(disk[c], now)
    BY <1>1 DEF Known
  <2>3. graph'[c] # NoChannel => SnapshotOf(graph'[c]) \in K
    BY <1>1, <1>2, NormalFacts DEF IsGraph
  <2>4. hist[c] \in Seq(K)
    BY <2>1, <2>2, SequenceGrows DEF PipelineInv, HistoryIsKnown
  <2>5. disk \in Rows /\ disk[c][Node] \subseteq K
    <3>1. disk \in Rows /\ Node \in Nodes
      BY DEF PipelineInv, Nodes
    <3>2. disk[c] \in Table
      BY <3>1 DEF Rows
    <3>3. disk[c][Node] \subseteq Accounted(disk[c], now)
      BY <3>1, <3>2, RowsAreAccounted
    <3> QED
      BY <2>1, <3>1, <3>3
  <2> HIDE DEF K
  <2>6. Push(hist, graph')[c] \in Seq(K)
    BY <2>3, <2>4, PushIs
  <2>7. WarmFromSnapshots(Push(hist, graph'), graph')[c] \in Seq(K)
    BY <2>5, <2>6, WarmIs
  <2>8. hist'[c] \in Seq(K)
    BY <1>1, <2>6, <2>7
  <2>9. Known(c)' = K
    BY AccountedNext DEF K
  <2> QED
    BY <2>8, <2>9
<1>5. HistoryIsKnown'
  BY <1>4 DEF HistoryIsKnown
<1>6. hist' = [c \in Channels |-> hist'[c]]
  BY <1>1 DEF Push, WarmFromSnapshots
<1>7. /\ phase' \in {"down", "idle", "observed", "persisted"} /\ first' \in BOOLEAN
      /\ cleaned' \in 0..MaxTime /\ scans' \in Nat /\ now' \in 0..MaxTime
  <2>1. cleaned \in 0..MaxTime /\ scans \in Nat
    BY DEF TypeOK
  <2>2. cleaned' = cleaned /\ scans' = scans
    BY <1>1
  <2>3. now' \in 0..MaxTime
    BY <1>1
  <2>4. first' \in BOOLEAN
    BY <1>1
  <2> QED
    BY <1>1, <2>1, <2>2, <2>3, <2>4
<1> QED
  BY <1>1, <1>2, <1>3, <1>5, <1>6, <1>7, FindingsKept DEF Preserved

\* The steps that change a mode, and the passes of the cleanup.
LEMMA ModeKeeps ==
    ASSUME TypeOK, PipelineInv,
           Start \/ IngestFails \/ CleanupSkipped \/ CleanupRuns \/ ScanCleans \/ ScanEnds
    PROVE  Preserved
<1>1. /\ phase = "observed" => phase' = "observed"
      /\ phase' \in {"down", "idle", "observed", "persisted"} /\ first' \in BOOLEAN
      /\ UNCHANGED <<graph, hist, now>> /\ UNCHANGED Findings
      /\ cleaned' \in {cleaned, now} /\ scans' \in {scans, scans - 1}
      /\ scans' = scans - 1 => scans > 0
      /\ disk' = disk \/ \E policy \in Policies : disk' = Retained(policy)
  <2>1. /\ phase \in {"down", "idle", "observed", "persisted"} /\ first \in BOOLEAN
        /\ Retention \in Policies /\ DefaultRetention \in Policies
    BY DEF TypeOK, Policies
  <2>2. scans # scans - 1
    BY DEF TypeOK
  <2>3. CASE Start \/ IngestFails \/ CleanupSkipped
    BY <2>1, <2>2, <2>3 DEF Start, IngestFails, CleanupSkipped
  <2>4. CASE CleanupRuns
    BY <2>1, <2>2, <2>4 DEF CleanupRuns
  <2>5. CASE ScanCleans \/ ScanEnds
    BY <2>1, <2>5 DEF ScanCleans, ScanEnds
  <2> QED
    BY <2>3, <2>4, <2>5
<1>2. /\ now \in 0..MaxTime /\ now' \in 0..MaxTime /\ now \in Int /\ now' \in Int /\ now <= now'
      /\ cleaned' \in 0..MaxTime /\ scans' \in Nat
  BY <1>1, PipelineAssumption DEF TypeOK
<1>3. /\ disk' \in Rows
      /\ \A c \in Channels : Accounted(disk[c], now) \subseteq Accounted(disk'[c], now')
  BY <1>1, <1>2, RowsStay, RowsRetained
<1>4. HistoryIsKnown' /\ IsGraph(graph)'
  BY <1>1, <1>3, OthersLeaveHistory
<1>5. hist' = [c \in Channels |-> hist'[c]]
  BY <1>1 DEF TypeOK
<1> QED
  BY <1>1, <1>2, <1>3, <1>4, <1>5, FindingsKept DEF Preserved

\* A process that ends leaves nothing behind but its rows.
LEMMA StopKeeps ==
    ASSUME TypeOK, PipelineInv, PersistFails \/ CleanupFails \/ Crash
    PROVE  Preserved
<1>1. /\ phase' = "down" /\ first' = TRUE /\ graph' = EmptyGraph
      /\ hist' = [c \in Channels |-> <<>>] /\ UNCHANGED Findings
      /\ now' = now /\ cleaned' = cleaned /\ scans' = scans
      /\ disk' = disk \/ \E policy \in Policies : disk' = Retained(policy)
  BY DEF PersistFails, CleanupFails, Crash, Stop, Policies
<1>2. /\ now \in Int /\ now' \in Int /\ now <= now' /\ now' \in 0..MaxTime
      /\ cleaned' \in 0..MaxTime /\ scans' \in Nat
  BY <1>1, PipelineAssumption DEF TypeOK
<1>3. /\ disk' \in Rows
      /\ \A c \in Channels : Accounted(disk[c], now) \subseteq Accounted(disk'[c], now')
  BY <1>1, <1>2, RowsStay, RowsRetained
<1>4. IsGraph(graph)'
  BY <1>1 DEF EmptyGraph, IsGraph
<1>5. HistoryIsKnown'
  <2>1. \A S : <<>> \in Seq(S)
    OBVIOUS
  <2>2. \A c \in Channels : hist'[c] \in Seq(Known(c)')
    BY <1>1, <2>1
  <2> QED
    BY <2>2 DEF HistoryIsKnown
<1>6. hist' = [c \in Channels |-> hist'[c]] /\ phase' \in {"down", "idle", "observed", "persisted"}
  BY <1>1
<1> QED
  BY <1>1, <1>2, <1>3, <1>4, <1>5, <1>6, FindingsKept DEF Preserved

\* What a commit leaves, whoever commits.
LEMMA CommitTypes ==
    ASSUME Lifecycle!TypeOK', Lifecycle!Next,
           advice' \in [FindingIds \X ActionTypes -> {"none", "active", "resolved"}],
           \A id \in FindingIds : finding'[id].lifecycle = "none" <=> detail'[id].severity = "none",
           ObservedByNow', EvidenceIsAccounted', AdviceCoversFinding', SettlementIsDegraded',
           IsGraph(graph)', HistoryIsKnown',
           disk' \in Rows, phase' \in {"down", "idle", "observed", "persisted"}, first' \in BOOLEAN,
           cleaned' \in 0..MaxTime, scans' \in Nat,
           now' \in 0..MaxTime, hist' \in [Channels -> Seq(Snapshots)]
    PROVE  Preserved
<1>1. \A c \in DOMAIN graph' : graph'[c] # NoChannel => SnapshotOf(graph'[c]) \in Snapshots
  <2>1. \A c \in DOMAIN graph' : graph'[c] # NoChannel => graph'[c] \in NormalChannels
    BY DEF IsGraph
  <2> QED
    BY <2>1, NormalFacts
<1>2. TypeOK'
  <2>1. disk' \in [Channels -> [Nodes -> SUBSET Snapshots]]
    BY DEF Rows, Table
  <2> QED
    BY <1>1, <2>1 DEF TypeOK
<1>3. PipelineInv'
  BY DEF PipelineInv
<1> QED
  BY <1>2, <1>3 DEF Preserved

LEMMA PersistCommitsKeeps ==
    ASSUME TypeOK, PipelineInv, PersistCommits
    PROVE  Preserved
<1> DEFINE fs == DetectorFindings(graph, hist)
           complete == CompleteScopes(graph, hist)
           known == [c \in Channels |-> Accounted(disk'[c], now')]
<1>1. /\ disk' = SaveSnapshots(disk, graph) /\ PersistFindings(complete, fs, now, TRUE)
      /\ phase' = "persisted" /\ graph' = EmptyGraph
      /\ UNCHANGED <<first, hist, cleaned, scans, now>>
  BY DEF PersistCommits
<1>2. IsGraph(graph) /\ IsHistory(hist)
  BY DEF PipelineInv, TypeOK, IsHistory
<1>3. IsReport(fs, ScanScopes) /\ IsSoundReport(fs) /\ complete \in SUBSET ScanScopes
  BY <1>2, ScanReport
<1>4. /\ now \in Lifecycle!Times /\ now <= now /\ now \in 0..MaxTime /\ now' = now
      /\ now \in Int /\ now' \in Int /\ now <= now'
  BY <1>1, PipelineAssumption DEF TypeOK, Lifecycle!Times
<1>5. /\ disk' \in Rows
      /\ \A c \in Channels :
            /\ Accounted(disk[c], now) \subseteq Accounted(disk'[c], now')
            /\ graph[c] # NoChannel => SnapshotOf(graph[c]) \in Accounted(disk'[c], now')
  BY <1>1, <1>2, <1>4, SavedAreAccounted
<1>6. ASSUME NEW c \in Channels
      PROVE  hist[c] \in Seq(Accounted(disk'[c], now'))
  <2>1. Known(c) \subseteq Accounted(disk'[c], now')
    BY <1>5 DEF Known
  <2>2. hist[c] \in Seq(Known(c))
    BY DEF PipelineInv, HistoryIsKnown
  <2> QED
    BY <2>1, <2>2, SequenceGrows
<1>7. \A f \in fs : f.detector \in ScanScopes => f.refs \subseteq Accounted(disk'[f.channel], now')
  <2>1. \A f \in fs : f.channel \in Channels /\ f.refs \subseteq known[f.channel]
    BY <1>2, <1>5, <1>6, RefsAreKnown
  <2> QED
    BY <2>1
<1>8. IsGraph(graph)'
  BY <1>1 DEF EmptyGraph, IsGraph
<1>9. HistoryIsKnown'
  <2>1. ASSUME NEW c \in Channels
        PROVE  hist'[c] \in Seq(Known(c)')
    <3>1. Accounted(disk'[c], now') \subseteq Known(c)'
      BY AccountedNext
    <3> QED
      BY <1>1, <1>6, <3>1, SequenceGrows
  <2> QED
    BY <2>1 DEF HistoryIsKnown
<1>10. PersistFindings(complete, fs, now, ScanScopes = ScanScopes)
  BY <1>1
<1> HIDE DEF fs, complete
<1>11. /\ Lifecycle!TypeOK'
       /\ advice' \in [FindingIds \X ActionTypes -> {"none", "active", "resolved"}]
       /\ \A id \in FindingIds : finding'[id].lifecycle = "none" <=> detail'[id].severity = "none"
       /\ ObservedByNow' /\ EvidenceIsAccounted' /\ AdviceCoversFinding' /\ SettlementIsDegraded'
       /\ Lifecycle!Next
  BY <1>1, <1>3, <1>4, <1>5, <1>7, <1>10, CommitKeeps
<1>12. /\ first' \in BOOLEAN /\ now' \in 0..MaxTime /\ hist' \in [Channels -> Seq(Snapshots)]
       /\ cleaned' \in 0..MaxTime /\ scans' \in Nat
       /\ phase' \in {"down", "idle", "observed", "persisted"}
  BY <1>1, <1>4 DEF TypeOK
<1> QED
  BY <1>5, <1>8, <1>9, <1>11, <1>12, CommitTypes

LEMMA ScanKeeps ==
    ASSUME TypeOK, PipelineInv, NEW raw \in Fixtures, Scan(raw)
    PROVE  Preserved
<1> DEFINE g == BuildFixture(raw, now + 1)
           fs == DetectorFindings(g, NoHistory)
           complete == CompleteScopes(g, NoHistory)
           known == [c \in Channels |-> Accounted(disk'[c], now')]
<1>1. /\ now < MaxTime /\ FixtureLoads(raw) /\ now' = now + 1 /\ scans' = scans + 1
      /\ disk' = SaveSnapshots(disk, g) /\ PersistFindings(complete, fs, now', TRUE)
      /\ UNCHANGED <<phase, first, graph, hist, cleaned>>
  BY DEF Scan
<1>2. /\ now' \in 1..MaxTime /\ now' \in Lifecycle!Times /\ now <= now' /\ now' \in 0..MaxTime
      /\ now \in Int /\ now' \in Int
  BY <1>1, PipelineAssumption DEF TypeOK, Lifecycle!Times
<1>3. IsGraph(g)
  BY <1>1, <1>2, BuiltGraphs
<1> HIDE DEF g
<1>4. IsReport(fs, ScanScopes) /\ IsSoundReport(fs) /\ complete \in SUBSET ScanScopes
  BY <1>3, ScanReport
<1>5. /\ disk' \in Rows
      /\ \A c \in Channels :
            /\ Accounted(disk[c], now) \subseteq Accounted(disk'[c], now')
            /\ g[c] # NoChannel => SnapshotOf(g[c]) \in Accounted(disk'[c], now')
  BY <1>1, <1>2, <1>3, SavedAreAccounted
<1>6. \A f \in fs : f.detector \in ScanScopes => f.refs \subseteq Accounted(disk'[f.channel], now')
  <2>1. \A f \in fs : f.channel \in Channels /\ f.refs \subseteq known[f.channel]
    BY <1>3, <1>5, RefsAreKnown
  <2> QED
    BY <2>1
<1>7. PersistFindings(complete, fs, now', ScanScopes = ScanScopes)
  BY <1>1
<1>8. HistoryIsKnown' /\ IsGraph(graph)'
  BY <1>1, <1>5, OthersLeaveHistory
<1> HIDE DEF fs, complete
<1>9. /\ Lifecycle!TypeOK'
      /\ advice' \in [FindingIds \X ActionTypes -> {"none", "active", "resolved"}]
      /\ \A id \in FindingIds : finding'[id].lifecycle = "none" <=> detail'[id].severity = "none"
      /\ ObservedByNow' /\ EvidenceIsAccounted' /\ AdviceCoversFinding' /\ SettlementIsDegraded'
      /\ Lifecycle!Next
  BY <1>2, <1>4, <1>5, <1>6, <1>7, CommitKeeps
<1>10. /\ phase' \in {"down", "idle", "observed", "persisted"} /\ first' \in BOOLEAN
       /\ cleaned' \in 0..MaxTime /\ scans' \in Nat /\ hist' \in [Channels -> Seq(Snapshots)]
  BY <1>1 DEF TypeOK
<1> QED
  BY <1>2, <1>5, <1>8, <1>9, <1>10, CommitTypes

LEMMA SettleKeeps ==
    ASSUME TypeOK, PipelineInv, NEW w \in InvoiceWindows, Settle(w)
    PROVE  Preserved
<1> DEFINE fs == SettlementRun(Normalized(w), EmptyGraph, Node, "unknown")
           complete == {"settlement_reliability"}
<1>1. /\ now < MaxTime /\ now' = now + 1
      /\ PersistFindings(complete, fs, now', FALSE)
      /\ UNCHANGED <<phase, first, graph, hist, disk, cleaned, scans>>
  BY DEF Settle
<1>2. /\ now' \in Lifecycle!Times /\ now <= now' /\ now' \in 0..MaxTime
      /\ now \in Int /\ now' \in Int
  BY <1>1, PipelineAssumption DEF TypeOK, Lifecycle!Times
<1>3. IsReport(fs, AgentScopes) /\ IsSoundReport(fs) /\ complete \in SUBSET AgentScopes
  BY AgentReport, ChannelIds
<1>4. /\ disk' \in Rows
      /\ \A c \in Channels : Accounted(disk[c], now) \subseteq Accounted(disk'[c], now')
  BY <1>1, <1>2, RowsStay
<1>5. \A f \in fs : f.detector \notin ScanScopes
  BY <1>3, ChannelIds DEF IsReport, ChannelDetectors
<1> HIDE DEF fs, complete
<1>6. PersistFindings(complete, fs, now', AgentScopes = ScanScopes)
  <2>1. ~(AgentScopes = ScanScopes)
    BY ChannelIds DEF ChannelDetectors
  <2> QED
    BY <1>1, <2>1 DEF PersistFindings
<1>7. HistoryIsKnown' /\ IsGraph(graph)'
  BY <1>1, <1>4, OthersLeaveHistory
<1>8. /\ Lifecycle!TypeOK'
      /\ advice' \in [FindingIds \X ActionTypes -> {"none", "active", "resolved"}]
      /\ \A id \in FindingIds : finding'[id].lifecycle = "none" <=> detail'[id].severity = "none"
      /\ ObservedByNow' /\ EvidenceIsAccounted' /\ AdviceCoversFinding' /\ SettlementIsDegraded'
      /\ Lifecycle!Next
  BY <1>2, <1>3, <1>4, <1>5, <1>6, CommitKeeps
<1>9. /\ phase' \in {"down", "idle", "observed", "persisted"} /\ first' \in BOOLEAN
      /\ cleaned' \in 0..MaxTime /\ scans' \in Nat /\ hist' \in [Channels -> Seq(Snapshots)]
  BY <1>1 DEF TypeOK
<1> QED
  BY <1>2, <1>4, <1>7, <1>8, <1>9, CommitTypes


\* Every step.
LEMMA StepKeeps ==
    ASSUME TypeOK, PipelineInv, [Next]_vars
    PROVE  Preserved
<1>1. CASE Start \/ IngestFails \/ CleanupSkipped \/ CleanupRuns \/ ScanCleans \/ ScanEnds
  BY <1>1, ModeKeeps
<1>2. CASE PersistCommits
  BY <1>2, PersistCommitsKeeps
<1>3. CASE PersistFails \/ CleanupFails \/ Crash
  BY <1>3, StopKeeps
<1>4. CASE \E raw \in RawChannels, node \in Identities : Ingest(raw, node)
  BY <1>4, IngestKeeps
<1>5. CASE \E raw \in Fixtures : Scan(raw)
  BY <1>5, ScanKeeps
<1>6. CASE \E w \in InvoiceWindows : Settle(w)
  BY <1>6, SettleKeeps
<1>7. CASE UNCHANGED vars
  <2>1. /\ UNCHANGED <<phase, first, graph, hist, disk, cleaned, scans, now>>
        /\ UNCHANGED Findings
    BY <1>7 DEF vars, Findings
  <2>2. /\ phase' \in {"down", "idle", "observed", "persisted"} /\ first' \in BOOLEAN
        /\ cleaned' \in 0..MaxTime /\ scans' \in Nat
        /\ now \in Int /\ now' \in Int
        /\ now' \in 0..MaxTime /\ now <= now' /\ hist' = [c \in Channels |-> hist'[c]]
    BY <2>1, PipelineAssumption DEF TypeOK
  <2>3. /\ disk' \in Rows
        /\ \A c \in Channels : Accounted(disk[c], now) \subseteq Accounted(disk'[c], now')
    BY <2>1, <2>2, RowsStay
  <2>4. HistoryIsKnown' /\ IsGraph(graph)'
    BY <2>1, <2>3, OthersLeaveHistory
  <2> QED
    BY <2>1, <2>2, <2>3, <2>4, FindingsKept DEF Preserved
<1> QED
  BY <1>1, <1>2, <1>3, <1>4, <1>5, <1>6, <1>7 DEF Next, MonitorNext

LEMMA PipelineInvariant == Spec => [](TypeOK /\ PipelineInv)
<1>1. Init => TypeOK /\ PipelineInv
  BY PipelineStarts
<1>2. TypeOK /\ PipelineInv /\ [Next]_vars => TypeOK' /\ PipelineInv'
  BY StepKeeps DEF Preserved
<1> QED
  BY <1>1, <1>2, PTL DEF Spec

-----------------------------------------------------------------------------
(* The theorems.                                                           *)

\* The tables and the monitor's memory are well-formed, for any reports,
\* fixtures and webhooks, and a finding has a severity as soon as it has a
\* row (AnalysisPipeline.TypeOK).
THEOREM PipelineTypes == Spec => []TypeOK
<1> QED
  BY PipelineInvariant, PTL

\* The detectors hand the engine nothing it refuses but a trend from above
\* the capacity, judge both sides of a channel alike, and never call a worse
\* window of invoices milder.
THEOREM DetectorsStaySound == Spec => []DetectorsAreSound
<1>1. TypeOK /\ PipelineInv => DetectorsAreSound
  <2> SUFFICES ASSUME TypeOK, PipelineInv PROVE DetectorsAreSound
    OBVIOUS
  <2>1. IsGraph(graph) /\ IsHistory(hist)
    BY DEF PipelineInv, TypeOK, IsHistory
  <2>2. OnlyOversizedStartIsRefused
    <3> SUFFICES ASSUME NEW f \in DetectorFindings(graph, hist), ~Accepts(f)
                 PROVE  f.detector = "liquidity_trend" /\ f.evidence.start > Whole
      BY DEF OnlyOversizedStartIsRefused
    <3>1. f \in DriftRun(graph, hist)
      BY <2>1, LiquidityFindingIs DEF DetectorFindings
    <3>2. /\ IsAbout(f, "liquidity_trend", graph) /\ f.evidence.start \in Nat
          /\ ~(f.evidence.start <= Whole)
      BY <2>1, <3>1, TrendFindingIs
    <3> QED
      BY <3>2 DEF IsAbout, Whole
  <2>3. SidesAreJudgedAlike
    BY <2>1, SidesAreAlike
  <2>4. WorseWindowIsNotMilder
    BY WorseIsNotMilder DEF PipelineInv
  <2> QED
    BY <2>2, <2>3, <2>4 DEF DetectorsAreSound
<1> QED
  BY <1>1, PipelineInvariant, PTL

\* Every snapshot a stored finding refers to is a row of channel_snapshots, or
\* its age or a cap of one of the two policies allows its deletion, for any two
\* policies, whatever commits failed, processes died, scans ran or cleaned up
\* in between (AnalysisPipeline.EvidenceIsKept).
THEOREM EvidenceOutlivesCleanup == Spec => []EvidenceIsKept
<1>1. PipelineInv => EvidenceIsKept
  BY DEF PipelineInv, EvidenceIsAccounted, Accounted, EvidenceIsKept, ChannelDetectors
<1> QED
  BY <1>1, PipelineInvariant, PTL

\* A stored finding about a channel has its rebalance review, and one that is
\* inbound its fee review, also when it changed its direction on the way.
THEOREM AdviceFollowsCondition == Spec => []AdviceCoversFinding
<1>1. PipelineInv => AdviceCoversFinding
  BY DEF PipelineInv
<1> QED
  BY <1>1, PipelineInvariant, PTL

\* What the pipeline does to findings, their rebalance reviews and audit rows
\* is a behaviour of FindingLifecycle, whose own theorems it inherits.
THEOREM PipelineRefinesLifecycle == Spec => ImplementsLifecycle
<1>1. Init => TypeOK /\ PipelineInv /\ Lifecycle!Init
  BY PipelineStarts
<1>2. TypeOK /\ PipelineInv /\ [Next]_vars => [Lifecycle!Next]_(Lifecycle!vars)
  BY StepKeeps DEF Preserved
<1> QED
  BY <1>1, <1>2, PipelineInvariant, PTL DEF Spec, ImplementsLifecycle, Lifecycle!Spec

\* What a commit does to a row outside the scopes it completed.
LEMMA OutsideScopes ==
    ASSUME TypeOK, NEW p, NEW complete \in SUBSET p, NEW fs, IsReport(fs, p),
           NEW at \in Lifecycle!Times, NEW recommends \in BOOLEAN,
           PersistFindings(complete, fs, at, recommends),
           NEW id \in FindingIds, id[1] \notin complete
    PROVE  /\ finding'[id].absent <= finding[id].absent
           /\ finding'[id].lifecycle = "resolved" => finding[id].lifecycle = "resolved"
           /\ (\A f \in fs : f.detector # id[1]) => finding'[id] = finding[id]
<1> DEFINE resolved == Lifecycle!ResolveFindingsForScopes(finding, complete)
<1>1. Committed(id, resolved, fs, at)
  BY PersistEffect
<1>2. resolved[id] = finding[id] /\ finding[id] \in Row
  <2>1. ~Lifecycle!Matches(id, complete)
    BY DEF Lifecycle!Matches
  <2> QED
    BY <2>1, ResolvedIs
<1> HIDE DEF resolved
<1>3. CASE finding'[id] = resolved[id]
  BY <1>2, <1>3 DEF Row
<1>4. CASE \E f \in fs : IdOf(f) = id /\ finding'[id] = Lifecycle!SaveFinding(resolved[id], at)
  <2>1. \E f \in fs : f.detector = id[1]
    BY <1>4 DEF IdOf
  <2> QED
    BY <1>2, <1>4, <2>1, SavedIs
<1> QED
  BY <1>1, <1>3, <1>4 DEF Committed

\* A cycle that saw an open channel it could not classify closes nothing, and
\* a process without history closes no trend.
THEOREM SilenceIsNotCounted == Spec => SilenceIsNotAbsence
<1>1. TypeOK /\ PipelineInv /\ [Next]_vars => [UnclassifiedClosesNothing /\ ScanLeavesTrends]_vars
  <2> SUFFICES ASSUME TypeOK, PipelineInv, Next
               PROVE  UnclassifiedClosesNothing /\ ScanLeavesTrends
    OBVIOUS
  <2>1. UnclassifiedClosesNothing
    <3> SUFFICES ASSUME phase = "observed", phase' = "persisted", Unclassified(graph) # {},
                        NEW id \in FindingIds
                 PROVE  /\ finding'[id].absent <= finding[id].absent
                        /\ finding'[id].lifecycle = "resolved" => finding[id].lifecycle = "resolved"
      BY DEF UnclassifiedClosesNothing
    <3>1. PersistCommits
      BY DEF Next, MonitorNext, Start, IngestFails, PersistFails, CleanupSkipped, CleanupRuns,
             CleanupFails, Crash, Stop, Ingest, Scan, ScanCleans, ScanEnds, Settle
    <3> DEFINE fs == DetectorFindings(graph, hist)
    <3> DEFINE complete == CompleteScopes(graph, hist)
    <3>2. complete = {}
      BY DEF CompleteScopes, LiquidityIsComplete, DriftIsComplete
    <3>3. PersistFindings(complete, fs, now, TRUE)
      BY <3>1 DEF PersistCommits
    <3>4. IsReport(fs, ScanScopes)
      BY ScanReport DEF PipelineInv, TypeOK, IsHistory
    <3>5. now \in Lifecycle!Times
      BY DEF TypeOK, Lifecycle!Times
    <3> HIDE DEF fs, complete
    <3>6. complete \in SUBSET ScanScopes /\ id[1] \notin complete
      BY <3>2
    <3> QED
      BY <3>3, <3>4, <3>5, <3>6, OutsideScopes
  <2>2. ScanLeavesTrends
    <3> SUFFICES ASSUME UNCHANGED phase, now' # now, NEW c \in Channels
                 PROVE  finding'[<<"liquidity_trend", c>>] = finding[<<"liquidity_trend", c>>]
      BY DEF ScanLeavesTrends
    <3> DEFINE id == <<"liquidity_trend", c>>
    <3>1. id \in FindingIds /\ id[1] = "liquidity_trend"
      BY ChannelIds DEF ChannelDetectors
    <3> HIDE DEF id
    <3>2. CASE \E raw \in Fixtures : Scan(raw)
      <4>1. PICK raw \in Fixtures : Scan(raw)
        BY <3>2
      <4> DEFINE g == BuildFixture(raw, now + 1)
                 fs == DetectorFindings(g, NoHistory)
                 complete == CompleteScopes(g, NoHistory)
      <4>2. now < MaxTime /\ now' = now + 1 /\ FixtureLoads(raw)
            /\ PersistFindings(complete, fs, now', TRUE)
        BY <4>1 DEF Scan
      <4>3. now' \in 1..MaxTime /\ now' \in Lifecycle!Times
        BY <4>2, PipelineAssumption DEF TypeOK, Lifecycle!Times
      <4>4. IsGraph(g)
        BY <4>2, <4>3, BuiltGraphs
      <4> HIDE DEF g
      <4>5. IsReport(fs, ScanScopes) /\ complete \in SUBSET ScanScopes
        BY <4>4, ScanReport
      <4>6. "liquidity_trend" \notin complete
        BY DEF CompleteScopes, DriftIsComplete
      <4>7. \A f \in fs : f.detector # "liquidity_trend"
        <5>1. fs = LiquidityRun(g)
          BY DEF DetectorFindings, DriftRun
        <5>2. \A f \in LiquidityRun(g) : f.detector = "channel_liquidity"
          BY <4>4, LiquidityFindingIs DEF IsAbout
        <5> QED
          BY <5>1, <5>2
      <4> HIDE DEF fs, complete
      <4> QED
        BY <3>1, <4>2, <4>3, <4>5, <4>6, <4>7, OutsideScopes DEF id
    <3>3. CASE \E w \in InvoiceWindows : Settle(w)
      <4>1. PICK w \in InvoiceWindows : Settle(w)
        BY <3>3
      <4> DEFINE fs == SettlementRun(Normalized(w), EmptyGraph, Node, "unknown")
      <4>2. now < MaxTime /\ now' = now + 1 /\ PersistFindings({"settlement_reliability"}, fs, now', FALSE)
        BY <4>1 DEF Settle
      <4>3. now' \in Lifecycle!Times
        BY <4>2, PipelineAssumption DEF TypeOK, Lifecycle!Times
      <4>4. IsReport(fs, AgentScopes)
        BY AgentReport
      <4>5. {"settlement_reliability"} \in SUBSET AgentScopes
        BY DEF AgentScopes
      <4>6. \A f \in fs : f.detector # "liquidity_trend"
        BY <4>4 DEF IsReport, AgentScopes
      <4> HIDE DEF fs
      <4>7. id[1] \notin {"settlement_reliability"} /\ FALSE \in BOOLEAN
        BY <3>1
      <4>8. (\A f \in fs : f.detector # id[1]) => finding'[id] = finding[id]
        BY <3>1, <4>2, <4>3, <4>4, <4>5, <4>7, OutsideScopes
      <4> QED
        BY <3>1, <4>6, <4>8 DEF id
    <3>4. (\E raw \in Fixtures : Scan(raw)) \/ (\E w \in InvoiceWindows : Settle(w))
      BY DEF Next, MonitorNext, Start, IngestFails, PersistCommits, PersistFails, CleanupSkipped,
             CleanupRuns, CleanupFails, Crash, Stop, Ingest, ScanCleans, ScanEnds
    <3> QED
      BY <3>2, <3>3, <3>4 DEF id
  <2> QED
    BY <2>1, <2>2
<1> QED
  BY <1>1, PipelineInvariant, PTL DEF Spec, SilenceIsNotAbsence
=============================================================================
