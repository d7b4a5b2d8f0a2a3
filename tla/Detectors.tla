------------------------------ MODULE Detectors -----------------------------
(***************************************************************************)
(* The three detectors that scan and monitor run                           *)
(* (crates/rieko-detectors/src/liquidity.rs, drift.rs, settlement.rs and   *)
(* registry.rs).  Pure operators, no state: a graph is a function from     *)
(* channels to normalized channels or NoChannel, a history a function from *)
(* channels to sequences of snapshots, oldest first, or NoHistory.         *)
(*                                                                         *)
(* Data abstraction.  A finding is its detector, its channel (which give   *)
(* its identity), its severity, the numbers and the direction its evidence *)
(* carries and the snapshots its provenance refers to; the texts are left  *)
(* out.                                                                    *)
(***************************************************************************)
EXTENDS LightningChannel, FiniteSets, Sequences

CONSTANTS
    Window,        \* DriftThresholds.window (12)
    MinHistory     \* DriftThresholds.min_history (4)

ASSUME DetectorAssumption ==
    /\ Window \in Nat /\ MinHistory \in Nat \ {0}
    /\ MinHistory <= Window

DetectorIds == {"channel_liquidity", "liquidity_trend", "settlement_reliability"}

\* DetectorContext.history = None.
NoHistory == [c \in {} |-> <<>>]
\* A finding about the node and not about one of its channels.
NodeWide == "node"

Present(graph) == {c \in DOMAIN graph : graph[c] # NoChannel}
Open(graph) == {c \in Present(graph) : IsOpen(graph[c].status)}
Unclassified(graph) == {c \in Open(graph) : graph[c].imbalance = "Unknown"}

Finding(detector, channel, severity, evidence, refs) ==
    [detector |-> detector, channel |-> channel, severity |-> severity,
     evidence |-> evidence, refs |-> refs]

-----------------------------------------------------------------------------
(* LiquidityDetector.                                                      *)

Direction(channel) ==
    CASE channel.imbalance = "SeverelyDrained" /\ channel.ratio < 50 -> "outbound"
      [] channel.imbalance = "SeverelyDrained" /\ channel.ratio >= 50 -> "inbound"
      [] channel.imbalance = "OutboundDrained" -> "outbound"
      [] channel.imbalance = "InboundDrained" -> "inbound"

\* Faulty variant: the critical bar is applied to the outbound side only.
OutboundSeverity(ratio) == IF ratio < 5 THEN "critical" ELSE "warning"

LiquiditySeverity(ratio) == IF ratio < 5 \/ ratio > 95 THEN "critical" ELSE "warning"

Drained(graph) ==
    {c \in Open(graph) : graph[c].imbalance \notin {"Balanced", "Unknown"}}

LiquidityRun(graph) ==
    {Finding("channel_liquidity", c, LiquiditySeverity(graph[c].ratio),
             [direction |-> Direction(graph[c]), local_ratio |-> graph[c].ratio,
              capacity |-> graph[c].capacity],
             {SnapshotOf(graph[c])}) : c \in Drained(graph)}

\* Faulty variant: what could be classified is all there is.
CompleteAnyway(graph) == TRUE

LiquidityIsComplete(graph) == Unclassified(graph) = {}

-----------------------------------------------------------------------------
(* DriftDetector.                                                          *)

\* InMemoryHistory::recent_channel_snapshots: at most `limit', the last one
\* pushed first.
RecentChannelSnapshots(bucket, limit) ==
    LET n == IF Len(bucket) <= limit THEN Len(bucket) ELSE limit
    IN  [i \in 1..n |-> bucket[Len(bucket) + 1 - i]]

Ratios(snaps) == {snaps[i].ratio : i \in 1..Len(snaps)}
Least(S) == CHOOSE x \in S : \A y \in S : x <= y

\* Channels whose ratio fell by the warning decline to below the bar.
Drifting(graph, hist) ==
    {c \in Open(graph) \ Unclassified(graph) :
        LET snaps == RecentChannelSnapshots(hist[c], Window)
        IN  /\ Len(snaps) >= MinHistory
            /\ snaps[Len(snaps)].ratio - graph[c].ratio >= 5
            /\ graph[c].ratio < 25}

DriftRun(graph, hist) ==
    IF hist = NoHistory THEN {}
    ELSE {LET snaps == RecentChannelSnapshots(hist[c], Window)
              start == snaps[Len(snaps)].ratio
              decline == start - graph[c].ratio
          IN  Finding("liquidity_trend", c, IF decline >= 15 THEN "critical" ELSE "warning",
                      [direction |-> "draining", start |-> start, current |-> graph[c].ratio,
                       decline |-> decline, min_in_window |-> Least(Ratios(snaps)),
                       window |-> Len(snaps)],
                      {snaps[i] : i \in 1..Len(snaps)}) : c \in Drifting(graph, hist)}

DriftIsComplete(graph, hist) ==
    /\ hist # NoHistory
    /\ Unclassified(graph) = {}
    /\ \A c \in Open(graph) :
           Len(RecentChannelSnapshots(hist[c], Window)) >= MinHistory

-----------------------------------------------------------------------------
(* SettlementReliabilityDetector on a window of BTCPay events, which       *)
(* rieko-ingest-btcpay normalizes; chain is the context's                  *)
(* chain_synchronized.  Each event counts, also when several are about one *)
(* invoice.                                                                *)

\* normalize_webhook_payload: the event of a webhook type; others are refused.
NormalizeWebhookPayload(type) ==
    CASE type \in {"InvoiceSettled", "InvoiceProcessing"} -> "invoice_settled"
      [] type = "InvoiceReceivedPayment" -> "invoice_payment_received"
      [] type \in {"InvoiceExpired", "InvoiceInvalid"} -> "invoice_expired"
      [] OTHER -> "malformed"

\* What the detector sees of a window of webhooks.  A refused one is never
\* stored; here it keeps its place and counts for nothing.
Normalized(hooks) == [k \in DOMAIN hooks |-> NormalizeWebhookPayload(hooks[k])]

CountOf(events, kinds) == Cardinality({k \in DOMAIN events : events[k] \in kinds})

ExpiredCount(events) == CountOf(events, {"invoice_expired", "payment_failed"})
SettledCount(events) ==
    CountOf(events, {"invoice_settled", "invoice_payment_received", "payment_succeeded"})

DrainedForSettlement(graph, node) ==
    {c \in Open(graph) : graph[c].node = node /\ graph[c].ratio < 10}

InactiveForSettlement(graph, node) ==
    {c \in Present(graph) : graph[c].node = node /\ graph[c].status = "inactive"}

\* The most severely drained channel, else an inactive one.
IsBottleneck(graph, node, c) ==
    LET drained  == DrainedForSettlement(graph, node)
        inactive == InactiveForSettlement(graph, node)
    IN  CASE drained # {} -> c \in drained /\ \A d \in drained : graph[c].ratio <= graph[d].ratio
          [] drained = {} /\ inactive # {} -> c \in inactive
          [] drained = {} /\ inactive = {} -> c = NodeWide

\* Thresholds: at least two failures, and at least 40 % of the window.
SettlementDegraded(expired, settled) ==
    expired >= 2 /\ expired * 100 >= 40 * (expired + settled)

SettlementSeverity(expired, settled, both) ==
    IF expired * 100 >= 70 * (expired + settled) \/ expired >= 5 \/ both
    THEN "critical" ELSE "warning"

RootCause(chain, degraded) ==
    CASE chain = "false" -> "bitcoin_core_desynchronized"
      [] chain = "true" /\ degraded -> "lightning_operational_degradation"
      [] OTHER -> "undetermined"

\* One finding, about a bottleneck or the node; no snapshot is referred to
\* where the context has no source.
SettlementFinding(c, expired, settled, graph, node, chain) ==
    LET drained  == DrainedForSettlement(graph, node)
        inactive == InactiveForSettlement(graph, node)
    IN  Finding("settlement_reliability", c,
                SettlementSeverity(expired, settled, drained # {} /\ inactive # {}),
                [expired |-> expired, settled |-> settled, chain |-> chain,
                 root_cause |-> RootCause(chain, drained \cup inactive # {})], {})

\* The findings the detector may return: at most one, about any bottleneck.
SettlementRun(events, graph, node, chain) ==
    LET expired == ExpiredCount(events)
        settled == SettledCount(events)
    IN  {SettlementFinding(c, expired, settled, graph, node, chain) :
            c \in {d \in DOMAIN graph \cup {NodeWide} :
                     SettlementDegraded(expired, settled) /\ IsBottleneck(graph, node, d)}}
=============================================================================
