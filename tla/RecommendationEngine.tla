------------------------ MODULE RecommendationEngine ------------------------
(***************************************************************************)
(* What the recommendation engine requires of a finding and what it        *)
(* recommends (crates/rieko-recommendations/src/engine.rs).  Pure          *)
(* operators, no state.  One refused finding rolls the whole cycle back.   *)
(*                                                                         *)
(* Data abstraction.  The text requirements (a known detector and schema   *)
(* version, unique evidence keys, a non-empty peer) hold of everything the *)
(* detectors build and are left out; the numeric ones and the directions   *)
(* are kept.  A recommendation is its action type, its target and the      *)
(* direction its reason names.                                             *)
(***************************************************************************)
EXTENDS Detectors

ChannelGiven(f) == f.channel # NodeWide

RequiredRatio(x) == x \in 0..100
RequiredNonnegativeNumber(x) == x >= 0
RequiredPositiveNumber(x) == x > 0

\* validate_common.
ValidCommon(f) == f.detector \in DetectorIds /\ f.severity \in {"warning", "critical"}

ValidLiquidity(f) ==
    /\ ChannelGiven(f)
    /\ f.evidence.direction \in {"outbound", "inbound"}
    /\ RequiredRatio(f.evidence.local_ratio)
    /\ RequiredPositiveNumber(f.evidence.capacity)

ValidTrend(f) ==
    /\ ChannelGiven(f)
    /\ f.evidence.direction = "draining"
    /\ RequiredRatio(f.evidence.start)
    /\ RequiredRatio(f.evidence.current)
    /\ RequiredRatio(f.evidence.decline)
    /\ RequiredRatio(f.evidence.min_in_window)
    /\ RequiredPositiveNumber(f.evidence.window)

ValidSettlement(f) ==
    /\ RequiredNonnegativeNumber(f.evidence.expired)
    /\ RequiredNonnegativeNumber(f.evidence.settled)
    /\ f.evidence.root_cause # ""

\* recommend returns Ok.
Accepts(f) ==
    /\ ValidCommon(f)
    /\ f.detector = "channel_liquidity" => ValidLiquidity(f)
    /\ f.detector = "liquidity_trend" => ValidTrend(f)
    /\ f.detector = "settlement_reliability" => ValidSettlement(f)

Review(type, f) == [type |-> type, detector |-> f.detector, channel |-> f.channel]

RebalanceReview(f) == Review("rebalance_channel", f)
FeeReview(f) == Review("update_fee_policy", f)

RecommendLiquidity(f) ==
    IF f.evidence.direction = "inbound" THEN {FeeReview(f), RebalanceReview(f)}
    ELSE {RebalanceReview(f)}

RecommendLiquidityTrend(f) == {RebalanceReview(f)}

RecommendSettlementReliability(f) == {RebalanceReview(f)}

Recommend(f) ==
    CASE f.detector = "channel_liquidity" -> RecommendLiquidity(f)
      [] f.detector = "liquidity_trend" -> RecommendLiquidityTrend(f)
      [] f.detector = "settlement_reliability" -> RecommendSettlementReliability(f)
=============================================================================
