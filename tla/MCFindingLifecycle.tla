------------------------- MODULE MCFindingLifecycle -------------------------
(* The monitor commits the cycles of two channel detectors together; the    *)
(* agent's webhook worker commits those of the settlement detector alone.   *)
EXTENDS FindingLifecycle

CONSTANTS f1, f2, f3, liquidity, drift, settlement

AllFindings == {f1, f2, f3}
AllScopes == {liquidity, drift, settlement}
Scoping == [f \in AllFindings |->
               CASE f = f1 -> liquidity [] f = f2 -> drift [] f = f3 -> settlement]
MonitorAndAgent == {{liquidity, drift}, {settlement}}
MonitorScopes == {liquidity, drift}
WebhookScopes == {settlement}
=============================================================================
