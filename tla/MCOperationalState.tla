------------------------- MODULE MCOperationalState -------------------------
(* Two agents: one that polls Greenfield often enough for an outage and its *)
(* recovery, and one with every correlation.                                *)
EXTENDS OperationalState

PollLimits(btcpay, core, lnd) ==
    [s \in Sources |-> CASE s = "btcpay" -> btcpay [] s = "core" -> core [] s = "lnd" -> lnd]
TwoAgents == {PollLimits(4, 0, 0), PollLimits(2, 1, 0), PollLimits(1, 2, 1)}
=============================================================================
