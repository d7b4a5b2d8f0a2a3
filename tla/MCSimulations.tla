--------------------------- MODULE MCSimulations ----------------------------
(* The drained channel a and a partner b that is healthy or closing; beside *)
(* it, the graphs over which routes are looked for.                        *)
EXTENDS Simulations, ChannelGraph

CONSTANTS a, b, LiveNode

TwoChannels == {a, b}

At(local) == RawChannel(TRUE, Whole, local, Whole - local, {})
Closing == RawChannel(TRUE, Whole, 50, 50, {2})

Pair(x, y) == [c \in TwoChannels |-> IF c = a THEN x ELSE y]

\* Drained on either side, a closing partner, and a node whose
\* identity is not the configured name.
SomeReports ==
    {[channels |-> Pair(At(4), At(50)), node |-> n] : n \in {Node, LiveNode}}
    \cup {[channels |-> p, node |-> Node] :
             p \in {Pair(At(92), At(50)), Pair(At(4), Closing)}}

Request(rec, source, destination, amount, allow) ==
    [rec |-> rec, source |-> source, destination |-> destination, amount |-> amount,
     allow_stale |-> allow]

\* 6 clears a channel at 4 %, 3 clears one at 92 %; the partner
\* cannot give 60.
SomeCommands ==
    {Request("rebalance_channel", b, a, 6, allow) : allow \in BOOLEAN}
    \cup {Request("rebalance_channel", a, b, 3, FALSE),
          Request("rebalance_channel", b, a, 60, FALSE),
          Request("update_fee_policy", a, b, 6, TRUE),
          Request("trend_review", b, a, 6, FALSE)}

-----------------------------------------------------------------------------
(* Graphs of four nodes.  A channel is free, dear for any amount or dear    *)
(* for large ones; channel 3 may move from one peer to another.             *)

FourNodes == 1..4

Fees == {[base |-> 0, rate |-> 0], [base |-> 3, rate |-> 0], [base |-> 0, rate |-> 3]}

Edge(id, node, peer, fee) ==
    [id |-> id, node |-> node, peer |-> peer, base_fee |-> fee.base, fee_rate |-> fee.rate]

SomeEdges ==
    UNION {{Edge(1, 1, 2, fee), Edge(2, 2, 3, fee), Edge(3, 1, 3, fee), Edge(3, 1, 4, fee),
            Edge(4, 3, 4, fee)} : fee \in Fees}

\* The service does not read the graph and the graph does not change with the
\* service: their behaviours are explored side by side, not interleaved.
NothingHappened == now = 0 /\ snaps = {} /\ faults = 0 /\ answer = NoAnswer

Start == Init /\ GraphInit

SideBySide ==
    /\ Start
    /\ [][\/ Next /\ graph = EmptyGraph /\ UNCHANGED graph
          \/ \E c \in Edges : Upsert(c) /\ NothingHappened /\ UNCHANGED vars]_<<vars, graph>>
=============================================================================
