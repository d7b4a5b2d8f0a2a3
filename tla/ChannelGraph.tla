---------------------------- MODULE ChannelGraph ----------------------------
(***************************************************************************)
(* The in-memory channel graph and its path finding                        *)
(* (crates/rieko-graph/src/store.rs, src/path.rs): the channels, the index *)
(* from a node to its channels that upserts maintain, and Dijkstra's       *)
(* algorithm over it, whose routes Simulator::project_rebalance_route      *)
(* takes.  The state is the graph; a step is one upsert.                    *)
(*                                                                         *)
(* Data abstraction.  Nodes are numbers, ordered as their names are.  Fees *)
(* are small, so no saturating sum saturates.                              *)
(***************************************************************************)
EXTENDS Naturals, Sequences, SequencesExt, FiniteSetsExt, TLC

CONSTANTS
    GraphNodes,   \* node names, as numbers
    Ppm,          \* 1_000_000: fee rates are in parts of it
    Edges,        \* the channels that may be upserted
    Amounts,      \* amounts to route
    MaxUpserts    \* bound

ASSUME GraphAssumption ==
    /\ GraphNodes \subseteq Nat /\ Ppm \in Nat \ {0} /\ Amounts \subseteq Nat /\ MaxUpserts \in Nat
    /\ \A c \in Edges : c.node \in GraphNodes /\ c.peer \in GraphNodes \ {c.node}

VARIABLE graph   \* InMemoryGraph: its channels and its index peer_channels

-----------------------------------------------------------------------------
(* InMemoryGraph.                                                          *)

EmptyGraph == [channels |-> <<>>, peer_channels |-> [n \in GraphNodes |-> <<>>]]

Ends(channel) == {channel.node, channel.peer}

\* The list of a node without an id.
Without(ids, id) == SelectSeq(ids, LAMBDA i : i # id)

\* upsert_channel: a channel whose peer changes leaves the lists of the old
\* peer and of the local node before it is pushed at both ends.
UpsertChannel(g, c) ==
    LET moves == c.id \in DOMAIN g.channels /\ g.channels[c.id].peer # c.peer
        cleaned == [n \in GraphNodes |->
                       IF moves /\ n \in {g.channels[c.id].peer, c.node}
                       THEN Without(g.peer_channels[n], c.id) ELSE g.peer_channels[n]]
    IN  [channels |-> (c.id :> c) @@ g.channels,
         peer_channels |-> [n \in GraphNodes |->
             IF n \in Ends(c) THEN Append(cleaned[n], c.id) ELSE cleaned[n]]]

GraphInit == graph = EmptyGraph

\* Every upsert adds two entries to the index or replaces two.
Upsert(c) ==
    /\ FoldSet(LAMBDA n, sum : sum + Len(graph.peer_channels[n]), 0, GraphNodes) < 2 * MaxUpserts
    /\ graph' = UpsertChannel(graph, c)

-----------------------------------------------------------------------------
(* Path finding.                                                           *)

\* channel_cost.
ChannelCost(channel, amount) == channel.base_fee + (channel.fee_rate * amount) \div Ppm

\* The end a node reaches through a channel of its list.
Neighbor(channel, node) == IF node = channel.node THEN channel.peer ELSE channel.node

\* Distanced: the heap returns the cheapest entry, of equal ones the greatest
\* node.
PopHeap(heap) ==
    CHOOSE d \in heap : \A e \in heap : d.cost < e.cost \/ (d.cost = e.cost /\ d.node >= e.node)

\* Faulty variant: a node keeps the first channel that reached it.
KeepsFirst(g, from, amount, s, id) ==
    LET to == Neighbor(g.channels[id], from.node)
        next == from.cost + ChannelCost(g.channels[id], amount)
    IN  IF to \in DOMAIN s.dist THEN s
        ELSE [dist |-> (to :> next) @@ s.dist, prev_channel |-> (to :> id) @@ s.prev_channel,
              heap |-> s.heap \cup {[node |-> to, cost |-> next]}]

\* One edge of the node that was popped.
Relax(g, from, amount, s, id) ==
    LET to == Neighbor(g.channels[id], from.node)
        next == from.cost + ChannelCost(g.channels[id], amount)
    IN  IF to \in DOMAIN s.dist /\ s.dist[to] <= next THEN s
        ELSE [dist |-> (to :> next) @@ s.dist, prev_channel |-> (to :> id) @@ s.prev_channel,
              heap |-> s.heap \cup {[node |-> to, cost |-> next]}]

\* The loop of find_path: the channels by which the nodes were reached when the
\* target is popped, or nothing.
RECURSIVE Search(_, _, _, _)
Search(g, target, amount, s) ==
    LET d == PopHeap(s.heap)
        popped == [s EXCEPT !.heap = @ \ {d}]
    IN  CASE s.heap = {} -> <<>>
          [] s.heap # {} /\ d.node = target -> s.prev_channel
          [] s.heap # {} /\ d.node # target /\ d.cost > s.dist[d.node] ->
                 Search(g, target, amount, popped)
          [] OTHER ->
                 Search(g, target, amount,
                        FoldLeft(LAMBDA acc, id : Relax(g, d, amount, acc, id),
                                 popped, g.peer_channels[d.node]))

\* reconstruct_path: back from a node by the channels that reached it, each hop
\* with its cost for an amount of 0.
RECURSIVE ReconstructPath(_, _, _)
ReconstructPath(g, prev, cur) ==
    IF cur \notin DOMAIN prev THEN <<>>
    ELSE LET channel == g.channels[prev[cur]]
         IN  Append(ReconstructPath(g, prev, Neighbor(channel, cur)),
                    [channel_id |-> prev[cur], cost |-> ChannelCost(channel, 0)])

NoPath == [found |-> FALSE]

\* find_path.
FindPath(g, source, target, amount) ==
    LET start == [dist |-> (source :> 0), prev_channel |-> <<>>,
                  heap |-> {[node |-> source, cost |-> 0]}]
        prev == Search(g, target, amount, start)
        hops == ReconstructPath(g, prev, target)
    IN  IF source # target /\ target \notin DOMAIN prev THEN NoPath
        ELSE [found |-> TRUE, hops |-> IF source = target THEN <<>> ELSE hops]

-----------------------------------------------------------------------------
(* Properties.                                                             *)

\* Reference: the routes between two nodes that visit no node twice.
RECURSIVE Routes(_, _, _, _)
Routes(g, from, to, avoid) ==
    IF from = to THEN {<<>>}
    ELSE UNION {{<<id>> \o rest : rest \in
                    Routes(g, Neighbor(g.channels[id], from), to, avoid \cup {from})} :
                id \in {i \in DOMAIN g.channels :
                           /\ from \in Ends(g.channels[i])
                           /\ Neighbor(g.channels[i], from) \notin avoid}}

\* What routing an amount through channels costs.
Price(g, ids, amount) ==
    FoldLeft(LAMBDA sum, id : sum + g.channels[id].base_fee
                                  + (g.channels[id].fee_rate * amount) \div Ppm, 0, ids)

\* In a graph with a channel, find_path (path.rs) finds a route exactly if there
\* is one, and no route is cheaper for the amount: although it stops at the
\* first pop of the target, leaves outdated entries on the heap and walks back
\* by channels that later relaxations may have replaced.
RouteIsCheapest ==
    DOMAIN graph.channels # {} =>
    \A source, target \in GraphNodes, amount \in Amounts :
        LET path == FindPath(graph, source, target, amount)
            all == Routes(graph, source, target, {})
            ids == [k \in DOMAIN path.hops |-> path.hops[k].channel_id]
        IN  IF path = NoPath THEN all = {}
            ELSE /\ ids \in all
                 /\ \A other \in all : Price(graph, ids, amount) <= Price(graph, other, amount)

\* upsert_channel (store.rs) keeps the adjacency index in step with the
\* channels: after any sequence of upserts, with channels that move to another
\* peer, a node's list has exactly the channels that end there.
IndexFollowsChannels ==
    \A n \in GraphNodes :
        ToSet(graph.peer_channels[n]) =
            {i \in DOMAIN graph.channels : n \in Ends(graph.channels[i])}

\* After any sequence of upserts the index is that of the channels, and what is
\* found over it is the cheapest route.
PathsAreCheapest == IndexFollowsChannels /\ RouteIsCheapest
=============================================================================
