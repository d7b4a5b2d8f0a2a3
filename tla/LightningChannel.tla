-------------------------- MODULE LightningChannel --------------------------
(***************************************************************************)
(* What Rieko makes of one entry of LND's ListChannels                     *)
(* (crates/rieko-ingest-lnd/src/normalize.rs, crates/rieko-domain/src/     *)
(* channel.rs and snapshot.rs).  Pure operators, no state.                 *)
(*                                                                         *)
(* Data abstraction.  A capacity is 0 (also what a negative one becomes)   *)
(* or Whole, so that a balance is its own share of the capacity in         *)
(* percent.  chan_status_flags is the set of bits its tokens name; bit 128 *)
(* stands for everything LND 0.17 does not define: an unknown bit, an      *)
(* unknown token or an empty string.  Peers, fees, reserves and lifetime   *)
(* volumes are read by no detector and left out.                           *)
(***************************************************************************)
EXTENDS Integers

Whole == 100

\* One raw channel: whether channel_point has a colon, capacity, balances, flags.
RawChannel(point, capacity, local, remote, flags) ==
    [point |-> point, capacity |-> capacity, local |-> local, remote |-> remote, flags |-> flags]

\* The entries a report or a fixture may hold.
RawEntries ==
    {raw \in [point : BOOLEAN, capacity : Int, local : Int, remote : Int, flags : SUBSET Nat] :
        raw.capacity <= 0 \/ raw.capacity = Whole}

Statuses == {"opening", "active", "inactive", "closing", "closed", "pending_open",
             "waiting_close", "force_closing", "unknown"}

IsOpen(status) == status \in {"active", "opening", "pending_open"}

IsClosed(status) == status \in {"closed", "closing", "waiting_close", "force_closing"}

ClassifyStatusBits(bits) ==
    CASE bits \ {1, 2, 4, 8, 16, 32, 64} # {} -> "unknown"
      [] bits = {} -> "active"
      [] bits \subseteq {1, 2, 4, 8, 16, 32, 64} /\ bits \cap {1, 4} # {} -> "force_closing"
      [] bits \subseteq {2, 8, 16, 32, 64} /\ bits \cap {2, 16, 32, 64} # {} -> "closing"
      [] bits = {8} -> "opening"

LocalRatio(capacity, local) == IF capacity = 0 THEN 0 ELSE (local * 100) \div capacity

\* LiquidityProfile::compute, the class of the profile.
Imbalance(capacity, local, remote) ==
    LET r == LocalRatio(capacity, local)
        valid == capacity # 0 /\ local <= capacity /\ remote <= capacity
    IN  CASE ~valid -> "Unknown"
          [] valid /\ (r < 3 \/ r > 97) -> "SeverelyDrained"
          [] valid /\ r >= 3 /\ r < 10 -> "OutboundDrained"
          [] valid /\ r > 90 /\ r <= 97 -> "InboundDrained"
          [] valid /\ r >= 10 /\ r <= 90 -> "Balanced"

NoChannel == [status |-> "none"]

\* Faulty variant: negative balances are not refused.
OnlyBadPoint(raw) == ~raw.point

\* Normalizer::channel refuses a channel point without a colon and a negative
\* balance.
Malformed(raw) == ~raw.point \/ raw.local < 0 \/ raw.remote < 0

\* Normalizer::channel.
NormalizeChannel(raw, node, seenAt) ==
    LET capacity == IF raw.capacity < 0 THEN 0 ELSE raw.capacity
    IN  [status    |-> ClassifyStatusBits(raw.flags),
         node      |-> node,
         capacity  |-> capacity,
         local     |-> raw.local,
         remote    |-> raw.remote,
         ratio     |-> LocalRatio(capacity, raw.local),
         imbalance |-> Imbalance(capacity, raw.local, raw.remote),
         last_seen |-> seenAt]

\* ChannelSnapshot::from_channel: the class of the liquidity is not kept.
SnapshotOf(channel) ==
    [node |-> channel.node, ratio |-> channel.ratio, status |-> channel.status,
     ts |-> channel.last_seen]
=============================================================================
