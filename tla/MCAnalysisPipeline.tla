------------------------- MODULE MCAnalysisPipeline -------------------------
(* One channel that takes every interesting shape and one that is healthy, *)
(* malformed or unclassifiable.                                            *)
EXTENDS AnalysisPipeline

CONSTANTS a, b

TwoChannels == {a, b}
OneChannel == {a}

At(local) == RawChannel(TRUE, Whole, local, Whole - local, {})

Report(x, y) == [c \in TwoChannels |-> IF c = a THEN x ELSE y]

\* The first channel closing, critically drained, drained inbound beside a
\* negative balance, and with more than its capacity beside a channel without.
TwoChannelReports ==
    {Report(RawChannel(TRUE, Whole, 4, 96, {2}), At(50)),
     Report(At(4), At(50)),
     Report(At(96), RawChannel(TRUE, Whole, -1, 0, {})),
     Report(RawChannel(TRUE, Whole, 120, 0, {}), RawChannel(TRUE, 0, 0, 0, {}))}

\* Drained, unreadable.
TwoChannelFixtures ==
    {Report(At(4), At(50)), Report(At(4), RawChannel(FALSE, Whole, 50, 50, {}))}

OneChannelReports == {[c \in OneChannel |-> x] : x \in {At(50), At(20), At(4)}}

\* Two failures and three of the events of paid invoices, 40 % exactly, and a
\* type that is not taken.
Invoices ==
    {<<"InvoiceExpired", "InvoiceInvalid", "InvoiceReceivedPayment", "InvoiceProcessing",
       "InvoiceSettled", "InvoiceCreated">>}

\* Closed channels are kept for less long.  The monitor keeps the rows of open
\* ones for as long as there are observations, but one per channel; a scan
\* keeps more of them, for less long.
CappedRetention == [age |-> 3, closed_age |-> 1, cap |-> 1, interval |-> 2]
ShortRetention == [age |-> 2, closed_age |-> 0, cap |-> 0, interval |-> 2]
\* Nothing is old enough to be deleted.
LongRetention == [age |-> MaxTime, closed_age |-> MaxTime, cap |-> 0, interval |-> 1]

OwnNode == {Node}
CONSTANT LiveNode
EitherNode == {Node, LiveNode}
=============================================================================
