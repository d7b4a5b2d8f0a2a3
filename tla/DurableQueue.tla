---------------------------- MODULE DurableQueue ----------------------------
(***************************************************************************)
(* What ADR-0007 promises of the webhook hand-off, without handlers,       *)
(* worker, faults or restarts: a first-in first-out queue that accepts     *)
(* each item once, answers for an item only once it is in the queue, and   *)
(* completes items one at a time in the order it accepted them.            *)
(***************************************************************************)
EXTENDS Naturals, Sequences

CONSTANT Items

VARIABLES
    log,        \* accepted items, oldest first
    done,       \* completed items
    answered    \* items a client was told are safe

qvars == <<log, done, answered>>

InLog(d) == \E i \in 1..Len(log) : log[i] = d

Init == log = <<>> /\ done = {} /\ answered = {}

Accept(d) ==
    /\ ~InLog(d)
    /\ log' = Append(log, d)
    /\ UNCHANGED <<done, answered>>

\* The oldest item that is not done.
Complete(i) ==
    /\ log[i] \notin done
    /\ \A j \in 1..(i - 1) : log[j] \in done
    /\ done' = done \cup {log[i]}
    /\ UNCHANGED <<log, answered>>

Answer(d) ==
    /\ InLog(d)
    /\ answered' = answered \cup {d}
    /\ UNCHANGED <<log, done>>

Next ==
    \/ \E d \in Items : Accept(d) \/ Answer(d)
    \/ \E i \in 1..Len(log) : Complete(i)

Spec == Init /\ [][Next]_qvars
=============================================================================
