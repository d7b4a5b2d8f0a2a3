------------------------------ MODULE Listings -------------------------------
(***************************************************************************)
(* The lists that queries and iterators return, as pure operators without  *)
(* recursion.  An order is a set of pairs <<x, y>>, x before y.            *)
(***************************************************************************)
EXTENDS Integers, SequencesExt, FiniteSets

\* ORDER BY: the members of S, none after one it is before; ties are in any
\* order.
Listed(S, before) ==
    CHOOSE list \in [1..Cardinality(S) -> S] :
        /\ IsInjective(list)
        /\ \A j, k \in DOMAIN list : j < k => <<list[k], list[j]>> \notin before

\* LIMIT, take and truncate.
First(list, n) == SubSeq(list, 1, Min({n, Len(list)}))

\* The elements at a list of positions.
Picked(list, order) == [k \in DOMAIN order |-> list[order[k]]]

\* iter().filter() that keeps the elements at the positions ks.
Kept(list, ks) == Picked(list, Listed(ks, {p \in ks \X ks : p[1] < p[2]}))

\* iter().rev().filter().
LastFirst(list, ks) == Picked(list, Listed(ks, {p \in ks \X ks : p[1] > p[2]}))
=============================================================================
