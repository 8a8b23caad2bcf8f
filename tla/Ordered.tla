------------------------------- MODULE Ordered -------------------------------
(***************************************************************************)
(* The members of a finite set of naturals, in order.  A sort by way of    *)
(* SortSeq is out of a proof's reach; an element's place is how many are   *)
(* below it.                                                               *)
(***************************************************************************)
EXTENDS Naturals, FiniteSets

Below(S, i) == {h \in S : h < i}

Ascending(S) ==
    [k \in 1..Cardinality(S) |-> CHOOSE i \in S : Cardinality(Below(S, i)) = k - 1]
=============================================================================
