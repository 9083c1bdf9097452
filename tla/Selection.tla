------------------------------ MODULE Selection ------------------------------
(***************************************************************************)
(* JavaScript's Array.prototype.filter, and its sort by distinct numbers.  *)
(*                                                                         *)
(* Both follow from the ascending order of a finite set of numbers: an     *)
(* element is found at its rank, so that nothing is defined by recursion.  *)
(***************************************************************************)
EXTENDS Naturals, Sequences, FiniteSets

Rank(K, k) == Cardinality({j \in K : j <= k})

(* The numbers of a finite set, smallest first.                            *)
Ascending(K) == [i \in 1..Cardinality(K) |-> CHOOSE k \in K : Rank(K, k) = i]

(* The elements of an array at the given indices, in their order.          *)
Picked(q, indices) ==
  LET place == Ascending(indices) IN [j \in DOMAIN place |-> q[place[j]]]

Items(q) == {q[i] : i \in DOMAIN q}

(* The elements of an array that are in a set, in their order.             *)
Among(q, S) == Picked(q, {i \in DOMAIN q : q[i] \in S})
=============================================================================
