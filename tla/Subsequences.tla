---------------------------- MODULE Subsequences ----------------------------
(* What is left of a list when some of its elements are erased, as the     *)
(* erase loops over std::vector leave it: the others, in their order.      *)
EXTENDS Integers, FiniteSets

(* The i-th smallest of a set of numbers. *)
Below(P, p) == {o \in P : o < p}
Nth(P, i)   == CHOOSE p \in P : Cardinality(Below(P, p)) = i - 1

(* The elements of q at the positions P, in their order. *)
Subsequence(q, P) == [i \in 1 .. Cardinality(P) |-> q[Nth(P, i)]]
=============================================================================
