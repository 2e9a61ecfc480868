----------------------------- MODULE Selections -----------------------------
(***************************************************************************)
(* The elements of a sequence at a set of positions, in their order: what  *)
(* filtering an array leaves.                                              *)
(***************************************************************************)
EXTENDS Integers, Sequences, FiniteSets

\* The n-th smallest of a set of positions.
PositionOf(K, n) == CHOOSE i \in K : Cardinality({j \in K : j < i}) = n - 1

Selected(s, K) == [n \in 1 .. Cardinality(K) |-> s[PositionOf(K, n)]]
=============================================================================
