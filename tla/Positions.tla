------------------------------- MODULE Positions -------------------------------
(***************************************************************************)
(* What a filter leaves of a list: the entries at the positions it         *)
(* selects, in their order.                                                *)
(***************************************************************************)
EXTENDS Integers, Sequences, FiniteSets

\* The j-th of a set of positions.
Nth(S, j) == CHOOSE k \in S : Cardinality({i \in S : i < k}) = j - 1

Chosen(list, S) == [j \in 1..Cardinality(S) |-> list[Nth(S, j)]]
==============================================================================
