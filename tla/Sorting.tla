------------------------------ MODULE Sorting -------------------------------
(***************************************************************************)
(* A finite set as a sorted list, by how many elements are before each:    *)
(* what sorting a list without duplicates makes of it, whatever its order  *)
(* was.                                                                    *)
(***************************************************************************)
EXTENDS Naturals, FiniteSets

Sorted(S, Before(_, _)) ==
  [i \in 1..Cardinality(S) |-> CHOOSE x \in S : Cardinality({y \in S : Before(y, x)}) + 1 = i]
=============================================================================
