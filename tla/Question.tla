------------------------------ MODULE Question ------------------------------
(***************************************************************************)
(* A pure decision of the program is asked one question at a time: a       *)
(* question is a record of its kind and its inputs, and a behaviour asks   *)
(* one.  The questions come in two halves, which TLC asks side by side.    *)
(***************************************************************************)
VARIABLE asked   \* the question, or that there is none yet

Init == \E half \in {1, 2} : asked = [kind |-> "none", half |-> half]
Unasked == asked.kind = "none"
Half(n) == Unasked /\ asked.half = n
Ask(q) == asked' = q
Asked(kind) == asked.kind = kind
=============================================================================
