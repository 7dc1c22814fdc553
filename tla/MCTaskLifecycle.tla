-------------------------- MODULE MCTaskLifecycle ---------------------------
(* Instances of TaskLifecycle for TLC.                                     *)
EXTENDS TaskLifecycle, TLC

Symmetry == Permutations(Proc) \cup Permutations(Token)
=============================================================================
