-------------------------- MODULE MCWorkItemFiles ---------------------------
(***************************************************************************)
(* Small instances of WorkItemFiles.                                       *)
(***************************************************************************)
EXTENDS WorkItemFiles, TLC

(* Commands are made of calls.                                             *)
ASSUME CallsAreCalls == \A op \in Op, i \in Item : OnItem(op, i, {}) \in Call

Symmetry == Permutations(Proc) \cup Permutations(Item)
=============================================================================
