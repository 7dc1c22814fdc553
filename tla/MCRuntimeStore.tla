--------------------------- MODULE MCRuntimeStore ---------------------------
(* Instances of RuntimeStore for TLC: two command invocations, and for     *)
(* each run the store methods they call.                                   *)
EXTENDS RuntimeStore, TLC

(* All targets have one canonical scope, as task:X and work-item:X do.     *)
MCSharedScope == [tg \in Target |-> CHOOSE s \in Scope : TRUE]

(* Every target has a canonical scope of its own.                          *)
MCOwnScope == CHOOSE f \in [Target -> Scope] :
  \A tg, tg2 \in Target : f[tg] = f[tg2] => tg = tg2

(* Who owns what: file locks, terminal entries, recovery, reconciliation,  *)
(* cleanup and crashes.                                                    *)
MCOwnership == {"acquireClaim", "acquireLocks", "removeLocks", "finalize",
                "halt", "reclaim", "cleanup", "manifest", "reconcile", "crash"}

(* How the leases of a claim move.                                         *)
MCLeases == {"acquireClaim", "acquireScopes", "removeScopes", "renew", "touch"}

(* The fewest methods that show a documented rule and the store disagree.  *)
MCTerminal == {"acquireClaim", "finalize", "halt"}
MCScopes == {"acquireClaim", "acquireScopes"}

(* The targets are interchangeable only while they share one scope.        *)
Symmetry == Permutations(Token) \cup Permutations(Proc) \cup Permutations(Target)

SymmetryOwnScope == Permutations(Token) \cup Permutations(Proc)
=============================================================================
