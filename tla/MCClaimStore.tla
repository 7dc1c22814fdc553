---------------------------- MODULE MCClaimStore ----------------------------
(* Instances of ClaimStore for TLC.                                        *)
EXTENDS ClaimStore, TLC

(* Every operation but forced recovery, with processes that are killed,    *)
(* file operations that fail and lock files that grow stale.               *)
MCUpdates == Update \cup {"crash", "fail", "runtime"}

(* Claim attempts only, which may be killed or fail.                       *)
MCClaims == {"claim", "crash", "fail"}

Symmetry == Permutations(Proc) \cup Permutations(Claim)
=============================================================================
