------------------------------ MODULE LockAudit -----------------------------
(***************************************************************************)
(* The changed-file lock audit that stands before a record, a completion,  *)
(* an archiving, an adoption and a recovery: whether the claim of the task *)
(* has locked all that has changed.  Git's answers are external: what      *)
(* differs from the merge target, from HEAD, what is not tracked.          *)
(***************************************************************************)
EXTENDS Sequences, SequencesExt, FiniteSetsExt, Naturals

-----------------------------------------------------------------------------
(* A path is a sequence of segments <<name, spelling>>.  Where git ignores *)
(* case, a lock is known by the spelling of the first tracked path that    *)
(* shares as many segments as any does, and by its own for the rest.       *)
Folded(p) == [i \in DOMAIN p |-> p[i][1]]
Shares(t, p, k) == Len(t) >= k /\ \A i \in 1..k : t[i][1] = p[i][1]
CanonicalPath(p, tracked) == LET
    known == {k \in 1..Len(p) : \E i \in DOMAIN tracked : Shares(tracked[i], p, k)}
    k == Max(known)
    t == tracked[SelectInSeq(tracked, LAMBDA x : Shares(x, p, k))] IN
  IF known = {} THEN p ELSE [i \in DOMAIN p |-> IF i <= k THEN t[i] ELSE p[i]]

Identity(p, repo) == IF repo.ignoreCase THEN CanonicalPath(p, repo.tracked) ELSE p

-----------------------------------------------------------------------------
(* An entry of git's lists: "R" stands for a rename or a copy, "?" for a   *)
(* file that is not tracked, "M" for everything else.  What git fails to   *)
(* list counts as unchanged.                                               *)
Entry(status, p, previous) == [status |-> status, path |-> p, previous |-> previous]
IsRename(e) == e.status = "R"
Internal(p) == p[1] = <<"internal", 0>>
Identified(w, e) == Entry(e.status, Identity(e.path, w.repo), e.previous)
Parsed(w, list) == IF list \in w.failed THEN <<>>
  ELSE [i \in DOMAIN w[list] |-> Identified(w, w[list][i])]

(* mergeRuntimeChangedFiles: of the entries for one path a rename counts   *)
(* most and one that is not tracked least.  The runtime's own files, that  *)
(* the parsers drop, do not count, under their new name if they moved.     *)
(* Mutant of Put: the first entry for a path stays.                        *)
PutFirst(merged, e) ==
  IF Internal(e.path) \/ \E i \in DOMAIN merged : merged[i].path = e.path
    THEN merged ELSE Append(merged, e)

Put(merged, e) == LET n == SelectInSeq(merged, LAMBDA x : x.path = e.path) IN
  IF Internal(e.path) THEN merged
  ELSE IF n = 0 THEN Append(merged, e)
  ELSE IF (~IsRename(merged[n]) /\ IsRename(e)) \/ (merged[n].status = "?" /\ e.status # "?")
    THEN [merged EXCEPT ![n] = e]
  ELSE merged
ChangesSince(w, target) ==
  FoldLeft(Put, <<>>, (IF target = "HEAD" THEN <<>> ELSE Parsed(w, "branch"))
                      \o Parsed(w, "worktree") \o Parsed(w, "untracked"))

-----------------------------------------------------------------------------
(* A lock was given its identity when it was made.                         *)
LockState(w, p, renames) == LET held == {l \in w.locks : l.path = p} IN
  IF p \in renames THEN "rename-detected"
  ELSE IF held = {} THEN "missing"
  ELSE IF \E l \in held : l.owner # "self" THEN "foreign-owned"
  ELSE IF w.expired THEN "expired"
  ELSE "owned"

(* The paths of a verified manifest, if its commit changes these and no    *)
(* others and renames none.                                                *)
VerifiedPaths(w) == LET m == w.manifest actual == ToSet(m.actual) IN
  IF \/ m.paths = {} \/ \E e \in actual : IsRename(e)
     \/ Len(m.actual) # Cardinality(m.paths) \/ \E e \in actual : e.path \notin m.paths
    THEN {} ELSE m.paths

(* collectGitAuditContext: on top of the target, and mergeable into it.    *)
(* Outside of a repository with a commit there is nothing to compare.      *)
DefaultTarget(refs) == IF "main" \in refs THEN "main" ELSE IF "master" \in refs THEN "master" ELSE "HEAD"
Fresh(w, target) == w.refs = {} \/ (target = "HEAD" \/ ~w.behind)
Mergeable(w, target) == w.refs = {} \/ (target = "HEAD" \/ ~w.conflict)

Diagnostics(w, paths, renames) ==
  {<<p, LockState(w, p, renames)>> : p \in {q \in paths : LockState(w, q, renames) # "owned"}}
AuditOf(w, target, renamed, diagnostics) ==
  [fresh |-> Fresh(w, target), mergeable |-> Mergeable(w, target),
   renamed |-> renamed, diagnostics |-> diagnostics]
AuditPassed(a) == a.diagnostics = {} /\ ~a.renamed /\ a.fresh /\ a.mergeable

AuditChangedFiles(w, target) == LET
    changed == ToSet(ChangesSince(w, target))
    renamed == {e \in changed : IsRename(e)}
    renames == {e.path : e \in renamed} \cup {e.previous : e \in renamed} IN
  AuditOf(w, target, renamed # {},
          {d \in Diagnostics(w, {e.path : e \in changed}, renames) : d[1] \notin VerifiedPaths(w)})
AuditClaimedPaths(w, target, paths) ==
  AuditOf(w, target, FALSE, Diagnostics(w, {Identity(p, w.repo) : p \in paths}, {}))

(* runRuntimeClaimCoverageAudit.  The paths that are excluded are those of *)
(* a merge that was found in history, and then the branch need be neither  *)
(* fresh nor mergeable.                                                    *)
CoveragePassed(w, required, excluded) == LET
    target == DefaultTarget(w.refs)
    current == AuditChangedFiles(w, target)
    needed == AuditClaimedPaths(w, target, required) IN
  /\ IF excluded # {}
       THEN needed.diagnostics = {} /\ \A d \in current.diagnostics : d[1] \in excluded
       ELSE AuditPassed(current) /\ AuditPassed(needed)
  /\ ~current.renamed

(* recoverTaskClaim asks for the item alone if the task was recoverable    *)
(* without force.                                                          *)
RecoveryPassed(w, item, plainly) ==
  IF plainly THEN AuditClaimedPaths(w, "HEAD", {item}).diagnostics = {}
  ELSE CoveragePassed(w, {item}, {})
=============================================================================
