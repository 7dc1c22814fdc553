--------------------------- MODULE AuditQuestions ---------------------------
(***************************************************************************)
(* Questions about the lock audit: two files under all spellings, locked   *)
(* or not, changed in every way that git lists.                            *)
(***************************************************************************)
EXTENDS Question, LockAudit

PathF == <<<<"d", 0>>, <<"f", 0>>>>
PathFUpper == <<<<"d", 1>>, <<"f", 0>>>>
PathG == <<<<"d", 0>>, <<"g", 0>>>>
PathIn == <<<<"internal", 0>>, <<"x", 0>>>>
Modified(p) == Entry("M", p, p)
Entries == {Modified(p) : p \in {PathF, PathFUpper, PathG, PathIn}}
  \cup {Entry("R", PathF, PathG), Entry("R", PathG, PathF), Entry("R", PathIn, PathF)}
Untracked == {Entry("?", p, p) : p \in {PathFUpper, PathG, PathIn}}
UpToOne(S) == {<<>>} \cup {<<x>> : x \in S}

Tracking(ignoreCase, tracked) == [ignoreCase |-> ignoreCase, tracked |-> tracked]
LockedAs(typed, owner, repo) == [typed |-> typed, path |-> Identity(typed, repo), owner |-> owner]
LockSets(repo, spellings) ==
  {F \cup G : F \in {{}} \cup {{LockedAs(p, o, repo)} : p \in spellings, o \in {"self", "other"}},
              G \in {{}} \cup {{LockedAs(PathG, o, repo)} : o \in {"self", "other"}}}
NoManifest == [paths |-> {}, actual |-> <<>>]
Manifests == {[paths |-> {PathG}, actual |-> <<e>>] : e \in {Modified(PathG), Entry("R", PathG, PathF)}}
Situations ==
  [expired : {FALSE}, manifest : {NoManifest}, behind : BOOLEAN, conflict : BOOLEAN,
   refs : {{"main", "HEAD"}}, failed : {{}, {"branch"}}]
  \cup [expired : BOOLEAN, manifest : {NoManifest} \cup Manifests, behind : {FALSE}, conflict : {FALSE},
        refs : {{"HEAD"}, {"main", "HEAD"}}, failed : {{}}]
  \cup [expired : BOOLEAN, manifest : {NoManifest}, behind : {TRUE}, conflict : {TRUE},
        refs : {{}}, failed : {{"branch", "worktree"}}]
Trackings == {Tracking(i, t) : i \in BOOLEAN, t \in {<<>>, <<PathF>>, <<PathFUpper, PathG>>}}
Audited(repo, before, locks, branch, worktree, untracked, s) ==
  [repo |-> repo, before |-> before, locks |-> locks, branch |-> branch, worktree |-> worktree,
   untracked |-> untracked, expired |-> s.expired, manifest |-> s.manifest, behind |-> s.behind,
   conflict |-> s.conflict, refs |-> s.refs, failed |-> s.failed]
AskAboutWorld(world, required, excluded) ==
  Ask([kind |-> "audit", required |-> required, excluded |-> excluded, world |-> world])

Plainly == CHOOSE s \in Situations :
  "main" \in s.refs /\ ~s.behind /\ ~s.conflict /\ s.failed = {} /\ s.manifest = NoManifest

(* How files are spelled, when they were locked and now.                   *)
AskSpelling == Unasked /\ \E before, repo \in Trackings, branch \in UpToOne(Entries), untracked \in UpToOne(Untracked), required \in {{}, {PathF}} :
  /\ before.ignoreCase = repo.ignoreCase
  /\ \E locks \in LockSets(before, {PathF, PathFUpper}) :
       AskAboutWorld(Audited(repo, before, locks, branch, <<>>, untracked, Plainly), required, {})

(* What has changed, and what else an audit looks at.                      *)
AskChanges == Unasked /\ \E branch, worktree \in UpToOne(Entries \ {Modified(PathFUpper)}),
                 untracked \in UpToOne({e \in Untracked : e.path # PathFUpper}), situation \in Situations,
                 required \in {{}, {PathF}}, excluded \in {{}, {PathG}} :
  LET repo == Tracking(FALSE, <<PathF, PathG>>) IN
  \E locks \in LockSets(repo, {PathF}) :
    AskAboutWorld(Audited(repo, repo, locks, branch, worktree, untracked, situation), required, excluded)

-----------------------------------------------------------------------------
SameFile(w, p, q) == IF w.repo.ignoreCase THEN Folded(p) = Folded(q) ELSE p = q
Locked(w, p) == ~w.expired /\ \E l \in w.locks : l.owner = "self" /\ SameFile(w, l.typed, p)
Listed(w) == UNION {ToSet(w[list]) :
  list \in {"worktree", "untracked"} \cup (IF DefaultTarget(w.refs) # "HEAD" THEN {"branch"} ELSE {})}
Seen(w) == {e \in Listed(w) : ~Internal(e.path) /\ \A list \in w.failed : e \notin ToSet(w[list])}
Excused(a, p) == \/ p \in a.excluded
                 \/ p \in a.world.manifest.paths /\ \A e \in ToSet(a.world.manifest.actual) : ~IsRename(e)

(* An audit that passes means that the claim, still held, has locked every *)
(* file that git lists as changed, under whatever spelling, both names of  *)
(* one that was moved, and all that is required; but for the merge that is *)
(* being recorded.  Nothing is refused for its spelling: locks on tracked  *)
(* files suffice if what is tracked has not changed since.                 *)
LockedIfPassed(a) == LET w == a.world
    names == UNION {{e.path, e.previous} : e \in Seen(w)} IN
  /\ CoveragePassed(w, a.required, a.excluded) =>
       /\ \A p \in names : Locked(w, p) \/ Excused(a, p)
       /\ \A p \in a.required : Locked(w, p)
       /\ \A e \in Seen(w) : ~IsRename(e)
  /\ /\ w.before = w.repo /\ Fresh(w, "main") /\ Mergeable(w, "main") /\ w.failed = {}
     /\ \A p \in names \cup a.required :
          Locked(w, p) /\ \E i \in DOMAIN w.repo.tracked : SameFile(w, w.repo.tracked[i], p)
     /\ \A e \in Seen(w) : ~IsRename(e)
     => CoveragePassed(w, a.required, a.excluded) /\ \A p \in a.required : RecoveryPassed(w, p, TRUE)
AuditMeansLocked == Asked("audit") => LockedIfPassed(asked)

AskAudit == AskSpelling \/ AskChanges
=============================================================================
