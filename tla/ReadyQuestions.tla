--------------------------- MODULE ReadyQuestions ---------------------------
(***************************************************************************)
(* Questions about readiness: task wi-1 in every state its gates look at,  *)
(* what it depends on, another checkout of the repository; and a task that *)
(* was interrupted, in every state of its checkout.                        *)
(***************************************************************************)
EXTENDS Question, RecoveryDecision, BacklogReview

CONSTANTS
  Oddities,    \* what may be odd about the files: "twins", "malformed"
  MaxDepends   \* dependencies written in the frontmatter
ASSUME DependsAssumption == MaxDepends \in Nat

May(oddity) == oddity \in Oddities
Item(n, place, status, lifecycle) ==
  [kind |-> "work-item", id |-> <<"wi-", n>>, file |-> <<"file", n>>, place |-> place,
   status |-> status, lifecycle |-> lifecycle, tags |-> {"afk"}, titled |-> TRUE,
   links |-> <<>>, rels |-> <<>>, subjects |-> <<>>]
Task == Item("1", "active", "ready", "active")
Dependency(ref, around) == [key |-> "depends_on", ref |-> ref, around |-> around]
Unadorned(refs) == {Dependency(r, "") : r \in refs}
NamedPlainly == Unadorned({<<"wi-", "2">>, <<"", "2">>, <<"file", "2">>, <<"wi-", "9">>})
References == NamedPlainly \cup Unadorned({<<"wi-slug", "2">>})
  \cup {Dependency(r, "tail") : r \in {<<"wi-", "2">>, <<"", "2">>, <<"file", "2">>}}
  \cup {Dependency(<<"wi-", "2">>, "code")}
DependencyLists == SeqOf(NamedPlainly, MaxDepends) \cup SeqOf(References, 1)
  \cup {<<r, Dependency(<<"wi-", "2">>, "")>> : r \in References}
States2 == {"ready", "completed", "closed", "aborted", ""}
Seconds2 == {Item("2", "active", s, "active") : s \in States2}
  \cup {Item("2", "active", "ready", "inactive")}
  \cup {Item("2", "archive", s, l) : s \in {"completed", "aborted"}, l \in {"active", "archived"}}
  \cup {Item("2", "audit", "completed", "active")}
Thirds == {<<>>, <<Item("3", "active", "ready", "active")>>}
  \cup (IF May("malformed") THEN {<<[Task EXCEPT !.kind = "malformed", !.id = Absent, !.status = ""]>>} ELSE {})
  \cup (IF May("twins") THEN {<<[Task EXCEPT !.file = <<"file", "3">>, !.status = s, !.place = p]>> :
                                s \in {"ready", "completed"}, p \in {"active", "archive"}} ELSE {})
World(docs) == [task |-> <<"wi-", "1">>, docs |-> <<docs, docs>>, log |-> <<NoLog, NoLog>>,
                claim |-> <<"none", "none">>, branch |-> <<"run", "main">>, trees |-> <<>>]

(* Its dependencies.                                                       *)
WithDependencies(refs, rels, second, third) ==
  World(<<[Task EXCEPT !.links = refs, !.rels = rels], second>> \o third)
AskDependencies == Unasked /\ \E refs \in DependencyLists, rels \in SeqOf(NamedPlainly, 1),
                       second \in Seconds2, third \in Thirds :
  Ask([kind |-> "ready", world |-> WithDependencies(refs, rels, second, third)])

(* Its own gates.                                                          *)
Logs == {[NoLog EXCEPT !.state = "completed", !.reason = "success"],
         [NoLog EXCEPT !.state = "completed", !.reason = "handoff", !.branch = <<"run", "b">>],
         [NoLog EXCEPT !.state = "halted", !.reason = "blocked"], NoLog}
Gated(task, log, claim) == [World(<<task>>) EXCEPT !.log = <<log, log>>, !.claim = <<claim, claim>>]
GatedIds == {<<"wi-", "1">>, Absent}
GatedStatuses == {"ready", "running", "blocked", "closed", "completed", ""}
GatedLives == {"active", "inactive", "archived", ""}
GatedTask(id, s, l, tags, titled) ==
  [Task EXCEPT !.id = id, !.status = s, !.lifecycle = l, !.tags = tags, !.titled = titled]
AskGates == Unasked /\ \E id \in GatedIds, s \in GatedStatuses, l \in GatedLives, tags \in SUBSET {"afk", "hitl"},
               titled \in BOOLEAN, log \in Logs, claim \in {"none", "active", "expired"} :
  Ask([kind |-> "ready", world |-> Gated(GatedTask(id, s, l, tags, titled), log, claim)])

(* Its other checkout, where the files and the log may be others.          *)
Files(status, second) ==
  <<[Task EXCEPT !.status = status, !.links = <<Dependency(<<"wi-", "2">>, "")>>],
    Item("2", "active", second, "active")>>
Elsewhere(here, there, logs, claim, trees) ==
  [World(here) EXCEPT !.docs[2] = there, !.log = logs, !.claim = <<"none", claim>>, !.trees = trees]
OtherTrees == {[root |-> 2, branch |-> <<"issue", "1">>], [root |-> 2, branch |-> <<"run", "b">>]}
AskCheckouts == Unasked /\ \E here, there \in {"ready", "completed"}, done, doneThere \in {"ready", "completed"},
                   lost \in BOOLEAN, log, logThere \in Logs, claim \in {"none", "active"},
                   trees \in SeqOf(OtherTrees, 2) :
  Ask([kind |-> "ready",
       world |-> Elsewhere(Files(here, done), IF lost THEN <<>> ELSE Files(there, doneThere),
                           <<log, logThere>>, claim, trees)])

(* An interrupted task, the branch its recovery expects, and its checkout.*)
Interrupted(s, tags, deps, log) == TaskView([Task EXCEPT !.status = s, !.tags = tags], deps, log)
InterruptedLogs(expected) ==
  {[state |-> state, reason |-> IF state = "completed" THEN "success" ELSE "started",
    branch |-> expected, claim |-> claim, locks |-> locks] :
     state \in {"running", "halted", "completed"}, claim \in {"active", "expired", "missing"},
     locks \in {0, 1}}
InterruptedTasks(expected) == UNION
  {{Interrupted(s, tags, {}, log) : tags \in {{"afk"}, {"afk", "hitl"}, {}}}
     \cup {Interrupted(s, {"afk"}, {d}, log) : d \in {Unknown, DependencyState(Task)}} :
   s \in {"ready", "running", "paused"}, log \in InterruptedLogs(expected)}
Branches == {Absent, <<"run", "b">>, <<"run", "c">>}
Interruptions(expected) == {git \in
  [branch : Branches, expectedBranch : {expected}, worktree : {"here"},
   expectedWorktree : {"", "here", "there"}, underway : {{}, {"merge-in-progress"}},
   dirty : SUBSET {"p", "internal"}] : git.underway # {} => git.dirty = {}}
AskRecovery == Unasked /\ \E expected \in Branches :
  \E task \in InterruptedTasks(expected), git \in Interruptions(expected), scope \in {AnyPath, {}, {"p"}} :
    Ask([kind |-> "recovery", scope |-> scope, task |-> task, git |-> git])

-----------------------------------------------------------------------------

(* The published selection keeps that promise, whoever has the same id,    *)
(* unless a dependency is archived (ready does not look at it), a file     *)
(* cannot be read (claim refuses everything), the task is judged in a      *)
(* checkout whose files are not those here, or a reference is one whose    *)
(* number claim does not see: something is written around it, or behind    *)
(* the number of an id.                                                    *)
OneView(world) ==
  /\ world.docs[2] = world.docs[1]
  /\ \A d \in ToSet(world.docs[1]) : d.kind # "malformed" /\ (d.place = "archive" => d.id = world.task)
SeenByClaim(l) == IF l.around = "tail" THEN l.ref[1] \in {"", "file"}
                  ELSE l.around = "" /\ l.ref[1] # "wi-slug"
AllSeen(doc) == \A l \in Depends(doc.links) : SeenByClaim(l)
WrittenForClaim(world) == \A d \in ToSet(world.docs[1]) : d.id = world.task => AllSeen(d)
SelectedIsClaimable == Asked("ready") /\ OneView(asked.world) /\ WrittenForClaim(asked.world) =>
  (Selection(asked.world, asked.world.task) = "selected" => Claimable(asked.world, asked.world.task))

(* Nothing in a plain world tells ready, claim and the review apart.       *)
PlainWorld(world) == OneView(world) /\ Authority(world, world.task) = 1
  /\ \A i, j \in DOMAIN world.docs[1] : LET docs == world.docs[1] IN
       /\ docs[i].place = "active" /\ docs[i].id # Absent /\ docs[i].rels = <<>>
       /\ docs[i].id = docs[j].id => i = j
Explained(w, report) ==
  /\ \A id \in report.candidates : \/ id \in report.excluded
       \/ \A f \in report.findings[id] : ~Blocking(f) /\ f.code # "execution_not_ready"
  /\ \A i \in Reviewed(w.docs[1]) : \A d \in {w.docs[1][i]} : \A j \in {Judged(w, d)} :
       /\ j.doc.kind = "work-item" /\ j.doc.titled /\ j.doc.id # Absent =>
            (Candidate(j) <=> Findings(j.doc, j.deps, j.log, j.claim) = {})
       /\ PlainWorld(w) =>
            /\ d.id \in report.candidates /\ AllSeen(d) => Claimable(w, d.id)
            /\ Candidate(j) /\ (\A l \in Depends(d.links) : l.around # "code")
                 => d.id \in report.candidates
            /\ d.id \in report.candidates /\ j.claim = "none" /\ d.titled
                 /\ (\A r \in Refs(d.links) : r[1] \notin {"", "wi-slug"}) => Candidate(j)

(* A titled item is offered exactly if there is no finding against it: who *)
(* decides by the findings decides the same.  So it is with the review,    *)
(* which offers what ready does, but for a claim, a missing title, and a   *)
(* reference that is a number, has something behind its number, or is in   *)
(* code; and which offers only what can be claimed if claim sees what its  *)
(* references mean; unless an item has no id, two have one, or another     *)
(* checkout or the archive decides.                                        *)
FindingsExplain == Asked("ready") => Explained(asked.world, ReviewReport(asked.world))

(* A ready task that the status report calls recoverable is recovered      *)
(* without force and no other is; one that it says needs force is refused  *)
(* without, and goes on with it unless a path is dirty that the halt did   *)
(* not know of.                                                            *)
RecoveredAsReported(task, git, scope) == LET
    state == RecoveryState(task, git)
    plain == RecoveryAnswer(task, git, FALSE, scope)
    forced == RecoveryAnswer(task, git, TRUE, scope) IN
  /\ state = "recoverable" <=> plain = "goes on"
  /\ state = "force-required" <=> plain = "TASK_RECOVERY_FORCE_REQUIRED"
  /\ state = "force-required" => forced \in {"goes on", "TASK_RECOVERY_UNRELATED_DIRTY_PATHS"}
RecoverableMeansRecovers == Asked("recovery") /\ asked.task.status = "ready" =>
  RecoveredAsReported(asked.task, asked.git, asked.scope)

AskAboutReadiness == AskDependencies \/ AskGates \/ AskCheckouts \/ AskRecovery
ReadySpec == Init /\ [][AskDependencies]_asked
=============================================================================
