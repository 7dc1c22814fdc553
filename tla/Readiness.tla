----------------------------- MODULE Readiness ------------------------------
(***************************************************************************)
(* Which work item is offered by `work ready` and which one `work claim`   *)
(* accepts.  Both judge the same files and log by the same governance      *)
(* kernel, but find the dependencies each in its own way.  A document has, *)
(* besides what the graph reads of it, a place, a status and a lifecycle   *)
(* ("" if missing), tags, and perhaps a title; a name that starts with     *)
(* number n is <<"file", n>>, a bare number is <<"", n>>, an id with       *)
(* something behind its number <<"wi-slug", n>>.  A link has the reference *)
(* as the graph and ready read it, and what is written around it: nothing, *)
(* a label or a section behind it ("tail"), or the marks of "code".        *)
(***************************************************************************)
EXTENDS WorkGraph

(* The latest execution log entry of a task, with the claim it belongs to. *)
NoLog == [state |-> "none", reason |-> "", branch |-> Absent, claim |-> "missing", locks |-> 0]
ReadyPermitting(log) == log.state = "completed" /\ log.reason = "success"
(* composeTaskRuntimeReadiness.                                            *)
Runtime(markdownReady, log) ==
  LET ready == log = NoLog \/ ReadyPermitting(log) IN
  [log |-> log, markdownReady |-> markdownReady, executionReady |-> ready,
   ready |-> markdownReady /\ ready,
   sourceDisagreement |-> log # NoLog /\ markdownReady # ready]

-----------------------------------------------------------------------------
(* evaluateWorkItemGovernance: a dependency is known or not, satisfied or  *)
(* not.                                                                    *)
Holding(table) == {r \in DOMAIN table : table[r]}
Unknown == [known |-> FALSE, satisfied |-> FALSE]
DependencyState(doc) ==
  [known |-> doc.status # "",
   satisfied |-> doc.status \in {"completed", "closed"} \/ doc.lifecycle = "inactive"]
DependencyReasons(deps) == Holding(
  [dependency_state_unknown |-> \E d \in deps : ~d.known,
   dependency_blocked |-> \E d \in deps : d.known /\ ~d.satisfied])
LifecycleReasons(doc) == Holding(
  [invalid |-> doc.id = Absent \/ doc.status = "" \/ doc.lifecycle = "",
   archived |-> doc.place = "archive" \/ doc.lifecycle = "archived",
   closed |-> doc.status = "closed" \/ doc.lifecycle = "inactive",
   blocked |-> doc.status = "blocked",
   dependency_blocked |-> doc.status = "dependency-blocked",
   not_ready |-> doc.status # "ready",
   not_active |-> doc.lifecycle # "active"])
ClassificationReasons(doc) == Holding(
  [hitl |-> "hitl" \in doc.tags, missing_classification |-> doc.tags \cap {"hitl", "afk"} = {}])
GovernanceReasons(doc, deps) ==
  LifecycleReasons(doc) \cup ClassificationReasons(doc) \cup DependencyReasons(deps)
(* evidenceSummary, as ready asks it: without the status reason and the    *)
(* date of completion.                                                     *)
EvidenceReasons(doc) ==
  IF doc.status \notin {"completed", "aborted"} THEN {}
  ELSE {"missing_status_reason", "missing_completed_date"} \cup
       (IF \E l \in ToSet(doc.links) : l.key = "evidence" THEN {} ELSE {"missing_evidence"})

(* What ready and claim hand to evaluateTaskClaimability, and its failures.*)
TaskView(doc, deps, log) ==
  [status |-> doc.status, active |-> doc.lifecycle = "active",
   afk |-> "afk" \in doc.tags /\ "hitl" \notin doc.tags, hitl |-> "hitl" \in doc.tags,
   satisfied |-> DependencyReasons(deps) = {},
   runtime |-> Runtime(GovernanceReasons(doc, deps) = {}, log)]
ClaimabilityFailures(task) == Holding(
  [not_active |-> ~task.active, not_ready |-> task.status # "ready",
   missing_classification |-> ~task.afk, hitl |-> task.hitl,
   dependency_blocked |-> ~task.satisfied,
   execution_not_ready |-> ~task.runtime.executionReady])

-----------------------------------------------------------------------------
(* normalizeDependencyId of ready.ts.                                      *)
DependencyId(ref) == IF ref[1] \in {"wi-", "wi-slug", "", "file"} THEN <<"wi-", ref[2]>> ELSE ref
Bare(ref) == IF ref[1] \in {"wi-", "file"} THEN <<"", ref[2]>> ELSE ref
FirstOf(docs, found) == IF found = {} THEN Unknown ELSE DependencyState(docs[Min(found)])

(* readReadyDocuments, by their indices; documentReferenceAliases,         *)
(* referenceTokens.                                                        *)
Selectable(docs) == {i \in DOMAIN docs : docs[i].place \notin {"audit", "records"}}
WithId(docs, id) == {i \in Selectable(docs) : docs[i].id = id}
ReadyAliases(doc) == {doc.file, Bare(doc.file)} \cup
  (IF doc.id = Absent THEN {} ELSE {doc.id, Bare(doc.id)})
Tokens(ref) == {ref, DependencyId(ref), Bare(DependencyId(ref))}
Depends(pairs) == {p \in ToSet(pairs) : p.key = "depends_on"}
Refs(pairs) == {p.ref : p \in Depends(pairs)}

(* toDependency of ready.ts: without the graph.                            *)
FileDependencies(docs, doc) ==
  {FirstOf(docs, {i \in Selectable(docs) : Tokens(r) \cap ReadyAliases(docs[i]) # {}}) :
     r \in Refs(doc.links)}

(* buildReadyGraphContext: documentsById, the document that made a node,   *)
(* the nodes left out, and the nodes that a task id is looked up in.  What *)
(* is in the audit folder is not read: it has neither a node nor a name.   *)
ById(docs, id) == docs[Max(WithId(docs, id))]
MakerOf(docs, n) == docs[Min({i \in DOMAIN docs : Class(docs[i]) = "projectable" /\ NodeId(docs[i]) = n})]
LeftOut(docs, n) == MakerOf(docs, n).place \in {"archive", "audit", "records"}
GraphDocuments(docs) == [i \in DOMAIN docs |->
  IF docs[i].place = "audit" THEN [docs[i] EXCEPT !.id = Absent] ELSE docs[i]]
Looked(docs, g, id) == {n \in ToSet(g.nodes) :
  n[1] = "work-item" /\ MakerOf(docs, n).id = id /\ ~LeftOut(docs, n)}

(* buildGraphReadyDependencies: the items the graph leads to; what was     *)
(* written but leads to none of them is unknown; what leads to an archived *)
(* item is passed over.                                                    *)
(* Mutant of GraphDependencies: a reference that leads nowhere is skipped. *)
GraphDependenciesKnown(docs, g, n, doc) == LET
    ends == {e.to : e \in {f \in ToSet(g.edges) : f.from = n /\ f.type = "depends_on"}}
    items == {m \in ends : m[1] = "work-item" /\ ~LeftOut(docs, m)} IN
  {DependencyState(ById(docs, MakerOf(docs, m).id)) : m \in items}

GraphDependencies(docs, g, n, doc) == LET
    ends == {e.to : e \in {f \in ToSet(g.edges) : f.from = n /\ f.type = "depends_on"}}
    items == {m \in ends : m[1] = "work-item"}
    maker(m) == MakerOf(docs, m)
    known == {m \in items : ~LeftOut(docs, m)}
    tokens(m) == Tokens(maker(m).id) \cup (IF LeftOut(docs, m) THEN {maker(m).file} ELSE {}) \cup
      UNION {ReadyAliases(docs[i]) : i \in WithId(docs, maker(m).id)}
    lost == {r \in Refs(doc.links) \cup Refs(doc.rels) :
               \A m \in items : Tokens(r) \cap tokens(m) = {}} IN
  {DependencyState(ById(docs, maker(m).id)) : m \in known}
    \cup {Unknown : r \in lost}

(* dependenciesByTaskId: of two documents with the id, the last one's.     *)
Dependencies(docs, doc, there) ==
  LET all == GraphDocuments(docs) g == Project(all, <<>>, <<>>) IN
  IF Looked(all, g, doc.id) = {} THEN FileDependencies(there, doc)
  ELSE GraphDependencies(all, g, CHOOSE n \in Looked(all, g, doc.id) : TRUE,
                         ById(docs, doc.id))

-----------------------------------------------------------------------------
(* appendClaimabilityGovernanceReasons: a failure is a reason of its own   *)
(* unless one of these is given already.                                   *)
SaidBy == [not_active |-> {"not_active", "closed", "archived"}, not_ready |-> {"not_ready"},
           missing_classification |-> {"missing_classification", "hitl"}, hitl |-> {"hitl"},
           dependency_blocked |-> {"dependency_blocked", "dependency_state_unknown"},
           execution_not_ready |-> {}]

(* evaluateDocument: why a document is not offered; claim is the state of  *)
(* its runtime claim.                                                      *)
(* Mutant of Exclusions: an expired claim is no obstacle.                  *)
ExclusionsUnlessHeld(doc, deps, log, claim) == LET said == GovernanceReasons(doc, deps) IN
  IF doc.kind = "malformed" THEN {"validation_state_unknown"}
  ELSE said \cup {f \in ClaimabilityFailures(TaskView(doc, deps, log)) : SaidBy[f] \cap said = {}}
       \cup Holding([task_claim_active |-> claim = "active", invalid |-> ~doc.titled])

Exclusions(doc, deps, log, claim) == LET said == GovernanceReasons(doc, deps) IN
  IF doc.kind = "malformed" THEN {"validation_state_unknown"}
  ELSE said \cup {f \in ClaimabilityFailures(TaskView(doc, deps, log)) : SaidBy[f] \cap said = {}}
       \cup Holding([task_claim_active |-> claim = "active",
                    task_claim_expired |-> claim = "expired", invalid |-> ~doc.titled])

(* projectDerivedReadinessFindings, by the code of the finding's reason.   *)
Findings(doc, deps, log, claim) ==
  GovernanceReasons(doc, deps) \cup EvidenceReasons(doc) \cup Holding(
    [runtime_claim_active |-> claim = "active", runtime_claim_expired |-> claim = "expired",
     runtime_execution_not_ready |-> log # NoLog /\ ~ReadyPermitting(log)])

(* resolveTaskAuthority: the checkout a task is judged in.  A world has    *)
(* the documents of checkout 1, where the command runs, and of checkout 2, *)
(* the log and claim of its task in each, and the branches checked out.    *)
LogIn(world, root, id) == IF id = world.task THEN world.log[root] ELSE NoLog
ClaimIn(world, root, id) == IF id = world.task THEN world.claim[root] ELSE "none"
Issue(id) == IF id[1] \in {"wi-", ""} THEN <<"issue", id[2]>> ELSE Absent
SingleTrees(world, branch) == {i \in DOMAIN world.trees :
  /\ world.trees[i].branch = branch
  /\ \A j \in DOMAIN world.trees : world.trees[j].branch = branch => j = i}
Authority(world, id) == LET
    wanted == <<LogIn(world, 1, id).branch, Issue(id)>>
    found == {k \in {1, 2} : wanted[k] # Absent /\ SingleTrees(world, wanted[k]) # {}} IN
  IF world.branch \in {wanted[1], wanted[2]} \ {Absent} \/ found = {} THEN 1
  ELSE world.trees[CHOOSE i \in SingleTrees(world, wanted[Min(found)]) : TRUE].root

(* evaluateDocumentWithAuthority: what evaluateDocument is called with.    *)
(* Judged in another checkout, a task keeps the dependencies found here.   *)
Judged(world, doc) == LET
    here == world.docs[1]
    root == IF doc.id = Absent THEN 1 ELSE Authority(world, doc.id)
    there == world.docs[root]
    found == WithId(there, doc.id) IN
  IF doc.id = Absent \/ (root # 1 /\ found = {})
  THEN [doc |-> doc, deps |-> FileDependencies(here, doc),
        log |-> IF doc.id = Absent THEN NoLog ELSE LogIn(world, 1, doc.id), claim |-> "none"]
  ELSE LET d == IF root = 1 THEN doc ELSE there[Min(found)] IN
       [doc |-> d,
        deps |-> IF root = 1 THEN Dependencies(here, doc, here)
                 ELSE Dependencies(here, d, there),
        log |-> LogIn(world, root, doc.id), claim |-> ClaimIn(world, root, doc.id)]

(* selectReadyTasks: the candidates, by their ids.                         *)
Candidate(j) == j.doc.kind = "work-item" /\ Exclusions(j.doc, j.deps, j.log, j.claim) = {}
Candidates(world) == LET docs == world.docs[1] IN
  {docs[i].id : i \in {k \in Selectable(docs) : Candidate(Judged(world, docs[k]))}}

(* selectPublishedWork.                                                    *)
Selection(world, id) == LET docs == world.docs[1]
    named == {i \in WithId(docs, id) : Judged(world, docs[i]).doc.kind = "work-item"} IN
  CASE \E i, j \in named : i # j -> "AMBIGUOUS"
    [] named = {} -> "NOT_FOUND"
    [] OTHER -> IF id \in Candidates(world) THEN "selected" ELSE "NOT_READY"

-----------------------------------------------------------------------------
(* stripWikiLink of model.ts and of review.ts leave what is written around *)
(* a reference; normalizeDependencyId of model.ts finds a number only if   *)
(* the reference starts with it.                                           *)
Stripped(l) == IF l.around = "" THEN l.ref ELSE <<l.around, l.ref[2]>>
ModelId(l) == IF l.ref[1] \in {"", "file"} /\ l.around # "code" THEN <<"wi-", l.ref[2]>> ELSE Stripped(l)

(* loadTaskModel: readTaskDocuments, matchesTaskIdentifier, toDependency   *)
(* of model.ts, assertValidTaskDocument.                                   *)
Tasks(docs) == {i \in Selectable(docs) : docs[i].kind = "work-item"}
Identifies(doc, ref) == ref \in {doc.id, doc.file} \/ (ref[1] = "" /\ ref \in ReadyAliases(doc))
ModelDependencies(docs, doc) ==
  {FirstOf(docs, {i \in Tasks(docs) : \/ docs[i].id # Absent /\ Bare(docs[i].id) = Bare(ModelId(l))
                                      \/ docs[i].file = Stripped(l)}) : l \in Depends(doc.links)}
Load(docs, ref) == LET found == {i \in Tasks(docs) : Identifies(docs[i], ref)} task == docs[Min(found)] IN
  IF \E i \in Selectable(docs) : docs[i].kind = "malformed" THEN [outcome |-> "YAML error"]
  ELSE IF found = {} THEN [outcome |-> "TASK_NOT_FOUND"]
  ELSE IF \E i, j \in found : i # j THEN [outcome |-> "TASK_AMBIGUOUS"]
  ELSE IF task.id = Absent THEN [outcome |-> "TASK_INVALID"]
  ELSE IF task.place = "archive" THEN [outcome |-> "TASK_ARCHIVED"]
  ELSE [outcome |-> "loaded", doc |-> task, deps |-> ModelDependencies(docs, task)]

(* The work claim command up to the acquisition, for a task it does not    *)
(* recover first: the task is loaded here, then in its own checkout.       *)
Claimable(world, ref) == LET first == Load(world.docs[1], ref) IN
  /\ first.outcome = "loaded"
  /\ LET root == Authority(world, first.doc.id) task == Load(world.docs[root], ref) IN
     /\ task.outcome = "loaded"
     /\ ClaimabilityFailures(TaskView(task.doc, task.deps, LogIn(world, root, task.doc.id))) = {}
=============================================================================
