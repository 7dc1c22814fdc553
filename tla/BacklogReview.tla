--------------------------- MODULE BacklogReview ----------------------------
(***************************************************************************)
(* `backlog review`: the same kernel that ready and claim ask, over all    *)
(* work items of a checkout, with dependencies found in a third way, and   *)
(* findings that are reported by the id of their subject.                  *)
(***************************************************************************)
EXTENDS Readiness

(* readReviewDocuments; a subject without an id goes by its path.          *)
Reviewed(docs) == {i \in Selectable(docs) : docs[i].kind \in {"work-item", "malformed"}}
PathOf(doc) == <<doc.place, doc.file[2]>>
SubjectId(doc) == IF doc.kind = "malformed" \/ doc.id = Absent THEN PathOf(doc) ELSE doc.id

(* normalizeDependencyId of review.ts; toGovernanceDependency: the first   *)
(* document of any type that has the id, or the name.                      *)
ReviewId(l) == IF l.around # "code" /\ DependencyId(l.ref)[1] = "wi-" THEN DependencyId(l.ref) ELSE Stripped(l)
ReviewDependencies(docs, doc) ==
  {FirstOf(docs, {i \in Selectable(docs) : \/ docs[i].id \in {ReviewId(l), Bare(ReviewId(l))}
                                           \/ docs[i].file = Stripped(l)}) : l \in Depends(doc.links)}

(* buildGovernanceRecord.  A file that cannot be read is invalid and has   *)
(* nothing else; an item without an id has that of its path.  An item that *)
(* is done is taken to say why and since when.                             *)
Governed(doc) == [doc EXCEPT !.id = SubjectId(doc)]
ReviewReasons(docs, doc) ==
  IF doc.kind = "malformed"
    THEN [lifecycle |-> {"invalid"}, classification |-> {}, dependencies |-> {}, evidence |-> {}]
  ELSE [lifecycle |-> LifecycleReasons(Governed(doc)), classification |-> ClassificationReasons(doc),
        dependencies |-> DependencyReasons(ReviewDependencies(docs, doc)),
        evidence |-> EvidenceReasons(doc) \cap {"missing_evidence"}]
ReviewReady(docs, doc) == LET r == ReviewReasons(docs, doc) IN
  r.lifecycle \cup r.classification \cup r.dependencies = {}
ReviewRuntime(world, doc) ==
  Runtime(ReviewReady(world.docs[1], doc), LogIn(world, 1, SubjectId(doc)))

(* The five profiles that make up the review, and how heavy a finding is.  *)
ReviewFindings(world, doc) == LET r == ReviewReasons(world.docs[1], doc) IN
  UNION {{[check |-> check, code |-> code] : code \in r[check]} : check \in DOMAIN r}
  \cup (IF doc.kind = "malformed" \/ ReviewRuntime(world, doc).executionReady THEN {}
        ELSE {[check |-> "runtime", code |-> "execution_not_ready"]})
Blocking(finding) == finding.code \in {"invalid", "archived", "closed", "dependency_blocked",
  "dependency_state_unknown", "hitl", "missing_classification", "not_active", "not_ready"}

(* subjectCandidate.                                                       *)
ReviewCandidate(world, doc) == LET r == ReviewReasons(world.docs[1], doc) IN
  /\ doc.kind = "work-item" /\ ReviewReady(world.docs[1], doc)
  /\ "afk" \in doc.tags /\ "hitl" \notin doc.tags
  /\ r.dependencies = {} /\ r.evidence = {}
  /\ ReviewRuntime(world, doc).ready

(* summarizeReport, and runBacklogReview: the findings of a subject are    *)
(* those of all that have its id.                                          *)
ReviewReport(world) == LET docs == world.docs[1] items == Reviewed(docs) IN
  [candidates |-> {SubjectId(docs[i]) : i \in {k \in items : ReviewCandidate(world, docs[k])}},
   excluded |-> {SubjectId(docs[i]) : i \in {k \in items : ~ReviewCandidate(world, docs[k])}},
   findings |-> [id \in {SubjectId(docs[i]) : i \in items} |->
     UNION {ReviewFindings(world, docs[i]) : i \in {k \in items : SubjectId(docs[k]) = id}}]]
=============================================================================
