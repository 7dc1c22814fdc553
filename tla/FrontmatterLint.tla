-------------------------- MODULE FrontmatterLint ---------------------------
(***************************************************************************)
(* `frontmatter lint`: whether the files of the backlog may be merged.     *)
(* Besides its schema, a work item is judged by the items it depends on    *)
(* and by what it was at the base that git knows, at the same path.  A     *)
(* file has a path <<directory, leaf>>, or <<leaf>> if it is flat, right   *)
(* in the backlog; a reference is the path, the leaf or the id of an item. *)
(***************************************************************************)
EXTENDS WorkflowProfile, SequencesExt

Nowhere == [kind |-> "none"]
Terminal == {"completed", "aborted"}

-----------------------------------------------------------------------------
(* The map of all work items: the file that a reference leads to.  The     *)
(* files are read in order, and each takes its path, its leaf if nothing   *)
(* is there yet, and its id.  Only a file of a directory is told that its  *)
(* leaf is taken: the path of a flat file is its leaf, which it takes      *)
(* before it looks.                                                        *)
IsItem(f) == f.kind = "work-item"
IsFlat(f) == Len(f.path) = 1
LeafOf(f) == Last(f.path)
ByPath(f, ref) == ref = f.path
ByLeaf(f, ref) == ref = <<LeafOf(f)>>
ByIdOf(f, ref) == f.id # "" /\ ref = <<f.id>>
Meant(files, ref) == LET
    last == SelectLastInSeq(files, LAMBDA f : IsItem(f) /\ (ByPath(f, ref) \/ ByIdOf(f, ref)))
    leaf == SelectInSeq(files, LAMBDA f : IsItem(f) /\ ByLeaf(f, ref)) IN
  IF last # 0 THEN files[last] ELSE IF leaf # 0 THEN files[leaf] ELSE Nowhere
Taken(files, i, ref) == \E j \in 1..(i - 1) :
  IsItem(files[j]) /\ (ByLeaf(files[j], ref) \/ ByIdOf(files[j], ref))
(* Mutant of SameLeaf: the archive does not count.                         *)
SameLeafActive(files) == \E i \in DOMAIN files :
  /\ IsItem(files[i]) /\ ~IsFlat(files[i]) /\ files[i].path[1] # "archive"
  /\ Taken(files, i, <<LeafOf(files[i])>>)

SameLeaf(files) == \E i \in DOMAIN files :
  IsItem(files[i]) /\ ~IsFlat(files[i]) /\ Taken(files, i, <<LeafOf(files[i])>>)

-----------------------------------------------------------------------------
(* resolveStateVector throws at a reason that is not one of its status,    *)
(* not at one that is missing; the schema misses it in a terminal item.    *)
InDomain(f) == f.status \in WorkStatus /\ f.reason \in Reasons[f.status] \cup {Null}
SchemaFails(f) == ~f.wellFormed \/ (IsItem(f) /\
  (~InDomain(f) \/ (f.status \in Terminal /\ f.reason = Null)))

Diagnostic(code) ==
  [code |-> code, semantic |-> code = "transition-reason-churn",
   severity |-> IF code = "transition-reason-churn" THEN "warn" ELSE "error"]
Entering(f, base, statuses) == f.status \in statuses /\ base.status \notin statuses
InArchive(f) == ~IsFlat(f) /\ f.path[1] = "archive"
Was(base) == IF base = Nowhere THEN [kind |-> "none", status |-> Null, reason |-> Null] ELSE base

(* A change of state, of an item with the default schema, has to be one    *)
(* that the profile allows, in a single step.                              *)
TransitionCodes(f, base) ==
  IF base = Nowhere \/ ~f.default THEN {}
  ELSE IF ~InDomain(base) \/ ~InDomain(f) THEN {"status-transition-state-invalid"}
  ELSE IF Allowed(Vector(base.status, base.reason), Vector(f.status, f.reason)) THEN {}
  ELSE {"status-transition-invalid"}

(* What a terminal item has to show when it becomes so, and whenever it is *)
(* changed.                                                                *)
Enforced(f, base, changed) ==
  f.status \in Terminal /\ (Entering(f, base, Terminal) \/ f.path \in changed)
ClosureCodes(f, base, changed) ==
  IF ~Enforced(f, base, changed) THEN {}
  ELSE (IF f.reason = Null THEN {"closed-missing-reason"} ELSE {})
    \cup (IF "date" \in f.has THEN {} ELSE {"closed-missing-completed-date"})
    \cup (IF "note" \in f.has THEN {} ELSE {"closed-missing-evidence-note"})
UntickedCodes(f, base, changed) ==
  IF Enforced(f, base, changed) /\ f.status = "completed" /\ "ticks" \notin f.has
    THEN {"closed-unchecked"} ELSE {}

(* Dependencies, of the frontmatter and of the body alike: those of a      *)
(* completed item, and then those of any.                                  *)
CompletedCodes(files, f) ==
  IF f.status = "completed" /\ \E ref \in f.deps :
       Meant(files, ref) # Nowhere /\ Meant(files, ref).status \notin Terminal
    THEN {"depends-on-completed-required"} ELSE {}
DependencyCodes(files, f) == UNION {
  LET t == Meant(files, ref) IN
  IF t = Nowhere THEN {"depends-on-not-found"}
  ELSE (IF f.default /\ ~InArchive(f) /\ f.status \in Terminal /\ t.status \notin Terminal
            THEN {"depends-on-closed-required"} ELSE {})
    \cup (IF f.status = "running" /\ t.status \notin Terminal \cup {"running"}
            THEN {"depends-on-in-progress-required"} ELSE {}) : ref \in f.deps}

Codes(files, f, base, changed) ==
  (IF SchemaFails(f) THEN {"schema-validation"} ELSE {})
  \cup (IF f.kind # "work-item" THEN {} ELSE
    (IF base # Nowhere /\ f.status = base.status /\ f.reason # base.reason
       THEN {"transition-reason-churn"} ELSE {})
    \cup (IF Entering(f, Was(base), {"completed"}) /\ "pulls" \notin f.has
            THEN {"completed-pr-link"} ELSE {})
    \cup TransitionCodes(f, base) \cup ClosureCodes(f, Was(base), changed)
    \cup UntickedCodes(f, Was(base), changed)
    \cup CompletedCodes(files, f) \cup DependencyCodes(files, f))

-----------------------------------------------------------------------------
(* applyStrictSeverity: an error stays one.  The consumer may name a code, *)
(* or all that are semantic.                                               *)
Configured(d, severity) ==
  IF severity[d.code] # "" THEN severity[d.code]
  ELSE IF d.semantic THEN severity["semantic"] ELSE ""
(* Mutant of Severity: the consumer's word goes first.                     *)
SeverityConfigured(d, strict, severity) == LET c == Configured(d, severity) IN
  IF c # "" THEN c ELSE IF strict /\ d.semantic THEN "error" ELSE d.severity

Severity(d, strict, severity) == LET c == Configured(d, severity) IN
  IF d.severity = "error" THEN "error"
  ELSE IF strict /\ d.semantic /\ c \notin {"warn", "info"} THEN "error"
  ELSE IF c # "" THEN c ELSE d.severity

(* validateFrontmatter, of the files that are asked for.                   *)
Skipped(f, severity) == severity["archive"] = "none" /\ InArchive(f)
FileFails(files, f, base, changed, strict, severity) ==
  \/ f.kind = "broken"
  \/ \E c \in Codes(files, f, base, changed) : Severity(Diagnostic(c), strict, severity) = "error"
LintPasses(files, asked, base, changed, strict, severity) ==
  \/ asked = {}
  \/ /\ ~SameLeaf(files)
     /\ \A f \in ToSet(files) : f.path \in asked /\ ~Skipped(f, severity) =>
          ~FileFails(files, f, base[f.path], changed, strict, severity)
=============================================================================
