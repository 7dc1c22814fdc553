--------------------------- MODULE LintQuestions ----------------------------
(***************************************************************************)
(* Questions about the lint: an item at the base and now, one it depends   *)
(* on, and what the consumer's configuration says.                         *)
(***************************************************************************)
EXTENDS Question, FrontmatterLint

(* Every state of the default profile, one without a reason for each       *)
(* status, and one that is in no domain.                                   *)
ItemStates == Pairs \cup {<<s, Null>> : s \in WorkStatus} \cup {<<"ready", "validation-failed">>}
Proper == {"date", "note", "ticks", "pulls"}
LintedIds == [n \in {"1", "2", "3"} |->
  CASE n = "1" -> "wi-1" [] n = "2" -> "wi-2" [] OTHER -> "wi-3"]
LintedPath(place, n) == IF place = "flat" THEN <<n>> ELSE <<place, n>>
LintedItem(place, n, st, deps, default, kind) == [kind |-> kind, path |-> LintedPath(place, n),
  id |-> LintedIds[n], status |-> st[1], reason |-> st[2], deps |-> deps, has |-> Proper,
  default |-> default, wellFormed |-> TRUE]
Linted(place, n, st) == LintedItem(place, n, st, {}, TRUE, "work-item")
Codes1 == {"schema-validation", "transition-reason-churn", "completed-pr-link",
  "status-transition-invalid", "status-transition-state-invalid", "closed-missing-reason",
  "closed-missing-completed-date", "closed-missing-evidence-note", "closed-unchecked",
  "depends-on-not-found", "depends-on-completed-required", "depends-on-closed-required",
  "depends-on-in-progress-required"}
Severities == {[c \in Codes1 \cup {"semantic", "archive"} |->
    IF c = "archive" THEN a ELSE IF c = "semantic" THEN all ELSE IF c = named THEN one ELSE ""] :
  a \in {"", "none"}, all \in {"", "warn", "error"}, one \in {"", "info"},
  named \in {"transition-reason-churn", "status-transition-invalid"}}
AskLint == Unasked /\ \E was, is \in ItemStates, place \in {"active", "archive"}, severity \in Severities,
              strict \in BOOLEAN :
  Ask([kind |-> "lint", files |-> <<Linted(place, "1", is)>>,
       base |-> [p \in {<<place, "1">>} |-> Linted(place, "1", was)],
       changed |-> IF was = is THEN {} ELSE {<<place, "1">>},
       severity |-> severity, strict |-> strict])

(* A backlog that is linted as a whole: an item, what it depends on, and   *)
(* another file that a reference to that may lead to; a flat one is read   *)
(* before or after, as its name goes.                                      *)
States == {<<"completed", "completed">>, <<"aborted", "wontfix">>, <<"running", "review">>, <<"ready", "auto">>}
Referring == {{}} \cup {{r, q} : r, q \in {<<"active", "2">>, <<"2">>, <<"wi-2">>, <<"9">>}}
Places2 == {"active", "archive", "flat"}
Others2 == {<<>>} \cup {<<Linted(place, n, st)>> : place \in Places2, n \in {"2", "3"}, st \in States}
BacklogFiles(st, st2, deps, other, default, broken, first) == LET
    two == <<LintedItem("active", "1", st, deps, default, "work-item"),
             LintedItem("active", "2", st2, {}, TRUE, IF broken THEN "broken" ELSE "work-item")>> IN
  IF first THEN other \o two ELSE two \o other
PathsOf(files) == {f.path : f \in ToSet(files)}
AskBacklog == Unasked /\ \E st, st2 \in States, deps \in Referring, other \in Others2, default \in BOOLEAN,
                 broken \in BOOLEAN, first \in BOOLEAN, severity \in {x \in Severities : x["semantic"] = "warn"} :
  LET files == BacklogFiles(st, st2, deps, other, default, broken, first) IN
  /\ Cardinality(PathsOf(files)) = Len(files)
  /\ first => \E f \in ToSet(other) : IsFlat(f)
  /\ Ask([kind |-> "backlog", files |-> files, base |-> [p \in PathsOf(files) |-> Nowhere], changed |-> {},
          severity |-> severity, strict |-> FALSE])

-----------------------------------------------------------------------------
(* What is done when a change starts and is something else when it ends    *)
(* does not pass, however lenient the configuration, unless it exempts the *)
(* archive.                                                                *)
ReopeningFailsLint == Asked("lint") => LET
    f == asked.files[1] was == asked.base[f.path] IN
  <<was.status, was.reason>> \in Pairs /\ ~Skipped(f, asked.severity)
  /\ Vector(was.status, was.reason).category \in {"completed", "decision"}
  /\ <<f.status, f.reason>> # <<was.status, was.reason>> =>
       ~LintPasses(asked.files, {f.path}, asked.base, asked.changed, asked.strict, asked.severity)

(* A backlog passes as a whole only if every file that a completed item's  *)
(* dependency may mean is that of a terminal item, but for a file that is  *)
(* hidden by a flat one, which takes over the leaf of a file read before   *)
(* it: of these two the lint says nothing.                                 *)
Means(f, ref) == ByPath(f, ref) \/ ByLeaf(f, ref) \/ ByIdOf(f, ref)
Hidden(files, d, ref) == \E i, j \in DOMAIN files :
  i < j /\ files[i] = d /\ IsItem(files[j]) /\ IsFlat(files[j]) /\ Means(files[j], ref)
LintedMeansSettled == Asked("backlog") => LET q == asked IN
  LintPasses(q.files, DOMAIN q.base, q.base, q.changed, q.strict, q.severity) =>
    \A f \in ToSet(q.files) : f.status = "completed" /\ ~Skipped(f, q.severity) =>
      \A ref \in f.deps :
        /\ \E d \in ToSet(q.files) : Means(d, ref) /\ ~Hidden(q.files, d, ref)
        /\ \A d \in ToSet(q.files) : Means(d, ref) /\ ~Hidden(q.files, d, ref) => d.status \in Terminal

AskLinted == AskLint \/ AskBacklog
=============================================================================
