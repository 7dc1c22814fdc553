--------------------------- MODULE GateQuestions ----------------------------
(***************************************************************************)
(* Questions about the gates of a change: an item with every body that is  *)
(* two lines away from a finished one, with every frontmatter; and a       *)
(* change of files and items under any configuration.                      *)
(***************************************************************************)
EXTENDS Question, Gates, BacklogScan

Finished == [status |-> "completed", life |-> "active", reason |-> TRUE, date |-> "valid",
  estimated |-> "number", actual |-> TRUE, shape |-> "object", evidence |-> {"record"},
  prs |-> {"pr"}, body |-> <<"tasks", "ticked", "criteria", "ticked">>, yaml |-> TRUE,
  archived |-> FALSE, valid |-> {"work-item"}, declared |-> "", deps |-> {}, pushed |-> TRUE]

(* Bodies.                                                                 *)
Lines == Headings \cup Unticked \cup {"ticked", "code"}
LongerBy(bodies) == {InsertAt(b, i, l) : b \in bodies, i \in 1..5, l \in Lines}
WithChange(body) == {ReplaceAt(body, i, l) : i \in DOMAIN body, l \in Lines}
Bodies == (UNION {WithChange(b) : b \in LongerBy({Finished.body})}) \cup LongerBy(LongerBy({Finished.body}))
WithBody(b) == [Finished EXCEPT !.body = b]
AskBody == Unasked /\ \E b \in Bodies : Ask([kind |-> "gate", items |-> <<WithBody(b)>>])

(* Frontmatter.                                                            *)
Fronted(s, l, reason, actual, date, est, shape, ev, prs) ==
  [Finished EXCEPT !.status = s, !.life = l, !.reason = reason, !.actual = actual,
    !.date = date, !.estimated = est, !.shape = shape, !.evidence = ev, !.prs = prs]
AskFrontmatter == Unasked /\ \E s \in {"running", "completed"}, l \in {"active", "inactive"},
    reason, actual \in BOOLEAN, date \in {"", "bad", "valid"}, est \in {"", "bad", "number"},
    shape \in {"object", "list"}, ev \in SUBSET {"record", "bad"}, prs \in SUBSET {"pr", "pr2", "bad"},
    second \in {<<>>, <<Finished>>} :
  Ask([kind |-> "gate", items |-> <<Fronted(s, l, reason, actual, date, est, shape, ev, prs)>> \o second])

(* An item under a configuration: what the push and the archive go by is   *)
(* in one section, in a nested one, in a file of the environment's, in two *)
(* places, or in none that can be read.                                    *)
Unset == [k \in SectionKeys |-> ""]
Section(a, c, schema) == [given |-> TRUE, severity |-> [Unset EXCEPT !["archive"] = a, !["changed"] = c],
                          schema |-> [Unset EXCEPT !["archive"] = schema]]
Strictly == Section("error", "error", "strict")
Consumer(state, roots, direct, nested, own) == [state |-> state, roots |-> roots, direct |-> direct,
  nested |-> nested, own |-> [given |-> own, schema |-> "", missing |-> "none", allowed |-> {"remote"}]]
Wheres == {"direct", "nested", "both", "elsewhere", "apart", "missing", "rootless", "malformed"}
UsualFile(where, section, own) ==
  CASE where = "nested" -> Consumer("good", TRUE, NoSection, section, own)
    [] where = "both" -> Consumer("good", TRUE, section, Strictly, own)
    [] where = "elsewhere" -> Consumer("good", TRUE, Strictly, NoSection, own)
    [] where = "rootless" -> Consumer("good", FALSE, section, NoSection, own)
    [] where \in {"missing", "malformed"} -> Consumer(where, FALSE, NoSection, NoSection, FALSE)
    [] OTHER -> Consumer("good", TRUE, section, NoSection, own)
Config(e, where, section, own) ==
  [env |-> [severity |-> [Unset EXCEPT !["archive"] = e], schema |-> Unset,
            file |-> IF where = "elsewhere" THEN "other" ELSE ""],
   files |-> [usual |-> UsualFile(where, section, own), other |-> Consumer("good", TRUE, section, NoSection, own)],
   archiveFile |-> IF where = "apart" THEN "other" ELSE "usual"]
Declaring(d, v, b, s) == [Finished EXCEPT !.declared = d, !.valid = v, !.body = b, !.status = s]
AskLife == Unasked /\ \E e \in {"", "info", "error"}, a \in {"", "none", "warning", "error", "fatal"},
    c \in {"", "fatal", "warn"}, schema \in {"", "strict"}, own \in BOOLEAN, failOn \in {"warning", "error"},
    d \in {"", "work-item", "remote", "elsewhere"}, v \in SUBSET {"work-item", "strict", "remote"},
    b \in {Finished.body, <<"tasks">>}, s \in {"completed", "ready-for-review"}, where \in Wheres :
  /\ where # "direct" => c = "" /\ b = Finished.body
  /\ Ask([kind |-> "life", config |-> Config(e, where, Section(a, c, schema), own), failOn |-> failOn,
          items |-> <<Declaring(d, v, b, s)>>])

(* A change that merges without an item needs no changeset either.         *)
Areas == {"docs", "backlog", "readme", "github", "tests", "source", "package", "changeset"}
ASSUME DocumentationNeedsNothing == \A C \in SUBSET (Areas \X {"deleted", "changed"}) : LET
    changes == {[area |-> c[1], how |-> c[2]] : c \in C} IN
  MergeGate(<<>>, changes, "pr") => ChangesetCheck(changes, <<>>, FALSE, FALSE)

-----------------------------------------------------------------------------
(* What the merge gate lets through the scan archives, as soon as all its  *)
(* pull requests are merged, if it has an estimate, a closing note, and a  *)
(* body whose two checklists are found by both: the gate asks for no       *)
(* actual effort otherwise, and the two read a body in different ways.     *)
AsScanned(item) == [kind |-> "file", item |-> TRUE, id |-> <<"plain", 1>>, status |-> item.status,
  life |-> item.life, shape |-> item.shape, prs |-> item.prs, evidence |-> SetToSeq(item.evidence),
  has |-> {"note"} \cup (IF NoUnchecked(item.body) THEN {"ticked"} ELSE {})
    \cup (IF item.actual THEN {"actual"} ELSE {}) \cup (IF item.reason THEN {"reason"} ELSE {})
    \cup (IF item.date # "" THEN {"date"} ELSE {})]
BothRead(lines) == ToSet(lines) \cap {"code", "tasks later", "criteria later"} = {}
MergedIsArchivable == Asked("gate") /\ MergeGate(asked.items, {[area |-> "source", how |-> "changed"]}, "pr") =>
  \E i \in DOMAIN asked.items : LET item == asked.items[i] d == AsScanned(item) IN
    /\ "pr" \in item.prs
    /\ item.estimated = "number" /\ BothRead(item.body) =>
         Issues(d) = {} /\ Finalizable(d, [known |-> TRUE, merged |-> item.prs, covered |-> TRUE])

(* What was pushed without an error and merged the validation of the       *)
(* archive accepts, if it can be made at all, and the item names no schema *)
(* but the one that both use and need not name one.  Where the validation  *)
(* goes by the same section as the push, what it accepts of items that     *)
(* name no other schema the push accepts, and what the push refuses it     *)
(* refuses, as long as nobody sets another schema for the push in the      *)
(* environment.                                                            *)
Archived(item) == [item EXCEPT !.archived = TRUE, !.life = "inactive"]
Accepted(item, config, failOn) == ArchivePasses(<<Archived(item)>>, config, failOn)
ArchivedStaysAccepted == Asked("life") => LET
    config == asked.config item == asked.items[1] options == ArchiveOptions(config) IN
  /\ PushCheck(asked.items, config, TRUE)
       /\ MergeGate(asked.items, {[area |-> "source", how |-> "changed"]}, "pr")
       /\ ArchiveReads(config) /\ options.schema = "work-item" /\ item.declared \in {"", "work-item"}
       /\ (item.declared = "" => options.missing # "error"
             /\ (options.missing = "warn" => asked.failOn = "error"))
     => Accepted(item, config, asked.failOn)
  /\ ArchiveReads(config) /\ ~ArchiveFile(config).own.given
       /\ PushSection(config) = LegacySection(config) /\ item.declared \in {"", PushSchema(config, "archive")}
       /\ config.env.schema["archive"] = ""
     => /\ Accepted(item, config, "error") => SchemaIssues(Archived(item), config) = {}
        /\ "error" \in SchemaIssues(Archived(item), config) => ~Accepted(item, config, "error")

(* Nothing that a gate has let through is refused further on.              *)
MergedStaysAccepted == MergedIsArchivable /\ ArchivedStaysAccepted

AskGate == AskBody \/ AskFrontmatter \/ AskLife
=============================================================================
