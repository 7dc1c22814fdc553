------------------------------- MODULE Gates --------------------------------
(***************************************************************************)
(* What a change has to pass: the pre-push check of work items, the check  *)
(* for a changeset, the merge gate of a pull request, and the validation   *)
(* of what is in the archive.                                              *)
(***************************************************************************)
EXTENDS Sequences, SequencesExt, FiniteSets, Naturals

(* The body of an item is a sequence of lines: the headings of its two     *)
(* checklists, also in capitals and with more behind them, another         *)
(* heading, checklist items, and what opens and closes a block of code.    *)
Checklists == {"tasks", "criteria"}
Capitals == [tasks |-> "TASKS", criteria |-> "CRITERIA"]
Longer == [tasks |-> "tasks later", criteria |-> "criteria later"]
Headings == {"tasks", "TASKS", "tasks later", "criteria", "CRITERIA", "criteria later", "other"}
Unticked == {"open", "open star"}

(* sectionBodies: what is in a block of code does not count, and a section*)
(* goes on up to the next heading.                                         *)
Counts(lines) == {i \in DOMAIN lines : lines[i] # "code"
                    /\ Cardinality({j \in 1..i : lines[j] = "code"}) % 2 = 0}
Starts(lines, list) == {i \in Counts(lines) : lines[i] \in {list, Capitals[list]}}
SectionBody(lines, start) == {lines[i] : i \in {j \in Counts(lines) : j > start
  /\ \A k \in Counts(lines) \cap ((start + 1)..j) : lines[k] \notin Headings}}

(* Mutant of ChecklistDone: of a list that is there twice the last counts. *)
ChecklistDoneAtLast(lines) == \A list \in Checklists :
  /\ Starts(lines, list) # {}
  /\ LET body == SectionBody(lines, Max(Starts(lines, list))) IN
     "ticked" \in body /\ body \cap Unticked = {}

(* checklistErrors: each list is there once, has items, and all are ticked.*)
ChecklistDone(lines) == \A list \in Checklists : \E start \in Starts(lines, list) :
  /\ Starts(lines, list) = {start}
  /\ SectionBody(lines, start) \cap ({"ticked"} \cup Unticked) # {}
  /\ SectionBody(lines, start) \cap Unticked = {}

(* extractUncheckedChecklistItemsFromSection, of work-management: the first*)
(* heading that begins so, in a block of code or not; an empty section     *)
(* goes on into the next one; items with a star are not seen.              *)
FirstSection(lines, list) == LET
    i == SelectInSeq(lines, LAMBDA l : l \in {list, Longer[list]})
    end == SelectInSubSeq(lines, i + 2, Len(lines), LAMBDA l : l \in Headings) IN
  IF i = 0 THEN <<>> ELSE SubSeq(lines, i + 1, IF end = 0 THEN Len(lines) ELSE end - 1)
NoUnchecked(lines) == \A list \in Checklists : "open" \notin ToSet(FirstSection(lines, list))

-----------------------------------------------------------------------------
(* isCompletedWorkItem.  Links are an object or a list; one that is no     *)
(* link makes its list worthless.                                          *)
Sound(item, links) == IF item.shape = "object" /\ "bad" \notin links THEN links ELSE {}
CompletedAsRequired(item) ==
  /\ item.status = "completed" /\ item.reason /\ item.date = "valid"
  /\ item.estimated # "bad" /\ (item.estimated = "number" => item.actual)
  /\ Sound(item, item.evidence) # {}

(* validatePullRequestWorkItems, over the items outside of the archive: a  *)
(* change is an area of the repository and what was done there.            *)
Documentation == {"docs", "backlog", "readme"}
LinkedTo(items, pull) ==
  {i \in DOMAIN items : items[i].life = "active" /\ pull \in Sound(items[i], items[i].prs)}
MergeGate(items, changes, pull) ==
  \/ {c.area : c \in changes} \subseteq Documentation
  \/ /\ \A i \in DOMAIN items : items[i].yaml
     /\ \E i \in LinkedTo(items, pull) : /\ LinkedTo(items, pull) = {i}
                                       /\ CompletedAsRequired(items[i])
                                       /\ ChecklistDone(items[i].body)

(* evaluateChangesetRequirement, validateChangesetFile and the rest of the *)
(* check; what was deleted does not count.                                 *)
Exempt == Documentation \cup {"github", "tests"}
AreasSeen(changes) == {c.area : c \in {d \in changes : d.how # "deleted"}}
ChangesetCheck(changes, present, generated, status) == LET
    seen == AreasSeen(changes)
    relevant == seen \ Exempt
    required == relevant # {} /\ ~(generated /\ relevant = {"package"}) IN
  /\ required => "changeset" \in seen /\ status
  /\ \A i \in DOMAIN present : present[i] = "good"

-----------------------------------------------------------------------------
(* A file of the consumer's has a section for the push, given directly or  *)
(* nested in another.  The environment may name another file for the push, *)
(* a command another one for the archive.                                  *)
SectionKeys == {"baseline", "changed", "archive", "checklist"}
NoSection == [given |-> FALSE, severity |-> [k \in SectionKeys |-> ""], schema |-> [k \in SectionKeys |-> ""]]
PushFile(config) == config.files[IF config.env.file = "" THEN "usual" ELSE config.env.file]
PushSection(config) == LET file == PushFile(config) IN
  IF file.state # "good" THEN NoSection
  ELSE IF file.direct.given THEN file.direct ELSE IF file.nested.given THEN file.nested ELSE NoSection

(* normalizeSeverity, loadConfig: the environment, the consumer's file,    *)
(* the default; the archive has one of its own.                            *)
NormalizeSeverity(raw, fallback) ==
  IF raw = "warning" THEN "warn" ELSE IF raw \in {"none", "info", "warn", "error"} THEN raw ELSE fallback
FirstGiven(values) == LET i == SelectInSeq(values, LAMBDA v : v # "") IN IF i = 0 THEN "" ELSE values[i]
PushSeverity(config, key) == NormalizeSeverity(
  FirstGiven(<<config.env.severity[key], PushSection(config).severity[key]>>),
  IF key = "archive" THEN "warn" ELSE "error")
PushSchema(config, key) ==
  FirstGiven(<<config.env.schema[key], PushSection(config).schema[key], "work-item">>)

(* validateWorkItem: the severities of its issues, of its schemas and of   *)
(* what it claims to have done.                                            *)
SchemaIssues(item, config) == {PushSeverity(config, key) :
  key \in {k \in (IF item.archived THEN {"archive"} ELSE {"baseline", "changed"}) :
             PushSchema(config, k) \notin item.valid}} \ {"none"}
DoneIssues(item, config) == LET
    severity == PushSeverity(config, IF item.archived THEN "archive" ELSE "checklist") IN
  IF /\ item.status \in {"ready-for-review", "completed", "closed"} => ChecklistDone(item.body)
     /\ item.status = "ready-for-review" => item.deps \subseteq {"closed"}
  THEN {} ELSE {severity} \ {"none"}

(* changedFilesForPush: only items that the push adds or changes, as far as*)
(* there is something to compare with.  A file that is no JSON ends all.   *)
PushedItems(items, base) == {i \in DOMAIN items : base /\ items[i].pushed}
PushCheck(items, config, base) == PushFile(config).state # "malformed" /\
  \A i \in PushedItems(items, base) :
    "error" \notin SchemaIssues(items[i], config) \cup DoneIssues(items[i], config)

-----------------------------------------------------------------------------
(* resolveOptions of the archive validation: it needs a file that says     *)
(* where the archive is.  Without a section of its own there it takes that *)
(* of the pre-push check, if it is given directly.                         *)
ArchiveFile(config) == config.files[config.archiveFile]
ArchiveReads(config) == ArchiveFile(config).state = "good" /\ ArchiveFile(config).roots
LegacySection(config) ==
  IF ArchiveFile(config).direct.given THEN ArchiveFile(config).direct ELSE NoSection
ArchiveOptions(config) == LET own == ArchiveFile(config).own  section == LegacySection(config) IN
  IF own.given THEN [schema |-> FirstGiven(<<own.schema, "work-item">>),
                     missing |-> NormalizeSeverity(own.missing, "warn"), allowed |-> own.allowed]
  ELSE [schema |-> FirstGiven(<<section.schema["archive"], "work-item">>),
        missing |-> NormalizeSeverity(section.severity["archive"], "warn"), allowed |-> {}]

(* validateArchiveWorkItems: an item is held against the schema it names.  *)
(* A schema on the network that is not allowed ends the validation.        *)
Remote == {"remote", "elsewhere"}
ArchiveFindings(item, options) == LET
    schema == FirstGiven(<<item.declared, options.schema>>) IN
  (IF item.declared = "" THEN {options.missing} \ {"none"} ELSE {})
    \cup (IF schema \in item.valid THEN {} ELSE {"error"})
ArchivePasses(items, config, failOn) == LET options == ArchiveOptions(config) IN
  ArchiveReads(config) /\ \A i \in DOMAIN items : items[i].archived =>
    /\ FirstGiven(<<items[i].declared, options.schema>>) \in Remote =>
         FirstGiven(<<items[i].declared, options.schema>>) \in options.allowed
    /\ ArchiveFindings(items[i], options)
         \cap (IF failOn = "warning" THEN {"warn", "error"} ELSE {"error"}) = {}
=============================================================================
