---------------------------- MODULE BacklogAudit ----------------------------
(***************************************************************************)
(* `backlog audit`, which reads a backlog and reports what is wrong with   *)
(* it, and the lookup of a task by its id that show, prompt and the task   *)
(* commands start with.  Both walk the same directory, each in its way.    *)
(*                                                                         *)
(* A file has the directories it is below, a name, and what its header     *)
(* says.  A name and an id are a front and a back: "1-a" is <<"1", "-a">>, *)
(* "wi-1" is <<"wi-", "1">>, and an id <<"", "1">> is a number to YAML.    *)
(* The files are a sequence, in the order in which they are read.          *)
(***************************************************************************)
EXTENDS SequencesExt

Digits == {"1", "2"}
Unidentified == <<"none", "">>
Under(f, dir) == dir \in ToSet(f.dir)

(* findMarkdownFiles: an archive is one at any depth.                      *)
Markdown(files, archive) ==
  {f \in ToSet(files) : ~Under(f, "audit") /\ (archive \/ ~Under(f, "archive"))}

(* Links are resolved in the archive too, whatever is audited.             *)
Resolvable(files) == Markdown(files, TRUE)

(* A link leads to the last file of its name; with a path to a file there. *)
Leading(files, ref) == SelectLastInSeq(files,
  LAMBDA f : f \in Resolvable(files) /\ ref.dir = <<>> /\ f.name = ref.name)
Resolved(files, ref) ==
  Leading(files, ref) # 0 \/ \E f \in ToSet(files) : f.dir = ref.dir /\ f.name = ref.name
Inbound(files, options, f) == {g \in Markdown(files, options.archive) : \E ref \in g.links :
  LET i == Leading(files, ref) IN i # 0 /\ files[i] = f}

(* The findings that are errors, and those that are warnings.  A file that *)
(* cannot be parsed has no links, no id and no type; a schema that cannot  *)
(* be loaded is a warning.                                                 *)
AuditErrors(files, options) == {f \in Markdown(files, options.archive) :
  \/ f.broken
  \/ \E ref \in f.links : ~Resolved(files, ref)
  \/ f.type # "untyped" /\ f.schema = "violates"}
AuditWarnings(files, options) == {f \in Markdown(files, options.archive) :
  \/ f.id # Unidentified /\ \E g \in Markdown(files, options.archive) : g # f /\ g.id = f.id
  \/ f.status \in {"open", "proposed", "ready", "accepted", "inprogress", "in-progress", "review",
                   "approved", "ready-for-review", "draft"} /\ Inbound(files, options, f) = {}
  \/ f.type # "untyped" /\ f.schema = "lost"}
AuditPasses(files, options) == AuditErrors(files, options) = {}
  /\ (options.failOn = "warning" => AuditWarnings(files, options) = {})

-----------------------------------------------------------------------------
(* normalize and numericToken.                                             *)
LowerCase(id) == IF id[1] = "WI-" THEN <<"wi-", id[2]>> ELSE id
NumericToken(id) ==
  IF LowerCase(id)[1] \in {"", "wi-"} /\ id[2] \in Digits THEN {<<"", id[2]>>} ELSE {}
IdTokens(id) == {LowerCase(id)} \cup NumericToken(id)

(* candidateTokens: an id that is a number is none.                        *)
TextId(f) == IF f.id = Unidentified \/ (f.id[1] = "" /\ f.id[2] \in Digits) THEN {} ELSE {f.id}
FileNumber(f) == IF f.name[1] \in Digits THEN {<<"", f.name[1]>>} ELSE {}
CandidateTokens(f) == FileNumber(f) \cup {LowerCase(f.name)} \cup (UNION {IdTokens(id) : id \in TextId(f)})
MatchesTaskId(f, id) == CandidateTokens(f) \cap IdTokens(id) # {}

(* shouldIgnorePath and isArchivedPath look at the first directory only.   *)
ShouldIgnore(f) == f.dir # <<>> /\ f.dir[1] \in {"audit", "records"}
BelowArchive(f) == f.dir # <<>> /\ f.dir[1] = "archive"

(* findCandidates and loadCanonicalTask: one file that cannot be parsed    *)
(* ends every lookup.                                                      *)
Loaded(code, found) == [code |-> code, found |-> found]
LoadTask(files, id) == LET
    read == {f \in ToSet(files) : ~ShouldIgnore(f)}
    matches == {f \in read : MatchesTaskId(f, id)}
    active == {f \in matches : ~BelowArchive(f)} IN
  IF \E f \in read : f.broken THEN Loaded("unreadable", {})
  ELSE IF matches = {} THEN Loaded("not-found", {})
  ELSE IF active = {} THEN Loaded("archived", {})
  ELSE IF Cardinality(active) > 1 THEN Loaded("ambiguous", {})
  ELSE IF \E f \in active : TextId(f) = {} \/ f.type # "work-item" THEN Loaded("invalid", {})
  ELSE Loaded("loaded", active)
=============================================================================
