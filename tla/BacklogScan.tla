---------------------------- MODULE BacklogScan -----------------------------
(***************************************************************************)
(* `backlog scan`: for each file, in the order of the directory, resolve   *)
(* what it is about, make evidence of the scan and link it, and archive    *)
(* the item if it is completed, or take it out of completed if it lacks    *)
(* something.  A scan is a function of the files, so that it can be asked  *)
(* what another one leaves, after a crash too; a write takes place whole   *)
(* (WorkItemFiles has its two halves).  The parser keeps what it has read  *)
(* by the text of a file, so that a change which is not written is seen by *)
(* whoever reads that text later in the scan; no two files have one text.  *)
(***************************************************************************)
EXTENDS Sequences, SequencesExt, Naturals, FiniteSets

(* Where a file may be, in the order that both the scan and the search of  *)
(* a work item list them.                                                  *)
Paths == <<<<"active", 1>>, <<"active", 2>>, <<"archive", 1>>, <<"archive", 2>>>>
NoFile == [kind |-> "none"]
NoId == <<"no id">>

(* An id has a form and a number: "plain", with upper case letters, with a *)
(* dot or an underscore in its slug ("dotted", "scored"), or not that of a *)
(* work item. Scan tokens are lower case, end at a dot and leave out what  *)
(* has an underscore; a file names no other item in its text.              *)
Eligible(id) == id # NoId /\ id[1] # "foreign"
TokensOf(id) ==
  CASE id[1] \in {"plain", "upper"} -> {<<"plain", id[2]>>}
    [] id[1] = "dotted" -> {<<"stem", id[2]>>}
    [] OTHER -> {}

(* The links of a file are an object of lists, a list of maps, or missing. *)
ScanPulls(d) == d.prs
Pulls(d) == IF d.shape = "object" THEN d.prs ELSE {}
Evidence(d) == IF d.shape = "object" THEN d.evidence ELSE <<>>
Note == <<"note", NoId>>
IsRecord(l) == l # Note

(* SubjectResolverChain.  The forge, if it knows the caller, has to say    *)
(* that one of the pull requests is merged; an error is passed over.       *)
Linked(d, forge) ==
  IF Eligible(d.id) /\ ScanPulls(d) # {} /\ (forge.known => ScanPulls(d) \cap forge.merged # {})
    THEN {d.id} ELSE {}
SubjectIds(d, options, forge) ==
  LET found(strategy) == IF strategy = "linked" THEN Linked(d, forge) ELSE TokensOf(d.id)
      first == SelectInSeq(options.order, LAMBDA x : found(x) # {}) IN
  IF first = 0 THEN {} ELSE found(options.order[first])

-----------------------------------------------------------------------------
(* The state of a scan: the files and what a read of each gives, the       *)
(* records, the writes left until it is killed, whether the last call      *)
(* threw, the items it says it archived.                                   *)
Begin(files, records, left) ==
  [files |-> files, seen |-> files, records |-> records, left |-> left, threw |-> FALSE,
   archived |-> {}]
Dead(s) == s.left = 0
Threw(s) == [s EXCEPT !.threw = TRUE]

(* The document is changed, and written unless the run is dry.             *)
Change(s, p, f) == IF Dead(s) THEN s ELSE [s EXCEPT !.seen[p] = f]
Write(s, options, p, f) ==
  IF options.dry \/ Dead(s) THEN Change(s, p, f)
  ELSE [s EXCEPT !.seen[p] = f, !.files[p] = f, !.left = @ - 1]

(* resolveWorkItemFile: the first file with the id.                        *)
FirstWithId(s, id) == SelectInSeq(Paths, LAMBDA p : s.seen[p].kind = "file" /\ s.seen[p].id = id)

(* ensureWorkItemLinks, and a link that is not there yet.                  *)
AsObject(d) == [d EXCEPT !.shape = "object"]
WithLink(d, record) ==
  [AsObject(d) EXCEPT !.evidence = IF record \in ToSet(@) THEN @ ELSE Append(@, record)]

(* Mutant of LinkTo: a dry run returns before it changes the document.     *)
LinkToEarly(s, options, id, record) == LET n == FirstWithId(s, id) IN
  IF n = 0 THEN Threw(s)
  ELSE IF options.dry THEN s
  ELSE Write(s, options, Paths[n], WithLink(s.seen[Paths[n]], record))
(* linkWorkItem.                                                           *)
LinkTo(s, options, id, record) == LET n == FirstWithId(s, id) IN
  IF n = 0 THEN Threw(s)
  ELSE Write(s, options, Paths[n], WithLink(s.seen[Paths[n]], record))

(* createRecord: its name is the time and the slug of the item.            *)
WriteRecord(s, options, record) ==
  IF record[2][1] = "dotted" THEN Threw(s)
  ELSE IF options.dry \/ Dead(s) THEN s
  ELSE [s EXCEPT !.records = @ \cup {record}, !.left = @ - 1]

(* Mutant of ExistingRecord: only the first link is looked at.             *)
ExistingRecordFirst(f) ==
  IF f.kind = "file" /\ f.shape # "none" /\ f.evidence # <<>> /\ IsRecord(f.evidence[1])
    THEN 1 ELSE 0
(* findExistingEvidenceRecordId reads the scanned file again.              *)
ExistingRecord(f) ==
  IF f.kind = "file" /\ f.shape # "none" THEN SelectInSeq(f.evidence, IsRecord) ELSE 0

(* generateEvidenceForItem, for the item that was read as d at p.          *)
GenerateEvidence(s, options, p, d, subjects, force) ==
  LET n == ExistingRecord(s.seen[p])
      record == <<options.time, d.id>>
      made == WriteRecord([s EXCEPT !.threw = FALSE], options, record) IN
  IF ~Eligible(d.id) \/ (~force /\ d.id \notin subjects) THEN s
  ELSE IF n # 0 THEN LinkTo(s, options, d.id, s.seen[p].evidence[n])
  ELSE IF made.threw THEN made
  ELSE LinkTo(made, options, d.id, record)

-----------------------------------------------------------------------------
(* finalizeWorkItem, of whichever file has the id. A claim has to cover    *)
(* both files. That the effort is missing is noticed when the document has *)
(* been changed; the archive is written before the other file is removed.  *)
Finalizable(d, forge) ==
  /\ d.status = "completed" /\ d.life = "active" /\ "ticked" \in d.has
  /\ Pulls(d) # {} /\ Evidence(d) # <<>>
  /\ forge.known /\ Pulls(d) \subseteq forge.merged
  /\ forge.covered
Finalize(s, options, forge, id) == LET n == FirstWithId(s, id) IN
  IF n = 0 \/ ~Finalizable(s.seen[Paths[n]], forge) THEN Threw(s)
  ELSE LET p == Paths[n]
           d == [s.seen[p] EXCEPT !.life = "inactive", !.has = @ \cup {"date", "reason"}]
           copied == Write(s, options, <<"archive", p[2]>>, d) IN
       IF "actual" \notin d.has THEN Threw(Change(s, p, d))
       ELSE IF options.dry THEN Change(s, p, d)
       ELSE IF p[1] = "archive" THEN copied ELSE Write(copied, options, p, NoFile)

(* transitionWorkItem to the status for invalid candidates.                *)
Demote(s, options, id) == LET n == FirstWithId(s, id) IN
  IF n = 0 \/ (options.invalid = "completed" /\ "ticked" \notin s.seen[Paths[n]].has) THEN Threw(s)
  ELSE Write(s, options, Paths[n],
             [s.seen[Paths[n]] EXCEPT
               !.status = options.invalid,
               !.life = IF options.invalid = "draft" THEN "draft" ELSE "active",
               !.has = @ \cup {"reason"} \cup
                       (IF options.invalid \in {"completed", "aborted"} THEN {"date"} ELSE {})])

(* validateArchiveReadiness and validateClosedWorkItemEvidence.            *)
Issues(d) == (IF ScanPulls(d) = {} THEN {"pulls"} ELSE {})
  \cup (IF Evidence(d) = <<>> THEN {"evidence"} ELSE {})
  \cup ({"actual", "reason", "date", "note"} \ d.has)

(* The candidate sweep of the file that was first read as d: it is looked  *)
(* at again as it is, or would be, after evidence was made.                *)
Sweep(s, options, forge, p, d) ==
  LET candidate == s.seen[p]
      forced == IF options.generate /\ Evidence(candidate) = <<>>
                  THEN GenerateEvidence(s, options, p, d, {}, TRUE) ELSE s
      final == Finalize([forced EXCEPT !.threw = FALSE], options, forge, d.id) IN
  IF p[1] = "archive" \/ ~candidate.item \/ candidate.status # "completed" THEN s
  ELSE IF Issues(forced.seen[p]) = {} /\ d.id # NoId
    THEN IF final.threw \/ Dead(final) THEN final
         ELSE [final EXCEPT !.archived = @ \cup {d.id}]
  ELSE IF d.id = NoId \/ options.invalid = "none" THEN forced
  ELSE Demote(forced, options, d.id)

(* scanBacklog.                                                            *)
ScanFile(s, options, forge, p) ==
  LET d == s.seen[p]
      made == IF options.generate
                THEN GenerateEvidence(s, options, p, d, SubjectIds(d, options, forge), FALSE) ELSE s IN
  IF d.kind # "file" \/ Dead(s) THEN s
  ELSE IF options.sweep THEN Sweep(made, options, forge, p, d) ELSE made
Collected(files, options, p) ==
  files[p].kind # "none" /\ (p[1] = "archive" => options.archive)
Scan(s, options, forge) == FoldLeft(LAMBDA t, p :
  IF Collected(s.files, options, p) THEN ScanFile(t, options, forge, p) ELSE t, s, Paths)
=============================================================================
