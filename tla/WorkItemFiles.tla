--------------------------- MODULE WorkItemFiles ----------------------------
(***************************************************************************)
(* Work items as Markdown files, and the commands that rewrite them: dv    *)
(* work-item transition, link, record-commit and finalize, dv record       *)
(* create, the evidence of a claimed task, the reconciliation of a merge   *)
(* that is already published, and the ingestion of a forge's events, which *)
(* makes several of these calls in a row for each work item it names.      *)
(* Nothing locks a file: a call looks for its item, reads it, truncates it *)
(* and writes it back, each in a step of its own.                          *)
(***************************************************************************)
EXTENDS Sequences, Integers, FiniteSets

CONSTANTS
  Proc,        \* command invocations in flight
  Item,        \* work items
  PR,          \* pull requests, each with its merge commit
  Record,      \* evidence records
  Asked,       \* statuses that commands ask for
  MaxCommands  \* bound on the commands given

Status == {"draft", "ready", "running", "paused", "completed", "aborted"}

ASSUME WorkItemConstants ==
  /\ Asked \subseteq Status /\ MaxCommands \in Nat
  /\ PR \cap Record = {}

VARIABLES
  file,      \* [Item -> [Place -> what is at its path]]
  records,   \* [Record -> the outcome its file shows]
  manifests, \* items with a verified manifest in the runtime store
  claimed,   \* items whose paths an active claim has locked
  merged,    \* pull requests the forge has merged
  job,       \* [Proc -> the calls a command has still to make]
  given,     \* commands given so far
  accepted,  \* history: what finished calls have put in an item
  overlap,   \* history: items that two commands worked on at once
  hurt       \* history: items a writer left truncated when it was killed

disk == <<file, records, manifests>>
world == <<claimed, merged>>
history == <<accepted, overlap, hurt>>
vars == <<disk, world, job, given, history>>

Place == {"active", "archive"}
Link == PR \cup Record

(* What is at a path: no file, a file that was truncated, or a document.   *)
Absent == [kind |-> "absent"]
Truncated == [kind |-> "truncated"]
Holds(d) == [kind |-> "doc", doc |-> d]

(* The empty frontmatter of a truncated file: no id, and a status that is  *)
(* missing counts as ready.                                                *)
Blank == [id |-> FALSE, status |-> "ready", life |-> "none", links |-> {},
          commits |-> {}, actual |-> FALSE]
Content(f) == IF f = Truncated THEN Blank ELSE f.doc
Readable(f) == f.kind = "doc" /\ f.doc.id

Outcome == {"pass", "fail"}
Op == {"transition", "link", "commit", "record", "finalize", "finalizeIfDone",
       "evidence", "reconcile", "directPush", "manifest"}

(* A call: what it adds to the links or commits of its item, the status it *)
(* asks for, whether it states the actual effort, a record's outcome.      *)
Call == [op : Op, item : Item, adds : SUBSET Link, status : Status,
         actual : BOOLEAN, outcome : Outcome]
OnItem(op, i, x) == [op |-> op, item |-> i, adds |-> x, status |-> "completed",
                     actual |-> FALSE, outcome |-> "pass"]

Idle == [pc |-> "idle", calls |-> <<>>, root |-> 1, listed |-> FALSE,
         doc |-> Blank]

(* An item at its start, or one that has all it takes to be finalized.     *)
New == [Blank EXCEPT !.id = TRUE, !.life = "active"]
Ripe == [New EXCEPT !.status = "completed", !.links = Link, !.actual = TRUE]
Written(d) == [links |-> d.links, commits |-> d.commits]

Init ==
  /\ \E d \in [Item -> {New, Ripe}] :
       /\ file = [i \in Item |-> [active |-> Holds(d[i]), archive |-> Absent]]
       /\ records = [r \in Record |-> IF \E i \in Item : d[i] = Ripe THEN "pass" ELSE "none"]
       /\ accepted = [i \in Item |-> Written(d[i])]
  /\ manifests = {} /\ claimed \in SUBSET Item /\ merged = {}
  /\ job = [p \in Proc |-> Idle]
  /\ given = 0
  /\ overlap = {} /\ hurt = {}

-----------------------------------------------------------------------------
At(p, pc) == job[p].pc = pc
Now(p) == Head(job[p].calls)
Does(p, op) == job[p].calls # <<>> /\ Now(p).op = op
Works(p, i) == \E k \in DOMAIN job[p].calls : job[p].calls[k].item = i

(* Mutant of Roots: the archive is searched first.                         *)
ArchiveFirst == <<"archive", "archive", "active", "active">>

(* resolveWorkItemFile looks into active, into the whole backlog, which    *)
(* has both, and into archive.                                             *)
Roots == <<"active", "active", "archive", "archive">>
Where(p) == Roots[job[p].root]
Target(p) == IF Does(p, "finalize") THEN "archive" ELSE Where(p)

(* A call begins: it lists the first directory, unless it only writes a    *)
(* record or a row of the runtime store.                                   *)
Starting(calls) ==
  [pc |-> IF Head(calls).op \in {"record", "manifest"} THEN "write" ELSE "look",
   calls |-> calls, root |-> 1, doc |-> Blank,
   listed |-> file[Head(calls).item][Roots[1]] # Absent]

(* The call at the head has ended, or is replaced by the calls it makes.   *)
Proceed(p, calls) ==
  /\ job' = [job EXCEPT ![p] = IF calls = <<>> THEN Idle ELSE Starting(calls)]
  /\ UNCHANGED <<overlap, hurt>>
Rest(p) == Tail(job[p].calls)

(* A call throws: the command ends, and the calls after it are not made.   *)
Throw(p) ==
  /\ job' = [job EXCEPT ![p] = Idle]
  /\ UNCHANGED history

Give(p, calls) ==
  /\ At(p, "idle") /\ given < MaxCommands
  /\ given' = given + 1
  /\ job' = [job EXCEPT ![p] = Starting(calls)]
  /\ overlap' = overlap \cup {i \in Item : /\ \E k \in DOMAIN calls : calls[k].item = i
                                          /\ \E q \in Proc : Works(q, i)}
  /\ UNCHANGED <<disk, world, accepted, hurt>>

-----------------------------------------------------------------------------
(* The commands.  Evidence that a transition names by hand exists.         *)
Transition(p) ==
  \E i \in Item, s \in Asked, a \in BOOLEAN, r \in SUBSET {x \in Record : records[x] # "none"} :
    Give(p, <<[OnItem("transition", i, r) EXCEPT !.status = s, !.actual = a]>>)
LinkPR(p) == \E i \in Item, pr \in PR : Give(p, <<OnItem("link", i, {pr})>>)
RecordCommit(p) == \E i \in Item, pr \in PR : Give(p, <<OnItem("commit", i, {pr})>>)
Finalize(p) == \E i \in Item, a \in BOOLEAN :
  Give(p, <<[OnItem("finalize", i, {}) EXCEPT !.actual = a]>>)
RecordEvidence(p) == \E i \in Item, r \in Record, pr \in SUBSET PR :
  Give(p, <<OnItem("evidence", i, {r} \cup pr)>>)
Reconcile(p) == \E i \in Item, pr \in PR, op \in {"reconcile", "directPush"} :
  Give(p, <<[OnItem(op, i, {pr}) EXCEPT !.actual = TRUE]>>)

(* The calls for one subject of a pull request event.                      *)
Ingest(pr, i, done) ==
  <<OnItem("link", i, {pr})>> \o
  IF done THEN <<OnItem("commit", i, {pr}), OnItem("finalizeIfDone", i, {})>> ELSE <<>>

IngestAll(pr, subjects, done) == LET each == IF done THEN 3 ELSE 1 IN
  [n \in 1..(each * Len(subjects)) |->
     Ingest(pr, subjects[1 + ((n - 1) \div each)], done)[1 + ((n - 1) % each)]]

(* Events are delivered at any time after they happened, and again.        *)
IngestPullRequest(p) ==
  \E pr \in PR, n \in 1..Cardinality(Item), done \in BOOLEAN : \E subjects \in [1..n -> Item] :
    /\ \A j, k \in 1..n : subjects[j] = subjects[k] => j = k
    /\ done => pr \in merged
    /\ Give(p, IngestAll(pr, subjects, done))
CreateRecord(p) == \E i \in Item, r \in Record, o \in Outcome :
  Give(p, <<[OnItem("record", i, {r}) EXCEPT !.outcome = o]>>)
IngestWorkflowRun(p) == \E i \in Item, r \in Record, o \in Outcome :
  Give(p, <<[OnItem("record", i, {r}) EXCEPT !.outcome = o], OnItem("link", i, {r})>>)

-----------------------------------------------------------------------------
(* Looking for the item: the files that were listed are read one by one.   *)
(* One that is gone by then makes the call throw, one without an id is not *)
(* the item.                                                               *)
Found(p) ==
  /\ At(p, "look") /\ Readable(file[Now(p).item][Where(p)])
  /\ job' = [job EXCEPT ![p].pc = "read"]
  /\ UNCHANGED <<disk, world, given, history>>
Missed(p) == LET i == Now(p).item IN
  /\ At(p, "look") /\ ~Readable(file[i][Where(p)])
  /\ IF (file[i][Where(p)] = Absent /\ job[p].listed) \/ job[p].root = 4
       THEN Throw(p)
       ELSE /\ job' = [job EXCEPT ![p].root = @ + 1,
                         ![p].listed = file[i][Roots[job[p].root + 1]] # Absent]
            /\ UNCHANGED history
  /\ UNCHANGED <<disk, world, given>>

(* The file that was found is read again.  What the call does next is      *)
(* decided on this reading.                                                *)
Reading(p) == At(p, "read") /\ file[Now(p).item][Where(p)] # Absent
Read(p) == Content(file[Now(p).item][Where(p)])
Vanished(p) ==
  /\ At(p, "read") /\ file[Now(p).item][Where(p)] = Absent
  /\ Throw(p)
  /\ UNCHANGED <<disk, world, given>>
Keep(p, d) ==
  /\ job' = [job EXCEPT ![p].pc = "write", ![p].doc = d]
  /\ UNCHANGED <<disk, world, given, history>>

(* linkWorkItem and the evidence of transitionWorkItem add to the links.   *)
Linked(d, x) == [d EXCEPT !.links = @ \cup x]
Committed(d, x) == [d EXCEPT !.commits = @ \cup x]

(* Completion goes to lifecycle active, on to inactive only by finalize.   *)
Moved(d, c) == [Linked(d, c.adds) EXCEPT
  !.status = c.status, !.life = IF c.status = "draft" THEN "draft" ELSE "active",
  !.actual = @ \/ c.actual]

ReadToEdit(p) == LET c == Now(p) IN
  /\ Reading(p)
  /\ \/ c.op = "link" /\ Keep(p, Linked(Read(p), c.adds))
     \/ c.op = "commit" /\ Keep(p, Committed(Read(p), c.adds))
     \/ c.op = "transition" /\ Keep(p, Moved(Read(p), c))

(* The audit of the runtime store: the paths of the item are locked by an  *)
(* active claim on it.                                                     *)
Covered(i) == i \in claimed

(* validateLinkedPullRequestsMerged asks an authenticated forge.           *)
AllMerged(d) == d.links \cap PR \subseteq merged

(* Mutant of Finalizable: the merge state is not asked for.                *)
FinalizableUnmerged(d, c) ==
  /\ d.status = "completed" /\ d.life = "active"
  /\ d.links \cap PR # {}
  /\ d.links \cap Record # {}
  /\ Covered(c.item)
  /\ d.actual \/ c.actual

(* The checks of finalizeWorkItem, those of the forge and of the runtime   *)
(* store included.                                                         *)
Finalizable(d, c) ==
  /\ d.status = "completed" /\ d.life = "active"
  /\ d.links \cap PR # {} /\ AllMerged(d)
  /\ d.links \cap Record # {}
  /\ Covered(c.item)
  /\ d.actual \/ c.actual

(* Mutant of ReadToFinalize: the active file goes first.                   *)
ReadToUnlink(p) ==
  /\ Reading(p) /\ Now(p).op = "finalize" /\ Finalizable(Read(p), Now(p))
  /\ job' = [job EXCEPT ![p].pc = "unlink"]
  /\ UNCHANGED <<disk, world, given, history>>

ReadToFinalize(p) == LET c == Now(p) IN
  /\ Reading(p) /\ c.op = "finalize"
  /\ IF Finalizable(Read(p), c)
       THEN Keep(p, [Read(p) EXCEPT !.life = "inactive", !.actual = TRUE])
       ELSE Throw(p) /\ UNCHANGED <<disk, world, given>>

(* autoCloseOnMerge finalizes what has evidence and actual effort.         *)
ReadToClose(p) == LET c == Now(p) d == Read(p) IN
  /\ Reading(p) /\ c.op = "finalizeIfDone"
  /\ Proceed(p, IF d.links \cap Record # {} /\ d.actual
                  THEN <<OnItem("finalize", c.item, {})>> \o Rest(p) ELSE Rest(p))
  /\ UNCHANGED <<disk, world, given, accepted>>

(* Mutant of EvidenceCalls: the link is made before the record.            *)
LinkBeforeRecord(c) == LET x == c.adds \cap Record IN
  <<OnItem("link", c.item, x), OnItem("record", c.item, x)>>

(* recordTaskEvidence tries both calls dry, audits the locks, then makes   *)
(* them.                                                                   *)
EvidenceCalls(c) == LET x == c.adds \cap Record IN
  <<OnItem("record", c.item, x), OnItem("link", c.item, x)>>

(* The context of historical evidence: a linked pull request whose linked  *)
(* commit is published.                                                    *)
Attributed(d, x) == x \cap PR \subseteq d.links \cap d.commits \cap merged
ReadToRecord(p) == LET c == Now(p) IN
  /\ Reading(p) /\ c.op = "evidence"
  /\ IF Attributed(Read(p), c.adds) /\ Covered(c.item)
       THEN Proceed(p, EvidenceCalls(c)) /\ UNCHANGED accepted
       ELSE Throw(p)
  /\ UNCHANGED <<disk, world, given>>

(* Mutant of ReconcileCalls: the manifest is recorded before the status.   *)
ManifestFirst(c) == <<[c EXCEPT !.op = "manifest"],
  [c EXCEPT !.op = "transition", !.adds = {}]>>

(* A reconciliation is checked on what was read; the transition reads the  *)
(* item once more and does not look at the status it had.  The manifest of *)
(* a historical merge comes last.                                          *)
ReconcileCalls(c) ==
  <<[c EXCEPT !.op = "transition", !.adds = {}]>> \o
  IF c.op = "reconcile" THEN <<[c EXCEPT !.op = "manifest"]>> ELSE <<>>
EvidencePasses(d) == \E r \in Record \cap d.links : records[r] = "pass"
PushPublished(x) == x \subseteq merged
Published(d, c) ==
  /\ d.status \in {"ready", "running"}
  /\ \/ c.op = "directPush" /\ PushPublished(c.adds)
     \/ c.op = "reconcile" /\ Attributed(d, c.adds) /\ EvidencePasses(d)
ReadToReconcile(p) == LET c == Now(p) IN
  /\ Reading(p) /\ c.op \in {"reconcile", "directPush"}
  /\ IF Published(Read(p), c)
       THEN Proceed(p, ReconcileCalls(c)) /\ UNCHANGED accepted
       ELSE Throw(p)
  /\ UNCHANGED <<disk, world, given>>

-----------------------------------------------------------------------------
(* Writing back: fs.writeFile truncates, or creates, and then writes.      *)
Truncate(p) ==
  /\ At(p, "write") /\ Now(p).op # "manifest"
  /\ IF Does(p, "record")
       THEN /\ records' = [r \in Record |-> IF r \in Now(p).adds THEN "empty" ELSE records[r]]
            /\ UNCHANGED file
       ELSE /\ file' = [file EXCEPT ![Now(p).item][Target(p)] = Truncated]
            /\ UNCHANGED records
  /\ job' = [job EXCEPT ![p].pc = "store"]
  /\ UNCHANGED <<manifests, world, given, history>>

StoreDoc(p) == LET i == Now(p).item d == job[p].doc IN
  /\ At(p, "store") /\ ~Does(p, "record")
  /\ file' = [file EXCEPT ![i][Target(p)] = Holds(d)]
  /\ accepted' = [accepted EXCEPT ![i].links = @ \cup d.links, ![i].commits = @ \cup d.commits]
  /\ IF Does(p, "finalize") /\ Where(p) # "archive"
       THEN job' = [job EXCEPT ![p].pc = "unlink"] /\ UNCHANGED <<overlap, hurt>>
       ELSE Proceed(p, Rest(p))
  /\ UNCHANGED <<records, manifests, world, given>>

StoreRecord(p) ==
  /\ At(p, "store") /\ Does(p, "record")
  /\ records' = [r \in Record |-> IF r \in Now(p).adds THEN Now(p).outcome ELSE records[r]]
  /\ Proceed(p, Rest(p))
  /\ UNCHANGED <<file, manifests, world, given, accepted>>

(* finalizeWorkItem removes the active file once the archive has it.  A    *)
(* file that is gone already makes the unlink throw.                       *)
Unlink(p) == LET i == Now(p).item IN
  /\ At(p, "unlink")
  /\ IF file[i]["active"] = Absent
       THEN Throw(p) /\ UNCHANGED disk
       ELSE /\ file' = [file EXCEPT ![i]["active"] = Absent]
            /\ Proceed(p, Rest(p))
            /\ UNCHANGED <<records, manifests, accepted>>
  /\ UNCHANGED <<world, given>>

RecordManifest(p) ==
  /\ At(p, "write") /\ Does(p, "manifest")
  /\ manifests' = manifests \cup {Now(p).item}
  /\ Proceed(p, Rest(p))
  /\ UNCHANGED <<file, records, world, given, accepted>>

(* A command is killed, or throws at a check the model has no state for: a *)
(* criterion that is not ticked, git, the forge, an error of the disk.     *)
Killed(p) ==
  /\ ~At(p, "idle")
  /\ job' = [job EXCEPT ![p] = Idle]
  /\ hurt' = IF At(p, "store") /\ ~Does(p, "record") /\ Target(p) = Where(p)
               THEN hurt \cup {Now(p).item} ELSE hurt
  /\ UNCHANGED <<disk, world, given, accepted, overlap>>

(* The world around: a claim ends, the forge merges.                       *)
ClaimEnds(i) ==
  /\ i \in claimed
  /\ claimed' = claimed \ {i}
  /\ UNCHANGED <<disk, merged, job, given, history>>
Merge(pr) ==
  /\ pr \notin merged
  /\ merged' = merged \cup {pr}
  /\ UNCHANGED <<disk, claimed, job, given, history>>

Command(p) ==
  \/ Transition(p) \/ LinkPR(p) \/ RecordCommit(p) \/ Finalize(p)
  \/ RecordEvidence(p) \/ Reconcile(p)
  \/ IngestPullRequest(p) \/ IngestWorkflowRun(p) \/ CreateRecord(p)
Step(p) ==
  \/ Found(p) \/ Missed(p) \/ Vanished(p)
  \/ ReadToEdit(p) \/ ReadToFinalize(p) \/ ReadToClose(p) \/ ReadToRecord(p)
  \/ ReadToReconcile(p)
  \/ Truncate(p) \/ StoreDoc(p) \/ StoreRecord(p) \/ Unlink(p) \/ RecordManifest(p)
Next ==
  \/ \E p \in Proc : Command(p) \/ Step(p) \/ Killed(p)
  \/ \E i \in Item : ClaimEnds(i)
  \/ \E pr \in PR : Merge(pr)
Spec == Init /\ [][Next]_vars

-----------------------------------------------------------------------------
(* Items that one command at a time has worked on, none of them killed in  *)
(* the middle of a write to the item's own file.                           *)
Sole(i) == i \notin overlap \cup hurt
Rewriting(p, i) == At(p, "store") /\ Now(p).item = i /\ Now(p).op # "record"
Current(i) == IF Readable(file[i]["active"]) THEN file[i]["active"] ELSE file[i]["archive"]

(* An item does not get lost: whatever command is killed wherever, between *)
(* the archive copy and the unlink of finalizeWorkItem too, a search finds *)
(* it, except while its only copy is being rewritten.                      *)
ItemsStayReadable == \A i \in Item :
  Sole(i) => Readable(Current(i)) \/ \E p \in Proc : Rewriting(p, i)

(* What a finished call has linked or recorded is in the copy that the next*)
(* call finds, also when a finalization that was killed has left two.      *)
EditsSurvive == \A i \in Item :
  Sole(i) /\ Readable(Current(i)) /\ (\A p \in Proc : ~Rewriting(p, i)) =>
  /\ accepted[i].links \subseteq Current(i).doc.links
  /\ accepted[i].commits \subseteq Current(i).doc.commits

(* Only the archive copy of an item that is done remains: completed, with  *)
(* evidence, effort, and every pull request ever linked to it merged.      *)
ArchivedWhenDone == [][\A i \in Item :
  LET a == file[i]["archive"] IN
  Sole(i) /\ file[i]["active"] # Absent /\ file'[i]["active"] = Absent =>
    /\ Readable(a) /\ a.doc.life = "inactive" /\ a.doc.status = "completed"
    /\ a.doc.actual /\ accepted[i].links \cap Record # {}
    /\ accepted[i].links \cap PR \subseteq merged]_vars

(* No work item points to evidence that is not there: the record's file is *)
(* written first, whatever is killed and whatever overlaps.                *)
EvidenceHasRecord == \A i \in Item, pl \in Place, r \in Record :
  Readable(file[i][pl]) /\ r \in file[i][pl].doc.links => records[r] # "none"

(* A manifest, which lets an expired claim be released, is recorded of an  *)
(* item that the reconciliation has completed.                             *)
ManifestAfterCompletion == [][\A i \in Item :
  Sole(i) /\ i \in manifests' \ manifests =>
    Readable(Current(i)) /\ Current(i).doc.status = "completed"]_vars

=============================================================================
