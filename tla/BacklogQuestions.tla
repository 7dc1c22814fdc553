-------------------------- MODULE BacklogQuestions --------------------------
(***************************************************************************)
(* Questions about a backlog as a whole: what an audit that passes is      *)
(* worth to the lookup of a task, and which proposals a synthesis makes.   *)
(***************************************************************************)
EXTENDS Question, BacklogAudit, ProposalBatch

Filed(dir, name, id) == [dir |-> dir, name |-> name, id |-> id, status |-> "ready", links |-> {},
  type |-> "work-item", schema |-> "fits", broken |-> FALSE]
To(dir, name) == [dir |-> dir, name |-> name]
A1 == <<"1", "-a">>
B2 == <<"2", "-b">>
FileIds == {<<"wi-", "1">>, <<"WI-", "1">>, <<"wi-", "2">>, <<"", "1">>, Unidentified}
Directories == {<<>>, <<"archive">>, <<"records">>, <<"audit">>, <<"old", "archive">>, <<"old", "audit">>}
FileLinks == {{}, {To(<<>>, A1)}, {To(<<>>, A1), To(<<>>, B2)}, {To(<<"archive">>, A1)}}
Linking(f, status, links, schema) == [dir |-> f.dir, name |-> f.name, id |-> f.id, status |-> status,
  links |-> links, type |-> f.type, schema |-> schema, broken |-> FALSE]
Broken(f) == [dir |-> f.dir, name |-> f.name, id |-> Unidentified, status |-> "", links |-> {},
  type |-> "untyped", schema |-> f.schema, broken |-> TRUE]
ThirdFile(dir, name, id) == Linking(Filed(dir, name, id), "running", {To(<<>>, B2)}, "fits")
Directories3 == {<<>>, <<"archive">>, <<"old", "audit">>}
Names3 == {A1, <<"", "c">>, <<"wi-", "1">>}
FileIds3 == {<<"wi-", "1">>, <<"x-", "3">>, <<"", "1">>}
Readable3 == {ThirdFile(dir, name, id) :
  dir \in Directories3, name \in Names3, id \in FileIds3}
FirstFile(back) == Linking(Filed(<<>>, A1, <<"wi-", "1">>), "ready", back, "fits")
SecondFile(dir, id, links, schema) == Linking(Filed(dir, B2, id), "ready", links, schema)
ThirdFiles == {<<>>} \cup {<<f>> : f \in Readable3 \cup {Broken(g) : g \in Readable3}}
AskAudited == Unasked /\ \E id \in FileIds, dir \in Directories, links, back \in FileLinks, third \in ThirdFiles,
                 schema \in {"fits", "violates", "lost"} :
  LET files == <<FirstFile(back), SecondFile(dir, id, links, schema)>> \o third IN
  /\ Cardinality(back) # 1 /\ (schema = "fits" \/ third = <<>>)
  /\ \A i, j \in DOMAIN files : files[i].dir = files[j].dir /\ files[i].name = files[j].name => i = j
  /\ Ask([kind |-> "audited", files |-> files])

Draft(title, refs, approvals, afk, rest) ==
  [title |-> title, refs |-> refs, approvals |-> approvals, afk |-> afk, rest |-> rest]
Drafts == [title : {"Fix it", "Fix it!", "Other"}, refs : {<<2, 3>>, <<3, 2>>, <<1, 3>>, <<>>},
  approvals : {<<>>, <<1, 2>>, <<2, 1>>}, afk : BOOLEAN, rest : {"x", "y"}]
BatchOf(one, two, more, n) == <<one>> \o [i \in 1..(n + 1) |-> two]
  \o [i \in DOMAIN more |-> Draft(more[i], <<2, 3>>, <<>>, FALSE, "x")]
AskBatch == Unasked /\ \E one, two \in Drafts, more \in {<<>>, <<"Fix it">>, <<"Fix it!">>}, n \in {0, 6} :
  /\ one.rest = "x" /\ one.title # "Fix it!" /\ ~two.afk /\ two.refs # <<3, 2>> /\ two.approvals # <<2, 1>>
  /\ n = 6 => one = two /\ one.refs = <<2, 3>>
  /\ Ask([kind |-> "batch", drafts |-> BatchOf(one, two, more, n)])

-----------------------------------------------------------------------------
(* When the whole backlog passes a strict audit, every active task is      *)
(* found by its id and none else: no file is unreadable and no id is there *)
(* twice.  What the audit does not look at: ids that differ in case only,  *)
(* files that are named like another's id, and directories of directories. *)
Known(f) == {LowerCase(f.name), LowerCase(f.id)} \cup FileNumber(f)
Tidy(files) == \A f, g \in ToSet(files) : Len(f.dir) <= 1
  /\ (f.id \notin {g.id, Unidentified} => Known(g) \cap IdTokens(f.id) = {})
Whole(failOn) == [archive |-> TRUE, failOn |-> failOn]
Active(failOn) == [archive |-> FALSE, failOn |-> failOn]
AuditedMeansFound == Asked("audited") =>
  /\ AuditPasses(asked.files, Whole("warning")) /\ Tidy(asked.files) =>
       \A f \in ToSet(asked.files) : ~ShouldIgnore(f) /\ ~BelowArchive(f) /\ TextId(f) # {} /\ f.type = "work-item"
         => LoadTask(asked.files, f.id) = Loaded("loaded", {f})
  /\ AuditPasses(asked.files, Whole("error")) => AuditPasses(asked.files, Active("error"))

(* The order of the drafts decides neither whether there is a batch (there *)
(* is unless two have one key or one waits for an approval and is afk) nor *)
(* what it proposes, only which of two proposals of one slug has the id    *)
(* without a hash.  A batch that was built is valid, if every draft names  *)
(* its findings, each in one spelling; and a draft keeps its key when its  *)
(* references are written in another order.                                *)
Proposed(drafts) == {[p EXCEPT !.id = @.slug] : p \in Batch(drafts)}
BatchOrderIndependent == Asked("batch") => LET drafts == asked.drafts IN
  /\ Built(drafts) <=> /\ \A i, j \in DOMAIN drafts : Preimage(drafts[i]) = Preimage(drafts[j]) => i = j
                       /\ \A i \in DOMAIN drafts : drafts[i].afk => drafts[i].approvals = <<>>
  /\ Built(drafts) = Built(Reverse(drafts)) /\ Proposed(drafts) = Proposed(Reverse(drafts))
  /\ Built(drafts) => {p.id.slug : p \in {q \in Batch(drafts) : q.id.size = 0}} = {p.id.slug : p \in Batch(drafts)}
  /\ Built(drafts) /\ (\A i \in DOMAIN drafts : drafts[i].refs # <<>> /\ ~{1, 3} \subseteq ToSet(drafts[i].refs))
       => BatchValid(drafts)
  /\ \A i \in DOMAIN drafts : Preimage([drafts[i] EXCEPT !.refs = Reverse(@)]) = Preimage(drafts[i])

AskBacklogWide == AskAudited \/ AskBatch
=============================================================================
