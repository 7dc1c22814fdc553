------------------------ MODULE WorkItemFilesProofs -------------------------
(***************************************************************************)
(* Proofs about WorkItemFiles, for any number of commands, items, pull     *)
(* requests and records: no item points to a record that is not there, and *)
(* one that one command at a time works on keeps what it was given.        *)
(***************************************************************************)
EXTENDS WorkItemFiles, TLAPS

Doc == [id : BOOLEAN, status : Status, life : {"none", "draft", "active", "inactive"},
        links : SUBSET Link, commits : SUBSET Link, actual : BOOLEAN]
File == {Absent, Truncated} \cup [kind : {"doc"}, doc : Doc]
Job == [pc : {"idle", "look", "read", "write", "store", "unlink"}, calls : Seq(Call),
        root : 1..4, listed : BOOLEAN, doc : Doc]

(* The type invariant: of the disk, the world and the histories, and of    *)
(* the commands.                                                           *)
WorldOK ==
  /\ file \in [Item -> [Place -> File]]
  /\ records \in [Record -> {"none", "empty"} \cup Outcome]
  /\ manifests \subseteq Item /\ claimed \subseteq Item /\ merged \subseteq PR
  /\ given \in Nat
  /\ accepted \in [Item -> [links : SUBSET Link, commits : SUBSET Link]]
  /\ overlap \subseteq Item /\ hurt \subseteq Item
TypeOK == WorldOK /\ job \in [Proc -> Job]

(* The records whose files exist, what a document may point to, and what   *)
(* the calls of a command may add: a record that is there, or that a call  *)
(* before it writes.                                                       *)
There == {r \in Record : records[r] # "none"}
DocKnown(d, there) == d.links \cap Record \subseteq there
Fed(calls, n, there) == \A r \in Record \cap calls[n].adds :
  \/ r \in there
  \/ \E m \in 1..(n - 1) : calls[m].op = "record" /\ r \in calls[m].adds
CallsFed(calls, there) == \A n \in DOMAIN calls :
  calls[n].op \in {"transition", "link"} => Fed(calls, n, there)

(* A manifest comes after a transition to completed of the same item.      *)
Ordered(calls) == \A n \in DOMAIN calls :
  /\ calls[n].op \in {"reconcile", "directPush"} => calls[n].status = "completed"
  /\ calls[n].op = "manifest" /\ n # 1 =>
       /\ n = 2 /\ calls[1].op = "transition" /\ calls[1].status = "completed"
       /\ calls[1].item = calls[2].item

(* A command that is not idle has a call, and unlinks only to finalize.    *)
Busy(j) == j.pc # "idle" => j.calls # <<>>
Unlinking(j) == j.pc = "unlink" => Head(j.calls).op = "finalize"
JobFine(j, there) ==
  /\ Busy(j) /\ Unlinking(j)
  /\ DocKnown(j.doc, there) /\ CallsFed(j.calls, there)

FilesKnown == \A i \in Item, pl \in Place :
  file[i][pl].kind = "doc" => DocKnown(file[i][pl].doc, There)
IInv == TypeOK /\ FilesKnown /\ \A p \in Proc : JobFine(job[p], There)

-----------------------------------------------------------------------------
(* The documents that the model names are documents.                       *)
LEMMA Documents == Blank \in Doc /\ New \in Doc /\ Ripe \in Doc
<1>1. Blank \in Doc
  BY DEF Blank, Doc, Status
<1>2. New \in Doc
  BY DEF New, Blank, Doc, Status
<1>3. Ripe \in Doc
  BY DEF Ripe, New, Blank, Doc, Status
<1> QED BY <1>1, <1>2, <1>3

(* A command that is idle.                                                 *)
LEMMA IdleIsJob == Idle \in Job /\ \A there : JobFine(Idle, there)
<1>1. Idle \in Job
  BY Documents DEF Idle, Job
<1>2. ASSUME NEW there PROVE JobFine(Idle, there)
  BY DEF JobFine, Busy, Unlinking, DocKnown, CallsFed, Idle, Blank
<1> QED BY <1>1, <1>2

(* What is at a path: a document is told from no file and from a truncated *)
(* one by its kind.                                                        *)
LEMMA Files ==
  /\ Absent \in File /\ Truncated \in File
  /\ Absent.kind # "doc" /\ Truncated.kind # "doc"
  /\ \A d \in Doc : Holds(d) \in File /\ Holds(d).kind = "doc" /\ Holds(d).doc = d
  /\ \A f \in File : f.kind = "doc" => f.doc \in Doc
  /\ \A f \in File : f # Absent => Content(f) \in Doc
<1>1. Absent \in File /\ Truncated \in File
  BY DEF File
<1>2. Absent.kind # "doc" /\ Truncated.kind # "doc"
  BY DEF Absent, Truncated
<1>3. \A d \in Doc : Holds(d) \in File /\ Holds(d).kind = "doc" /\ Holds(d).doc = d
  BY DEF File, Holds
<1>4. ASSUME NEW f \in File, f.kind = "doc" PROVE f.doc \in Doc
  BY <1>2, <1>4 DEF File
<1>5. ASSUME NEW f \in File, f # Absent PROVE Content(f) \in Doc
  BY <1>5, Documents DEF File, Content
<1> QED BY <1>1, <1>2, <1>3, <1>4, <1>5

(* A call that the model makes is a call.                                  *)
LEMMA Calls ==
  ASSUME NEW op \in Op, NEW i \in Item, NEW x \in SUBSET Link
  PROVE  /\ OnItem(op, i, x) \in Call
         /\ OnItem(op, i, x).op = op /\ OnItem(op, i, x).adds = x
         /\ OnItem(op, i, x).item = i /\ OnItem(op, i, x).status = "completed"
BY DEF OnItem, Call, Status, Outcome

-----------------------------------------------------------------------------
(* A record that is there stays there, so what was known stays known.      *)
LEMMA FineStaysFine ==
  ASSUME NEW j, NEW there, NEW more, there \subseteq more, JobFine(j, there)
  PROVE  JobFine(j, more)
BY DEF JobFine, DocKnown, CallsFed, Fed

(* The calls after the one that ended: if it was a record, its file is now *)
(* there.                                                                  *)
LEMMA RestIsFed ==
  ASSUME NEW calls \in Seq(Call), calls # <<>>, NEW there, CallsFed(calls, there),
         Head(calls).op = "record" => Record \cap Head(calls).adds \subseteq there
  PROVE  Tail(calls) \in Seq(Call) /\ CallsFed(Tail(calls), there)
<1>1. Tail(calls) \in Seq(Call)
  OBVIOUS
<1>2. ASSUME NEW n \in DOMAIN Tail(calls), Tail(calls)[n].op \in {"transition", "link"}
      PROVE  Fed(Tail(calls), n, there)
  <2>1. /\ Len(calls) \in Nat /\ Len(calls) # 0 /\ DOMAIN calls = 1..Len(calls)
        /\ n \in 1..(Len(calls) - 1) /\ n + 1 \in DOMAIN calls
        /\ \A k \in 1..(Len(calls) - 1) : Tail(calls)[k] = calls[k + 1]
        /\ Head(calls) = calls[1]
    BY <1>2
  <2>2. Fed(calls, n + 1, there)
    BY <1>2, <2>1 DEF CallsFed
  <2>3. ASSUME NEW r \in Record \cap Tail(calls)[n].adds, r \notin there
        PROVE  \E m \in 1..(n - 1) : Tail(calls)[m].op = "record" /\ r \in Tail(calls)[m].adds
    <3>1. r \in Record \cap calls[n + 1].adds
      BY <2>1, <2>3
    <3>2. PICK m \in 1..n : calls[m].op = "record" /\ r \in calls[m].adds
      BY <2>1, <2>2, <2>3, <3>1 DEF Fed
    <3>3. m # 1
      BY <2>1, <2>3, <3>1, <3>2
    <3>4. m - 1 \in 1..(n - 1) /\ Tail(calls)[m - 1] = calls[m]
      BY <2>1, <3>2, <3>3
    <3> QED BY <3>2, <3>4
  <2> QED BY <2>3 DEF Fed
<1> QED BY <1>1, <1>2 DEF CallsFed

(* A call in front of others that adds nothing itself.                     *)
LEMMA FrontIsFed ==
  ASSUME NEW c \in Call, NEW calls \in Seq(Call), NEW there, CallsFed(calls, there),
         c.op \notin {"transition", "link"}
  PROVE  <<c>> \o calls \in Seq(Call) /\ CallsFed(<<c>> \o calls, there)
<1> DEFINE all == <<c>> \o calls
<1>1. /\ all \in Seq(Call) /\ Len(calls) \in Nat /\ DOMAIN calls = 1..Len(calls)
      /\ DOMAIN all = 1..(Len(calls) + 1) /\ all[1] = c
      /\ \A k \in 1..Len(calls) : all[k + 1] = calls[k]
  OBVIOUS
<1> HIDE DEF all
<1>2. ASSUME NEW n \in DOMAIN all, all[n].op \in {"transition", "link"}
      PROVE  Fed(all, n, there)
  <2>1. n # 1 /\ n - 1 \in DOMAIN calls /\ all[n] = calls[n - 1]
    BY <1>1, <1>2
  <2>2. Fed(calls, n - 1, there)
    BY <1>2, <2>1 DEF CallsFed
  <2>3. ASSUME NEW r \in Record \cap all[n].adds, r \notin there
        PROVE  \E m \in 1..(n - 1) : all[m].op = "record" /\ r \in all[m].adds
    <3>1. PICK m \in 1..(n - 1 - 1) : calls[m].op = "record" /\ r \in calls[m].adds
      BY <2>1, <2>2, <2>3 DEF Fed
    <3>2. m + 1 \in 1..(n - 1) /\ all[m + 1] = calls[m]
      BY <1>1, <2>1, <3>1
    <3> QED BY <3>1, <3>2
  <2> QED BY <2>3 DEF Fed
<1> QED BY <1>1, <1>2 DEF CallsFed, all

(* Calls that add no record, or one that is there.                         *)
LEMMA HarmlessAreFed ==
  ASSUME NEW calls \in Seq(Call), NEW there,
         \A n \in DOMAIN calls : Record \cap calls[n].adds \subseteq there
  PROVE  CallsFed(calls, there)
BY DEF CallsFed, Fed

(* A record and the link to it: the link finds the record there.           *)
LEMMA RecordThenLink ==
  ASSUME NEW c \in Call, NEW d \in Call, NEW there,
         c.op = "record", d.adds = c.adds
  PROVE  <<c, d>> \in Seq(Call) /\ CallsFed(<<c, d>>, there)
<1> DEFINE all == <<c, d>>
<1>1. all \in Seq(Call) /\ DOMAIN all = {1, 2} /\ all[1] = c /\ all[2] = d
  OBVIOUS
<1> HIDE DEF all
<1>2. ASSUME NEW n \in DOMAIN all, all[n].op \in {"transition", "link"}
      PROVE  Fed(all, n, there)
  <2>1. n = 2 /\ 1 \in 1..(n - 1)
    BY <1>1, <1>2
  <2> QED BY <1>1, <2>1 DEF Fed
<1> QED BY <1>1, <1>2 DEF CallsFed, all

(* A command that starts a call, and one that has none left.               *)
LEMMA StartingIsFine ==
  ASSUME NEW calls \in Seq(Call), calls # <<>>, CallsFed(calls, There)
  PROVE  Starting(calls) \in Job /\ JobFine(Starting(calls), There)
<1>1. Starting(calls) \in Job
  BY Documents DEF Starting, Job
<1>2. JobFine(Starting(calls), There)
  BY DEF Starting, JobFine, Busy, Unlinking, DocKnown, Blank
<1> QED BY <1>1, <1>2

-----------------------------------------------------------------------------
(* One command has moved on, and no record has gone away.                  *)
LEMMA Advance ==
  ASSUME IInv, NEW p \in Proc, NEW j \in Job, job' = [job EXCEPT ![p] = j],
         JobFine(j, There'), There \subseteq There', WorldOK', FilesKnown'
  PROVE  IInv'
<1>1. job' \in [Proc -> Job]
  BY DEF IInv, TypeOK
<1>2. ASSUME NEW q \in Proc PROVE JobFine(job'[q], There')
  <2>1. CASE q = p
    BY <2>1 DEF IInv, TypeOK
  <2>2. CASE q # p
    BY <2>2, FineStaysFine DEF IInv, TypeOK
  <2> QED BY <2>1, <2>2
<1> QED BY <1>1, <1>2 DEF IInv, TypeOK

(* One command has moved on, and the disk is as it was.                    *)
LEMMA AdvanceOnly ==
  ASSUME IInv, NEW p \in Proc, NEW j \in Job, job' = [job EXCEPT ![p] = j],
         JobFine(j, There), UNCHANGED disk, WorldOK'
  PROVE  IInv'
<1>1. There' = There /\ FilesKnown'
  BY DEF IInv, FilesKnown, There, disk
<1> QED BY <1>1, Advance

(* A command ends, or goes on with calls that are in order.                *)
LEMMA GoesOn ==
  ASSUME NEW p \in Proc, NEW calls \in Seq(Call), CallsFed(calls, There), Proceed(p, calls)
  PROVE  \E j \in Job : job' = [job EXCEPT ![p] = j] /\ JobFine(j, There)
<1>1. CASE calls = <<>>
  BY <1>1, IdleIsJob DEF Proceed
<1>2. CASE calls # <<>>
  BY <1>2, StartingIsFine DEF Proceed
<1> QED BY <1>1, <1>2

(* The commands.                                                           *)
LEMMA GiveKeepsInv ==
  ASSUME IInv, NEW p \in Proc, NEW calls \in Seq(Call), calls # <<>>,
         CallsFed(calls, There), Give(p, calls)
  PROVE  IInv'
<1>1. Starting(calls) \in Job /\ JobFine(Starting(calls), There)
  BY StartingIsFine
<1>2. job' = [job EXCEPT ![p] = Starting(calls)] /\ UNCHANGED disk
  BY DEF Give
<1>3. WorldOK'
  BY DEF Give, IInv, TypeOK, WorldOK, disk, world
<1> QED BY <1>1, <1>2, <1>3, AdvanceOnly

(* A call with another status or effort, or a record's outcome.            *)
LEMMA CallVariants ==
  ASSUME NEW c \in Call
  PROVE  /\ \A s \in Asked, a \in BOOLEAN :
              /\ [c EXCEPT !.status = s, !.actual = a] \in Call
              /\ [c EXCEPT !.status = s, !.actual = a].op = c.op
              /\ [c EXCEPT !.status = s, !.actual = a].adds = c.adds
         /\ \A a \in BOOLEAN :
              /\ [c EXCEPT !.actual = a] \in Call
              /\ [c EXCEPT !.actual = a].op = c.op
              /\ [c EXCEPT !.actual = a].adds = c.adds
              /\ [c EXCEPT !.actual = a].status = c.status
         /\ \A o \in Outcome :
              /\ [c EXCEPT !.outcome = o] \in Call
              /\ [c EXCEPT !.outcome = o].op = c.op
              /\ [c EXCEPT !.outcome = o].adds = c.adds
BY WorkItemConstants DEF Call

(* A command is given with calls in order, none of which is the manifest   *)
(* that only a reconciliation makes.                                       *)
GivesWell(p) == \E calls \in Seq(Call) :
  /\ calls # <<>> /\ Give(p, calls) /\ CallsFed(calls, There) /\ Ordered(calls)
  /\ \A n \in DOMAIN calls : calls[n].op # "manifest"

(* One call alone is in order if what it adds is there or is no record, or *)
(* if it does not touch a document.                                        *)
LEMMA OneCall ==
  ASSUME NEW p \in Proc, NEW c \in Call, Give(p, <<c>>), c.op # "manifest",
         Record \cap c.adds \subseteq There \/ c.op \notin {"transition", "link"},
         c.op \in {"reconcile", "directPush"} => c.status = "completed"
  PROVE  GivesWell(p)
<1>1. <<c>> \in Seq(Call) /\ <<c>> # <<>> /\ CallsFed(<<c>>, There)
  BY DEF CallsFed, Fed
<1>2. Ordered(<<c>>) /\ \A n \in DOMAIN <<c>> : <<c>>[n].op # "manifest"
  BY DEF Ordered
<1> QED BY <1>1, <1>2 DEF GivesWell

(* The calls for the subjects of a pull request's event.                   *)
LEMMA IngestedCalls ==
  ASSUME NEW pr \in PR, NEW n \in Nat, n >= 1, NEW subjects \in [1..n -> Item],
         NEW done \in BOOLEAN
  PROVE  LET calls == IngestAll(pr, subjects, done)
         IN /\ calls \in Seq(Call) /\ calls # <<>> /\ CallsFed(calls, There)
            /\ \A m \in DOMAIN calls : calls[m].op \in {"link", "commit", "finalizeIfDone"}
<1> DEFINE Good(c) == /\ c \in Call /\ c.adds \subseteq {pr}
                      /\ c.op \in {"link", "commit", "finalizeIfDone"}
<1>1. Len(subjects) = n
  OBVIOUS
<1>2. /\ \A i \in Item, k \in 1..3 : Good(Ingest(pr, i, TRUE)[k])
      /\ \A i \in Item : Good(Ingest(pr, i, FALSE)[1])
  <2>1. "link" \in Op /\ "commit" \in Op /\ "finalizeIfDone" \in Op
    BY DEF Op
  <2>2. ASSUME NEW i \in Item, NEW op \in {"link", "commit", "finalizeIfDone"}, NEW x \in SUBSET {pr}
        PROVE  Good(OnItem(op, i, x))
    BY <2>1, Calls DEF Link
  <2>3. ASSUME NEW i \in Item
        PROVE  /\ Ingest(pr, i, TRUE)[1] = OnItem("link", i, {pr})
               /\ Ingest(pr, i, TRUE)[2] = OnItem("commit", i, {pr})
               /\ Ingest(pr, i, TRUE)[3] = OnItem("finalizeIfDone", i, {})
               /\ Ingest(pr, i, FALSE)[1] = OnItem("link", i, {pr})
    <3> DEFINE l == OnItem("link", i, {pr})
               k == OnItem("commit", i, {pr})
               f == OnItem("finalizeIfDone", i, {})
    <3>1. l \in Call /\ k \in Call /\ f \in Call
      BY <2>1, <2>2
    <3>2. Ingest(pr, i, TRUE) = <<l>> \o <<k, f>> /\ Ingest(pr, i, FALSE) = <<l>> \o <<>>
      BY DEF Ingest
    <3> HIDE DEF l, k, f
    <3>3. /\ (<<l>> \o <<k, f>>)[1] = l /\ (<<l>> \o <<k, f>>)[2] = k /\ (<<l>> \o <<k, f>>)[3] = f
          /\ (<<l>> \o <<>>)[1] = l
      BY <3>1
    <3> QED BY <3>2, <3>3 DEF l, k, f
  <2> HIDE DEF Good
  <2>4. {pr} \in SUBSET {pr} /\ {} \in SUBSET {pr} /\ \A k \in 1..3 : k = 1 \/ k = 2 \/ k = 3
    OBVIOUS
  <2> QED BY <2>1, <2>2, <2>3, <2>4, Zenon
<1> DEFINE each == IF done THEN 3 ELSE 1
           calls == IngestAll(pr, subjects, done)
<1>3. /\ calls = [m \in 1..(each * n) |->
                    Ingest(pr, subjects[1 + ((m - 1) \div each)], done)[1 + ((m - 1) % each)]]
      /\ each * n \in Nat /\ each * n >= 1
  BY <1>1 DEF IngestAll
<1>4. ASSUME NEW m \in 1..(each * n)
      PROVE  Good(calls[m])
  <2>1. CASE done
    <3>1. 1 + ((m - 1) \div 3) \in 1..n /\ 1 + ((m - 1) % 3) \in 1..3
      BY <2>1
    <3>2. calls[m] = Ingest(pr, subjects[1 + ((m - 1) \div 3)], TRUE)[1 + ((m - 1) % 3)]
      BY <1>3, <2>1
    <3>3. subjects[1 + ((m - 1) \div 3)] \in Item
      BY <3>1
    <3> HIDE DEF calls, Good
    <3> QED BY <1>2, <3>1, <3>2, <3>3, Zenon
  <2>2. CASE ~done
    <3>1. 1 + ((m - 1) \div 1) \in 1..n /\ 1 + ((m - 1) % 1) = 1
      BY <2>2
    <3>2. calls[m] = Ingest(pr, subjects[1 + ((m - 1) \div 1)], FALSE)[1]
      BY <1>3, <2>2, <3>1
    <3>3. subjects[1 + ((m - 1) \div 1)] \in Item
      BY <3>1
    <3> HIDE DEF calls, Good
    <3> QED BY <1>2, <3>2, <3>3, Zenon
  <2> QED BY <2>1, <2>2
<1>5. DOMAIN calls = 1..(each * n)
  BY <1>3
<1> HIDE DEF calls, each
<1>6. calls \in Seq(Call)
  <2> DEFINE len == each * n
  <2>1. calls = [m \in 1..len |-> calls[m]]
    BY <1>3
  <2>2. len \in Nat /\ \A m \in 1..len : calls[m] \in Call
    BY <1>3, <1>4
  <2> HIDE DEF len
  <2>3. \A c : c = [m \in 1..len |-> c[m]] /\ (\A m \in 1..len : c[m] \in Call) => c \in Seq(Call)
    BY <2>2
  <2> QED BY <2>1, <2>2, <2>3
<1>7. calls # <<>>
  BY <1>3, <1>5
<1>8. CallsFed(calls, There)
  BY <1>4, <1>5, <1>6, HarmlessAreFed, WorkItemConstants
<1> QED BY <1>4, <1>5, <1>6, <1>7, <1>8 DEF calls

(* Every command is given with calls in order.                             *)
LEMMA CommandsGiveWell ==
  ASSUME NEW p \in Proc, Command(p)
  PROVE  GivesWell(p)
<1>0. \A x \in SUBSET PR : x \in SUBSET Link /\ Record \cap x = {}
  BY WorkItemConstants DEF Link
<1>a. Op = {"transition", "link", "commit", "record", "finalize", "finalizeIfDone",
            "evidence", "reconcile", "directPush", "manifest"}
  BY DEF Op
<1>1. CASE Transition(p)
  <2>1. PICK i \in Item, s \in Asked, a \in BOOLEAN, r \in SUBSET There :
          Give(p, <<[OnItem("transition", i, r) EXCEPT !.status = s, !.actual = a]>>)
    BY <1>1 DEF Transition, There
  <2> DEFINE c == OnItem("transition", i, r)
             d == [c EXCEPT !.status = s, !.actual = a]
  <2>2. c \in Call /\ c.adds = r /\ c.op = "transition"
    BY <1>a, Calls DEF There, Link
  <2> HIDE DEF c
  <2>3. d \in Call /\ d.adds = c.adds /\ d.op = c.op
    BY <2>2, CallVariants, Zenon
  <2>4. Record \cap d.adds \subseteq There /\ d.op = "transition"
    BY <2>2, <2>3
  <2> HIDE DEF d
  <2> QED BY <2>1, <2>3, <2>4, OneCall DEF c, d
<1>2. CASE LinkPR(p)
  <2>1. PICK i \in Item, pr \in PR : Give(p, <<OnItem("link", i, {pr})>>)
    BY <1>2 DEF LinkPR
  <2>2. /\ OnItem("link", i, {pr}) \in Call /\ OnItem("link", i, {pr}).op = "link"
        /\ Record \cap OnItem("link", i, {pr}).adds \subseteq There
    BY <1>0, <1>a, Calls
  <2> QED BY <2>1, <2>2, OneCall
<1>3. CASE RecordCommit(p)
  <2>1. PICK i \in Item, pr \in PR : Give(p, <<OnItem("commit", i, {pr})>>)
    BY <1>3 DEF RecordCommit
  <2>2. OnItem("commit", i, {pr}) \in Call /\ OnItem("commit", i, {pr}).op = "commit"
    BY <1>0, <1>a, Calls
  <2> QED BY <2>1, <2>2, OneCall
<1>4. CASE Finalize(p)
  <2>1. PICK i \in Item, a \in BOOLEAN :
          Give(p, <<[OnItem("finalize", i, {}) EXCEPT !.actual = a]>>)
    BY <1>4 DEF Finalize
  <2> DEFINE c == OnItem("finalize", i, {})
             d == [c EXCEPT !.actual = a]
  <2>2. c \in Call /\ c.op = "finalize"
    BY <1>a, Calls
  <2> HIDE DEF c
  <2>3. d \in Call /\ d.op = "finalize"
    BY <2>2, CallVariants
  <2> QED BY <2>1, <2>3, OneCall DEF c
<1>5. CASE RecordEvidence(p)
  <2>1. PICK i \in Item, r \in Record, pr \in SUBSET PR :
          Give(p, <<OnItem("evidence", i, {r} \cup pr)>>)
    BY <1>5 DEF RecordEvidence
  <2> DEFINE x == {r} \cup pr
             c == OnItem("evidence", i, x)
  <2>2. x \in SUBSET Link
    BY DEF Link
  <2> HIDE DEF x
  <2>3. c \in Call /\ c.op = "evidence"
    BY <1>a, <2>2, Calls
  <2> QED BY <2>1, <2>3, OneCall DEF x
<1>6. CASE Reconcile(p)
  <2>1. PICK i \in Item, pr \in PR, op \in {"reconcile", "directPush"} :
          Give(p, <<[OnItem(op, i, {pr}) EXCEPT !.actual = TRUE]>>)
    BY <1>6 DEF Reconcile
  <2> DEFINE c == OnItem(op, i, {pr})
             d == [c EXCEPT !.actual = TRUE]
  <2>2. c \in Call /\ c.op = op /\ c.status = "completed"
    BY <1>0, <1>a, Calls
  <2> HIDE DEF c
  <2>3. d \in Call /\ d.op = op /\ d.status = "completed"
    BY <2>2, CallVariants
  <2> QED BY <2>1, <2>3, OneCall DEF c
<1>7. CASE IngestPullRequest(p)
  <2>1. PICK pr \in PR, n \in 1..Cardinality(Item), done \in BOOLEAN :
          \E subjects \in [1..n -> Item] : Give(p, IngestAll(pr, subjects, done))
    BY <1>7 DEF IngestPullRequest
  <2>2. PICK subjects \in [1..n -> Item] : Give(p, IngestAll(pr, subjects, done))
    BY <2>1
  <2>3. n \in Nat /\ n >= 1
    OBVIOUS
  <2> DEFINE calls == IngestAll(pr, subjects, done)
  <2>4. /\ calls \in Seq(Call) /\ calls # <<>> /\ CallsFed(calls, There)
        /\ \A m \in DOMAIN calls : calls[m].op \in {"link", "commit", "finalizeIfDone"}
    BY <2>3, IngestedCalls
  <2> HIDE DEF calls
  <2>5. Ordered(calls) /\ \A m \in DOMAIN calls : calls[m].op # "manifest"
    BY <2>4 DEF Ordered
  <2> QED BY <2>2, <2>4, <2>5 DEF GivesWell, calls
<1>8. CASE IngestWorkflowRun(p)
  <2>1. PICK i \in Item, r \in Record, o \in Outcome :
          Give(p, <<[OnItem("record", i, {r}) EXCEPT !.outcome = o], OnItem("link", i, {r})>>)
    BY <1>8 DEF IngestWorkflowRun
  <2> DEFINE b == OnItem("record", i, {r})
             c == [b EXCEPT !.outcome = o]
             d == OnItem("link", i, {r})
  <2>2. b \in Call /\ b.op = "record" /\ b.adds = {r} /\ d \in Call /\ d.adds = {r} /\ d.op = "link"
    BY <1>a, Calls DEF Link
  <2> HIDE DEF b, d
  <2>3. c \in Call /\ c.op = "record" /\ c.adds = d.adds
    BY <2>2, CallVariants
  <2> HIDE DEF c
  <2>4. <<c, d>> \in Seq(Call) /\ <<c, d>> # <<>> /\ CallsFed(<<c, d>>, There)
    BY <2>2, <2>3, RecordThenLink
  <2>5. Ordered(<<c, d>>) /\ \A n \in DOMAIN <<c, d>> : << c, d >>[n].op # "manifest"
    BY <2>2, <2>3 DEF Ordered
  <2> QED BY <2>1, <2>4, <2>5 DEF GivesWell, b, c, d
<1>9. CASE CreateRecord(p)
  <2>1. PICK i \in Item, r \in Record, o \in Outcome :
          Give(p, <<[OnItem("record", i, {r}) EXCEPT !.outcome = o]>>)
    BY <1>9 DEF CreateRecord
  <2> DEFINE c == OnItem("record", i, {r})
             d == [c EXCEPT !.outcome = o]
  <2>2. c \in Call /\ c.op = "record"
    BY <1>a, Calls DEF Link
  <2> HIDE DEF c
  <2>3. d \in Call /\ d.op = "record"
    BY <2>2, CallVariants
  <2> QED BY <2>1, <2>3, OneCall DEF c
<1> QED BY <1>1, <1>2, <1>3, <1>4, <1>5, <1>6, <1>7, <1>8, <1>9 DEF Command

-----------------------------------------------------------------------------
(* The steps of a command.  What it has in its hands.                      *)
LEMMA InHand ==
  ASSUME IInv, NEW p \in Proc, ~At(p, "idle")
  PROVE  /\ job[p] \in Job /\ job[p].calls \in Seq(Call) /\ job[p].calls # <<>>
         /\ CallsFed(job[p].calls, There)
         /\ Now(p) \in Call /\ Now(p).item \in Item /\ Where(p) \in Place
         /\ Now(p).op \in {"transition", "link"} => Record \cap Now(p).adds \subseteq There
<1>1. job[p] \in Job /\ JobFine(job[p], There)
  BY DEF IInv, TypeOK
<1>2. job[p].calls \in Seq(Call) /\ job[p].calls # <<>> /\ CallsFed(job[p].calls, There)
  BY <1>1 DEF Job, JobFine, Busy, At
<1>3. Now(p) = job[p].calls[1] /\ 1 \in DOMAIN job[p].calls /\ Now(p) \in Call
  BY <1>2 DEF Now
<1>4. Now(p).op \in {"transition", "link"} => Record \cap Now(p).adds \subseteq There
  BY <1>2, <1>3 DEF CallsFed, Fed
<1>5. Where(p) \in Place
  <2>1. job[p].root \in 1..4
    BY <1>1 DEF Job
  <2> QED BY <2>1 DEF Where, Roots, Place
<1> QED BY <1>1, <1>2, <1>3, <1>4, <1>5 DEF Call

(* What it has read.                                                       *)
LEMMA WhatWasRead ==
  ASSUME IInv, NEW p \in Proc, Reading(p)
  PROVE  Read(p) \in Doc /\ DocKnown(Read(p), There) /\ ~At(p, "idle")
<1>1. ~At(p, "idle")
  BY DEF Reading, At
<1> DEFINE f == file[Now(p).item][Where(p)]
<1>2. f \in File /\ f # Absent /\ (f.kind = "doc" => DocKnown(f.doc, There))
  BY <1>1, InHand DEF Reading, IInv, TypeOK, WorldOK, FilesKnown
<1>3. Read(p) = Content(f)
  BY DEF Read
<1> HIDE DEF f
<1>4. Read(p) \in Doc
  BY <1>2, <1>3, Files
<1>5. DocKnown(Read(p), There)
  <2>1. CASE f = Truncated
    BY <1>3, <2>1 DEF Content, DocKnown, Blank
  <2>2. CASE f # Truncated
    BY <1>2, <1>3, <2>2 DEF Content, File
  <2> QED BY <2>1, <2>2
<1> QED BY <1>1, <1>4, <1>5

(* A step that leaves the disk alone and ends the command.                 *)
LEMMA ThrowKeepsInv ==
  ASSUME IInv, NEW p \in Proc, job' = [job EXCEPT ![p] = Idle], UNCHANGED disk, WorldOK'
  PROVE  IInv'
BY IdleIsJob, AdvanceOnly

(* A step that leaves the disk alone and goes on with other calls.         *)
LEMMA ProceedKeepsInv ==
  ASSUME IInv, NEW p \in Proc, NEW calls \in Seq(Call), CallsFed(calls, There),
         Proceed(p, calls), UNCHANGED disk, WorldOK'
  PROVE  IInv'
BY GoesOn, AdvanceOnly

(* What is not written or claimed keeps its type.                          *)
LEMMA StillWorld ==
  ASSUME IInv, UNCHANGED <<disk, world, given>>, UNCHANGED history
  PROVE  WorldOK'
BY DEF IInv, TypeOK, WorldOK, disk, world, history

(* A call keeps the document it will write.                                *)
LEMMA KeepKeepsInv ==
  ASSUME IInv, NEW p \in Proc, Reading(p), NEW d \in Doc, DocKnown(d, There), Keep(p, d)
  PROVE  IInv'
<1> DEFINE j == [job[p] EXCEPT !.pc = "write", !.doc = d]
<1>1. job[p] \in Job /\ ~At(p, "idle") /\ JobFine(job[p], There)
  BY WhatWasRead DEF IInv, TypeOK
<1>2. job' = [job EXCEPT ![p] = j] /\ UNCHANGED <<disk, world, given>> /\ UNCHANGED history
  BY <1>1 DEF Keep, IInv, TypeOK
<1>3. j \in Job /\ JobFine(j, There)
  BY <1>1 DEF Job, JobFine, Busy, Unlinking, At
<1> HIDE DEF j
<1>4. WorldOK' /\ UNCHANGED disk
  BY <1>2, StillWorld
<1> QED BY <1>2, <1>3, <1>4, AdvanceOnly

(* The search.                                                             *)
LEMMA SearchKeepsInv ==
  ASSUME IInv, NEW p \in Proc, Found(p) \/ Missed(p) \/ Vanished(p)
  PROVE  IInv'
<1>1. CASE Found(p)
  <2> DEFINE j == [job[p] EXCEPT !.pc = "read"]
  <2>1. job[p] \in Job /\ JobFine(job[p], There) /\ job[p].pc = "look"
    BY <1>1 DEF Found, At, IInv, TypeOK
  <2>2. job' = [job EXCEPT ![p] = j] /\ UNCHANGED <<disk, world, given>> /\ UNCHANGED history
    BY <1>1, <2>1 DEF Found, IInv, TypeOK
  <2>3. j \in Job /\ JobFine(j, There)
    BY <2>1 DEF Job, JobFine, Busy, Unlinking
  <2> HIDE DEF j
  <2> QED BY <2>2, <2>3, StillWorld, AdvanceOnly
<1>2. CASE Missed(p)
  <2>1. UNCHANGED <<disk, world, given>> /\ UNCHANGED history
    BY <1>2 DEF Missed, Throw
  <2>2. CASE Throw(p)
    BY <2>1, <2>2, StillWorld, ThrowKeepsInv DEF Throw
  <2>3. CASE ~Throw(p)
    <3> DEFINE b == file[Now(p).item][Roots[job[p].root + 1]] # Absent
               j == [job[p] EXCEPT !.root = job[p].root + 1, !.listed = b]
    <3>1. job[p] \in Job /\ JobFine(job[p], There) /\ job[p].pc = "look"
      BY <1>2 DEF Missed, At, IInv, TypeOK
    <3>2. job[p].root # 4 /\ job' = [job EXCEPT ![p] = j]
      BY <1>2, <2>3, <3>1 DEF Missed, IInv, TypeOK
    <3> HIDE DEF b
    <3>3. b \in BOOLEAN
      BY DEF b
    <3>4. j \in Job /\ JobFine(j, There)
      <4>1. job[p].root + 1 \in 1..4
        BY <3>1, <3>2 DEF Job
      <4>2. j \in Job
        BY <3>1, <3>3, <4>1 DEF Job
      <4>3. j.pc = "look" /\ j.calls = job[p].calls /\ j.doc = job[p].doc
        BY <3>1 DEF Job
      <4> QED BY <3>1, <4>2, <4>3 DEF JobFine, Busy, Unlinking
    <3> HIDE DEF j
    <3> QED BY <2>1, <3>2, <3>4, StillWorld, AdvanceOnly
  <2> QED BY <2>2, <2>3
<1>3. CASE Vanished(p)
  BY <1>3, StillWorld, ThrowKeepsInv DEF Vanished, Throw
<1> QED BY <1>1, <1>2, <1>3

(* A reading that is edited, checked for finalization, or followed by other*)
(* calls.                                                                  *)
LEMMA ReadingKeepsInv ==
  ASSUME IInv, NEW p \in Proc,
         \/ ReadToEdit(p) \/ ReadToFinalize(p) \/ ReadToClose(p)
         \/ ReadToRecord(p) \/ ReadToReconcile(p)
  PROVE  IInv'
<1> DEFINE c == Now(p)
           d == Read(p)
<1>1. Reading(p)
  BY DEF ReadToEdit, ReadToFinalize, ReadToClose, ReadToRecord, ReadToReconcile
<1>2. /\ d \in Doc /\ DocKnown(d, There) /\ c \in Call /\ c.item \in Item
      /\ c.op \in {"transition", "link"} => Record \cap c.adds \subseteq There
      /\ job[p].calls \in Seq(Call) /\ job[p].calls # <<>> /\ CallsFed(job[p].calls, There)
  BY <1>1, WhatWasRead, InHand
<1> HIDE DEF d
<1>3. CASE ReadToEdit(p)
  <2>1. CASE c.op = "link" /\ Keep(p, Linked(d, c.adds))
    <3>1. Linked(d, c.adds) \in Doc /\ DocKnown(Linked(d, c.adds), There)
      BY <1>2, <2>1 DEF Linked, Doc, DocKnown, Call
    <3> QED BY <1>1, <2>1, <3>1, KeepKeepsInv
  <2>2. CASE c.op = "commit" /\ Keep(p, Committed(d, c.adds))
    <3>1. Committed(d, c.adds) \in Doc /\ DocKnown(Committed(d, c.adds), There)
      BY <1>2 DEF Committed, Doc, DocKnown, Call
    <3> QED BY <1>1, <2>2, <3>1, KeepKeepsInv
  <2>3. CASE c.op = "transition" /\ Keep(p, Moved(d, c))
    <3>1. Linked(d, c.adds) \in Doc /\ DocKnown(Linked(d, c.adds), There)
      BY <1>2, <2>3 DEF Linked, Doc, DocKnown, Call
    <3>2. Moved(d, c) \in Doc /\ DocKnown(Moved(d, c), There)
      <4> DEFINE e == Linked(d, c.adds)
      <4> HIDE DEF e
      <4>1. Moved(d, c) = [e EXCEPT !.status = c.status,
              !.life = IF c.status = "draft" THEN "draft" ELSE "active",
              !.actual = @ \/ c.actual]
        BY DEF Moved, e
      <4>2. e \in Doc /\ DocKnown(e, There) /\ c.status \in Status /\ c.actual \in BOOLEAN
        BY <1>2, <3>1 DEF Call, e
      <4>3. Moved(d, c) \in Doc /\ Moved(d, c).links = e.links
        BY <4>1, <4>2 DEF Doc
      <4> QED BY <4>2, <4>3 DEF DocKnown
    <3> QED BY <1>1, <2>3, <3>2, KeepKeepsInv
  <2> QED BY <1>3, <2>1, <2>2, <2>3 DEF ReadToEdit, d
<1>4. CASE ReadToFinalize(p)
  <2>1. CASE Finalizable(d, c)
    <3> DEFINE e == [d EXCEPT !.life = "inactive", !.actual = TRUE]
    <3>1. e \in Doc /\ DocKnown(e, There)
      BY <1>2 DEF Doc, DocKnown
    <3> QED BY <1>1, <1>4, <2>1, <3>1, KeepKeepsInv DEF ReadToFinalize, d
  <2>2. CASE ~Finalizable(d, c)
    BY <1>4, <2>2, StillWorld, ThrowKeepsInv DEF ReadToFinalize, Throw, d
  <2> QED BY <2>1, <2>2
<1>5. job[p].calls \in Seq(Call) /\ Rest(p) = Tail(job[p].calls) /\ c = Head(job[p].calls)
  BY <1>2 DEF Rest, Now
<1>6. CASE ReadToClose(p)
  <2>1. UNCHANGED disk /\ WorldOK'
    BY <1>6, StillWorld DEF ReadToClose, Proceed, history
  <2>2. Rest(p) \in Seq(Call) /\ CallsFed(Rest(p), There)
    BY <1>2, <1>5, <1>6, RestIsFed DEF ReadToClose
  <2> DEFINE f == OnItem("finalize", c.item, {})
             calls == IF d.links \cap Record # {} /\ d.actual
                        THEN <<f>> \o Rest(p) ELSE Rest(p)
  <2>3. f \in Call /\ f.op = "finalize"
    BY <1>2, Calls DEF Op
  <2> HIDE DEF f
  <2>4. calls \in Seq(Call) /\ CallsFed(calls, There)
    BY <2>2, <2>3, FrontIsFed
  <2>5. Proceed(p, calls)
    BY <1>6 DEF ReadToClose, f, d
  <2> HIDE DEF calls
  <2> QED BY <2>1, <2>4, <2>5, ProceedKeepsInv
<1>7. CASE ReadToRecord(p)
  <2>1. CASE Proceed(p, EvidenceCalls(c)) /\ UNCHANGED accepted
    <3>1. UNCHANGED disk /\ WorldOK'
      BY <1>7, <2>1, StillWorld DEF ReadToRecord, Proceed, history
    <3> DEFINE x == c.adds \cap Record
               r == OnItem("record", c.item, x)
               l == OnItem("link", c.item, x)
    <3>2. r \in Call /\ l \in Call /\ r.op = "record" /\ l.adds = r.adds
      BY <1>2, Calls DEF Op, Link
    <3>3. EvidenceCalls(c) = <<r, l>>
      BY DEF EvidenceCalls
    <3> HIDE DEF r, l
    <3>4. <<r, l>> \in Seq(Call) /\ CallsFed(<<r, l>>, There)
      BY <3>2, RecordThenLink
    <3> QED BY <2>1, <3>1, <3>3, <3>4, ProceedKeepsInv
  <2>2. CASE Throw(p)
    BY <1>7, <2>2, StillWorld, ThrowKeepsInv DEF ReadToRecord, Throw
  <2> QED BY <1>7, <2>1, <2>2 DEF ReadToRecord
<1>8. CASE ReadToReconcile(p)
  <2>1. CASE Proceed(p, ReconcileCalls(c)) /\ UNCHANGED accepted
    <3>1. UNCHANGED disk /\ WorldOK'
      BY <1>8, <2>1, StillWorld DEF ReadToReconcile, Proceed, history
    <3> DEFINE t == [c EXCEPT !.op = "transition", !.adds = {}]
               m == [c EXCEPT !.op = "manifest"]
    <3>2. t \in Call /\ t.adds = {} /\ m \in Call /\ m.op = "manifest"
      BY <1>2 DEF Call, Op
    <3> DEFINE rest == IF c.op = "reconcile" THEN <<m>> ELSE <<>>
    <3>3. ReconcileCalls(c) = <<t>> \o rest
      BY DEF ReconcileCalls
    <3> HIDE DEF t
    <3>4. rest \in Seq(Call) /\ CallsFed(rest, There) /\ \A n \in DOMAIN rest : rest[n].op = "manifest"
      <4> HIDE DEF m
      <4> QED BY <3>2 DEF CallsFed
    <3> HIDE DEF rest
    <3>5. ReconcileCalls(c) \in Seq(Call) /\ CallsFed(ReconcileCalls(c), There)
      <4> DEFINE all == <<t>> \o rest
      <4>1. /\ all \in Seq(Call) /\ all[1] = t /\ Len(rest) \in Nat
            /\ DOMAIN all = 1..(Len(rest) + 1) /\ DOMAIN rest = 1..Len(rest)
            /\ \A k \in 1..Len(rest) : all[k + 1] = rest[k]
        BY <3>2, <3>4
      <4> HIDE DEF all
      <4>2. ASSUME NEW n \in DOMAIN all, all[n].op \in {"transition", "link"}
            PROVE  all[n].adds = {}
        <5>1. CASE n = 1
          BY <3>2, <4>1, <5>1
        <5>2. CASE n # 1
          <6>1. n - 1 \in DOMAIN rest /\ all[n] = rest[n - 1]
            BY <4>1, <5>2
          <6> QED BY <3>4, <4>2, <6>1
        <5> QED BY <5>1, <5>2
      <4>3. CallsFed(all, There)
        BY <4>2 DEF CallsFed, Fed
      <4> QED BY <3>3, <4>1, <4>3 DEF all
    <3> QED BY <2>1, <3>1, <3>5, ProceedKeepsInv
  <2>2. CASE Throw(p)
    BY <1>8, <2>2, StillWorld, ThrowKeepsInv DEF ReadToReconcile, Throw
  <2> QED BY <1>8, <2>1, <2>2 DEF ReadToReconcile
<1> QED BY <1>3, <1>4, <1>6, <1>7, <1>8

(* A path of an item gets other content: the other paths keep theirs.      *)
LEMMA OneFile ==
  ASSUME IInv, NEW i \in Item, NEW pl \in Place, NEW f \in File,
         f.kind = "doc" => DocKnown(f.doc, There),
         file' = [file EXCEPT ![i][pl] = f], UNCHANGED records
  PROVE  file' \in [Item -> [Place -> File]] /\ There' = There /\ FilesKnown'
<1>1. file \in [Item -> [Place -> File]]
  BY DEF IInv, TypeOK, WorldOK
<1>2. There' = There
  BY DEF There
<1>3. file' \in [Item -> [Place -> File]]
  BY <1>1
<1>4. ASSUME NEW k \in Item, NEW q \in Place, file'[k][q].kind = "doc"
      PROVE  DocKnown(file'[k][q].doc, There)
  <2>1. CASE k = i /\ q = pl
    <3>1. file'[k][q] = f
      BY <1>1, <2>1
    <3> QED BY <1>4, <3>1
  <2>2. CASE ~(k = i /\ q = pl)
    <3>1. file'[k][q] = file[k][q]
      BY <1>1, <2>2
    <3> QED BY <1>4, <3>1 DEF IInv, FilesKnown
  <2> QED BY <2>1, <2>2
<1> QED BY <1>2, <1>3, <1>4 DEF FilesKnown

(* A record's file is written: what was there still is.                    *)
LEMMA OneRecord ==
  ASSUME IInv, NEW x, NEW o \in {"empty"} \cup Outcome,
         records' = [r \in Record |-> IF r \in x THEN o ELSE records[r]], UNCHANGED file
  PROVE  /\ records' \in [Record -> {"none", "empty"} \cup Outcome]
         /\ There \subseteq There' /\ Record \cap x \subseteq There' /\ FilesKnown'
<1>1. records' \in [Record -> {"none", "empty"} \cup Outcome]
  BY DEF IInv, TypeOK, WorldOK
<1>2. There \subseteq There' /\ Record \cap x \subseteq There'
  BY DEF There, Outcome
<1>3. FilesKnown'
  BY <1>2 DEF IInv, FilesKnown, DocKnown
<1> QED BY <1>1, <1>2, <1>3

(* Where a call writes.                                                    *)
LEMMA TargetIsPlace ==
  ASSUME IInv, NEW p \in Proc, ~At(p, "idle")
  PROVE  Target(p) \in Place
BY InHand DEF Target, Place

(* The first half of a write.                                              *)
LEMMA TruncateKeepsInv ==
  ASSUME IInv, NEW p \in Proc, Truncate(p)
  PROVE  IInv'
<1> DEFINE j == [job[p] EXCEPT !.pc = "store"]
<1>1. job[p] \in Job /\ JobFine(job[p], There) /\ job[p].pc = "write" /\ ~At(p, "idle")
  BY DEF Truncate, At, IInv, TypeOK
<1>2. job' = [job EXCEPT ![p] = j] /\ UNCHANGED <<manifests, world, given, history>>
  BY <1>1 DEF Truncate, IInv, TypeOK
<1>3. j \in Job /\ \A there : JobFine(job[p], there) => JobFine(j, there)
  BY <1>1 DEF Job, JobFine, Busy, Unlinking
<1> HIDE DEF j
<1>4. CASE Does(p, "record")
  <2>1. /\ records' = [r \in Record |-> IF r \in Now(p).adds THEN "empty" ELSE records[r]]
        /\ UNCHANGED file
    BY <1>4 DEF Truncate
  <2>2. /\ records' \in [Record -> {"none", "empty"} \cup Outcome]
        /\ There \subseteq There' /\ FilesKnown'
    BY <2>1, OneRecord
  <2>3. JobFine(j, There')
    BY <1>1, <1>3, <2>2, FineStaysFine
  <2>4. WorldOK'
    BY <1>2, <2>1, <2>2 DEF IInv, TypeOK, WorldOK, world, history
  <2> QED BY <1>2, <1>3, <2>2, <2>3, <2>4, Advance
<1>5. CASE ~Does(p, "record")
  <2>1. file' = [file EXCEPT ![Now(p).item][Target(p)] = Truncated] /\ UNCHANGED records
    BY <1>5 DEF Truncate
  <2>2. Now(p).item \in Item /\ Target(p) \in Place
    BY <1>1, InHand, TargetIsPlace
  <2>3. file' \in [Item -> [Place -> File]] /\ There' = There /\ FilesKnown'
    BY <2>1, <2>2, Files, OneFile
  <2>4. WorldOK'
    BY <1>2, <2>1, <2>3 DEF IInv, TypeOK, WorldOK, world, history
  <2> QED BY <1>1, <1>2, <1>3, <2>3, <2>4, Advance
<1> QED BY <1>4, <1>5

(* The second half, of a document.                                         *)
LEMMA StoreDocKeepsInv ==
  ASSUME IInv, NEW p \in Proc, StoreDoc(p)
  PROVE  IInv'
<1> DEFINE i == Now(p).item
           d == job[p].doc
<1>1. /\ job[p] \in Job /\ JobFine(job[p], There) /\ job[p].pc = "store" /\ ~At(p, "idle")
      /\ i \in Item /\ Target(p) \in Place
      /\ job[p].calls \in Seq(Call) /\ job[p].calls # <<>> /\ CallsFed(job[p].calls, There)
  BY InHand, TargetIsPlace DEF StoreDoc, At, IInv, TypeOK
<1>2. d \in Doc /\ DocKnown(d, There)
  BY <1>1 DEF Job, JobFine
<1>3. /\ file' = [file EXCEPT ![i][Target(p)] = Holds(d)]
      /\ accepted' = [accepted EXCEPT ![i].links = @ \cup d.links, ![i].commits = @ \cup d.commits]
      /\ UNCHANGED <<records, manifests, world, given>> /\ UNCHANGED <<overlap, hurt>>
  BY DEF StoreDoc, Proceed
<1> HIDE DEF i, d
<1>4. file' \in [Item -> [Place -> File]] /\ There' = There /\ FilesKnown'
  BY <1>1, <1>2, <1>3, Files, OneFile
<1>5. accepted' \in [Item -> [links : SUBSET Link, commits : SUBSET Link]]
  BY <1>1, <1>2, <1>3 DEF IInv, TypeOK, WorldOK, Doc
<1>6. WorldOK'
  BY <1>3, <1>4, <1>5 DEF IInv, TypeOK, WorldOK, world
<1>7. CASE Does(p, "finalize") /\ job' = [job EXCEPT ![p].pc = "unlink"]
  <2> DEFINE j == [job[p] EXCEPT !.pc = "unlink"]
  <2>1. job' = [job EXCEPT ![p] = j]
    BY <1>1, <1>7 DEF IInv, TypeOK
  <2>2. j \in Job /\ JobFine(j, There)
    BY <1>1, <1>7 DEF Job, JobFine, Busy, Unlinking, Does, Now
  <2> HIDE DEF j
  <2> QED BY <1>4, <1>6, <2>1, <2>2, Advance
<1>8. CASE Proceed(p, Rest(p))
  <2>1. Head(job[p].calls).op # "record"
    BY <1>1 DEF StoreDoc, Does, Now
  <2>2. Rest(p) \in Seq(Call) /\ CallsFed(Rest(p), There)
    BY <1>1, <2>1, RestIsFed DEF Rest
  <2> QED BY <1>4, <1>6, <1>8, <2>2, GoesOn, Advance
<1> QED BY <1>7, <1>8 DEF StoreDoc

(* The second half, of a record: from now on it can be linked.             *)
LEMMA StoreRecordKeepsInv ==
  ASSUME IInv, NEW p \in Proc, StoreRecord(p)
  PROVE  IInv'
<1>1. /\ job[p].calls \in Seq(Call) /\ job[p].calls # <<>> /\ CallsFed(job[p].calls, There)
      /\ Now(p) \in Call /\ Now(p) = Head(job[p].calls)
  BY InHand DEF StoreRecord, At, Now
<1>2. /\ records' = [r \in Record |-> IF r \in Now(p).adds THEN Now(p).outcome ELSE records[r]]
      /\ Proceed(p, Rest(p)) /\ UNCHANGED <<file, manifests, world, given, accepted>>
  BY DEF StoreRecord
<1>3. /\ records' \in [Record -> {"none", "empty"} \cup Outcome]
      /\ There \subseteq There' /\ Record \cap Now(p).adds \subseteq There' /\ FilesKnown'
  <2>1. Now(p).outcome \in {"empty"} \cup Outcome
    BY <1>1 DEF Call
  <2> QED BY <1>2, <2>1, OneRecord
<1>4. WorldOK'
  BY <1>2, <1>3 DEF IInv, TypeOK, WorldOK, world, Proceed
<1>5. CallsFed(job[p].calls, There')
  BY <1>1, <1>3 DEF CallsFed, Fed
<1>6. Rest(p) \in Seq(Call) /\ CallsFed(Rest(p), There')
  <2> HIDE DEF There
  <2> QED BY <1>1, <1>3, <1>5, RestIsFed DEF Rest
<1>7. CASE Rest(p) = <<>>
  BY <1>2, <1>3, <1>4, <1>7, IdleIsJob, Advance DEF Proceed
<1>8. CASE Rest(p) # <<>>
  <2>1. job' = [job EXCEPT ![p] = Starting(Rest(p))]
    BY <1>2, <1>8 DEF Proceed
  <2>2. Starting(Rest(p)) \in Job
    BY <1>6, <1>8, Documents DEF Starting, Job
  <2>3. JobFine(Starting(Rest(p)), There')
    BY <1>6, <1>8 DEF Starting, JobFine, Busy, Unlinking, DocKnown, Blank
  <2> QED BY <1>3, <1>4, <2>1, <2>2, <2>3, Advance
<1> QED BY <1>7, <1>8

(* The active file of a finalized item goes.                               *)
LEMMA UnlinkKeepsInv ==
  ASSUME IInv, NEW p \in Proc, Unlink(p)
  PROVE  IInv'
<1>1. /\ job[p].calls \in Seq(Call) /\ job[p].calls # <<>> /\ CallsFed(job[p].calls, There)
      /\ Now(p).item \in Item /\ JobFine(job[p], There) /\ job[p].pc = "unlink"
  BY InHand DEF Unlink, At, IInv, TypeOK
<1>2. CASE Throw(p) /\ UNCHANGED disk
  BY <1>2, StillWorld, ThrowKeepsInv DEF Unlink, Throw
<1>3. CASE ~(Throw(p) /\ UNCHANGED disk)
  <2>1. /\ file' = [file EXCEPT ![Now(p).item]["active"] = Absent] /\ Proceed(p, Rest(p))
        /\ UNCHANGED <<records, manifests, accepted>> /\ UNCHANGED <<world, given>>
    BY <1>3 DEF Unlink
  <2>2. file' \in [Item -> [Place -> File]] /\ There' = There /\ FilesKnown'
    BY <1>1, <2>1, Files, OneFile DEF Place
  <2>3. WorldOK'
    BY <2>1, <2>2 DEF IInv, TypeOK, WorldOK, world, Proceed
  <2>4. Rest(p) \in Seq(Call) /\ CallsFed(Rest(p), There)
    BY <1>1, RestIsFed DEF Rest, JobFine, Unlinking
  <2> QED BY <2>1, <2>2, <2>3, <2>4, GoesOn, Advance
<1> QED BY <1>2, <1>3

(* The manifest of a historical merge.                                     *)
LEMMA ManifestKeepsInv ==
  ASSUME IInv, NEW p \in Proc, RecordManifest(p)
  PROVE  IInv'
<1>1. /\ job[p].calls \in Seq(Call) /\ job[p].calls # <<>> /\ CallsFed(job[p].calls, There)
      /\ Now(p).item \in Item /\ Head(job[p].calls).op = "manifest"
  BY InHand DEF RecordManifest, At, Does, Now
<1>2. /\ manifests' = manifests \cup {Now(p).item} /\ Proceed(p, Rest(p))
      /\ UNCHANGED <<file, records, world, given, accepted>>
  BY DEF RecordManifest
<1>3. WorldOK' /\ FilesKnown' /\ There' = There
  BY <1>1, <1>2 DEF IInv, TypeOK, WorldOK, FilesKnown, There, world, Proceed
<1>4. Rest(p) \in Seq(Call) /\ CallsFed(Rest(p), There)
  BY <1>1, RestIsFed DEF Rest
<1> QED BY <1>2, <1>3, <1>4, GoesOn, Advance

(* A kill, and the world around.                                           *)
LEMMA KilledKeepsInv ==
  ASSUME IInv, NEW p \in Proc, Killed(p)
  PROVE  IInv'
<1>1. Now(p).item \in Item
  BY InHand DEF Killed
<1>2. UNCHANGED <<disk, world, given, accepted, overlap>> /\ hurt' \subseteq Item
  BY <1>1 DEF Killed, IInv, TypeOK, WorldOK
<1>3. WorldOK'
  BY <1>2 DEF IInv, TypeOK, WorldOK, disk, world
<1> QED BY <1>2, <1>3, ThrowKeepsInv DEF Killed

(* So do the end of a claim and the merge of a pull request.               *)
LEMMA WorldKeepsInv ==
  ASSUME IInv, (\E i \in Item : ClaimEnds(i)) \/ (\E pr \in PR : Merge(pr))
  PROVE  IInv'
<1>1. UNCHANGED <<disk, job, given>> /\ UNCHANGED history
      /\ claimed' \subseteq Item /\ merged' \subseteq PR
  BY DEF ClaimEnds, Merge, IInv, TypeOK, WorldOK, disk, history
<1>2. There' = There
  BY <1>1 DEF There, disk
<1> QED BY <1>1, <1>2 DEF IInv, TypeOK, WorldOK, FilesKnown, disk, history

(* The invariant holds at the start and is kept by every step.             *)
LEMMA InitInv == Init => IInv
<1> SUFFICES ASSUME Init PROVE IInv
  OBVIOUS
<1>1. PICK d \in [Item -> {New, Ripe}] :
        /\ file = [i \in Item |-> [active |-> Holds(d[i]), archive |-> Absent]]
        /\ records = [r \in Record |-> IF \E i \in Item : d[i] = Ripe THEN "pass" ELSE "none"]
        /\ accepted = [i \in Item |-> Written(d[i])]
  BY DEF Init
<1>2. ASSUME NEW i \in Item
      PROVE  /\ d[i] \in Doc /\ Holds(d[i]) \in File /\ Absent \in File
             /\ Written(d[i]) \in [links : SUBSET Link, commits : SUBSET Link]
  <2>1. d[i] \in Doc
    BY Documents
  <2>2. Written(d[i]) \in [links : SUBSET Link, commits : SUBSET Link]
    BY <2>1 DEF Written, Doc
  <2> QED BY <2>1, <2>2, Files
<1>3. file \in [Item -> [Place -> File]]
  BY <1>1, <1>2 DEF Place
<1>4. WorldOK
  BY <1>1, <1>2, <1>3 DEF WorldOK, Init, Outcome
<1>5. ASSUME NEW i \in Item, NEW pl \in Place, file[i][pl].kind = "doc"
      PROVE  DocKnown(file[i][pl].doc, There)
  <2>1. file[i][pl] = Holds(d[i])
    BY <1>1, <1>5, Files DEF Place
  <2>2. file[i][pl].doc = d[i]
    BY <1>2, <2>1, Files
  <2>3. CASE d[i] = New
    BY <2>2, <2>3 DEF DocKnown, New, Blank
  <2>4. CASE d[i] = Ripe
    BY <1>1, <2>2, <2>4 DEF DocKnown, There
  <2> QED BY <2>2, <2>3, <2>4
<1>6. job \in [Proc -> Job] /\ \A p \in Proc : JobFine(job[p], There)
  BY IdleIsJob DEF Init
<1> QED BY <1>4, <1>5, <1>6 DEF IInv, TypeOK, FilesKnown

(* Every step keeps it.                                                    *)
LEMMA NextKeepsInv == IInv /\ [Next]_vars => IInv'
<1> SUFFICES ASSUME IInv, [Next]_vars PROVE IInv'
  OBVIOUS
<1>1. CASE UNCHANGED vars
  BY <1>1 DEF IInv, TypeOK, WorldOK, FilesKnown, There, vars, disk, world, history
<1>2. ASSUME NEW p \in Proc, Command(p) \/ Step(p) \/ Killed(p) PROVE IInv'
  <2>1. CASE Command(p)
    BY <2>1, CommandsGiveWell, GiveKeepsInv DEF GivesWell
  <2>2. CASE Step(p)
    BY <2>2, SearchKeepsInv, ReadingKeepsInv, TruncateKeepsInv, StoreDocKeepsInv,
       StoreRecordKeepsInv, UnlinkKeepsInv, ManifestKeepsInv DEF Step
  <2>3. CASE Killed(p)
    BY <2>3, KilledKeepsInv
  <2> QED BY <1>2, <2>1, <2>2, <2>3
<1> QED BY <1>1, <1>2, WorldKeepsInv DEF Next

(* It holds in every execution.                                            *)
LEMMA Invariance == Spec => []IInv
BY InitInv, NextKeepsInv, PTL DEF Spec

(* The files, the records and the commands keep their types.               *)
THEOREM WorkItemTypes == Spec => []TypeOK
<1>1. IInv => TypeOK
  BY DEF IInv
<1> QED BY <1>1, Invariance, PTL

(* No work item ever points to an evidence record whose file is not there, *)
(* whichever commands overlap and wherever they are killed: every call that*)
(* links a record comes after the one that writes it (recordTaskEvidence,  *)
(* ingestWorkflowRun), and evidence named by hand exists.                  *)
THEOREM EvidenceIsRecorded == Spec => []EvidenceHasRecord
<1>1. IInv => EvidenceHasRecord
  BY DEF IInv, FilesKnown, DocKnown, There, EvidenceHasRecord, Readable
<1> QED BY <1>1, Invariance, PTL

-----------------------------------------------------------------------------
(* Proofs about WorkItemFiles that hold of an item on which one command at *)
(* a time has worked, none of them killed in the middle of a write to the  *)
(* item's own file: it is never lost, keeps what finished calls have put in*)
(* it, loses its active file only when it is done, and gets a manifest only*)
(* after its completion.  A command that is killed anywhere else changes   *)
(* none of this.                                                           *)

(* What a search finds, and what a copy must contain.                      *)
Finds(f) == IF Readable(f["active"]) THEN f["active"] ELSE f["archive"]
Covers(d, a) == a.links \subseteq d.links /\ a.commits \subseteq d.commits
Safe(f, a) == Readable(Finds(f)) /\ Covers(Finds(f).doc, a)

(* What finalizeWorkItem writes: m are the merged pull requests.           *)
Closed(d, m) ==
  /\ d.life = "inactive" /\ d.status = "completed" /\ d.actual
  /\ d.links \cap Record # {} /\ d.links \cap PR \subseteq m

(* The file a command has chosen is the one that a search finds.           *)
Chosen(j, f) == Readable(f["active"]) <=> Roots[j.root] = "active"

(* The document a command writes contains all that was accepted, and what  *)
(* its call asks for.                                                      *)
Prepared(j, f, a, m) == LET c == Head(j.calls) IN
  /\ j.doc.id /\ Covers(j.doc, a)
  /\ c.op = "transition" => j.doc.status = c.status
  /\ c.op = "finalize" => Closed(j.doc, m)
  /\ c.op = "finalize" /\ Roots[j.root] = "active" =>
       Readable(f["active"]) /\ Covers(f["active"].doc, j.doc)

(* What holds of a command's item at each of its steps: f is the item's    *)
(* files, a what was accepted.                                             *)
Phase(j, f, a, m) == LET c == Head(j.calls) IN
  /\ j.pc = "look" /\ j.root >= 3 => ~Readable(f["active"])
  /\ j.pc = "read" => Chosen(j, f)
  /\ j.pc = "write" /\ c.op \notin {"record", "manifest"} =>
       Chosen(j, f) /\ Prepared(j, f, a, m)
  /\ j.pc = "store" /\ c.op # "record" =>
       /\ Prepared(j, f, a, m)
       /\ Roots[j.root] = "archive" => ~Readable(f["active"])
  /\ j.pc = "unlink" =>
       /\ Readable(f["archive"]) /\ Covers(f["archive"].doc, a)
       /\ Closed(f["archive"].doc, m) /\ a.links \cap Record # {}
  /\ c.op = "manifest" => Finds(f).doc.status = "completed"

(* A command has truncated the only copy of its item.                      *)
InPlace(j) ==
  /\ j.pc = "store" /\ Head(j.calls).op # "record"
  /\ ~(Head(j.calls).op = "finalize" /\ Roots[j.root] = "active")

On(j, i) == j.pc # "idle" /\ Head(j.calls).item = i
SoleFine(i) ==
  /\ \A p, q \in Proc : Works(p, i) /\ Works(q, i) => p = q
  /\ \A p \in Proc : On(job[p], i) => Phase(job[p], file[i], accepted[i], merged)
  /\ Safe(file[i], accepted[i]) \/ \E p \in Proc : On(job[p], i) /\ InPlace(job[p])

SInv ==
  /\ \A p \in Proc : Ordered(job[p].calls)
  /\ \A i \in Item : Sole(i) => SoleFine(i)

-----------------------------------------------------------------------------
(* What a command works on, as its calls say.                              *)
Names(calls, i) == \E n \in DOMAIN calls : calls[n].item = i

(* The calls after the one that ended.                                     *)
LEMMA OrderedRest ==
  ASSUME NEW calls \in Seq(Call), calls # <<>>, Ordered(calls)
  PROVE  /\ Tail(calls) \in Seq(Call) /\ Ordered(Tail(calls))
         /\ \A i : Names(Tail(calls), i) => Names(calls, i)
         /\ Tail(calls) # <<>> /\ Head(Tail(calls)).op = "manifest" =>
              /\ Head(calls).op = "transition" /\ Head(calls).status = "completed"
              /\ Head(calls).item = Head(Tail(calls)).item
         /\ \A n \in DOMAIN Tail(calls) : Tail(calls)[n].op = "manifest" =>
              Head(calls).op = "transition"
<1> DEFINE rest == Tail(calls)
<1>1. /\ rest \in Seq(Call) /\ Len(calls) \in Nat /\ Len(calls) >= 1
      /\ DOMAIN calls = 1..Len(calls) /\ DOMAIN rest = 1..(Len(calls) - 1)
      /\ \A k \in 1..(Len(calls) - 1) : rest[k] = calls[k + 1] /\ k + 1 \in DOMAIN calls
      /\ Head(calls) = calls[1] /\ (rest # <<>> => Head(rest) = rest[1] /\ 1 \in DOMAIN rest)
  OBVIOUS
<1> HIDE DEF rest
<1>2. ASSUME NEW n \in DOMAIN rest, rest[n].op = "manifest"
      PROVE  /\ n = 1 /\ calls[1].op = "transition" /\ calls[1].status = "completed"
             /\ calls[1].item = calls[2].item
  <2>1. n + 1 \in DOMAIN calls /\ calls[n + 1].op = "manifest" /\ n + 1 # 1
    BY <1>1, <1>2
  <2> QED BY <1>1, <2>1 DEF Ordered
<1>3. Ordered(rest)
  <2>1. ASSUME NEW n \in DOMAIN rest, rest[n].op \in {"reconcile", "directPush"}
        PROVE  rest[n].status = "completed"
    <3>1. n + 1 \in DOMAIN calls /\ rest[n] = calls[n + 1]
      BY <1>1
    <3> QED BY <2>1, <3>1 DEF Ordered
  <2> QED BY <1>2, <2>1 DEF Ordered
<1>4. ASSUME NEW i, Names(rest, i) PROVE Names(calls, i)
  BY <1>1, <1>4 DEF Names
<1>5. ASSUME rest # <<>>, Head(rest).op = "manifest"
      PROVE  /\ Head(calls).op = "transition" /\ Head(calls).status = "completed"
             /\ Head(calls).item = Head(rest).item
  BY <1>1, <1>2, <1>5
<1> QED BY <1>1, <1>2, <1>3, <1>4, <1>5 DEF rest

(* A command that starts a call, on any item.                              *)
LEMMA StartPhase ==
  ASSUME NEW calls, NEW f, NEW a, NEW m,
         Head(calls).op = "manifest" => Finds(f).doc.status = "completed"
  PROVE  Phase(Starting(calls), f, a, m) /\ ~InPlace(Starting(calls))
BY DEF Starting, Phase, InPlace

(* The item that a command has in hand: the command alone works on it.     *)
Held(p, i) ==
  /\ Phase(job[p], file[i], accepted[i], merged)
  /\ Safe(file[i], accepted[i]) \/ InPlace(job[p])

(* No other command works on such an item.                                 *)
LEMMA HeldAlone ==
  ASSUME IInv, SInv, NEW p \in Proc, ~At(p, "idle"), Sole(Now(p).item)
  PROVE  /\ Held(p, Now(p).item)
         /\ \A q \in Proc : On(job[q], Now(p).item) => q = p
<1> DEFINE i == Now(p).item
<1>1. i \in Item /\ SoleFine(i) /\ On(job[p], i)
  BY InHand DEF SInv, On, At, Now
<1>2. ASSUME NEW q \in Proc, On(job[q], i) PROVE Works(q, i)
  <2>1. job[q].calls \in Seq(Call) /\ job[q].calls # <<>> /\ Head(job[q].calls).item = i
    BY <1>2, InHand DEF On, At
  <2>2. 1 \in DOMAIN job[q].calls /\ job[q].calls[1] = Head(job[q].calls)
    BY <2>1
  <2> QED BY <2>1, <2>2 DEF Works
<1>3. \A q \in Proc : On(job[q], i) => q = p
  BY <1>1, <1>2 DEF SoleFine
<1> QED BY <1>1, <1>3 DEF SoleFine, Held

(* One command has made a step: if it may leave its own item as it does,   *)
(* the invariant holds after it.                                           *)
LEMMA StepSole ==
  ASSUME IInv, SInv, NEW p \in Proc, ~At(p, "idle"), NEW j \in Job,
         job' = [job EXCEPT ![p] = j],
         merged' = merged, overlap' = overlap, hurt \subseteq hurt',
         Ordered(j.calls), \A i \in Item : Names(j.calls, i) => Works(p, i),
         NEW mine \in Item, mine = Now(p).item,
         \A i \in Item : i # mine =>
           /\ file'[i] = file[i] /\ accepted'[i] = accepted[i]
           /\ On(j, i) => Phase(j, file[i], accepted[i], merged),
         mine \notin hurt' /\ Held(p, mine) =>
           /\ On(j, mine) => Phase(j, file'[mine], accepted'[mine], merged)
           /\ Safe(file'[mine], accepted'[mine]) \/ (On(j, mine) /\ InPlace(j))
  PROVE  SInv'
<1>1. job[p] \in Job /\ job'[p] = j /\ \A q \in Proc \ {p} : job'[q] = job[q]
  BY DEF IInv, TypeOK
<1>2. \A q \in Proc : Ordered(job'[q].calls)
  BY <1>1 DEF SInv
<1>3. ASSUME NEW i \in Item, Sole(i)' PROVE SoleFine(i)'
  <2>1. Sole(i) /\ SoleFine(i)
    BY <1>3 DEF Sole, SInv
  <2>2. \A q \in Proc : Works(q, i)' => Works(q, i)
    BY <1>1 DEF Works, Names
  <2>3. \A q, r \in Proc : Works(q, i)' /\ Works(r, i)' => q = r
    BY <2>1, <2>2 DEF SoleFine
  <2>4. CASE i = mine
    <3>1. Held(p, mine) /\ \A q \in Proc : On(job[q], mine) => q = p
      BY <2>1, <2>4, HeldAlone
    <3>2. /\ On(j, i) => Phase(j, file'[i], accepted'[i], merged)
          /\ Safe(file'[i], accepted'[i]) \/ (On(j, i) /\ InPlace(j))
      BY <1>3, <2>4, <3>1 DEF Sole
    <3>3. \A q \in Proc : On(job'[q], i) => q = p
      BY <1>1, <2>4, <3>1
    <3> QED BY <1>1, <2>3, <3>2, <3>3 DEF SoleFine
  <2>5. CASE i # mine
    <3>1. file'[i] = file[i] /\ accepted'[i] = accepted[i]
      BY <2>5
    <3>2. ASSUME NEW q \in Proc, On(job'[q], i)
          PROVE  Phase(job'[q], file[i], accepted[i], merged)
      BY <1>1, <2>1, <2>5, <3>2 DEF SoleFine
    <3>3. ASSUME NEW q \in Proc, On(job[q], i) PROVE q # p /\ On(job'[q], i)
      BY <1>1, <2>5, <3>3 DEF On, Now
    <3>4. \/ Safe(file[i], accepted[i])
          \/ \E q \in Proc : On(job'[q], i) /\ InPlace(job'[q])
      BY <1>1, <2>1, <3>3 DEF SoleFine
    <3> QED BY <2>3, <3>1, <3>2, <3>4 DEF SoleFine
  <2> QED BY <2>4, <2>5
<1> QED BY <1>2, <1>3 DEF SInv

(* The step ends a call, and the command goes on with the given ones.      *)
LEMMA ProceedSole ==
  ASSUME IInv, SInv, NEW p \in Proc, ~At(p, "idle"),
         NEW calls \in Seq(Call), Proceed(p, calls), merged' = merged,
         Ordered(calls), \A i \in Item : Names(calls, i) => Works(p, i),
         NEW mine \in Item, mine = Now(p).item,
         \A i \in Item : i # mine => file'[i] = file[i] /\ accepted'[i] = accepted[i],
         calls # <<>> /\ Head(calls).op = "manifest" => Head(calls).item = mine,
         Held(p, mine) =>
           /\ Safe(file'[mine], accepted'[mine])
           /\ calls # <<>> /\ Head(calls).op = "manifest" =>
                Finds(file'[mine]).doc.status = "completed"
  PROVE  SInv'
<1> DEFINE j == IF calls = <<>> THEN Idle ELSE Starting(calls)
<1>1. job' = [job EXCEPT ![p] = j] /\ overlap' = overlap /\ hurt' = hurt
  BY DEF Proceed
<1>2. j \in Job /\ j.calls = calls
  <2>1. Idle.calls = <<>> /\ Starting(calls).calls = calls
    BY DEF Idle, Starting
  <2>2. calls # <<>> => Starting(calls) \in Job
    BY Documents DEF Starting, Job
  <2> QED BY <2>1, <2>2, IdleIsJob
<1>3. ASSUME NEW i \in Item, On(j, i) PROVE calls # <<>> /\ j = Starting(calls) /\ Head(calls).item = i
  BY <1>2, <1>3 DEF On, Idle
<1>4. ASSUME NEW i \in Item, NEW f, NEW a, On(j, i),
             Head(calls).op = "manifest" => Finds(f).doc.status = "completed"
      PROVE  Phase(j, f, a, merged)
  BY <1>3, <1>4, StartPhase
<1>5. \A i \in Item : i # mine => (On(j, i) => Phase(j, file[i], accepted[i], merged))
  BY <1>3, <1>4
<1>6. Held(p, mine) =>
        /\ On(j, mine) => Phase(j, file'[mine], accepted'[mine], merged)
        /\ Safe(file'[mine], accepted'[mine])
  BY <1>3, <1>4
<1> HIDE DEF j
<1> QED BY <1>1, <1>2, <1>5, <1>6, StepSole

(* The step goes on with the same call.                                    *)
LEMMA EditSole ==
  ASSUME IInv, SInv, NEW p \in Proc, ~At(p, "idle"),
         NEW j \in Job, job' = [job EXCEPT ![p] = j], j.calls = job[p].calls, j.pc # "idle",
         merged' = merged, overlap' = overlap, hurt' = hurt,
         NEW mine \in Item, mine = Now(p).item,
         \A i \in Item : i # mine => file'[i] = file[i] /\ accepted'[i] = accepted[i],
         Held(p, mine) =>
           /\ Phase(j, file'[mine], accepted'[mine], merged)
           /\ Safe(file'[mine], accepted'[mine]) \/ InPlace(j)
  PROVE  SInv'
<1>1. Ordered(j.calls) /\ \A i \in Item : Names(j.calls, i) => Works(p, i)
  BY DEF SInv, Names, Works
<1>2. \A i \in Item : On(j, i) <=> i = mine
  BY DEF On, Now
<1> QED BY <1>1, <1>2, StepSole

(* The step ends the command, and leaves the disk alone.                   *)
LEMMA EndSole ==
  ASSUME IInv, SInv, NEW p \in Proc, ~At(p, "idle"), job' = [job EXCEPT ![p] = Idle],
         UNCHANGED <<file, accepted, merged, overlap>>, hurt \subseteq hurt',
         Now(p).item \notin hurt' => ~InPlace(job[p])
  PROVE  SInv'
<1>1. Idle \in Job /\ Ordered(Idle.calls) /\ \A i : ~On(Idle, i) /\ ~Names(Idle.calls, i)
  BY IdleIsJob DEF Idle, Ordered, On, Names
<1>2. PICK mine \in Item : mine = Now(p).item
  BY InHand
<1>3. mine \notin hurt' /\ Held(p, mine) => Safe(file'[mine], accepted'[mine])
  BY <1>2 DEF Held
<1> QED BY <1>1, <1>2, <1>3, StepSole

(* A throw ends the command before anything is truncated.                  *)
LEMMA ThrowSole ==
  ASSUME IInv, SInv, NEW p \in Proc, ~At(p, "idle"), ~At(p, "store"), Throw(p),
         UNCHANGED <<file, merged>>
  PROVE  SInv'
<1>1. ~InPlace(job[p])
  BY DEF InPlace, At
<1>2. job' = [job EXCEPT ![p] = Idle] /\ UNCHANGED <<accepted, overlap>> /\ hurt \subseteq hurt'
  BY DEF Throw, history
<1> QED BY <1>1, <1>2, EndSole

(* A command is given: what another works on is no longer its own.         *)
LEMMA GiveSole ==
  ASSUME IInv, SInv, NEW p \in Proc, NEW calls \in Seq(Call), calls # <<>>, Give(p, calls),
         \A n \in DOMAIN calls : calls[n].op # "manifest", Ordered(calls)
  PROVE  SInv'
<1> DEFINE j == Starting(calls)
<1>1. /\ job' = [job EXCEPT ![p] = j] /\ UNCHANGED <<file, merged, accepted, hurt>>
      /\ overlap' = overlap \cup {i \in Item : /\ \E k \in DOMAIN calls : calls[k].item = i
                                              /\ \E q \in Proc : Works(q, i)}
  BY DEF Give, disk, world
<1>2. j.calls = calls /\ Head(calls).op # "manifest"
  <2>1. Head(calls) = calls[1] /\ 1 \in DOMAIN calls
    OBVIOUS
  <2> QED BY <2>1 DEF Starting
<1>3. job[p].pc = "idle" /\ job'[p] = j /\ \A q \in Proc \ {p} : job'[q] = job[q]
  BY <1>1 DEF Give, At, IInv, TypeOK
<1>4. \A f, a, m : Phase(j, f, a, m)
  BY <1>2, StartPhase
<1> HIDE DEF j
<1>5. \A q \in Proc : Ordered(job'[q].calls)
  BY <1>2, <1>3 DEF SInv
<1>6. ASSUME NEW i \in Item, Sole(i)' PROVE SoleFine(i)'
  <2>1. SoleFine(i)
    BY <1>1, <1>6 DEF Sole, SInv
  <2>2. ASSUME NEW q \in Proc, NEW r \in Proc, Works(q, i)', Works(r, i)' PROVE q = r
    <3>1. CASE q # p /\ r # p
      BY <1>3, <2>1, <2>2, <3>1 DEF Works, SoleFine
    <3>2. ASSUME Works(p, i)' PROVE \A s \in Proc \ {p} : ~Works(s, i)'
      <4>1. \E k \in DOMAIN calls : calls[k].item = i
        BY <1>2, <1>3, <3>2 DEF Works
      <4>2. \A s \in Proc : ~Works(s, i)
        BY <1>1, <1>6, <4>1 DEF Sole
      <4> QED BY <1>3, <4>2 DEF Works
    <3> QED BY <2>2, <3>1, <3>2
  <2>3. \A q \in Proc : On(job'[q], i) => Phase(job'[q], file[i], accepted[i], merged)
    BY <1>3, <1>4, <2>1 DEF SoleFine
  <2>4. Safe(file[i], accepted[i]) \/ \E q \in Proc : On(job'[q], i) /\ InPlace(job'[q])
    <3>1. \A q \in Proc : On(job[q], i) => On(job'[q], i) /\ job'[q] = job[q]
      BY <1>3 DEF On
    <3> QED BY <2>1, <3>1 DEF SoleFine
  <2> QED BY <1>1, <2>2, <2>3, <2>4 DEF SoleFine
<1> QED BY <1>5, <1>6 DEF SInv

-----------------------------------------------------------------------------
(* The search chooses the copy that counts.                                *)
LEMMA SearchSole ==
  ASSUME IInv, SInv, NEW p \in Proc, Found(p) \/ Missed(p) \/ Vanished(p)
  PROVE  SInv'
<1>1. /\ ~At(p, "idle") /\ ~At(p, "store") /\ job[p] \in Job
      /\ UNCHANGED <<file, merged>>
  BY DEF Found, Missed, Vanished, At, IInv, TypeOK, disk, world
<1>2. PICK mine \in Item : mine = Now(p).item
  BY <1>1, InHand
<1> DEFINE f == file[mine]
<1>3. job[p].root \in 1..4 /\ (Roots[job[p].root] = "active" <=> job[p].root < 3)
      /\ Roots[job[p].root] \in {"active", "archive"}
  BY <1>1 DEF Job, Roots
<1>4. CASE Found(p)
  <2> DEFINE j == [job[p] EXCEPT !.pc = "read"]
  <2>1. job[p].pc = "look" /\ Readable(f[Roots[job[p].root]]) /\ UNCHANGED history
    BY <1>2, <1>4 DEF Found, At, Where
  <2>2. /\ job' = [job EXCEPT ![p] = j] /\ j \in Job
        /\ j.calls = job[p].calls /\ j.pc = "read" /\ j.root = job[p].root
    BY <1>1, <1>4 DEF Found, Job, IInv, TypeOK
  <2> HIDE DEF j, f
  <2>3. ASSUME Held(p, mine) PROVE Phase(j, f, accepted[mine], merged)
    <3>1. Readable(f["active"]) => Roots[job[p].root] = "active"
      BY <1>3, <2>1, <2>3 DEF Held, Phase, f
    <3>2. Chosen(j, f)
      BY <1>3, <2>1, <2>2, <3>1 DEF Chosen
    <3>3. Head(j.calls).op = "manifest" => Finds(f).doc.status = "completed"
      BY <2>2, <2>3 DEF Held, Phase, f
    <3> QED BY <2>2, <3>2, <3>3 DEF Phase
  <2>4. Held(p, mine) => Safe(f, accepted[mine])
    BY <2>1 DEF Held, InPlace, f
  <2> QED BY <1>1, <1>2, <2>1, <2>2, <2>3, <2>4, EditSole DEF history, f
<1>5. CASE Missed(p) /\ ~Throw(p)
  <2> DEFINE b == file[Now(p).item][Roots[job[p].root + 1]] # Absent
             j == [job[p] EXCEPT !.root = job[p].root + 1, !.listed = b]
  <2>1. /\ job[p].pc = "look" /\ ~Readable(f[Roots[job[p].root]]) /\ UNCHANGED history
        /\ job[p].root # 4 /\ job' = [job EXCEPT ![p] = j]
    BY <1>1, <1>2, <1>5 DEF Missed, At, Where, IInv, TypeOK
  <2>2. b \in BOOLEAN /\ job[p].root + 1 \in 1..4
    BY <1>3, <2>1
  <2> HIDE DEF b
  <2>3. /\ j \in Job /\ j.calls = job[p].calls /\ j.pc = "look" /\ j.root = job[p].root + 1
    BY <1>1, <2>1, <2>2 DEF Job
  <2> HIDE DEF j, f
  <2>4. ASSUME Held(p, mine) PROVE Phase(j, f, accepted[mine], merged)
    <3>1. j.root >= 3 => ~Readable(f["active"])
      BY <1>3, <2>1, <2>3, <2>4 DEF Held, Phase, f
    <3>2. Head(j.calls).op = "manifest" => Finds(f).doc.status = "completed"
      BY <2>3, <2>4 DEF Held, Phase, f
    <3> QED BY <2>3, <3>1, <3>2 DEF Phase
  <2>5. Held(p, mine) => Safe(f, accepted[mine])
    BY <2>1 DEF Held, InPlace, f
  <2> QED BY <1>1, <1>2, <2>1, <2>3, <2>4, <2>5, EditSole DEF history, f
<1>6. CASE Throw(p)
  BY <1>1, <1>6, ThrowSole
<1> QED BY <1>4, <1>5, <1>6 DEF Vanished

(* A reading is of the copy that counts: it has all that was accepted.     *)
LEMMA ReadSole ==
  ASSUME IInv, NEW p \in Proc, Reading(p), NEW i \in Item, i = Now(p).item, Held(p, i)
  PROVE  /\ Chosen(job[p], file[i]) /\ Safe(file[i], accepted[i])
         /\ file[i][Where(p)] = Finds(file[i]) /\ Read(p) = Finds(file[i]).doc
         /\ Read(p).id /\ Covers(Read(p), accepted[i])
         /\ Roots[job[p].root] = "active" =>
              Readable(file[i]["active"]) /\ file[i]["active"].doc = Read(p)
<1>1. Chosen(job[p], file[i]) /\ Safe(file[i], accepted[i])
  BY DEF Reading, At, Held, Phase, InPlace
<1>2. Where(p) \in {"active", "archive"} /\ Where(p) = Roots[job[p].root]
  BY InHand DEF Reading, At, Where, Place
<1>3. file[i][Where(p)] = Finds(file[i])
  BY <1>1, <1>2 DEF Chosen, Finds
<1>4. Readable(Finds(file[i])) /\ Covers(Finds(file[i]).doc, accepted[i])
  BY <1>1 DEF Safe
<1>5. Finds(file[i]) # Truncated
  BY <1>4 DEF Readable, Truncated
<1>6. Read(p) = Finds(file[i]).doc
  BY <1>3, <1>5 DEF Read, Content
<1>7. Read(p).id /\ Covers(Read(p), accepted[i])
  BY <1>4, <1>6 DEF Readable
<1>8. Roots[job[p].root] = "active" =>
        Readable(file[i]["active"]) /\ file[i]["active"].doc = Read(p)
  BY <1>1, <1>2, <1>3, <1>6 DEF Chosen
<1> QED BY <1>1, <1>3, <1>6, <1>7, <1>8

(* A call keeps the document it will write.                                *)
LEMMA KeepSole ==
  ASSUME IInv, SInv, NEW p \in Proc, Reading(p), NEW d \in Doc, Keep(p, d),
         d.id = Read(p).id, Covers(d, Read(p)),
         Now(p).op = "transition" => d.status = Now(p).status,
         Now(p).op = "finalize" => Closed(d, merged) /\ Written(d) = Written(Read(p)),
         Now(p).op # "manifest"
  PROVE  SInv'
<1> DEFINE j == [job[p] EXCEPT !.pc = "write", !.doc = d]
<1>1. PICK mine \in Item : mine = Now(p).item
  BY WhatWasRead, InHand
<1>2. /\ ~At(p, "idle") /\ UNCHANGED <<file, accepted, merged, overlap, hurt>>
  BY WhatWasRead DEF Keep, disk, world, history
<1>3. /\ job' = [job EXCEPT ![p] = j] /\ j \in Job
      /\ j.calls = job[p].calls /\ j.pc = "write" /\ j.root = job[p].root /\ j.doc = d
      /\ Now(p) = Head(j.calls)
  BY DEF Keep, Job, IInv, TypeOK, Now
<1> HIDE DEF j
<1>4. ASSUME Held(p, mine)
      PROVE  Phase(j, file[mine], accepted[mine], merged) /\ Safe(file[mine], accepted[mine])
  <2>1. /\ Chosen(job[p], file[mine]) /\ Safe(file[mine], accepted[mine])
        /\ Read(p).id /\ Covers(Read(p), accepted[mine])
        /\ Roots[job[p].root] = "active" =>
             Readable(file[mine]["active"]) /\ file[mine]["active"].doc = Read(p)
    BY <1>1, <1>4, ReadSole
  <2>2. Chosen(j, file[mine])
    BY <1>3, <2>1 DEF Chosen
  <2>3. d.id /\ Covers(d, accepted[mine])
    BY <2>1 DEF Covers
  <2>4. Now(p).op = "finalize" => Covers(Read(p), d)
    BY DEF Covers, Written
  <2>5. Prepared(j, file[mine], accepted[mine], merged)
    BY <1>3, <2>1, <2>3, <2>4 DEF Prepared
  <2> QED BY <1>3, <2>1, <2>2, <2>5 DEF Phase
<1> QED BY <1>1, <1>2, <1>3, <1>4, EditSole

(* The edits: what is added is added to what was read.                     *)
LEMMA EditsAdd ==
  ASSUME NEW d \in Doc, NEW c \in Call
  PROVE  /\ Linked(d, c.adds) \in Doc /\ Linked(d, c.adds).id = d.id /\ Covers(Linked(d, c.adds), d)
         /\ Committed(d, c.adds) \in Doc /\ Committed(d, c.adds).id = d.id
         /\ Covers(Committed(d, c.adds), d)
         /\ Moved(d, c) \in Doc /\ Moved(d, c).id = d.id /\ Covers(Moved(d, c), d)
         /\ Moved(d, c).status = c.status
<1> DEFINE e == Linked(d, c.adds)
<1>1. e \in Doc /\ e.id = d.id /\ Covers(e, d)
  BY DEF Linked, Doc, Covers, Call
<1>2. /\ Committed(d, c.adds) \in Doc /\ Committed(d, c.adds).id = d.id
      /\ Covers(Committed(d, c.adds), d)
  BY DEF Committed, Doc, Covers, Call
<1>3. Moved(d, c) = [e EXCEPT !.status = c.status,
        !.life = IF c.status = "draft" THEN "draft" ELSE "active",
        !.actual = @ \/ c.actual]
  BY DEF Moved
<1> HIDE DEF e
<1>4. c.status \in Status /\ c.actual \in BOOLEAN
  BY DEF Call
<1>5. /\ Moved(d, c) \in Doc /\ Moved(d, c).id = e.id /\ Moved(d, c).status = c.status
      /\ Moved(d, c).links = e.links /\ Moved(d, c).commits = e.commits
  BY <1>1, <1>3, <1>4 DEF Doc
<1> QED BY <1>1, <1>2, <1>5 DEF Covers, e

(* What is decided on a reading.                                           *)
LEMMA ReadingSole ==
  ASSUME IInv, SInv, NEW p \in Proc,
         \/ ReadToEdit(p) \/ ReadToFinalize(p) \/ ReadToClose(p)
         \/ ReadToRecord(p) \/ ReadToReconcile(p)
  PROVE  SInv'
<1> DEFINE c == Now(p)
           d == Read(p)
<1>1. Reading(p) /\ ~At(p, "store")
  BY DEF ReadToEdit, ReadToFinalize, ReadToClose, ReadToRecord, ReadToReconcile, Reading, At
<1>2. /\ d \in Doc /\ c \in Call /\ c.item \in Item /\ ~At(p, "idle")
      /\ job[p].calls \in Seq(Call) /\ job[p].calls # <<>> /\ c = Head(job[p].calls)
      /\ Ordered(job[p].calls)
  BY <1>1, WhatWasRead, InHand DEF SInv, Now
<1>3. Names(job[p].calls, c.item)
  <2>1. 1 \in DOMAIN job[p].calls /\ job[p].calls[1] = c
    BY <1>2
  <2> QED BY <2>1 DEF Names
<1> HIDE DEF d
<1>4. CASE ReadToEdit(p)
  <2>1. CASE c.op = "link" /\ Keep(p, Linked(d, c.adds))
    BY <1>1, <1>2, <2>1, EditsAdd, KeepSole DEF d
  <2>2. CASE c.op = "commit" /\ Keep(p, Committed(d, c.adds))
    BY <1>1, <1>2, <2>2, EditsAdd, KeepSole DEF d
  <2>3. CASE c.op = "transition" /\ Keep(p, Moved(d, c))
    BY <1>1, <1>2, <2>3, EditsAdd, KeepSole DEF d
  <2> QED BY <1>4, <2>1, <2>2, <2>3 DEF ReadToEdit, d
<1>5. CASE ReadToFinalize(p)
  <2>1. CASE Finalizable(d, c)
    <3> DEFINE e == [d EXCEPT !.life = "inactive", !.actual = TRUE]
    <3>1. /\ e \in Doc /\ e.id = d.id /\ e.links = d.links /\ e.commits = d.commits
          /\ e.life = "inactive" /\ e.status = d.status /\ e.actual
      BY <1>2 DEF Doc
    <3>2. Keep(p, e) /\ c.op = "finalize"
      BY <1>5, <2>1 DEF ReadToFinalize, d
    <3> HIDE DEF e
    <3>3. Closed(e, merged)
      BY <2>1, <3>1 DEF Finalizable, AllMerged, Closed
    <3>4. Covers(e, d) /\ Written(e) = Written(d)
      BY <3>1 DEF Covers, Written
    <3> QED BY <1>1, <3>1, <3>2, <3>3, <3>4, KeepSole DEF d
  <2>2. CASE ~Finalizable(d, c)
    BY <1>1, <1>2, <1>5, <2>2, ThrowSole DEF ReadToFinalize, disk, world, d
  <2> QED BY <2>1, <2>2
<1>6. PICK mine \in Item : mine = c.item
  BY <1>2
<1>7. Held(p, mine) => Safe(file[mine], accepted[mine])
  BY <1>1, <1>6, ReadSole
<1>8. Rest(p) = Tail(job[p].calls) /\ \A i : Names(job[p].calls, i) => Works(p, i)
  BY DEF Rest, Names, Works
<1>9. CASE ReadToClose(p)
  <2>1. /\ Rest(p) \in Seq(Call) /\ Ordered(Rest(p))
        /\ \A i : Names(Rest(p), i) => Works(p, i)
        /\ \A n \in DOMAIN Rest(p) : Rest(p)[n].op # "manifest"
        /\ Rest(p) # <<>> => Head(Rest(p)).op # "manifest"
    BY <1>2, <1>8, <1>9, OrderedRest DEF ReadToClose
  <2> DEFINE g == OnItem("finalize", c.item, {})
             rest == Rest(p)
             calls == IF d.links \cap Record # {} /\ d.actual THEN <<g>> \o rest ELSE rest
  <2>2. g \in Call /\ g.op = "finalize" /\ g.item = c.item
    BY <1>2, Calls DEF Op
  <2>3. Proceed(p, calls) /\ UNCHANGED <<file, accepted, merged>>
    BY <1>9 DEF ReadToClose, disk, world, d
  <2> HIDE DEF g, rest
  <2>4. /\ <<g>> \o rest \in Seq(Call) /\ <<g>> \o rest # <<>> /\ Head(<<g>> \o rest) = g
        /\ Ordered(<<g>> \o rest) /\ \A i : Names(<<g>> \o rest, i) => Works(p, i)
    <3> DEFINE all == <<g>> \o rest
    <3>1. /\ all \in Seq(Call) /\ all # <<>> /\ Head(all) = g /\ all[1] = g /\ Len(rest) \in Nat
          /\ DOMAIN all = 1..(Len(rest) + 1) /\ DOMAIN rest = 1..Len(rest)
          /\ \A k \in 1..Len(rest) : all[k + 1] = rest[k]
      BY <2>1, <2>2 DEF rest
    <3> HIDE DEF all
    <3>2. ASSUME NEW n \in DOMAIN all, n # 1 PROVE n - 1 \in DOMAIN rest /\ all[n] = rest[n - 1]
      BY <3>1, <3>2
    <3>3. Ordered(all)
      <4>1. ASSUME NEW n \in DOMAIN all
            PROVE  /\ all[n].op \in {"reconcile", "directPush"} => all[n].status = "completed"
                   /\ all[n].op # "manifest"
        BY <2>1, <2>2, <3>1, <3>2 DEF Ordered, rest
      <4> QED BY <4>1 DEF Ordered
    <3>4. ASSUME NEW i, Names(all, i) PROVE Works(p, i)
      <4>1. PICK n \in DOMAIN all : all[n].item = i
        BY <3>4 DEF Names
      <4>2. CASE n = 1
        BY <1>3, <1>8, <2>2, <3>1, <4>1, <4>2
      <4>3. CASE n # 1
        BY <2>1, <3>2, <4>1, <4>3 DEF Names, rest
      <4> QED BY <4>2, <4>3
    <3> QED BY <3>1, <3>3, <3>4 DEF all
  <2>5. /\ calls \in Seq(Call) /\ Ordered(calls) /\ \A i : Names(calls, i) => Works(p, i)
        /\ calls # <<>> => Head(calls).op # "manifest"
    BY <2>1, <2>2, <2>4 DEF rest
  <2> HIDE DEF calls
  <2> QED BY <1>2, <1>6, <1>7, <2>3, <2>5, ProceedSole
<1>10. CASE ReadToRecord(p)
  <2>1. CASE Proceed(p, EvidenceCalls(c)) /\ UNCHANGED accepted
    <3> DEFINE x == c.adds \cap Record
               r == OnItem("record", c.item, x)
               l == OnItem("link", c.item, x)
    <3>1. r \in Call /\ l \in Call /\ r.op = "record" /\ l.op = "link" /\ r.item = c.item /\ l.item = c.item
      BY <1>2, Calls DEF Op, Link
    <3>2. EvidenceCalls(c) = <<r, l>> /\ UNCHANGED <<file, merged>>
      BY <1>10 DEF ReadToRecord, EvidenceCalls, disk, world
    <3> HIDE DEF r, l
    <3>3. /\ <<r, l>> \in Seq(Call) /\ Ordered(<<r, l>>) /\ Head(<<r, l>>).op # "manifest"
          /\ \A i : Names(<<r, l>>, i) => i = c.item
      BY <3>1 DEF Ordered, Names
    <3> QED BY <1>2, <1>3, <1>6, <1>7, <1>8, <2>1, <3>2, <3>3, ProceedSole
  <2>2. CASE Throw(p)
    BY <1>1, <1>2, <1>10, <2>2, ThrowSole DEF ReadToRecord, disk, world
  <2> QED BY <1>10, <2>1, <2>2 DEF ReadToRecord
<1>11. CASE ReadToReconcile(p)
  <2>1. CASE Proceed(p, ReconcileCalls(c)) /\ UNCHANGED accepted
    <3> DEFINE t == [c EXCEPT !.op = "transition", !.adds = {}]
               m == [c EXCEPT !.op = "manifest"]
    <3>1. c.status = "completed"
      <4>1. 1 \in DOMAIN job[p].calls /\ job[p].calls[1] = c
        BY <1>2
      <4> QED BY <1>2, <1>11, <4>1 DEF ReadToReconcile, Ordered
    <3>2. /\ t \in Call /\ t.op = "transition" /\ t.item = c.item /\ t.status = "completed"
          /\ m \in Call /\ m.op = "manifest" /\ m.item = c.item
      BY <1>2, <3>1 DEF Call, Op
    <3> DEFINE rest == IF c.op = "reconcile" THEN <<m>> ELSE <<>>
               all == <<t>> \o rest
    <3>3. ReconcileCalls(c) = all /\ UNCHANGED <<file, merged>>
      BY <1>11 DEF ReadToReconcile, ReconcileCalls, disk, world
    <3> HIDE DEF t, m
    <3>4. /\ rest \in Seq(Call) /\ Len(rest) \in {0, 1}
          /\ \A n \in DOMAIN rest : rest[n] = m
      BY <3>2
    <3> HIDE DEF rest
    <3>5. /\ all \in Seq(Call) /\ Head(all) = t /\ all[1] = t
          /\ DOMAIN all = 1..(Len(rest) + 1) /\ DOMAIN rest = 1..Len(rest)
          /\ \A k \in 1..Len(rest) : all[k + 1] = rest[k]
      BY <3>2, <3>4
    <3> HIDE DEF all
    <3>6. ASSUME NEW n \in DOMAIN all, n # 1 PROVE n = 2 /\ all[2] = m
      BY <3>4, <3>5, <3>6
    <3>7. Ordered(all)
      BY <3>2, <3>5, <3>6 DEF Ordered
    <3>8. \A i : Names(all, i) => i = c.item
      BY <3>2, <3>5, <3>6 DEF Names
    <3> QED BY <1>2, <1>3, <1>6, <1>7, <1>8, <2>1, <3>2, <3>3, <3>5, <3>7, <3>8, ProceedSole
  <2>2. CASE Throw(p)
    BY <1>1, <1>2, <1>11, <2>2, ThrowSole DEF ReadToReconcile, disk, world
  <2> QED BY <1>11, <2>1, <2>2 DEF ReadToReconcile
<1> QED BY <1>4, <1>5, <1>9, <1>10, <1>11

-----------------------------------------------------------------------------
(* The file that is truncated is the only copy, or an archive copy that    *)
(* does not count yet.                                                     *)
LEMMA TruncateSole ==
  ASSUME IInv, SInv, NEW p \in Proc, Truncate(p)
  PROVE  SInv'
<1> DEFINE j == [job[p] EXCEPT !.pc = "store"]
<1>1. /\ job[p] \in Job /\ job[p].pc = "write" /\ ~At(p, "idle") /\ Now(p).op # "manifest"
      /\ UNCHANGED <<accepted, merged, overlap, hurt>>
      /\ file \in [Item -> [Place -> File]] /\ job[p].calls # <<>>
  BY InHand DEF Truncate, At, IInv, TypeOK, WorldOK, world, history
<1>2. PICK mine \in Item : mine = Now(p).item
  BY <1>1, InHand
<1>3. /\ job' = [job EXCEPT ![p] = j] /\ j \in Job
      /\ j.calls = job[p].calls /\ j.pc = "store" /\ j.root = job[p].root /\ j.doc = job[p].doc
      /\ Now(p) = Head(j.calls)
  BY <1>1 DEF Truncate, Job, IInv, TypeOK, Now
<1> HIDE DEF j
<1>4. Roots[j.root] \in {"active", "archive"} /\ Where(p) = Roots[j.root] /\ Target(p) \in Place
  BY <1>1, <1>3, InHand, TargetIsPlace DEF Where, Place
<1>5. CASE Does(p, "record")
  <2>1. Now(p).op = "record" /\ UNCHANGED file
    BY <1>5 DEF Truncate, Does
  <2>2. ASSUME Held(p, mine)
        PROVE  Phase(j, file[mine], accepted[mine], merged) /\ Safe(file[mine], accepted[mine])
    BY <1>1, <1>3, <2>1, <2>2 DEF Held, Phase, InPlace
  <2> QED BY <1>1, <1>2, <1>3, <2>1, <2>2, EditSole
<1>6. CASE ~Does(p, "record")
  <2>1. /\ Now(p).op # "record"
        /\ file' = [file EXCEPT ![mine][Target(p)] = Truncated]
    BY <1>1, <1>2, <1>6 DEF Truncate, Does
  <2>2. \A i \in Item : i # mine => file'[i] = file[i]
    BY <1>1, <2>1
  <2>3. /\ file'[mine][Target(p)] = Truncated
        /\ \A pl \in Place : pl # Target(p) => file'[mine][pl] = file[mine][pl]
    BY <1>1, <1>4, <2>1
  <2>4. ~Readable(Truncated)
    BY DEF Readable, Truncated
  <2>5. ASSUME Held(p, mine)
        PROVE  /\ Phase(j, file'[mine], accepted[mine], merged)
               /\ Safe(file'[mine], accepted[mine]) \/ InPlace(j)
    <3>1. /\ Chosen(job[p], file[mine]) /\ Prepared(job[p], file[mine], accepted[mine], merged)
          /\ Safe(file[mine], accepted[mine])
      BY <1>1, <1>3, <2>1, <2>5 DEF Held, Phase, InPlace
    <3>2. CASE Now(p).op = "finalize" /\ Roots[j.root] = "active"
      <4>1. Target(p) = "archive" /\ file'[mine]["active"] = file[mine]["active"]
        BY <1>1, <2>3, <3>2 DEF Target, Does, Place
      <4>2. Readable(file[mine]["active"])
        BY <1>3, <3>1, <3>2 DEF Chosen
      <4>3. Safe(file'[mine], accepted[mine])
        BY <3>1, <4>1, <4>2 DEF Safe, Finds
      <4>4. Prepared(j, file'[mine], accepted[mine], merged)
        BY <1>3, <3>1, <4>1 DEF Prepared
      <4> QED BY <1>1, <1>3, <3>2, <4>3, <4>4 DEF Phase
    <3>3. CASE ~(Now(p).op = "finalize" /\ Roots[j.root] = "active")
      <4>1. Target(p) = Roots[j.root]
        BY <1>4, <3>3 DEF Target, Does
      <4>2. InPlace(j)
        BY <1>3, <2>1, <3>3 DEF InPlace
      <4>3. Prepared(j, file'[mine], accepted[mine], merged)
        BY <1>3, <3>1, <3>3 DEF Prepared
      <4>4. Roots[j.root] = "archive" => ~Readable(file'[mine]["active"])
        BY <1>3, <2>3, <3>1, <4>1 DEF Chosen, Place
      <4> QED BY <1>1, <1>3, <4>2, <4>3, <4>4 DEF Phase
    <3> QED BY <3>2, <3>3
  <2> QED BY <1>1, <1>2, <1>3, <2>2, <2>5, EditSole
<1> QED BY <1>5, <1>6

(* What comes after a call in order.                                       *)
LEMMA RestInOrder ==
  ASSUME IInv, SInv, NEW p \in Proc, ~At(p, "idle")
  PROVE  /\ Rest(p) \in Seq(Call) /\ Ordered(Rest(p))
         /\ \A i \in Item : Names(Rest(p), i) => Works(p, i)
         /\ Rest(p) # <<>> /\ Head(Rest(p)).op = "manifest" =>
              /\ Now(p).op = "transition" /\ Now(p).status = "completed"
              /\ Head(Rest(p)).item = Now(p).item
<1>1. job[p].calls \in Seq(Call) /\ job[p].calls # <<>> /\ Ordered(job[p].calls)
  BY InHand DEF SInv
<1> QED BY <1>1, OrderedRest DEF Rest, Now, Names, Works

(* The document is written.                                                *)
LEMMA StoreDocSole ==
  ASSUME IInv, SInv, NEW p \in Proc, StoreDoc(p)
  PROVE  SInv'
<1> DEFINE d == job[p].doc
<1>1. /\ job[p] \in Job /\ job[p].pc = "store" /\ ~At(p, "idle") /\ Now(p).op # "record"
      /\ job[p].calls # <<>> /\ Now(p) = Head(job[p].calls)
      /\ file \in [Item -> [Place -> File]]
      /\ accepted \in [Item -> [links : SUBSET Link, commits : SUBSET Link]]
      /\ UNCHANGED <<merged, overlap, hurt>>
  BY InHand DEF StoreDoc, At, Does, Now, IInv, TypeOK, WorldOK, world, Proceed
<1>2. PICK mine \in Item : mine = Now(p).item
  BY <1>1, InHand
<1>3. d \in Doc /\ Roots[job[p].root] \in {"active", "archive"} /\ Target(p) \in Place
      /\ Where(p) = Roots[job[p].root]
  BY <1>1, InHand, TargetIsPlace DEF Job, Where, Place
<1>4. /\ file' = [file EXCEPT ![mine][Target(p)] = Holds(d)]
      /\ accepted' = [accepted EXCEPT ![mine].links = @ \cup d.links,
                                      ![mine].commits = @ \cup d.commits]
  BY <1>2 DEF StoreDoc
<1> HIDE DEF d
<1>5. \A i \in Item : i # mine => file'[i] = file[i] /\ accepted'[i] = accepted[i]
  BY <1>1, <1>4
<1>6. /\ file'[mine][Target(p)] = Holds(d)
      /\ \A pl \in Place : pl # Target(p) => file'[mine][pl] = file[mine][pl]
  BY <1>1, <1>3, <1>4
<1>7. /\ accepted'[mine].links = accepted[mine].links \cup d.links
      /\ accepted'[mine].commits = accepted[mine].commits \cup d.commits
  BY <1>1, <1>4
<1>8. Held(p, mine) =>
        /\ Prepared(job[p], file[mine], accepted[mine], merged) /\ d.id
        /\ Roots[job[p].root] = "archive" => ~Readable(file[mine]["active"])
        /\ Covers(d, accepted'[mine])
  <2>1. Held(p, mine) =>
          /\ Prepared(job[p], file[mine], accepted[mine], merged)
          /\ Roots[job[p].root] = "archive" => ~Readable(file[mine]["active"])
    BY <1>1 DEF Held, Phase
  <2>2. Held(p, mine) => d.id /\ Covers(d, accepted[mine])
    BY <2>1 DEF Prepared, d
  <2> QED BY <1>7, <2>1, <2>2 DEF Covers
<1>9. d.id => Readable(Holds(d))
  BY <1>3, Files DEF Readable
<1>10. CASE Does(p, "finalize") /\ Where(p) # "archive"
  <2> DEFINE j == [job[p] EXCEPT !.pc = "unlink"]
  <2>1. /\ job' = [job EXCEPT ![p] = j] /\ j \in Job /\ j.calls = job[p].calls
        /\ j.pc = "unlink" /\ j.root = job[p].root
    BY <1>1, <1>10 DEF StoreDoc, Job, IInv, TypeOK
  <2> HIDE DEF j
  <2>2. /\ Roots[job[p].root] = "active" /\ Now(p).op = "finalize" /\ Target(p) = "archive"
        /\ file'[mine]["archive"] = Holds(d) /\ file'[mine]["active"] = file[mine]["active"]
    BY <1>3, <1>6, <1>10 DEF Does, Target, Place
  <2>3. ASSUME Held(p, mine)
        PROVE  /\ Phase(j, file'[mine], accepted'[mine], merged)
               /\ Safe(file'[mine], accepted'[mine])
    <3>1. Closed(d, merged) /\ Readable(file[mine]["active"]) /\ Covers(file[mine]["active"].doc, d)
      BY <1>1, <1>8, <2>2, <2>3 DEF Prepared, d
    <3>2. Holds(d).doc = d /\ Readable(Holds(d))
      BY <1>3, <1>8, <1>9, <2>3, Files
    <3>3. Covers(file[mine]["active"].doc, accepted'[mine])
      <4>1. Covers(d, accepted'[mine]) /\ Covers(file[mine]["active"].doc, d)
        BY <1>8, <2>3, <3>1
      <4> QED BY <4>1 DEF Covers
    <3>4. Safe(file'[mine], accepted'[mine])
      BY <2>2, <3>1, <3>3 DEF Safe, Finds
    <3>5. accepted'[mine].links \cap Record # {}
      BY <1>7, <3>1 DEF Closed
    <3>6. Phase(j, file'[mine], accepted'[mine], merged)
      BY <1>1, <1>8, <2>1, <2>2, <2>3, <3>1, <3>2, <3>5 DEF Phase
    <3> QED BY <3>4, <3>6
  <2> QED BY <1>1, <1>2, <1>5, <2>1, <2>3, EditSole
<1>11. CASE ~(Does(p, "finalize") /\ Where(p) # "archive")
  <2>1. Proceed(p, Rest(p)) /\ Target(p) = Roots[job[p].root]
    BY <1>3, <1>11 DEF StoreDoc, Target, Where
  <2>2. ASSUME Held(p, mine)
        PROVE  /\ Safe(file'[mine], accepted'[mine])
               /\ Now(p).op = "transition" => Finds(file'[mine]).doc.status = Now(p).status
    <3>1. Finds(file'[mine]) = Holds(d)
      <4>1. CASE Roots[job[p].root] = "active"
        BY <1>6, <1>8, <1>9, <2>1, <2>2, <4>1 DEF Finds
      <4>2. CASE Roots[job[p].root] = "archive"
        BY <1>6, <1>8, <2>1, <2>2, <4>2 DEF Finds, Place
      <4> QED BY <1>3, <4>1, <4>2
    <3>2. Holds(d).doc = d /\ Readable(Holds(d))
      BY <1>3, <1>8, <1>9, <2>2, Files
    <3>3. Now(p).op = "transition" => d.status = Now(p).status
      BY <1>1, <1>8, <2>2 DEF Prepared, d
    <3> QED BY <1>8, <2>2, <3>1, <3>2, <3>3 DEF Safe
  <2> QED BY <1>1, <1>2, <1>5, <2>1, <2>2, RestInOrder, ProceedSole
<1> QED BY <1>10, <1>11

(* A record or a manifest is written: the items are not touched.           *)
LEMMA AsideSole ==
  ASSUME IInv, SInv, NEW p \in Proc, StoreRecord(p) \/ RecordManifest(p)
  PROVE  SInv'
<1>1. /\ ~At(p, "idle") /\ Now(p).op \in {"record", "manifest"}
      /\ UNCHANGED <<file, accepted, merged>> /\ Proceed(p, Rest(p)) /\ ~InPlace(job[p])
  BY DEF StoreRecord, RecordManifest, At, Does, InPlace, Now, world
<1>2. PICK mine \in Item : mine = Now(p).item
  BY <1>1, InHand
<1>3. Held(p, mine) => Safe(file[mine], accepted[mine])
  BY <1>1 DEF Held
<1> QED BY <1>1, <1>2, <1>3, RestInOrder, ProceedSole

(* The active file goes: the archive copy is complete.                     *)
LEMMA UnlinkSole ==
  ASSUME IInv, SInv, NEW p \in Proc, Unlink(p)
  PROVE  SInv'
<1>1. /\ ~At(p, "idle") /\ ~At(p, "store") /\ Now(p).op = "finalize"
      /\ job[p].pc = "unlink" /\ file \in [Item -> [Place -> File]] /\ merged' = merged
  BY DEF Unlink, At, IInv, TypeOK, WorldOK, JobFine, Unlinking, Now, world
<1>2. PICK mine \in Item : mine = Now(p).item
  BY <1>1, InHand
<1>3. CASE Throw(p) /\ UNCHANGED disk
  BY <1>1, <1>3, ThrowSole DEF disk
<1>4. CASE ~(Throw(p) /\ UNCHANGED disk)
  <2>1. /\ file' = [file EXCEPT ![mine]["active"] = Absent] /\ Proceed(p, Rest(p))
        /\ UNCHANGED accepted
    BY <1>2, <1>4 DEF Unlink
  <2>2. /\ \A i \in Item : i # mine => file'[i] = file[i]
        /\ file'[mine]["active"] = Absent /\ file'[mine]["archive"] = file[mine]["archive"]
    BY <1>1, <2>1 DEF Place
  <2>3. ~Readable(Absent)
    BY Files DEF Readable
  <2>4. Held(p, mine) => Safe(file'[mine], accepted[mine])
    BY <1>1, <2>2, <2>3 DEF Held, Phase, Safe, Finds
  <2> QED BY <1>1, <1>2, <2>1, <2>2, <2>4, RestInOrder, ProceedSole
<1> QED BY <1>3, <1>4

(* A kill: an item whose only copy was truncated is hurt.                  *)
LEMMA KilledSole ==
  ASSUME IInv, SInv, NEW p \in Proc, Killed(p)
  PROVE  SInv'
<1>1. /\ ~At(p, "idle") /\ job' = [job EXCEPT ![p] = Idle]
      /\ UNCHANGED <<file, accepted, merged, overlap>> /\ hurt \subseteq hurt'
  BY DEF Killed, disk, world
<1>2. ASSUME InPlace(job[p]) PROVE Now(p).item \in hurt'
  <2>1. At(p, "store") /\ ~Does(p, "record") /\ Target(p) = Where(p)
    <3>1. Where(p) = Roots[job[p].root] /\ Where(p) \in {"active", "archive"}
      BY <1>1, InHand DEF Where, Place
    <3> QED BY <1>2, <3>1 DEF InPlace, At, Does, Now, Target
  <2> QED BY <2>1 DEF Killed
<1> QED BY <1>1, <1>2, EndSole

(* The world around.                                                       *)
LEMMA WorldSole ==
  ASSUME IInv, SInv, (\E i \in Item : ClaimEnds(i)) \/ (\E pr \in PR : Merge(pr))
  PROVE  SInv'
<1>1. UNCHANGED <<file, accepted, job, overlap, hurt>> /\ merged \subseteq merged'
  BY DEF ClaimEnds, Merge, disk, history
<1>2. \A j, f, a : Phase(j, f, a, merged) => Phase(j, f, a, merged')
  <2>1. \A d : Closed(d, merged) => Closed(d, merged')
    BY <1>1 DEF Closed
  <2>2. \A j, f, a : Prepared(j, f, a, merged) => Prepared(j, f, a, merged')
    BY <2>1 DEF Prepared
  <2> QED BY <2>1, <2>2 DEF Phase
<1>3. ASSUME NEW i \in Item, Sole(i)' PROVE SoleFine(i)'
  <2>1. SoleFine(i)
    BY <1>1, <1>3 DEF Sole, SInv
  <2> QED BY <1>1, <1>2, <2>1 DEF SoleFine, Works
<1> QED BY <1>1, <1>3 DEF SInv

(* The invariant at the start, and under every step.                       *)
LEMMA InitSole == Init => SInv
<1> SUFFICES ASSUME Init PROVE SInv
  OBVIOUS
<1>1. PICK d \in [Item -> {New, Ripe}] :
        /\ file = [i \in Item |-> [active |-> Holds(d[i]), archive |-> Absent]]
        /\ accepted = [i \in Item |-> Written(d[i])]
  BY DEF Init
<1>2. \A p \in Proc : job[p] = Idle
  BY DEF Init
<1>3. ASSUME NEW i \in Item PROVE Safe(file[i], accepted[i])
  <2>1. file[i]["active"] = Holds(d[i]) /\ accepted[i] = Written(d[i]) /\ d[i] \in {New, Ripe}
    BY <1>1
  <2>2. d[i] \in Doc /\ d[i].id = TRUE
    BY <2>1, Documents DEF New, Ripe, Blank
  <2>3. Readable(file[i]["active"]) /\ file[i]["active"].doc = d[i]
    BY <2>1, <2>2, Files DEF Readable
  <2> QED BY <2>1, <2>3 DEF Safe, Finds, Covers, Written
<1>4. Ordered(Idle.calls) /\ \A i : ~On(Idle, i) /\ \A n \in DOMAIN Idle.calls : FALSE
  BY DEF Idle, Ordered, On
<1> QED BY <1>2, <1>3, <1>4 DEF SInv, SoleFine, Works

(* Every step keeps what is said of items that one command works on.       *)
LEMMA NextSole == IInv /\ SInv /\ [Next]_vars => SInv'
<1> SUFFICES ASSUME IInv, SInv, [Next]_vars PROVE SInv'
  OBVIOUS
<1>1. CASE UNCHANGED vars
  BY <1>1 DEF SInv, SoleFine, Sole, Works, vars, disk, world, history
<1>2. ASSUME NEW p \in Proc, Command(p) \/ Step(p) \/ Killed(p) PROVE SInv'
  <2>1. CASE Command(p)
    BY <2>1, CommandsGiveWell, GiveSole DEF GivesWell
  <2>2. CASE Step(p)
    BY <2>2, SearchSole, ReadingSole, TruncateSole, StoreDocSole, AsideSole, UnlinkSole DEF Step
  <2>3. CASE Killed(p)
    BY <2>3, KilledSole
  <2> QED BY <1>2, <2>1, <2>2, <2>3
<1> QED BY <1>1, <1>2, WorldSole DEF Next

(* That holds in every execution.                                          *)
LEMMA SoleInvariance == Spec => [](IInv /\ SInv)
<1>1. Init => IInv /\ SInv
  BY InitInv, InitSole
<1>2. (IInv /\ SInv) /\ [Next]_vars => (IInv /\ SInv)'
  BY NextKeepsInv, NextSole
<1> QED BY <1>1, <1>2, PTL DEF Spec

-----------------------------------------------------------------------------
(* An item is never lost: between the archive copy and the unlink of       *)
(* finalizeWorkItem, and wherever else a command is killed, a search finds *)
(* it, unless its only copy is being rewritten.                            *)
THEOREM NoItemIsLost == Spec => []ItemsStayReadable
<1>1. SInv => ItemsStayReadable
  <2> SUFFICES ASSUME SInv, NEW i \in Item, Sole(i)
               PROVE  Readable(Current(i)) \/ \E p \in Proc : Rewriting(p, i)
    BY DEF ItemsStayReadable
  <2>1. Safe(file[i], accepted[i]) \/ \E p \in Proc : On(job[p], i) /\ InPlace(job[p])
    BY DEF SInv, SoleFine
  <2> QED BY <2>1 DEF Safe, Finds, Current, On, InPlace, Rewriting, At, Now
<1> QED BY <1>1, SoleInvariance, PTL

(* What a finished call has linked or recorded is in the copy that the next*)
(* call finds, also when a killed finalization has left two copies.        *)
THEOREM NoEditIsLost == Spec => []EditsSurvive
<1>1. SInv => EditsSurvive
  <2> SUFFICES ASSUME SInv, NEW i \in Item, Sole(i), \A p \in Proc : ~Rewriting(p, i)
               PROVE  /\ accepted[i].links \subseteq Current(i).doc.links
                      /\ accepted[i].commits \subseteq Current(i).doc.commits
    BY DEF EditsSurvive
  <2>1. Safe(file[i], accepted[i]) \/ \E p \in Proc : On(job[p], i) /\ InPlace(job[p])
    BY DEF SInv, SoleFine
  <2>2. Safe(file[i], accepted[i])
    BY <2>1 DEF On, InPlace, Rewriting, At, Now
  <2> QED BY <2>2 DEF Safe, Covers, Finds, Current
<1> QED BY <1>1, SoleInvariance, PTL

(* The steps that write files, and what they leave there.                  *)
LEMMA OnlyUnlinkRemoves ==
  ASSUME IInv, [Next]_vars, NEW i \in Item,
         file[i]["active"] # Absent, file'[i]["active"] = Absent
  PROVE  \E p \in Proc : Unlink(p) /\ Now(p).item = i
<1>1. file \in [Item -> [Place -> File]]
  BY DEF IInv, TypeOK, WorldOK
<1>2. file' # file
  OBVIOUS
<1>3. ASSUME NEW p \in Proc, NEW k \in Item, NEW pl \in Place, NEW x,
             x.kind # "absent", file' = [file EXCEPT ![k][pl] = x]
      PROVE  FALSE
  <2>1. file'[i]["active"] = x \/ file'[i]["active"] = file[i]["active"]
    BY <1>1, <1>3 DEF Place
  <2> QED BY <1>3, <2>1 DEF Absent
<1>4. ASSUME NEW p \in Proc, Truncate(p) PROVE FALSE
  <2>1. ~At(p, "idle")
    BY <1>4 DEF Truncate, At
  <2>2. Now(p).item \in Item /\ Target(p) \in Place
    BY <2>1, InHand, TargetIsPlace
  <2>3. file' = [file EXCEPT ![Now(p).item][Target(p)] = Truncated]
    BY <1>2, <1>4 DEF Truncate
  <2>4. Truncated.kind # "absent"
    BY DEF Truncated
  <2> QED BY <1>3, <2>2, <2>3, <2>4
<1>5. ASSUME NEW p \in Proc, StoreDoc(p) PROVE FALSE
  <2>1. ~At(p, "idle")
    BY <1>5 DEF StoreDoc, At
  <2>2. Now(p).item \in Item /\ Target(p) \in Place
    BY <2>1, InHand, TargetIsPlace
  <2>3. file' = [file EXCEPT ![Now(p).item][Target(p)] = Holds(job[p].doc)]
    BY <1>5 DEF StoreDoc
  <2>4. Holds(job[p].doc).kind # "absent"
    BY DEF Holds
  <2> QED BY <1>3, <2>2, <2>3, <2>4
<1>6. ASSUME NEW p \in Proc, Unlink(p) PROVE Now(p).item = i
  <2>1. ~At(p, "idle")
    BY <1>6 DEF Unlink, At
  <2>2. Now(p).item \in Item
    BY <2>1, InHand
  <2>3. file' = [file EXCEPT ![Now(p).item]["active"] = Absent]
    BY <1>2, <1>6 DEF Unlink, disk
  <2> QED BY <1>1, <2>2, <2>3
<1>7. UNCHANGED vars => file' = file
  BY DEF vars, disk
<1>8. ASSUME NEW p \in Proc, Command(p) \/ Killed(p) PROVE file' = file
  <2>1. CASE Killed(p)
    BY <2>1 DEF Killed, disk
  <2>2. CASE Command(p)
    BY <2>2, CommandsGiveWell DEF GivesWell, Give, disk
  <2> QED BY <1>8, <2>1, <2>2
<1>9. ASSUME NEW p \in Proc,
             \/ Found(p) \/ Missed(p) \/ Vanished(p)
             \/ ReadToEdit(p) \/ ReadToFinalize(p) \/ ReadToClose(p) \/ ReadToRecord(p)
             \/ ReadToReconcile(p) \/ StoreRecord(p) \/ RecordManifest(p)
      PROVE  file' = file
  BY <1>9 DEF Found, Missed, Vanished, ReadToEdit, ReadToFinalize, ReadToClose, ReadToRecord,
     ReadToReconcile, StoreRecord, RecordManifest, Keep, disk
<1>10. (\E k \in Item : ClaimEnds(k)) \/ (\E pr \in PR : Merge(pr)) => file' = file
  BY DEF ClaimEnds, Merge, disk
<1> QED BY <1>2, <1>4, <1>5, <1>6, <1>7, <1>8, <1>9, <1>10 DEF Next, Step

(* Only a finished item loses its active file: its archive copy is         *)
(* complete and inactive, has evidence and actual effort, and every pull   *)
(* request ever linked to the item is merged (finalizeWorkItem).           *)
THEOREM OnlyTheDoneIsArchived == Spec => ArchivedWhenDone
<1> DEFINE Kept(i) == LET a == file[i]["archive"] IN
      Sole(i) /\ file[i]["active"] # Absent /\ file'[i]["active"] = Absent =>
        /\ Readable(a) /\ a.doc.life = "inactive" /\ a.doc.status = "completed"
        /\ a.doc.actual /\ accepted[i].links \cap Record # {}
        /\ accepted[i].links \cap PR \subseteq merged
<1>1. IInv /\ SInv /\ [Next]_vars => [\A i \in Item : Kept(i)]_vars
  <2> SUFFICES ASSUME IInv, SInv, [Next]_vars, NEW i \in Item,
                      Sole(i), file[i]["active"] # Absent, file'[i]["active"] = Absent
               PROVE  LET a == file[i]["archive"] IN
                      /\ Readable(a) /\ a.doc.life = "inactive" /\ a.doc.status = "completed"
                      /\ a.doc.actual /\ accepted[i].links \cap Record # {}
                      /\ accepted[i].links \cap PR \subseteq merged
    OBVIOUS
  <2>1. PICK p \in Proc : Unlink(p) /\ Now(p).item = i
    BY OnlyUnlinkRemoves
  <2>2. job[p].pc = "unlink" /\ ~At(p, "idle")
    BY <2>1 DEF Unlink, At
  <2>3. Held(p, i)
    BY <2>1, <2>2, HeldAlone
  <2>4. /\ Readable(file[i]["archive"]) /\ Covers(file[i]["archive"].doc, accepted[i])
        /\ Closed(file[i]["archive"].doc, merged) /\ accepted[i].links \cap Record # {}
    BY <2>2, <2>3 DEF Held, Phase
  <2> QED BY <2>4 DEF Covers, Closed
<1>2. [](IInv /\ SInv) /\ [][Next]_vars => [][\A i \in Item : Kept(i)]_vars
  BY <1>1, PTL
<1> QED BY <1>2, SoleInvariance, PTL DEF Spec, ArchivedWhenDone

(* A manifest, on which expired claims are released, is recorded only of an*)
(* item that the same reconciliation has completed.                        *)
THEOREM ManifestComesLast == Spec => ManifestAfterCompletion
<1> DEFINE Kept(i) == Sole(i) /\ i \in manifests' \ manifests =>
      Readable(Current(i)) /\ Current(i).doc.status = "completed"
<1>1. IInv /\ SInv /\ [Next]_vars => [\A i \in Item : Kept(i)]_vars
  <2> SUFFICES ASSUME IInv, SInv, [Next]_vars, NEW i \in Item,
                      Sole(i), i \in manifests' \ manifests
               PROVE  Readable(Current(i)) /\ Current(i).doc.status = "completed"
    OBVIOUS
  <2>1. PICK p \in Proc : RecordManifest(p)
    <3>1. manifests' # manifests
      OBVIOUS
    <3>2. UNCHANGED vars => manifests' = manifests
      BY DEF vars, disk
    <3>3. ASSUME NEW p \in Proc, Command(p) \/ Killed(p) PROVE manifests' = manifests
      <4>1. CASE Killed(p)
        BY <4>1 DEF Killed, disk
      <4>2. CASE Command(p)
        BY <4>2, CommandsGiveWell DEF GivesWell, Give, disk
      <4> QED BY <3>3, <4>1, <4>2
    <3>4. ASSUME NEW p \in Proc,
                 \/ Found(p) \/ Missed(p) \/ Vanished(p)
                 \/ ReadToEdit(p) \/ ReadToFinalize(p) \/ ReadToClose(p) \/ ReadToRecord(p)
                 \/ ReadToReconcile(p) \/ StoreRecord(p) \/ Truncate(p) \/ StoreDoc(p)
                 \/ Unlink(p)
          PROVE  manifests' = manifests
      BY <3>4 DEF Found, Missed, Vanished, ReadToEdit, ReadToFinalize, ReadToClose, ReadToRecord,
         ReadToReconcile, StoreRecord, Truncate, StoreDoc, Unlink, Keep, disk
    <3>5. (\E k \in Item : ClaimEnds(k)) \/ (\E pr \in PR : Merge(pr)) => manifests' = manifests
      BY DEF ClaimEnds, Merge, disk
    <3> QED BY <3>1, <3>2, <3>3, <3>4, <3>5 DEF Next, Step
  <2>2. /\ Now(p).item = i /\ Now(p).op = "manifest" /\ ~At(p, "idle") /\ ~InPlace(job[p])
    BY <2>1 DEF RecordManifest, Does, At, InPlace
  <2>3. Held(p, i)
    BY <2>2, HeldAlone
  <2>4. Safe(file[i], accepted[i]) /\ Finds(file[i]).doc.status = "completed"
    BY <2>2, <2>3 DEF Held, Phase, Now
  <2> QED BY <2>4 DEF Safe, Finds, Current
<1>2. [](IInv /\ SInv) /\ [][Next]_vars => [][\A i \in Item : Kept(i)]_vars
  BY <1>1, PTL
<1> QED BY <1>2, SoleInvariance, PTL DEF Spec, ManifestAfterCompletion
=============================================================================
