--------------------------- MODULE ScanQuestions ----------------------------
(***************************************************************************)
(* Questions about the backlog scan: an item in every state that a scan    *)
(* tells apart, perhaps next to another one, and how many writes the scan  *)
(* gets to make.                                                           *)
(***************************************************************************)
EXTENDS Question, BacklogScan

CONSTANT MaxWrites   \* writes of a scan before it is killed

Complete == {"ticked", "actual", "reason", "date", "note"}
Scanned(n) == [kind |-> "file", item |-> TRUE, id |-> <<"plain", n>>, status |-> "completed",
               life |-> "active", shape |-> "object", evidence |-> <<>>, prs |-> {"pr"},
               has |-> Complete]
Old(n) == <<"old", <<"plain", n>>>>
Shapes == {[shape |-> "none", evidence |-> <<>>, prs |-> {}]}
  \cup {[shape |-> s, evidence |-> e, prs |-> q] : s \in {"object", "list"},
          e \in {<<>>, <<Old(1)>>, <<Note, Old(1)>>, <<Note>>}, q \in {{}, {"pr"}, {"pr", "other"}}}
WithLinks(d, l) == [d EXCEPT !.shape = l.shape, !.evidence = l.evidence, !.prs = l.prs]
Ids == {NoId} \cup {<<form, 1>> : form \in {"plain", "upper", "dotted", "scored", "foreign"}}
Altered(id, s, l, has) == [WithLinks(Scanned(1), l) EXCEPT !.id = id, !.status = s, !.has = has]
Firsts == {Altered(id, s, l, Complete \ lacks) :
             l \in Shapes, id \in Ids, s \in {"running", "completed"},
             lacks \in {{}, {"ticked"}, {"actual"}, {"note"}}}
Settled(d) == d.status = "completed" \/ d.has = Complete
Backlog(first, second, place) == [p \in ToSet(Paths) |->
  IF p = Paths[1] THEN first ELSE IF p = <<place, 2>> THEN second ELSE NoFile]

AskScan == Unasked /\ \E first \in {d \in Firsts : Settled(d)}, second \in {NoFile, Scanned(2)},
              place \in {"active", "archive"}, left \in 1..MaxWrites,
              generate, sweep, known \in BOOLEAN, invalid \in {"none", "paused"},
              order \in {<<"tokens", "linked">>, <<"linked">>} :
  /\ (generate \/ sweep) /\ (~sweep => invalid = "none")
  /\ (second = NoFile => place = "active") /\ (Len(order) = 1 => known)
  /\ Ask([kind |-> "scan", files |-> Backlog(first, second, place), left |-> left,
          records |-> {Old(1)},
          options |-> [generate |-> generate, sweep |-> sweep, archive |-> place = "archive",
                       invalid |-> invalid, order |-> order],
          forge |-> [known |-> known, merged |-> {"pr"}, covered |-> TRUE]])

-----------------------------------------------------------------------------
At(options, time, dry) ==
  [time |-> time, dry |-> dry, generate |-> options.generate, sweep |-> options.sweep,
   archive |-> options.archive, invalid |-> options.invalid, order |-> options.order]
First(q, left) == Scan(Begin(q.files, q.records, left), At(q.options, "first", FALSE), q.forge)
Again(q, s) == Scan(Begin(s.files, s.records, 99), At(q.options, "again", FALSE), q.forge)

(* Files but for the time at which their evidence was made.                *)
Timeless(files) == [p \in DOMAIN files |->
  IF files[p].kind = "none" THEN NoFile
  ELSE [files[p] EXCEPT !.evidence = [k \in DOMAIN @ |-> IF IsRecord(@[k]) THEN @[k][2] ELSE @[k]]]]

(* A scan that was killed, wherever, is made up for by the next one: it    *)
(* leaves what one scan would have left, and so does a scan made twice.    *)
(* What it links is there.                                                 *)
RescanRecovers == Asked("scan") => LET
    killed == First(asked, asked.left)
    again == Again(asked, killed) IN
  /\ Timeless(again.files) = Timeless(First(asked, 99).files)
  /\ \A p \in DOMAIN again.files : again.files[p].kind = "file" =>
       {l \in ToSet(again.files[p].evidence) : IsRecord(l)} \subseteq again.records

(* A dry run changes nothing, and what it says would be archived is what a *)
(* run archives: what it does not write is seen where a run reads it       *)
(* again.                                                                  *)
DryRunForetells == Asked("scan") => LET
    dry == Scan(Begin(asked.files, asked.records, 99), At(asked.options, "first", TRUE), asked.forge)
    real == First(asked, 99) IN
  /\ dry.files = asked.files /\ dry.records = asked.records
  /\ dry.archived = real.archived
=============================================================================
