--------------------------- MODULE BacklogRewrite ---------------------------
(***************************************************************************)
(* Two rewrites of a whole backlog: migrateBacklog gives every legacy item *)
(* a new name, id and place, renumberDuplicateBacklogItems a new number to *)
(* items that share one.  Both write the new file before they remove the   *)
(* old one, and both have to bring the links along.  A rewrite is killed   *)
(* after a number of writes; a write takes place whole (WorkItemFiles has  *)
(* its two halves).                                                        *)
(***************************************************************************)
EXTENDS Sequences, SequencesExt, FiniteSetsExt, Functions, Naturals, Sorting

(* The state of a rewrite: the files, the writes left until it is killed,  *)
(* and the names given so far.                                             *)
Rewriting(files, left) == [files |-> files, left |-> left, names |-> <<>>]

(* A file is written, over the one that may be there; a file is removed.   *)
With(f, x, v) == [y \in DOMAIN f \cup {x} |-> IF y = x THEN v ELSE f[y]]
PutFile(s, dry, p, doc) ==
  IF dry \/ s.left = 0 THEN s ELSE [s EXCEPT !.files = With(@, p, doc), !.left = @ - 1]
Unlink(s, dry, p) ==
  IF dry \/ s.left = 0 THEN s
  ELSE [s EXCEPT !.files = Restrict(@, DOMAIN @ \ {p}), !.left = @ - 1]

-----------------------------------------------------------------------------
(* Migration.  A file is at <<directory, name>>, a name is a sequence of   *)
(* words; "b_" is a second spelling of "b".  Directories are sorted among  *)
(* the names, and all but the archive are searched for active items.       *)
Words == <<"active", "archive", "archive-notes", "b", "b_", "c", "evidence", "record",
           "records", "work-item">>
Key(p) == (IF p[1] = "backlog" THEN <<>> ELSE <<p[1]>>) \o p[2]
Rank(word) == SelectInSeq(Words, LAMBDA w : w = word)
Precedes(p, q) == LET k == Key(p) l == Key(q) IN
  \E i \in DOMAIN k \cap DOMAIN l :
    Rank(k[i]) < Rank(l[i]) /\ \A j \in 1..(i - 1) : k[j] = l[j]
LegacyFiles(files) ==
  Sorted({p \in DOMAIN files : p[1] # "archive"}, Precedes)
    \o Sorted({p \in DOMAIN files : p[1] = "archive"}, Precedes)
(* What has a path that begins with the archive's is taken to be in it.    *)
IsArchived(p) == p[1] \in {"archive", "archive-notes"}

(* deriveLegacySlug, buildWorkItemBasename, buildRecordBasename.           *)
Slug(name) == IF Last(name) = "b_" THEN Front(name) \o <<"b">> ELSE name
Basename(name) == <<"work-item">> \o Slug(name)
RecordFile(name) == <<"records", <<"record">> \o Slug(name) \o <<"evidence">>>>

(* The new names; who comes second to a name is skipped.                   *)
(* Mutant of NewNames: the one who comes second takes the name over.       *)
NewNamesUnchecked(paths) ==
  [names |-> FoldLeft(LAMBDA m, p : With(m, p[2], Basename(p[2])), <<>>, paths), skipped |-> {}]

NewNames(paths) == FoldLeft(LAMBDA s, p :
  IF Basename(p[2]) \in Range(s.names) THEN [s EXCEPT !.skipped = @ \cup {p}]
  ELSE [s EXCEPT !.names = With(@, p[2], Basename(p[2]))],
  [names |-> <<>>, skipped |-> {}], paths)
Renamed(names, ref) == IF ref \in DOMAIN names THEN names[ref] ELSE ref

(* One item: its status, its evidence in a record of its own, its links by *)
(* their new names, its dependencies as links of its body.                 *)
NewStatus(p, doc) == IF IsArchived(p) THEN "closed" ELSE doc.status
HasResults(p, doc) == doc.results \/ NewStatus(p, doc) = "closed"
Migrated(names, p, doc) ==
  [of |-> doc.of, status |-> NewStatus(p, doc), results |-> FALSE, depends |-> {},
   points |-> {Renamed(names, r) : r \in doc.points \cup doc.depends},
   evidence |-> IF HasResults(p, doc) THEN {RecordFile(p[2])} ELSE {}]
RecordOf(name) ==
  [of |-> RecordFile(name)[2], status |-> "ready", results |-> FALSE, depends |-> {},
   points |-> {Basename(name)}, evidence |-> {}]
MigrateItem(s, options, p) == LET
    doc == s.files[p]
    target == <<IF IsArchived(p) THEN "archive" ELSE options.active, Basename(p[2])>>
    recorded == IF HasResults(p, doc)
                  THEN PutFile(s, options.dry, RecordFile(p[2]), RecordOf(p[2])) ELSE s
    written == PutFile(recorded, options.dry, target, Migrated(s.names, p, doc)) IN
  IF p = target THEN written ELSE Unlink(written, options.dry, p)

(* migrateBacklog.                                                         *)
MigrateBacklog(s, options) == LET
    paths == LegacyFiles(s.files)
    given == NewNames(paths) IN
  FoldLeft(LAMBDA t, p : IF p \in given.skipped THEN t ELSE MigrateItem(t, options, p),
           [s EXCEPT !.names = given.names], paths)

-----------------------------------------------------------------------------
(* Renumbering.  A file is named <<number, rest>>; files are read in the   *)
(* order of their names.                                                   *)
Rests == <<"x-y", "x", "z">>
(* A pattern for a name finds it also at the beginning of a longer one.    *)
Found(rest) == IF rest = "x" THEN {"x", "x-y"} ELSE {rest}
NextAvailableId(files) == IF DOMAIN files = {} THEN 1 ELSE Max({f[1] : f \in DOMAIN files}) + 1
NameBefore(f, g) == LET place(n) == SelectInSeq(Rests, LAMBDA r : r = n[2]) IN
  IF f[1] = g[1] THEN place(f) < place(g) ELSE f[1] < g[1]
InOrder(names) == Sorted(names, NameBefore)

(* findDuplicateIdPrefixes: all but the first of each number.              *)
Surplus(files) ==
  InOrder({f \in DOMAIN files : \E g \in DOMAIN files : g[1] = f[1] /\ NameBefore(g, f)})

(* renumberDuplicateFiles: the directory is listed again for each of them. *)
Renumber(s, old) == LET new == <<NextAvailableId(s.files), old[2]>> doc == s.files[old]
    written == PutFile(s, FALSE, new, [doc EXCEPT !.id = IF @ = 0 THEN 0 ELSE new[1]]) IN
  [Unlink(written, FALSE, old) EXCEPT !.names = Append(@, <<old, new>>)]

(* updateBacklogLinks: only what stands right behind `links:` is looked    *)
(* at, the first of a list, and of that only a bare name: a link that is   *)
(* quoted, in brackets or below a key of its own stays as it is.  Every    *)
(* file is written.                                                        *)
NewName(names, name) == FoldLeft(LAMBDA l, n :
  IF l[1] = n[1][1] /\ l[2] \in Found(n[1][2]) THEN <<n[2][1], l[2]>> ELSE l, name, names)
Follow(names, link) == IF link.bare THEN [link EXCEPT !.to = NewName(names, @)] ELSE link
UpdateLinks(s, f) == LET doc == s.files[f] IN
  PutFile(s, FALSE, f, IF doc.links = <<>> THEN doc
                       ELSE [doc EXCEPT !.links[1] = Follow(s.names, @)])

(* renumberDuplicateBacklogItems.                                          *)
RenumberItems(s) == LET renamed == FoldLeft(Renumber, s, Surplus(s.files)) IN
  IF Surplus(s.files) = <<>> THEN s
  ELSE FoldLeft(UpdateLinks, renamed, InOrder(DOMAIN renamed.files))
=============================================================================
