-------------------------- MODULE RewriteQuestions --------------------------
(***************************************************************************)
(* Questions about the rewrites of a whole backlog: two items to migrate,  *)
(* a few numbered files, and the write after which the rewrite is killed.  *)
(***************************************************************************)
EXTENDS Question, BacklogRewrite

Legacy(name, status, results, points, depends) ==
  [of |-> name, status |-> status, results |-> results, points |-> points, depends |-> depends,
   evidence |-> {}]
One == <<"backlog", <<"b">>>>
Others == {<<"backlog", <<"b_">>>>, <<"backlog", <<"c">>>>, <<"archive", <<"b">>>>,
           <<"archive", <<"c">>>>, <<"archive-notes", <<"c">>>>, <<"backlog", <<"work-item", "b">>>>}
LegacyBacklog(other, file, second) == [p \in {One, other} |-> IF p = One THEN file ELSE second]
AskMigration == Unasked /\ \E other \in Others, s, t \in {"ready", "closed"}, r, u \in BOOLEAN,
                   active \in {"backlog", "active"}, dry \in BOOLEAN, left \in 0..7 :
  \E points, depends \in SUBSET {other[2]}, back \in SUBSET {<<"b">>} :
    /\ dry => left = 7
    /\ Ask([kind |-> "migration", left |-> left, options |-> [active |-> active, dry |-> dry],
            files |-> LegacyBacklog(other, Legacy(<<"one">>, s, r, points, depends),
                                    Legacy(<<"other">>, t, u, back, {}))])

Numbered == ({1, 2} \X {"x", "x-y"}) \cup {<<2, "z">>}
AskRenumbering == Unasked /\ \E names \in SUBSET Numbered, left \in 0..6 : \E from \in names :
  \E links \in SeqOf([to : names, bare : BOOLEAN], 2), ids \in BOOLEAN :
    Ask([kind |-> "renumbering", left |-> left,
         files |-> [f \in names |-> [of |-> f, id |-> IF ids THEN f[1] ELSE 0,
                                     links |-> IF f = from THEN links ELSE <<>>]]])

-----------------------------------------------------------------------------
(* What is in the files, and where an item is.                             *)
Items(files) == {files[p].of : p \in DOMAIN files}
Places(files, item) == {p \in DOMAIN files : files[p].of = item}

(* A migration, killed wherever, loses no item, unless one has the name    *)
(* already that another is given; nor does it if it is made again, unless  *)
(* two items would get one name.  Not killed, it leaves                    *)
(* every item in one file, that of an archived item in the archive; a link *)
(* of an item that got its name leads where it led; its evidence is there. *)
Untaken(files) == \A p, q \in DOMAIN files : Basename(p[2]) # q[2]
MigrationKept(q) == LET
    old == q.files  o == q.options
    killed == MigrateBacklog(Rewriting(old, q.left), o)
    again == MigrateBacklog(Rewriting(killed.files, 99), o)
    new == MigrateBacklog(Rewriting(old, 99), o).files IN
  /\ Items(old) \subseteq Items(killed.files)
  /\ NewNames(LegacyFiles(old)).skipped = {} => Items(old) \subseteq Items(again.files)
  /\ o.dry => new = old
  /\ \A p \in DOMAIN old : \E g \in Places(new, old[p].of) :
       /\ Places(new, old[p].of) = {g}
       /\ p[1] = "archive" => g[1] = "archive"
       /\ new[g].evidence \subseteq DOMAIN new
       /\ p # g => \A t \in DOMAIN old : t[2] \in old[p].points \cup old[p].depends
            /\ (\A v \in DOMAIN old : v[2] = t[2] => v = t) =>
              \E w \in Places(new, old[t].of) : w[2] \in new[g].points \cup new[g].depends
MigrationKeepsItems == Asked("migration") /\ Untaken(asked.files) => MigrationKept(asked)

(* A renumbering, killed wherever and then made again, loses no item and   *)
(* leaves no two files with one number.  Not killed, it leaves every item  *)
(* in one file; unless a name is the beginning of another, no link leads   *)
(* to another item than it did, and the first of a file still leads to its *)
(* own if it is a bare name: any other is lost with the name it has.       *)
Distinct(files) == \A f, g \in DOMAIN files : f[1] = g[1] /\ g[2] \in Found(f[2]) => f = g
LinkKept(new, i, was, is) ==
  IF is.to \in DOMAIN new THEN new[is.to].of = was.to ELSE i # 1 \/ ~was.bare
RenumberingKept(q) == LET
    old == q.files
    again == RenumberItems(Rewriting(RenumberItems(Rewriting(old, q.left)).files, 99)).files
    new == RenumberItems(Rewriting(old, 99)).files IN
  /\ Items(old) = Items(again)
  /\ \A f, g \in DOMAIN again : f[1] = g[1] => f = g
  /\ \A f \in DOMAIN old : \E g \in Places(new, f) :
       /\ Places(new, f) = {g} /\ (new[g].id # 0 => new[g].id = g[1])
       /\ Distinct(old) => \A i \in DOMAIN old[f].links :
            LinkKept(new, i, old[f].links[i], new[g].links[i])
RenumberingKeepsItems == Asked("renumbering") => RenumberingKept(asked)

(* Neither rewrite of a backlog loses an item or a way to one.            *)
RewritesKeepItems == MigrationKeepsItems /\ RenumberingKeepsItems

AskRewrite == AskMigration \/ AskRenumbering
=============================================================================
