---------------------------- MODULE StatusFacts -----------------------------
(***************************************************************************)
(* What the status command says of the references an item was given: which *)
(* of them are relationships or references in the work graph, and which    *)
(* lead nowhere.  It reads the item for itself and then compares with the  *)
(* edges of the graph, by names.  A link is written as text, as a wiki link*)
(* or as an object; a relationship stands in the section of that name,     *)
(* below a smaller heading in it ("sub"), or, in doc.deep, in a section of *)
(* that name that is not on the second level.                              *)
(***************************************************************************)
EXTENDS WorkGraph, FiniteSetsExt

(* collectAuthoredStatusReferences: extractDependencies of the task takes  *)
(* no objects, and its sections end at every heading.                      *)
Reference(scope, l) == [scope |-> scope, key |-> l.key, ref |-> l.ref, form |-> l.form]
RelationsRead(doc) == {r \in ToSet(doc.rels) : r.place # "sub"} \cup ToSet(doc.deep)
Authored(doc) ==
  {Reference("formal", l) : l \in {k \in ToSet(doc.links) : k.key = "depends_on" /\ k.form # "object"}}
    \cup {Reference("informational", l) :
            l \in {k \in ToSet(doc.links) : k.key \notin {"depends_on", "evidence"}}}
    \cup {Reference("formal", r) : r \in {s \in RelationsRead(doc) : s.key \in DOMAIN RelationType}}

(* nodeReferenceTokens: the id of a node, and the id and the file of the   *)
(* document it was made from.                                              *)
Maker(docs, n) == LET makers == {i \in DOMAIN docs : Created(docs[i]) = n} IN
  IF makers = {} THEN {i \in DOMAIN docs : NodeId(docs[i]) = n} ELSE {Min(makers)}
NodeTokens(docs, n) ==
  (UNION {{docs[i].id, docs[i].file} : i \in Maker(docs, n)})
    \cup (CASE n[1] = "work-item" -> {n[2]} [] n[1] = "record" -> {n} [] OTHER -> {})

(* edgeReferenceTokens: what was written counts as it was written, a wiki  *)
(* link with its brackets.                                                 *)
(* Mutant of EdgeTokens: the node an edge leads to has no other names.     *)
EdgeTokensWritten(docs, doc, e) ==
  IF \E l \in ToSet(doc.links \o doc.rels) : l.key = e.key /\ l.ref = e.raw /\ l.form # "wiki"
  THEN {e.raw} ELSE {}

EdgeTokens(docs, doc, e) == NodeTokens(docs, e.to) \cup
  {l.ref : l \in {k \in ToSet(doc.links \o doc.rels) :
                    k.key = e.key /\ k.ref = e.raw /\ k.form # "wiki"}}

(* referenceMatchesEdge, matchProjectionDiagnostic.                        *)
Matches(docs, doc, a, e) == e.key = a.key /\ a.ref \in EdgeTokens(docs, doc, e)
Reason(docs, a) == LET found == {i \in DOMAIN docs :
    Class(docs[i]) # "projectable" /\ a.ref \in {docs[i].id, docs[i].file}} IN
  IF found = {} THEN "unresolved" ELSE Class(docs[Min(found)])

(* collectTaskStatusGraphFacts.                                            *)
Facts(g, docs, doc) == LET
    out == {g.edges[i] : i \in Outgoing(g, NodeId(doc))}
    formal == {e \in out : e.type \in {"belongs_to", "depends_on", "implements"}}
    informal == {e \in out : e.type = "references"} IN
  [relationships |-> {[type |-> e.type, target |-> e.raw] : e \in formal},
   references |-> {[key |-> e.key, target |-> e.raw, to |-> e.to] : e \in informal},
   diagnostics |-> {[of |-> a, reason |-> Reason(docs, a)] : a \in {b \in Authored(doc) :
     \A e \in (IF b.scope = "formal" THEN formal ELSE informal) : ~Matches(docs, doc, b, e)}}]
=============================================================================
