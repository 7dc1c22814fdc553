--------------------------- MODULE GraphQuestions ---------------------------
(***************************************************************************)
(* Questions about the work graph: documents that refer to one another in  *)
(* every way the projection knows, claims and locks on them.               *)
(***************************************************************************)
EXTENDS Question, StatusFacts

CONSTANTS
  MaxLinks,   \* frontmatter links of a document
  Joint       \* the nodes of a graph to find paths in
ASSUME MaxLinksIsANumber == MaxLinks \in Nat

(* The item i1, a second document that may share its id or the name of its *)
(* file, a record of them, a project and a note.                           *)
Document(kind, id, file, links, rels, deep, subjects) ==
  [kind |-> kind, id |-> id, file |-> file, links |-> links, rels |-> rels, deep |-> deep,
   subjects |-> subjects]
Named(kind, id, file) == Document(kind, id, file, <<>>, <<>>, <<>>, <<>>)
Links == {[key |-> k, ref |-> r] : k \in {"depends_on", "evidence", "related"},
           r \in {<<"wi-", "2">>, <<"", "b">>, <<"record", "r">>, <<"", "p">>}}
Rels == {[key |-> k, ref |-> r] : k \in {"part_of", "blocks"}, r \in {<<"project", "p">>}}
Seconds == {Named("work-item", id, <<"", "b">>) : id \in {<<"wi-", "2">>, <<"wi", "2">>, <<"", "2">>}}
  \cup {Named("work-item", <<"wi-", "2">>, <<"", "a">>), Named("work-item", <<"wi", "1">>, <<"", "b">>)}
SubjectLists == {<<>>, <<<<"claim", "t">>, <<"wi-", "1">>>>, <<<<"", "p">>, <<"", "p">>, <<"", "p">>>>,
                 <<<<"release", "q">>, <<"", "b">>, <<"", "zz">>>>}
Workspace(ls, rs, deep, second, ss) ==
  << Document("work-item", <<"wi-", "1">>, <<"", "a">>, ls, rs, deep, <<>>),
     second, Named("note", <<"note", "n">>, <<"", "n">>),
     Document("record", <<"record", "r">>, <<"", "r">>, <<>>, <<>>, <<>>, ss),
     Named("scope", <<"project", "p">>, <<"", "p">>) >>
TaskClaim == [token |-> "t", type |-> "task", target |-> <<"wi-", "1">>]
Lock(token, scope, state) == [token |-> token, scope |-> scope, state |-> state]
LockLists == {<<>>, <<Lock("t", <<"wi", "1">>, "active"), Lock("u", <<"wi", "2">>, "active")>>,
              <<Lock("t", <<"wi", "2">>, "active"), Lock("t", <<"project", "p">>, "active"),
                Lock("t", <<"release", "q">>, "released")>>}
AskGraph == Unasked /\ \E ls \in SeqOf(Links, MaxLinks), rs \in SeqOf(Rels, 1), second \in Seconds,
                ss \in SubjectLists, locks \in LockLists :
  Ask([kind |-> "graph", docs |-> Workspace(ls, rs, <<>>, second, ss),
       claims |-> <<TaskClaim>>, locks |-> locks])

(* References of i1 in all their forms, to documents of every class.       *)
Named2 == {<<"wi-", "2">>, <<"wi", "2">>, <<"", "b">>, <<"record", "r">>, <<"project", "p">>,
           <<"", "n">>, <<"", "zz">>}
Written == {[key |-> k, ref |-> r, form |-> f] :
              k \in {"depends_on", "related"}, r \in Named2, f \in {"text", "wiki", "object"}}
RelatedTo == {<<"wi", "2">>, <<"", "zz">>}
Related == {[key |-> k, ref |-> r, form |-> "wiki", place |-> p] :
              k \in {"part_of", "depends_on"}, r \in RelatedTo, p \in {"section", "sub"}}
AskStatus == Unasked /\ \E one, two \in Written, rs \in SeqOf(Related, 1), second \in Seconds,
                 deep \in BOOLEAN :
  /\ two.form = "text" /\ (deep => rs # <<>> /\ rs[1].place = "section")
  /\ Ask([kind |-> "status", docs |-> Workspace(<<one, two>>, IF deep THEN <<>> ELSE rs,
                                                   IF deep THEN rs ELSE <<>>, second, <<>>)])

-----------------------------------------------------------------------------
(* Every edge joins two nodes of the graph, no node is there twice, and no *)
(* two edges have one id: an explorer that follows an edge finds its end.  *)
Closed(g) ==
  /\ IsInjective(g.nodes)
  /\ \A e \in ToSet(g.edges) : HasNode(g, e.from) /\ HasNode(g, e.to)
                               /\ e.to \in Neighbours(g, e.from)
  /\ \A i, j \in DOMAIN g.edges : EdgeId(g.edges, i) = EdgeId(g.edges, j) => i = j
GraphClosed == Asked("graph") => Closed(Project(asked.docs, asked.claims, asked.locks))

(* The graph does not depend on the order of the files, unless two of them *)
(* can be referred to by the same name.                                    *)
Unambiguous(docs) == \A i, j \in DOMAIN docs :
  Class(docs[i]) = "projectable" /\ Class(docs[j]) = "projectable"
    /\ Aliases(docs[i]) \cap Aliases(docs[j]) # {} => NodeId(docs[i]) = NodeId(docs[j])
GraphOrderIndependent == Asked("graph") /\ Unambiguous(asked.docs) =>
  LET g == Project(asked.docs, asked.claims, asked.locks)
      h == Project(Reverse(asked.docs), Reverse(asked.claims), Reverse(asked.locks)) IN
  ToSet(g.nodes) = ToSet(h.nodes) /\ ToSet(g.edges) = ToSet(h.edges)

(* After a renewal whatever the documents say of the claim's task and of   *)
(* its scopes, the graph shows the claim and its locks: the renewal is not *)
(* made and then reported as failed.                                       *)
RenewalVerifies == Asked("graph") =>
  Verified(Project(asked.docs, asked.claims, asked.locks), TaskClaim, asked.locks)

(* The status command hides no reference that leads nowhere: it has a      *)
(* diagnostic, unless the item is related to the same document in another  *)
(* way, or is a dependency written as an object or below a smaller heading,*)
(* which only the graph reads.  Nor is a reference reported that the graph *)
(* has an edge for, unless it is a wiki link to a document by none of the  *)
(* names its node is known by.                                             *)
LeadsTo(docs, a, n) == \E i \in DOMAIN docs :
  NodeId(docs[i]) = n /\ (a.ref \in Aliases(docs[i]) \/ Canonical(a.ref) = Canonical(docs[i].id))
StatusHidesNothing == Asked("status") => LET
    doc == asked.docs[1]  g == Project(asked.docs, <<>>, <<>>)
    facts == Facts(g, asked.docs, doc)
    reported == {d.of : d \in facts.diagnostics}
    out(a) == {e \in {g.edges[i] : i \in Outgoing(g, NodeId(doc))} : e.key = a.key} IN
  /\ \A l \in {k \in ToSet(doc.links) : k.key # "depends_on" \/ k.form # "object"}
          \cup {r \in ToSet(doc.rels) : r.place # "sub"} \cup ToSet(doc.deep) :
       \/ \E e \in out(l) : e.raw = l.ref \/ LeadsTo(asked.docs, l, e.to)
       \/ \E a \in reported : a.key = l.key /\ a.ref = l.ref
  /\ \A a \in reported : \A e \in out(a) : e.raw = a.ref =>
       a.form = "wiki" /\ a.ref \notin NodeTokens(asked.docs, e.to)
  /\ \A e \in out([key |-> "depends_on"]) : [type |-> "depends_on", target |-> e.raw] \in facts.relationships

(* What the graph says is whole, and so is what the status says of it.     *)
GraphShowsAll == GraphClosed /\ StatusHidesNothing

(* A path is found exactly if there is one, and it is a shortest one.      *)
Walks(edges, start, n) == LET
  ends[k \in 0..n] == IF k = 0 THEN {start} ELSE {e[2] : e \in {f \in ToSet(edges) : f[1] \in ends[k - 1]}}
  IN ends[n]
ASSUME TraceIsShortest == \A E \in SUBSET {e \in Joint \X Joint : e[1] # e[2]}, start, end \in Joint : LET
    edges == SetToSeq(E) t == Trace(Joint, edges, start, end)
    hits == {n \in 0..Cardinality(Joint) : end \in Walks(edges, start, n)} IN
  IF hits = {} THEN t = NoTrace
  ELSE /\ t # NoTrace /\ Len(t) \in hits /\ \A n \in hits : Len(t) <= n
       /\ t # <<>> => edges[t[1]][1] = start /\ edges[t[Len(t)]][2] = end
       /\ \A i \in 1..(Len(t) - 1) : edges[t[i]][2] = edges[t[i + 1]][1]
=============================================================================
