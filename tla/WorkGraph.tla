----------------------------- MODULE WorkGraph ------------------------------
(***************************************************************************)
(* projectWorkGraph: the graph of work items, records, scopes and claims,  *)
(* built in passes over the documents in path order and over the rows of   *)
(* the runtime store.  Ids and references are pairs <<specifier, id>>; a   *)
(* node is the pair of its type and its reference.                         *)
(***************************************************************************)
EXTENDS SequencesExt

Absent == <<>>

(* canonicalizeScopeRef, canonicalizeWorkItemScopeRef: Absent if they throw*)
Canonical(ref) ==
  IF ref = Absent \/ ref[1] \in {"", "file"} THEN Absent
  ELSE IF ref[1] \in {"wi", "wi-", "work-item"} THEN <<"wi", ref[2]>> ELSE ref
WorkItemRef(ref) ==
  IF Canonical(ref) # Absent /\ Canonical(ref)[1] = "wi" THEN Canonical(ref) ELSE Absent

(* resolveDocumentNodeId: the node a reference to a document leads to, and *)
(* createNodeFromDocument: the node its own pass creates.                  *)
NodeId(doc) ==
  IF doc.id = Absent THEN Absent
  ELSE CASE doc.kind = "work-item" -> IF WorkItemRef(doc.id) = Absent THEN Absent
                                      ELSE <<"work-item", WorkItemRef(doc.id)>>
         [] doc.kind = "record" -> <<"record", doc.id[2]>>
         [] doc.kind = "scope" -> IF Canonical(doc.id) = Absent THEN Absent
                                  ELSE <<"scope", Canonical(doc.id)>>
         [] OTHER -> Absent
Created(doc) == IF doc.kind = "scope" THEN <<"scope", doc.id>> ELSE NodeId(doc)

(* classifyDocument.                                                       *)
Class(doc) == IF doc.id = Absent THEN "skipped"
              ELSE IF NodeId(doc) = Absent THEN "unsupported" ELSE "projectable"

(* documentAliases: the id, its form with a dash, the name of the file.    *)
Aliases(doc) == {doc.id, doc.file} \cup
  (IF doc.id[1] = "" THEN {} ELSE {<<doc.id[1] \o "-", doc.id[2]>>})
Resolve(s, ref) == IF ref \in DOMAIN s.alias THEN s.alias[ref] ELSE Absent

Graph(nodes, edges, alias) == [nodes |-> nodes, edges |-> edges, alias |-> alias]
HasNode(s, n) == n \in ToSet(s.nodes)
WithNode(s, n) == IF HasNode(s, n) THEN s ELSE Graph(Append(s.nodes, n), s.edges, s.alias)

(* The first pass: the last document to use an alias has it, the first     *)
(* with an id makes the node; a work item is a scope, too.                 *)
WithAliases(s, doc) == [a \in Aliases(doc) \cup DOMAIN s.alias |->
  IF a \in Aliases(doc) THEN NodeId(doc) ELSE s.alias[a]]
AddDocument(s, doc) ==
  IF Class(doc) # "projectable" THEN s
  ELSE LET n == Created(doc) IN
       Graph(IF HasNode(s, n) THEN s.nodes
             ELSE IF doc.kind = "work-item" THEN Append(Append(s.nodes, n), <<"scope", n[2]>>)
             ELSE Append(s.nodes, n),
             s.edges, WithAliases(s, doc))

-----------------------------------------------------------------------------
(* createEdge: its authority, and where it was written.                    *)
Edge(from, type, to, source, key, raw) ==
  [from |-> from, type |-> type, to |-> to, source |-> source, key |-> key, raw |-> raw,
   authority |-> IF type = "references" THEN "informational" ELSE "formal"]
WithEdge(s, e) == Graph(s.nodes, Append(s.edges, e), s.alias)

(* The second pass: claims, and the scopes they belong to.                 *)
ClaimScope(c) == IF c.type \in {"task", "work-item", "wi"} THEN WorkItemRef(c.target)
                 ELSE <<c.type, c.target>>
AddClaim(s, c) ==
  LET from == <<"claim", c.token>> to == <<"scope", ClaimScope(c)>> IN
  WithEdge(WithNode(WithNode(s, from), to),
    Edge(from, "belongs_to", to, c.token, "edge", to))

(* projectRuntimeLockEdges: the active locks of the claims that are there. *)
(* Mutant of AddLock: a scope that has a node already gets no edge.        *)
AddLockOfNewScope(s, l) ==
  LET from == <<"claim", l.token>> to == <<"scope", Canonical(l.scope)>> IN
  IF l.state # "active" \/ ~HasNode(s, from) \/ HasNode(s, to) THEN s
  ELSE WithEdge(WithNode(s, to), Edge(from, "locks", to, l.token, "scope_lock", l.scope))

AddLock(s, l) ==
  LET from == <<"claim", l.token>> to == <<"scope", Canonical(l.scope)>> IN
  IF l.state # "active" \/ ~HasNode(s, from) THEN s
  ELSE WithEdge(WithNode(s, to), Edge(from, "locks", to, l.token, "scope_lock", l.scope))

-----------------------------------------------------------------------------
(* createResolvedTargetNode: only a scope can be a target without a node.  *)
Target(s, ref) == LET n == Resolve(s, ref) IN
  IF n = Absent \/ HasNode(s, n) \/ n[1] = "scope" THEN n ELSE Absent

(* ensureScopeNode, and the edge.                                          *)
Point(s, from, type, to, doc, key, raw) ==
  IF to = Absent THEN s
  ELSE WithEdge(IF to[1] = "scope" THEN WithNode(s, to) ELSE s,
         Edge(from, type, to, doc.file, key, raw))

InformalLink(doc, s, l) ==
  IF l.key \in {"depends_on", "evidence"} THEN s
  ELSE Point(s, NodeId(doc), "references", Target(s, l.ref), doc, l.key, l.ref)
InformalLinks(s, doc) == FoldLeft(LAMBDA t, l : InformalLink(doc, t, l), s, doc.links)

(* Evidence links count only if they lead to a record; the edge points     *)
(* from the record to the item.                                            *)
EvidenceLink(doc, s, l) == LET n == Resolve(s, l.ref) IN
  IF l.key = "evidence" /\ n # Absent /\ n[1] = "record" /\ HasNode(s, n)
  THEN Point(s, n, "records", NodeId(doc), doc, l.key, l.ref) ELSE s
EvidenceLinks(s, doc) == FoldLeft(LAMBDA t, l : EvidenceLink(doc, t, l), s, doc.links)

DependencyLink(doc, s, l) ==
  IF l.key # "depends_on" THEN s
  ELSE Point(s, NodeId(doc), "depends_on", Target(s, l.ref), doc, l.key, l.ref)
DependencyLinks(s, doc) == FoldLeft(LAMBDA t, l : DependencyLink(doc, t, l), s, doc.links)

(* mapRelationshipType, and the Relationships section of the body.         *)
RelationType == [part_of |-> "belongs_to", belongs_to |-> "belongs_to",
                 implements |-> "implements", depends_on |-> "depends_on"]
Relationship(doc, s, r) ==
  IF r.key \notin DOMAIN RelationType THEN s
  ELSE Point(s, NodeId(doc), RelationType[r.key], Target(s, r.ref), doc, r.key, r.ref)
Relationships(s, doc) == FoldLeft(LAMBDA t, r : Relationship(doc, t, r), s, doc.rels)

(* resolveRecordSubjectTarget: a claim, a document, or any scope.          *)
Subject(s, ref) ==
  IF ref[1] = "claim" THEN IF HasNode(s, ref) THEN ref ELSE Absent
  ELSE IF Resolve(s, ref) # Absent THEN Target(s, ref)
  ELSE IF Canonical(ref) = Absent THEN Absent ELSE <<"scope", Canonical(ref)>>
SubjectLink(doc, s, ref) ==
  Point(s, NodeId(doc), "records", Subject(s, ref), doc, "subject_reference", ref)
Subjects(s, doc) == FoldLeft(LAMBDA t, ref : SubjectLink(doc, t, ref), s, doc.subjects)

(* The third pass.                                                         *)
AddEdges(s, doc) ==
  IF Class(doc) # "projectable" \/ ~HasNode(s, NodeId(doc)) THEN s
  ELSE LET t == InformalLinks(s, doc) IN
       CASE doc.kind = "work-item" -> Relationships(DependencyLinks(EvidenceLinks(t, doc), doc), doc)
         [] doc.kind = "record" -> Subjects(t, doc)
         [] OTHER -> t

Empty == Graph(<<>>, <<>>, [a \in {} |-> Absent])

(* Mutant of Project: nodes and edges of a document in one pass.           *)
ProjectInOnePass(docs, claims, locks) ==
  LET runtime == FoldLeft(AddLock, FoldLeft(AddClaim, Empty, claims), locks) IN
  FoldLeft(LAMBDA s, doc : AddEdges(AddDocument(s, doc), doc), runtime, docs)

Project(docs, claims, locks) ==
  LET nodes == FoldLeft(AddDocument, Empty, docs)
      runtime == FoldLeft(AddLock, FoldLeft(AddClaim, nodes, claims), locks) IN
  FoldLeft(AddEdges, runtime, docs)

-----------------------------------------------------------------------------
(* disambiguateEdgeIds: of the edges with the same ends and type, the last *)
(* one has the plain id, the others say where they come from and are then  *)
(* numbered.                                                               *)
SameId(e, f) == e.from = f.from /\ e.type = f.type /\ e.to = f.to
SameSource(e, f) == SameId(e, f) /\ e.source = f.source /\ e.key = f.key /\ e.raw = f.raw
Plain(edges, i) == \A j \in DOMAIN edges : j > i => ~SameId(edges[j], edges[i])
EdgeId(edges, i) == LET e == edges[i] IN
  IF Plain(edges, i) THEN <<e.from, e.type, e.to>>
  ELSE <<e.from, e.type, e.to, e.source, e.key, e.raw,
         Cardinality({j \in 1..i : SameSource(edges[j], e)})>>

(* inspectWorkGraphNode, queryWorkGraphEdges: edges, and their ends.       *)
Outgoing(g, n) == {i \in DOMAIN g.edges : g.edges[i].from = n}
Incoming(g, n) == {i \in DOMAIN g.edges : g.edges[i].to = n}
Neighbours(g, n) == {m \in ToSet(g.nodes) :
  \/ m = n \/ \E i \in Outgoing(g, n) : g.edges[i].to = m
  \/ \E i \in Incoming(g, n) : g.edges[i].from = m}

-----------------------------------------------------------------------------
(* collectVerificationDiagnostics: nothing is missing in the graph after   *)
(* the renewal of claim c.                                                 *)
ClaimScopeRef(c) == IF c.type \in {"task", "work-item"} THEN WorkItemRef(c.target)
                    ELSE Canonical(c.target)
Joined(g, from, type, to) == \E e \in ToSet(g.edges) : e.from = from /\ e.type = type /\ e.to = to
Verified(g, c, locks) ==
  LET from == <<"claim", c.token>> scope == <<"scope", ClaimScopeRef(c)>> IN
  /\ HasNode(g, from) /\ HasNode(g, scope) /\ Joined(g, from, "belongs_to", scope)
  /\ \A i \in DOMAIN locks : locks[i].token = c.token /\ locks[i].state = "active" =>
       LET to == <<"scope", locks[i].scope>> IN
       /\ HasNode(g, to)
       /\ \E e \in ToSet(g.edges) :
            e.from = from /\ e.type = "locks" /\ e.to = to /\ e.source = c.token /\ e.raw = locks[i].scope

-----------------------------------------------------------------------------
(* traceDirectedPath: breadth first; s.queue holds the nodes seen, s.via   *)
(* the edge each was reached by.  edges is a sequence of pairs.            *)
Reach(edges, s, n) == FoldLeft(LAMBDA t, i :
  IF edges[i][1] # n \/ edges[i][2] \in ToSet(t.queue) THEN t
  ELSE [queue |-> Append(t.queue, edges[i][2]),
        via |-> [m \in {edges[i][2]} |-> i] @@ t.via],
  s, [i \in DOMAIN edges |-> i])
Search(nodes, edges, start) == LET
  seen[k \in 0..Cardinality(nodes)] ==
    IF k = 0 THEN [queue |-> <<start>>, via |-> [m \in {} |-> 0]]
    ELSE LET s == seen[k - 1] IN
         IF k > Len(s.queue) THEN s ELSE Reach(edges, s, s.queue[k])
  IN seen[Cardinality(nodes)]

(* reconstructPathTrace: the edges from start to end, or that there is no  *)
(* way.                                                                    *)
NoTrace == <<0>>
Trace(nodes, edges, start, end) ==
  IF ~({start, end} \subseteq nodes) THEN NoTrace
  ELSE IF start = end THEN <<>>
  ELSE LET via == Search(nodes, edges, start).via
           back[k \in 0..Cardinality(nodes)] ==
             IF k = 0 THEN <<>>
             ELSE LET p == back[k - 1] n == IF p = <<>> THEN end ELSE edges[p[1]][1] IN
                  IF n = start \/ n \notin DOMAIN via THEN p ELSE <<via[n]>> \o p
       IN IF end \in DOMAIN via THEN back[Cardinality(nodes)] ELSE NoTrace
=============================================================================
