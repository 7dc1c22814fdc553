-------------------------- MODULE ReadinessProofs ---------------------------
(***************************************************************************)
(* What is offered as ready, what can be claimed, what the review offers   *)
(* and what the findings say of an item, for every backlog: all judge by   *)
(* one kernel, and by dependencies that each finds in its own way.  And    *)
(* what the locks of a claim must be for its changes to pass the audit.    *)
(***************************************************************************)
EXTENDS BacklogProofs

-----------------------------------------------------------------------------
(* An index is there.                                                      *)
LEMMA InList ==
  ASSUME NEW docs
  PROVE  /\ \A i \in DOMAIN docs : docs[i] \in ToSet(docs)
         /\ \A d \in ToSet(docs) : \E i \in DOMAIN docs : docs[i] = d
BY DEF ToSet

(* What a graph of documents alone has of work items: a node for each that *)
(* has an id, and a dependency where something that one refers to leads.   *)
DependencyEdge(docs, e, i, j, r) ==
  /\ docs[i].kind = "work-item" /\ Class(docs[i]) = "projectable"
  /\ Calls(docs[j], r) /\ r \in Refs(docs[i].links) \cup Refs(docs[i].rels)
  /\ e.from = NodeId(docs[i]) /\ e.type = "depends_on" /\ e.to = NodeId(docs[j])

(* What is written down among the links of a document.                     *)
LEMMA RefersTo ==
  ASSUME NEW pairs
  PROVE  \A r : r \in Refs(pairs) <=> \E p \in ToSet(pairs) : p.key = "depends_on" /\ p.ref = r
BY DEF Refs, Depends

(* The work items of a graph of documents alone, with their dependencies.  *)
LEMMA ItemsOfProject ==
  ASSUME NEW docs, IsList(docs), \A d \in ToSet(docs) : WellWritten(d) /\ WellIdentified(d)
  PROVE  LET g == Project(docs, <<>>, <<>>) IN
         /\ \A m : m[1] = "work-item" =>
              (HasNode(g, m) <=> \E k \in DOMAIN docs : Class(docs[k]) = "projectable" /\ NodeId(docs[k]) = m)
         /\ \A e \in ToSet(g.edges) : e.type = "depends_on" =>
              \E i \in DOMAIN docs, j \in DOMAIN docs : \E r : DependencyEdge(docs, e, i, j, r)
         /\ \A i \in DOMAIN docs, q \in DOMAIN docs : \A r \in Refs(docs[i].links) :
              docs[i].kind = "work-item" /\ Class(docs[i]) = "projectable" /\ Calls(docs[q], r) =>
                \E e \in ToSet(g.edges), j \in DOMAIN docs : DependencyEdge(docs, e, i, j, r)
<1> DEFINE a == FoldLeft(AddDocument, Empty, docs)
           b == FoldLeft(AddClaim, a, <<>>)
           s == Ground(docs, <<>>, <<>>)
           g == Project(docs, <<>>, <<>>)
           c == Pass("edges", 0, s, docs)
<1>1. PICK n \in Nat : DOMAIN docs = 1..n
  BY DEF IsList
<1>2. \A i \in 1..n : docs[i] \in ToSet(docs) /\ WellWritten(docs[i]) /\ WellIdentified(docs[i])
  BY <1>1, InList
<1>3. DOMAIN <<>> = 1..0 /\ 0 \in Nat /\ 1..0 = {}
  OBVIOUS
<1>4. /\ FirstAdds(docs, n, a)
      /\ PassAdds(Pass("claim", 0, a, <<>>), 0, b)
      /\ PassAdds(Pass("lock", 0, b, <<>>), 0, s)
      /\ PassAdds(c, n, g)
  BY <1>1, <1>2, <1>3, ProjectIsExact
<1> HIDE DEF a, b, s, g
<1>5. /\ s.alias = a.alias
      /\ \A f : f \notin ToSet(s.edges)
      /\ \A m : HasNode(s, m) <=> HasNode(a, m)
  <2>1. /\ b.alias = a.alias /\ \A f : f \in ToSet(b.edges) <=> f \in ToSet(a.edges)
        /\ \A m : HasNode(b, m) <=> HasNode(a, m)
    <3>1. Pass("claim", 0, a, <<>>).base = a
      BY DEF Pass
    <3> QED BY <1>3, <1>4, <3>1 DEF PassAdds
  <2>2. /\ s.alias = b.alias /\ \A f : f \in ToSet(s.edges) <=> f \in ToSet(b.edges)
        /\ \A m : HasNode(s, m) <=> HasNode(b, m)
    <3>1. Pass("lock", 0, b, <<>>).base = b
      BY DEF Pass
    <3> QED BY <1>3, <1>4, <3>1 DEF PassAdds
  <2>3. a.edges = <<>> /\ ToSet(<<>>) = {}
    BY <1>4 DEF FirstAdds, ToSet
  <2> QED BY <2>1, <2>2, <2>3
<1>6. c.base = s /\ c.list = docs /\ c.pass = "edges"
  BY DEF Pass
<1> HIDE DEF c
<1>7. \A ref : Resolve(s, ref) # Absent =>
        \E j \in 1..n : Calls(docs[j], ref) /\ Resolve(s, ref) = NodeId(docs[j])
  BY <1>4, <1>5 DEF FirstAdds, Resolve
<1>8. \A ref : Target(s, ref) # Absent => Target(s, ref) = Resolve(s, ref)
  BY DEF Target
<1>9. ASSUME NEW m, m[1] = "work-item"
      PROVE  HasNode(g, m) <=> \E k \in 1..n : Class(docs[k]) = "projectable" /\ NodeId(docs[k]) = m
  <2>1. \A i \in 1..n : ~GivesNode(c, docs[i], m)
    BY <1>6, <1>9 DEF GivesNode, PointNode
  <2>2. HasNode(g, m) <=> HasNode(a, m)
    BY <1>4, <1>5, <1>6, <2>1 DEF PassAdds
  <2>3. \A i \in 1..n : Makes(docs[i], m) <=> Class(docs[i]) = "projectable" /\ NodeId(docs[i]) = m
    BY <1>2, <1>9 DEF Makes, WellIdentified
  <2> QED BY <1>4, <2>2, <2>3 DEF FirstAdds
<1>10. ASSUME NEW e \in ToSet(g.edges), e.type = "depends_on"
       PROVE  \E i \in 1..n, j \in 1..n : \E r : DependencyEdge(docs, e, i, j, r)
  <2>1. PICK i \in 1..n : GivesEdge(c, docs[i], e)
    BY <1>4, <1>5, <1>6 DEF PassAdds
  <2> DEFINE d == docs[i]
  <2>2. Linkable(s, d) /\ \E pass \in PassesOver(d) : \E y \in Parts(pass, d) : PartEdge(pass, d, s, y, e)
    BY <1>6, <2>1 DEF GivesEdge
  <2>3. PICK pass \in PassesOver(d) : \E y \in Parts(pass, d) : PartEdge(pass, d, s, y, e)
    BY <2>2
  <2>4. PICK y \in Parts(pass, d) : PartEdge(pass, d, s, y, e)
    BY <2>3
  <2>5. Class(d) = "projectable"
    BY <2>2 DEF Linkable
  <2>6. ASSUME y.key = "depends_on", y \in ToSet(d.links) \cup ToSet(d.rels), d.kind = "work-item",
               Target(s, y.ref) # Absent, e = Edge(NodeId(d), "depends_on", Target(s, y.ref), d.file, y.key, y.ref)
        PROVE  \E j \in 1..n : DependencyEdge(docs, e, i, j, y.ref)
    <3>1. PICK j \in 1..n : Calls(docs[j], y.ref) /\ Target(s, y.ref) = NodeId(docs[j])
      BY <1>7, <1>8, <2>6
    <3>2. y.ref \in Refs(d.links) \cup Refs(d.rels)
      BY <2>6, RefersTo
    <3>3. e.from = NodeId(d) /\ e.type = "depends_on" /\ e.to = NodeId(docs[j])
      BY <2>6, <3>1 DEF Edge
    <3> QED BY <2>5, <2>6, <3>1, <3>2, <3>3 DEF DependencyEdge
  <2> HIDE DEF d
  <2>7. ASSUME NEW from, NEW type, NEW to, type # "depends_on"
        PROVE  ~PointEdge(from, type, to, d, y.key, y.ref, e) /\ ~PointEdge(from, type, to, d, "subject_reference", y, e)
    BY <1>10, <2>7 DEF PointEdge, Edge
  <2>8. pass \notin {"informal", "evidence", "subject"}
    <3>1. pass # "informal"
      BY <2>4, <2>7 DEF PartEdge
    <3>2. pass # "evidence"
      BY <2>4, <2>7 DEF PartEdge
    <3>3. pass # "subject"
      BY <2>4, <2>7 DEF PartEdge
    <3> QED BY <3>1, <3>2, <3>3
  <2>9. pass \in {"dependency", "relationship"} /\ d.kind = "work-item"
    BY <2>8 DEF PassesOver
  <2>10. CASE pass = "dependency"
    <3>1. /\ y.key = "depends_on" /\ Target(s, y.ref) # Absent
          /\ e = Edge(NodeId(d), "depends_on", Target(s, y.ref), d.file, y.key, y.ref)
      BY <2>4, <2>10 DEF PartEdge, Destination, PointEdge
    <3>2. y \in ToSet(d.links)
      BY <2>4, <2>10 DEF Parts
    <3> QED BY <2>6, <2>9, <3>1, <3>2 DEF d
  <2>11. CASE pass = "relationship"
    <3>1. /\ y.key \in DOMAIN RelationType /\ Target(s, y.ref) # Absent
          /\ e = Edge(NodeId(d), RelationType[y.key], Target(s, y.ref), d.file, y.key, y.ref)
      BY <2>4, <2>11 DEF PartEdge, Destination, PointEdge
    <3>2. e.type = RelationType[y.key]
      BY <3>1 DEF Edge
    <3>3. y.key = "depends_on" /\ RelationType[y.key] = "depends_on"
      BY <1>10, <3>1, <3>2 DEF RelationType
    <3>4. y \in ToSet(d.rels)
      BY <2>4, <2>11 DEF Parts
    <3> QED BY <2>6, <2>9, <3>1, <3>3, <3>4 DEF d
  <2> QED BY <2>9, <2>10, <2>11
<1>11. ASSUME NEW i \in 1..n, NEW q \in 1..n, NEW r \in Refs(docs[i].links),
              docs[i].kind = "work-item", Class(docs[i]) = "projectable", Calls(docs[q], r)
       PROVE  \E e \in ToSet(g.edges), j \in 1..n : DependencyEdge(docs, e, i, j, r)
  <2>1. PICK y \in ToSet(docs[i].links) : y.key = "depends_on" /\ y.ref = r
    BY RefersTo
  <2>2. r \in DOMAIN s.alias
    BY <1>4, <1>5, <1>11 DEF FirstAdds
  <2>3. PICK j \in 1..n : Calls(docs[j], r) /\ s.alias[r] = NodeId(docs[j])
    BY <1>4, <1>5, <2>2 DEF FirstAdds
  <2>4. Class(docs[j]) = "projectable" /\ NodeId(docs[j]) # Absent
    BY <2>3 DEF Calls, Class
  <2>5. HasNode(s, NodeId(docs[j])) /\ HasNode(s, NodeId(docs[i]))
    <3>1. Makes(docs[j], NodeId(docs[j])) /\ Makes(docs[i], NodeId(docs[i]))
      BY <1>2, <1>11, <2>4 DEF Makes, WellIdentified
    <3> QED BY <1>4, <1>5, <3>1 DEF FirstAdds
  <2>6. Target(s, r) = NodeId(docs[j])
    BY <2>2, <2>3, <2>5 DEF Target, Resolve
  <2> DEFINE e == Edge(NodeId(docs[i]), "depends_on", NodeId(docs[j]), docs[i].file, y.key, y.ref)
  <2>7. PartEdge("dependency", docs[i], s, y, e)
    BY <2>1, <2>4, <2>6 DEF PartEdge, Destination, PointEdge
  <2>8. "dependency" \in PassesOver(docs[i]) /\ y \in Parts("dependency", docs[i])
    BY <1>11, <2>1 DEF PassesOver, Parts
  <2>9. e.from = NodeId(docs[i]) /\ e.type = "depends_on" /\ e.to = NodeId(docs[j])
    BY DEF Edge
  <2> HIDE DEF e
  <2>10. GivesEdge(c, docs[i], e)
    BY <1>6, <1>11, <2>5, <2>7, <2>8 DEF GivesEdge, Linkable
  <2>11. e \in ToSet(g.edges)
    BY <1>4, <1>6, <2>10 DEF PassAdds
  <2> QED BY <1>11, <2>3, <2>9, <2>11 DEF DependencyEdge
<1> QED BY <1>1, <1>9, <1>10, <1>11 DEF g

-----------------------------------------------------------------------------
(* The files of a backlog, as their reader gives them: a work item has an  *)
(* id of its kind, if any, and its file a number in its name; nothing else *)
(* has such an id; no work item lies among the records; a dependency is    *)
(* written in one of three ways.                                           *)
Marked(l) == l.around \in {"", "tail", "code"}
Around(links) == \A l \in Depends(links) : Marked(l)
FileOf(d) ==
  /\ d = [f \in DOMAIN d |-> d[f]]
  /\ {"kind", "id", "file", "place", "status", "lifecycle", "tags", "titled", "links", "rels",
      "subjects"} \subseteq DOMAIN d
  /\ WellWritten(d) /\ WellIdentified(d)
  /\ d.kind = "work-item" => /\ d.id = Absent \/ d.id = <<"wi-", d.id[2]>>
                             /\ d.file = <<"file", d.file[2]>>
                             /\ d.place # "records"
  /\ d.kind # "work-item" => \A x : d.id # <<"wi-", x>>
  /\ Around(d.links)
FilesOf(docs) == IsList(docs) /\ \A d \in ToSet(docs) : FileOf(d)

(* A number that the id or the file of an item has.                        *)
HasNumber(d, x) == d.file[2] = x \/ (d.id # Absent /\ d.id[2] = x)

(* No item but task, and items without an id, shares its number.           *)
OwnNames(docs, task) == \A i \in Tasks(docs) : docs[i].id \notin {task, Absent} =>
  /\ docs[i].file[2] = docs[i].id[2]
  /\ \A j \in Tasks(docs) : HasNumber(docs[j], docs[i].id[2]) => j = i

(* An id and its forms.                                                    *)
LEMMA FormsOfId ==
  ASSUME NEW x, NEW y
  PROVE  /\ Bare(<<"wi-", x>>) = <<"", x>> /\ Bare(<<"file", x>>) = <<"", x>>
         /\ DependencyId(<<"wi-", x>>) = <<"wi-", x>>
         /\ Canonical(<<"wi-", x>>) = <<"wi", x>> /\ WorkItemRef(<<"wi-", x>>) = <<"wi", x>>
         /\ <<"wi-", x>> # Absent /\ <<"wi", x>> # Absent /\ <<"wi-", x>> # <<"file", y>>
         /\ <<"wi-", x>>[1] = "wi-" /\ <<"wi-", x>>[2] = x
BY DEF Bare, DependencyId, Canonical, WorkItemRef, Absent

(* A reference by an id, a number or a file, and each of these by its      *)
(* number.                                                                 *)
OfNumber(r) == r[1] \in {"wi-", "wi-slug", "", "file"}
Written3(r, x) == r = <<"wi-", x>> \/ r = <<"", x>> \/ r = <<"file", x>>

(* What such a reference means.                                            *)
LEMMA FormsOfReference ==
  ASSUME NEW r
  PROVE  /\ OfNumber(r) => DependencyId(r) = <<"wi-", r[2]>> /\ Bare(DependencyId(r)) = <<"", r[2]>>
         /\ ~OfNumber(r) => DependencyId(r) = r /\ Bare(DependencyId(r)) = r
         /\ \A x : Written3(r, x) => OfNumber(r) /\ r[2] = x
<1>1. OfNumber(r) => DependencyId(r) = <<"wi-", r[2]>>
  BY DEF OfNumber, DependencyId
<1>2. ~OfNumber(r) => DependencyId(r) = r /\ Bare(r) = r
  BY DEF OfNumber, DependencyId, Bare
<1>3. ASSUME NEW x, Written3(r, x) PROVE OfNumber(r) /\ r[2] = x
  <2>1. OfNumber(<<"wi-", x>>) /\ OfNumber(<<"", x>>) /\ OfNumber(<<"file", x>>)
    BY DEF OfNumber
  <2>2. <<"wi-", x>>[2] = x /\ <<"", x>>[2] = x /\ <<"file", x>>[2] = x
    OBVIOUS
  <2>3. CASE r = <<"wi-", x>>
    BY <2>1, <2>2, <2>3
  <2>4. CASE r = <<"", x>>
    BY <2>1, <2>2, <2>4
  <2>5. CASE r = <<"file", x>>
    BY <2>1, <2>2, <2>5
  <2> QED BY <1>3, <2>3, <2>4, <2>5 DEF Written3
<1> QED BY <1>1, <1>2, <1>3, FormsOfId

(* An item that a reference means has its number, in every way in which    *)
(* readers look it up.                                                     *)
LEMMA MeantByNumber ==
  ASSUME NEW d, FileOf(d), d.kind = "work-item", NEW r
  PROVE  /\ d.id # Absent /\ Tokens(r) \cap (Tokens(d.id) \cup ReadyAliases(d)) # {}
              => OfNumber(r) /\ HasNumber(d, r[2])
         /\ d.id # Absent /\ OfNumber(r) /\ d.id[2] = r[2] => Tokens(r) \cap Tokens(d.id) # {}
<1>1. d.file = <<"file", d.file[2]>> /\ (d.id # Absent => d.id = <<"wi-", d.id[2]>>)
  BY DEF FileOf
<1>2. d.id # Absent => Bare(d.id) = <<"", d.id[2]>> /\ DependencyId(d.id) = d.id
  BY <1>1, FormsOfId
<1>3. Bare(d.file) = <<"", d.file[2]>>
  BY <1>1, FormsOfId
<1>4. \A x : Written3(r, x) => OfNumber(r) /\ r[2] = x
  BY FormsOfReference
<1>7. ASSUME d.id # Absent, OfNumber(r), d.id[2] = r[2]
      PROVE  Tokens(r) \cap Tokens(d.id) # {}
  <2>1. Bare(DependencyId(r)) = <<"", r[2]>> /\ Bare(d.id) = <<"", r[2]>>
    BY <1>2, <1>7, FormsOfReference
  <2>2. Bare(DependencyId(r)) \in Tokens(r) /\ Bare(DependencyId(d.id)) \in Tokens(d.id)
    BY DEF Tokens
  <2> QED BY <1>2, <1>7, <2>1, <2>2
<1>8. ASSUME d.id # Absent, NEW t \in Tokens(r), t \in Tokens(d.id) \cup ReadyAliases(d)
      PROVE  OfNumber(r) /\ HasNumber(d, r[2])
  <2>1. t \in {d.id, Bare(d.id), d.file, Bare(d.file)}
    BY <1>2, <1>8 DEF Tokens, ReadyAliases
  <2>2. PICK x \in {d.id[2], d.file[2]} : Written3(t, x)
    BY <1>1, <1>2, <1>3, <1>8, <2>1 DEF Written3
  <2>3. HasNumber(d, x)
    BY <1>8, <2>2 DEF HasNumber
  <2>4. t \in {r, DependencyId(r), Bare(DependencyId(r))}
    BY DEF Tokens
  <2>5. CASE OfNumber(r)
    <3>1. t = r \/ Written3(t, r[2])
      BY <2>4, <2>5, FormsOfReference DEF Written3
    <3>2. r[2] = x
      <4>1. t = r => r[2] = x
        BY <1>4, <2>2
      <4>2. t[2] = x
        BY <2>2, FormsOfReference
      <4>3. \A y : Written3(t, y) => t[2] = y
        BY FormsOfReference
      <4> QED BY <3>1, <4>1, <4>2, <4>3
    <3> QED BY <2>3, <2>5, <3>2
  <2>6. CASE ~OfNumber(r)
    <3>1. t = r
      BY <2>4, <2>6, FormsOfReference
    <3> QED BY <1>4, <2>2, <2>6, <3>1
  <2> QED BY <2>5, <2>6
<1> QED BY <1>7, <1>8

(* A document that a link means for the claim command.                     *)
CalledBy(d, l) == (d.id # Absent /\ Bare(d.id) = Bare(ModelId(l))) \/ d.file = Stripped(l)

(* Such an item has the number of the link; and the item with the number   *)
(* is one, unless something is written around it.                          *)
LEMMA SeenByNumber ==
  ASSUME NEW d, FileOf(d), d.kind = "work-item", NEW l, Marked(l)
  PROVE  /\ CalledBy(d, l) => OfNumber(l.ref) /\ HasNumber(d, l.ref[2])
         /\ d.id # Absent /\ OfNumber(l.ref) /\ SeenByClaim(l) /\ d.id[2] = l.ref[2] => CalledBy(d, l)
<1> DEFINE r == l.ref  x == l.ref[2]
<1>1. d.file = <<"file", d.file[2]>> /\ (d.id # Absent => d.id = <<"wi-", d.id[2]>>)
  BY DEF FileOf
<1>2. d.id # Absent => Bare(d.id) = <<"", d.id[2]>>
  BY <1>1, FormsOfId
<1>3. \A y : Written3(r, y) => OfNumber(r) /\ x = y
  BY FormsOfReference
<1>4. ModelId(l) = Stripped(l) \/ (OfNumber(r) /\ ModelId(l) = <<"wi-", x>>)
  BY DEF ModelId, OfNumber
<1>5. \/ l.around = "" /\ Stripped(l) = r
      \/ l.around # "" /\ \E a \in {"tail", "code"} : Stripped(l) = <<a, x>>
  BY DEF Stripped, Marked
<1>6. \A a \in {"tail", "code"} : \A y, z :
        <<a, y>> # <<"file", z>> /\ <<a, y>> # <<"", z>> /\ Bare(<<a, y>>) = <<a, y>>
  BY DEF Bare
<1> HIDE DEF x
<1>7. ASSUME d.file = Stripped(l) PROVE OfNumber(r) /\ HasNumber(d, x)
  <2>1. Written3(r, d.file[2])
    BY <1>1, <1>5, <1>6, <1>7 DEF Written3
  <2> QED BY <1>3, <2>1 DEF HasNumber
<1>8. ASSUME d.id # Absent, Bare(d.id) = Bare(ModelId(l)) PROVE OfNumber(r) /\ HasNumber(d, x)
  <2>1. CASE OfNumber(r) /\ ModelId(l) = <<"wi-", x>>
    <3>1. <<"", d.id[2]>> = <<"", x>>
      BY <1>2, <1>8, <2>1, FormsOfId
    <3> QED BY <1>8, <2>1, <3>1 DEF HasNumber
  <2>2. CASE ModelId(l) = Stripped(l)
    <3>1. Stripped(l) = r
      BY <1>2, <1>5, <1>6, <1>8, <2>2
    <3>2. Bare(r) = <<"", d.id[2]>>
      BY <1>2, <1>8, <2>2, <3>1
    <3>3. CASE r[1] \in {"wi-", "file"}
      <4>1. <<"", x>> = <<"", d.id[2]>>
        BY <3>2, <3>3 DEF Bare, x
      <4> QED BY <1>8, <3>3, <4>1 DEF HasNumber, OfNumber
    <3>4. CASE r[1] \notin {"wi-", "file"}
      <4>1. Written3(r, d.id[2])
        BY <3>2, <3>4 DEF Bare, Written3
      <4> QED BY <1>3, <1>8, <4>1 DEF HasNumber
    <3> QED BY <3>3, <3>4
  <2> QED BY <1>4, <2>1, <2>2
<1>9. ASSUME d.id # Absent, OfNumber(r), SeenByClaim(l), d.id[2] = x
      PROVE  Bare(d.id) = Bare(ModelId(l))
  <2>1. CASE r[1] \in {"", "file"}
    <3>1. l.around # "code"
      BY <1>9 DEF SeenByClaim
    <3>2. ModelId(l) = <<"wi-", x>>
      BY <2>1, <3>1 DEF ModelId, x
    <3> QED BY <1>2, <1>9, <3>2, FormsOfId
  <2>2. CASE r[1] = "wi-" /\ l.around = ""
    <3>1. ModelId(l) = r
      BY <2>2 DEF ModelId, Stripped
    <3>2. Bare(r) = <<"", x>>
      BY <2>2 DEF Bare, x
    <3> QED BY <1>2, <1>9, <3>1, <3>2
  <2> QED BY <1>9, <2>1, <2>2 DEF SeenByClaim, OfNumber
<1> QED BY <1>7, <1>8, <1>9 DEF x, CalledBy

(* The items that are read, and what the graph is made of: the rest of the *)
(* audit folder has no id there.                                           *)
LEMMA FilesInGraph ==
  ASSUME NEW docs, FilesOf(docs)
  PROVE  LET all == GraphDocuments(docs) IN
         /\ DOMAIN all = DOMAIN docs /\ IsList(all)
         /\ \A d \in ToSet(all) : WellWritten(d) /\ WellIdentified(d)
         /\ Selectable(all) = Selectable(docs) /\ \A i \in Selectable(docs) : all[i] = docs[i]
         /\ \A i \in DOMAIN docs : Class(all[i]) = "projectable" =>
              all[i] = docs[i] /\ docs[i].place # "audit" /\ docs[i].id # Absent
<1> DEFINE all == GraphDocuments(docs)
           bare(d) == [d EXCEPT !.id = Absent]
<1>1. /\ DOMAIN all = DOMAIN docs
      /\ \A i \in DOMAIN docs : all[i] = IF docs[i].place = "audit" THEN bare(docs[i]) ELSE docs[i]
  BY DEF GraphDocuments
<1>2. \A d \in ToSet(docs) : FileOf(d)
  BY DEF FilesOf
<1>3. ASSUME NEW i \in DOMAIN docs PROVE FileOf(docs[i])
  BY <1>2, InList
<1>4. ASSUME NEW d, FileOf(d)
      PROVE  /\ bare(d).id = Absent /\ bare(d).place = d.place
             /\ bare(d).links = d.links /\ bare(d).rels = d.rels /\ bare(d).subjects = d.subjects
  BY <1>4 DEF FileOf
<1> HIDE DEF all, bare
<1>5. ASSUME NEW i \in DOMAIN docs
      PROVE  /\ all[i].place = docs[i].place /\ WellWritten(all[i])
             /\ docs[i].place = "audit" => Class(all[i]) = "skipped"
             /\ docs[i].place # "audit" => all[i] = docs[i]
  <2>1. FileOf(docs[i]) /\ WellWritten(docs[i])
    BY <1>3 DEF FileOf
  <2>2. WellWritten(bare(docs[i])) /\ Class(bare(docs[i])) = "skipped"
    BY <1>4, <2>1 DEF WellWritten, Class
  <2>3. CASE docs[i].place = "audit"
    <3>1. all[i] = bare(docs[i])
      BY <1>1, <2>3
    <3> QED BY <1>4, <2>1, <2>2, <2>3, <3>1
  <2>4. CASE docs[i].place # "audit"
    <3>1. all[i] = docs[i]
      BY <1>1, <2>4
    <3> QED BY <2>1, <2>4, <3>1
  <2> QED BY <2>3, <2>4
<1>6. ASSUME NEW i \in DOMAIN docs PROVE WellIdentified(all[i])
  <2>1. CASE docs[i].place = "audit"
    <3>1. Class(all[i]) = "skipped"
      BY <1>5, <2>1
    <3> QED BY <3>1 DEF WellIdentified
  <2>2. CASE docs[i].place # "audit"
    <3>1. all[i] = docs[i]
      BY <1>5, <2>2
    <3> QED BY <1>3, <3>1 DEF FileOf
  <2> QED BY <2>1, <2>2
<1>7. \A d \in ToSet(all) : WellWritten(d) /\ WellIdentified(d)
  BY <1>1, <1>5, <1>6, InList
<1>8. IsList(all)
  BY <1>1 DEF FilesOf, IsList
<1>9. Selectable(all) = Selectable(docs)
  BY <1>1, <1>5 DEF Selectable
<1>10. \A i \in Selectable(docs) : all[i] = docs[i]
  BY <1>5 DEF Selectable
<1>11. ASSUME NEW i \in DOMAIN docs, Class(all[i]) = "projectable"
       PROVE  all[i] = docs[i] /\ docs[i].place # "audit" /\ docs[i].id # Absent
  <2>1. docs[i].place # "audit"
    BY <1>5, <1>11
  <2>2. all[i] = docs[i]
    BY <1>5, <2>1
  <2>3. docs[i].id # Absent
    BY <1>11, <2>2 DEF Class
  <2> QED BY <2>1, <2>2, <2>3
<1> QED BY <1>1, <1>7, <1>8, <1>9, <1>10, <1>11 DEF all

(* The node of an item that is read.                                       *)
LEMMA NodeOfTask ==
  ASSUME NEW docs, FilesOf(docs), NEW i \in Tasks(docs), docs[i].id # Absent
  PROVE  /\ Class(docs[i]) = "projectable" /\ docs[i].kind = "work-item"
         /\ NodeId(docs[i]) = <<"work-item", <<"wi", docs[i].id[2]>>>>
         /\ i \in Selectable(docs) /\ i \in DOMAIN docs /\ FileOf(docs[i])
         /\ docs[i].id = <<"wi-", docs[i].id[2]>>
<1>1. i \in Selectable(docs) /\ i \in DOMAIN docs /\ docs[i].kind = "work-item"
  BY DEF Tasks, Selectable
<1>2. FileOf(docs[i]) /\ docs[i].id = <<"wi-", docs[i].id[2]>>
  BY <1>1, InList DEF FilesOf, FileOf
<1>3. WorkItemRef(docs[i].id) = <<"wi", docs[i].id[2]>>
  BY <1>2, FormsOfId
<1>4. <<"wi", docs[i].id[2]>> # Absent
  BY DEF Absent
<1>5. NodeId(docs[i]) = <<"work-item", <<"wi", docs[i].id[2]>>>>
  BY <1>1, <1>3, <1>4 DEF NodeId
<1>6. Class(docs[i]) = "projectable"
  BY <1>5 DEF Class, Absent
<1> QED BY <1>1, <1>2, <1>5, <1>6

(* A document with the node of a work item is an item that is read, and    *)
(* the node says its id.                                                   *)
LEMMA TaskOfNode ==
  ASSUME NEW docs, FilesOf(docs), NEW m, m[1] = "work-item",
         NEW k \in DOMAIN docs, Class(GraphDocuments(docs)[k]) = "projectable",
         NodeId(GraphDocuments(docs)[k]) = m
  PROVE  /\ k \in Tasks(docs) /\ docs[k].id # Absent /\ GraphDocuments(docs)[k] = docs[k]
         /\ m = <<"work-item", <<"wi", docs[k].id[2]>>>>
<1>1. GraphDocuments(docs)[k] = docs[k] /\ docs[k].place # "audit" /\ docs[k].id # Absent
  BY FilesInGraph
<1>2. docs[k].kind = "work-item"
  <2>1. NodeId(docs[k]) # Absent /\ NodeId(docs[k])[1] = "work-item"
    BY <1>1 DEF Class
  <2> QED BY <1>1, <2>1 DEF NodeId
<1>3. FileOf(docs[k])
  BY InList DEF FilesOf
<1>4. k \in Tasks(docs)
  BY <1>1, <1>2, <1>3 DEF FileOf, Tasks, Selectable
<1> QED BY <1>1, <1>4, NodeOfTask

(* The document that a node of the graph is taken to be.                   *)
LEMMA MakerIsTask ==
  ASSUME NEW docs, FilesOf(docs), NEW m, m[1] = "work-item",
         NEW k \in DOMAIN docs, Class(GraphDocuments(docs)[k]) = "projectable",
         NodeId(GraphDocuments(docs)[k]) = m
  PROVE  \E j \in Tasks(docs) : /\ docs[j].id # Absent /\ MakerOf(GraphDocuments(docs), m) = docs[j]
                                /\ m = <<"work-item", <<"wi", docs[j].id[2]>>>>
<1> DEFINE all == GraphDocuments(docs)
           makers == {i \in DOMAIN all : Class(all[i]) = "projectable" /\ NodeId(all[i]) = m}
<1>1. DOMAIN all = DOMAIN docs
  BY FilesInGraph
<1>2. makers # {} /\ makers \subseteq Nat
  BY <1>1 DEF FilesOf, IsList
<1>3. MakerOf(all, m) = all[Min(makers)]
  BY DEF MakerOf
<1> HIDE DEF makers
<1>4. Min(makers) \in makers
  BY <1>2, LeastOf
<1> DEFINE j == Min(makers)
<1>5. j \in DOMAIN docs /\ Class(all[j]) = "projectable" /\ NodeId(all[j]) = m
  BY <1>1, <1>4 DEF makers
<1> HIDE DEF j
<1>6. /\ j \in Tasks(docs) /\ docs[j].id # Absent /\ all[j] = docs[j]
      /\ m = <<"work-item", <<"wi", docs[j].id[2]>>>>
  BY <1>5, TaskOfNode
<1> QED BY <1>3, <1>6 DEF j

-----------------------------------------------------------------------------
(* An item that no other shares the id with, outside the archive: what it  *)
(* depends on is read from the graph, at its own node.                     *)
Singular(docs, i) == /\ i \in Tasks(docs) /\ docs[i].id # Absent /\ docs[i].place # "archive"
                     /\ WithId(docs, docs[i].id) = {i}

(* The graph has one node for it, made by it.                              *)
LEMMA LookedUp ==
  ASSUME NEW docs, FilesOf(docs), NEW i, Singular(docs, i)
  PROVE  LET all == GraphDocuments(docs) IN
         Dependencies(docs, docs[i], docs)
           = GraphDependencies(all, Project(all, <<>>, <<>>), NodeId(docs[i]), docs[i])
<1> DEFINE all == GraphDocuments(docs)
           g == Project(all, <<>>, <<>>)
           d == docs[i]
           n == NodeId(d)
<1>1. /\ Class(d) = "projectable" /\ d.kind = "work-item" /\ n = <<"work-item", <<"wi", d.id[2]>>>>
      /\ i \in Selectable(docs) /\ i \in DOMAIN docs /\ FileOf(d) /\ d.id = <<"wi-", d.id[2]>>
  BY NodeOfTask DEF Singular
<1>2. /\ DOMAIN all = DOMAIN docs /\ IsList(all) /\ all[i] = d
      /\ \A x \in ToSet(all) : WellWritten(x) /\ WellIdentified(x)
  BY <1>1, FilesInGraph
<1> HIDE DEF all
<1>3. \A m : m[1] = "work-item" =>
        (HasNode(g, m) <=> \E k \in DOMAIN all : Class(all[k]) = "projectable" /\ NodeId(all[k]) = m)
  BY <1>2, ItemsOfProject
<1>4. n[1] = "work-item"
  BY <1>1
<1>5. HasNode(g, n)
  BY <1>1, <1>2, <1>3, <1>4
<1>6. ASSUME NEW m, HasNode(g, m), m[1] = "work-item"
      PROVE  \E j \in Tasks(docs) : /\ docs[j].id # Absent /\ MakerOf(all, m) = docs[j]
                                    /\ m = <<"work-item", <<"wi", docs[j].id[2]>>>>
  <2>1. PICK k \in DOMAIN all : Class(all[k]) = "projectable" /\ NodeId(all[k]) = m
    BY <1>3, <1>6
  <2> QED BY <1>2, <1>6, <2>1, MakerIsTask DEF all
<1>7. MakerOf(all, n) = d
  <2>1. PICK j \in Tasks(docs) : /\ docs[j].id # Absent /\ MakerOf(all, n) = docs[j]
                                 /\ n = <<"work-item", <<"wi", docs[j].id[2]>>>>
    BY <1>4, <1>5, <1>6
  <2>2. docs[j].id = <<"wi-", docs[j].id[2]>> /\ j \in Selectable(docs)
    BY <2>1, NodeOfTask
  <2>3. docs[j].id[2] = d.id[2]
    BY <1>1, <2>1
  <2>4. docs[j].id = d.id
    BY <1>1, <2>2, <2>3
  <2>5. j \in WithId(docs, d.id)
    BY <2>2, <2>4 DEF WithId
  <2> QED BY <2>1, <2>5 DEF Singular
<1>8. ~LeftOut(all, n)
  <2>1. d.place \notin {"audit", "records"}
    BY <1>1 DEF Selectable
  <2> QED BY <1>7, <2>1 DEF LeftOut, Singular
<1>9. Looked(all, g, d.id) = {n}
  <2>1. n \in Looked(all, g, d.id)
    BY <1>4, <1>5, <1>7, <1>8 DEF Looked, HasNode
  <2>2. ASSUME NEW m \in Looked(all, g, d.id) PROVE m = n
    <3>1. HasNode(g, m) /\ m[1] = "work-item" /\ MakerOf(all, m).id = d.id
      BY <2>2 DEF Looked, HasNode
    <3>2. PICK j \in Tasks(docs) : /\ docs[j].id # Absent /\ MakerOf(all, m) = docs[j]
                                   /\ m = <<"work-item", <<"wi", docs[j].id[2]>>>>
      BY <1>6, <3>1
    <3> QED BY <1>1, <3>1, <3>2
  <2> QED BY <2>1, <2>2
<1>10. (CHOOSE m \in Looked(all, g, d.id) : TRUE) = n
  BY <1>9
<1>11. ById(docs, d.id) = d
  <2>1. WithId(docs, d.id) = {i}
    BY DEF Singular
  <2>2. i \in Nat
    BY <1>1 DEF FilesOf, IsList
  <2>3. Max({i}) = i
    BY <2>2 DEF Max
  <2> QED BY <2>1, <2>3 DEF ById
<1> HIDE DEF g, n, d
<1>12. Dependencies(docs, d, docs) = GraphDependencies(all, g, n, d)
  <2>1. Looked(all, g, d.id) # {}
    BY <1>9
  <2> QED BY <1>10, <1>11, <2>1 DEF Dependencies, all, g
<1> QED BY <1>12 DEF all, g, n, d

(* The ends of the dependencies of an item.                                *)
EndsOf(g, n) == {m \in {e.to : e \in {f \in ToSet(g.edges) : f.from = n /\ f.type = "depends_on"}} :
                   m[1] = "work-item"}

(* What a dependency on an item comes down to, if it is nobody else's      *)
(* number: that item and no other, not in the archive.                     *)
TokensAt(all, m) == LET maker == MakerOf(all, m) IN
  Tokens(maker.id) \cup (IF LeftOut(all, m) THEN {maker.file} ELSE {}) \cup
  UNION {ReadyAliases(all[k]) : k \in WithId(all, maker.id)}
Lost(all, ends, doc) == {r \in Refs(doc.links) \cup Refs(doc.rels) :
                           \A m \in ends : Tokens(r) \cap TokensAt(all, m) = {}}

(* The dependencies of the graph, in these words.                          *)
LEMMA GraphDependenciesAre ==
  ASSUME NEW all, NEW g, NEW n, NEW doc
  PROVE  GraphDependencies(all, g, n, doc)
           = {DependencyState(ById(all, MakerOf(all, m).id)) : m \in {k \in EndsOf(g, n) : ~LeftOut(all, k)}}
             \cup {Unknown : r \in Lost(all, EndsOf(g, n), doc)}
<1> DEFINE ends == {e.to : e \in {f \in ToSet(g.edges) : f.from = n /\ f.type = "depends_on"}}
           items == {m \in ends : m[1] = "work-item"}
<1>1. items = EndsOf(g, n)
  BY DEF EndsOf
<1>2. Lost(all, items, doc) = {r \in Refs(doc.links) \cup Refs(doc.rels) :
        \A m \in items : Tokens(r) \cap (Tokens(MakerOf(all, m).id)
          \cup (IF LeftOut(all, m) THEN {MakerOf(all, m).file} ELSE {})
          \cup UNION {ReadyAliases(all[i]) : i \in WithId(all, MakerOf(all, m).id)}) = {}}
  BY DEF Lost, TokensAt
<1>3. GraphDependencies(all, g, n, doc)
        = {DependencyState(ById(all, MakerOf(all, m).id)) : m \in {k \in items : ~LeftOut(all, k)}}
          \cup {Unknown : r \in Lost(all, items, doc)}
  <2> HIDE DEF items
  <2> QED BY <1>2 DEF GraphDependencies, items
<1> QED BY <1>1, <1>3

(* Dependencies are no reason if they are all known and satisfied.         *)
Met(deps) == \A x \in deps : x.known /\ x.satisfied

(* The kernel gives no dependency reason then, and only then.              *)
LEMMA NoReason ==
  ASSUME NEW deps
  PROVE  DependencyReasons(deps) = {} <=> Met(deps)
<1>1. DependencyReasons(deps) = {} <=>
        ~(\E d \in deps : ~d.known) /\ ~(\E d \in deps : d.known /\ ~d.satisfied)
  <2> DEFINE t == [dependency_state_unknown |-> \E d \in deps : ~d.known,
                   dependency_blocked |-> \E d \in deps : d.known /\ ~d.satisfied]
  <2>1. DependencyReasons(deps) = {r \in {"dependency_state_unknown", "dependency_blocked"} : t[r]}
    BY DEF DependencyReasons, Holding
  <2>2. /\ t["dependency_state_unknown"] = (\E d \in deps : ~d.known)
        /\ t["dependency_blocked"] = (\E d \in deps : d.known /\ ~d.satisfied)
    OBVIOUS
  <2> HIDE DEF t
  <2> QED BY <2>1, <2>2
<1> QED BY <1>1 DEF Met

(* The documents that a link means for the claim command.                  *)
Called(docs, l) == {k \in Tasks(docs) : CalledBy(docs[k], l)}

(* An item whose number is its own is what a reference with this number    *)
(* means for ready, and what its id means.                                 *)
LEMMA OwnNumber ==
  ASSUME NEW docs, FilesOf(docs), NEW task, OwnNames(docs, task),
         NEW j \in Tasks(docs), docs[j].id # Absent, docs[j].id # task
  PROVE  /\ WithId(docs, docs[j].id) = {j} /\ ById(GraphDocuments(docs), docs[j].id) = docs[j]
         /\ docs[j].file[2] = docs[j].id[2]
         /\ \A r : HasNumber(docs[j], r[2]) => r[2] = docs[j].id[2]
<1>1. /\ docs[j].file[2] = docs[j].id[2]
      /\ \A k \in Tasks(docs) : HasNumber(docs[k], docs[j].id[2]) => k = j
  BY DEF OwnNames
<1>2. j \in Selectable(docs) /\ j \in DOMAIN docs /\ docs[j].id = <<"wi-", docs[j].id[2]>>
  BY NodeOfTask
<1>3. \A k \in DOMAIN docs : FileOf(docs[k])
  BY InList DEF FilesOf
<1>4. WithId(docs, docs[j].id) = {j}
  <2>1. ASSUME NEW k \in WithId(docs, docs[j].id) PROVE k = j
    <3>1. k \in Selectable(docs) /\ k \in DOMAIN docs /\ docs[k].id = docs[j].id
      BY <2>1 DEF WithId, Selectable
    <3>2. docs[k].kind = "work-item"
      BY <1>2, <1>3, <3>1 DEF FileOf
    <3>3. k \in Tasks(docs) /\ HasNumber(docs[k], docs[j].id[2])
      BY <3>1, <3>2 DEF Tasks, HasNumber
    <3> QED BY <1>1, <3>3
  <2>2. j \in WithId(docs, docs[j].id)
    BY <1>2 DEF WithId
  <2> QED BY <2>1, <2>2
<1>5. j \in Nat /\ Max({j}) = j
  <2>1. j \in Nat
    BY <1>2 DEF FilesOf, IsList
  <2> QED BY <2>1 DEF Max
<1>6. ById(GraphDocuments(docs), docs[j].id) = docs[j]
  <2>1. WithId(GraphDocuments(docs), docs[j].id) = {j}
    <3>1. /\ Selectable(GraphDocuments(docs)) = Selectable(docs)
          /\ \A k \in Selectable(docs) : GraphDocuments(docs)[k] = docs[k]
      BY FilesInGraph
    <3>2. WithId(GraphDocuments(docs), docs[j].id) = WithId(docs, docs[j].id)
      BY <3>1 DEF WithId
    <3> QED BY <1>4, <3>2
  <2>2. GraphDocuments(docs)[j] = docs[j]
    BY <1>2, FilesInGraph
  <2> QED BY <1>5, <2>1, <2>2 DEF ById
<1>8. ASSUME NEW r, HasNumber(docs[j], r[2]) PROVE r[2] = docs[j].id[2]
  BY <1>1, <1>8 DEF HasNumber
<1> QED BY <1>1, <1>4, <1>6, <1>8

(* It is what such a link means for claim, if claim sees its number.       *)
LEMMA CalledIsOwn ==
  ASSUME NEW docs, FilesOf(docs), NEW task, OwnNames(docs, task),
         NEW j \in Tasks(docs), docs[j].id # Absent, docs[j].id # task,
         NEW l, Marked(l), OfNumber(l.ref), HasNumber(docs[j], l.ref[2]),
         SeenByClaim(l)
  PROVE  FirstOf(docs, Called(docs, l)) = DependencyState(docs[j])
<1>1. /\ l.ref[2] = docs[j].id[2]
      /\ \A k \in Tasks(docs) : HasNumber(docs[k], docs[j].id[2]) => k = j
  <2>1. \A r : HasNumber(docs[j], r[2]) => r[2] = docs[j].id[2]
    BY OwnNumber
  <2>2. \A k \in Tasks(docs) : HasNumber(docs[k], docs[j].id[2]) => k = j
    BY DEF OwnNames
  <2> QED BY <2>1, <2>2
<1>2. ASSUME NEW k \in Tasks(docs)
      PROVE  k \in DOMAIN docs /\ docs[k].kind = "work-item" /\ FileOf(docs[k])
  <2>1. k \in DOMAIN docs /\ docs[k].kind = "work-item"
    BY DEF Tasks, Selectable
  <2> QED BY <2>1, InList DEF FilesOf
<1>3. ASSUME NEW k \in Called(docs, l) PROVE k = j
  <2>1. k \in Tasks(docs) /\ CalledBy(docs[k], l)
    BY DEF Called
  <2> DEFINE d == docs[k]
  <2>2. FileOf(d) /\ d.kind = "work-item" /\ CalledBy(d, l)
    BY <1>2, <2>1
  <2> HIDE DEF d
  <2>3. HasNumber(d, l.ref[2])
    BY <2>2, SeenByNumber
  <2> QED BY <1>1, <2>1, <2>3 DEF d
<1>4. j \in Called(docs, l)
  <2> DEFINE d == docs[j]
  <2>1. FileOf(d) /\ d.kind = "work-item" /\ d.id # Absent /\ d.id[2] = l.ref[2]
    BY <1>1, <1>2
  <2> HIDE DEF d
  <2>2. CalledBy(d, l)
    BY <2>1, SeenByNumber
  <2> QED BY <2>2 DEF Called, d
<1>5. Called(docs, l) = {j}
  BY <1>3, <1>4
<1>6. Min({j}) = j
  <2>1. j \in Nat
    BY <1>2 DEF FilesOf, IsList
  <2> QED BY <2>1, LeastOf
<1> QED BY <1>4, <1>5, <1>6 DEF FirstOf

(* Where a dependency of the graph leads to.                               *)
LEMMA EndIsTask ==
  ASSUME NEW docs, FilesOf(docs), NEW i, Singular(docs, i),
         NEW m \in EndsOf(Project(GraphDocuments(docs), <<>>, <<>>), NodeId(docs[i]))
  PROVE  /\ m[1] = "work-item"
         /\ \E j \in Tasks(docs), h \in Tasks(docs) : \E r :
              /\ docs[j].id # Absent /\ MakerOf(GraphDocuments(docs), m) = docs[j]
              /\ docs[h].id # Absent /\ docs[h].id = docs[j].id /\ r \in Aliases(docs[h])
              /\ r \in Refs(docs[i].links) \cup Refs(docs[i].rels)
<1> DEFINE all == GraphDocuments(docs)
           g == Project(all, <<>>, <<>>)
           n == NodeId(docs[i])
<1>1. /\ DOMAIN all = DOMAIN docs /\ IsList(all)
      /\ \A x \in ToSet(all) : WellWritten(x) /\ WellIdentified(x)
  BY FilesInGraph
<1> HIDE DEF all
<1>2. /\ \A e \in ToSet(g.edges) : e.type = "depends_on" =>
           \E k \in DOMAIN all, h \in DOMAIN all : \E r : DependencyEdge(all, e, k, h, r)
  BY <1>1, ItemsOfProject
<1>3. PICK e \in ToSet(g.edges) : e.from = n /\ e.type = "depends_on" /\ e.to = m
  BY DEF EndsOf, all
<1>4. m[1] = "work-item"
  BY DEF EndsOf
<1>5. PICK k \in DOMAIN all, h \in DOMAIN all : \E r : DependencyEdge(all, e, k, h, r)
  BY <1>2, <1>3
<1>6. PICK r : DependencyEdge(all, e, k, h, r)
  BY <1>5
<1> HIDE DEF g, n
<1>7. /\ Class(all[k]) = "projectable" /\ NodeId(all[k]) = n
      /\ Class(all[h]) = "projectable" /\ NodeId(all[h]) = m /\ r \in Aliases(all[h])
      /\ r \in Refs(all[k].links) \cup Refs(all[k].rels)
  BY <1>3, <1>6 DEF DependencyEdge, Calls
<1>8. PICK j \in Tasks(docs) : /\ docs[j].id # Absent /\ MakerOf(all, m) = docs[j]
                               /\ m = <<"work-item", <<"wi", docs[j].id[2]>>>>
  BY <1>1, <1>4, <1>7, MakerIsTask DEF all
<1>9. /\ h \in Tasks(docs) /\ docs[h].id # Absent /\ all[h] = docs[h]
      /\ m = <<"work-item", <<"wi", docs[h].id[2]>>>>
  BY <1>1, <1>4, <1>7, TaskOfNode DEF all
<1>10. docs[h].id = docs[j].id
  <2>1. docs[h].id[2] = docs[j].id[2]
    BY <1>8, <1>9
  <2>2. docs[h].id = <<"wi-", docs[h].id[2]>> /\ docs[j].id = <<"wi-", docs[j].id[2]>>
    BY <1>8, <1>9, NodeOfTask
  <2> QED BY <2>1, <2>2
<1>11. k = i /\ all[k] = docs[i]
  <2>1. /\ i \in Tasks(docs) /\ docs[i].id # Absent /\ n = <<"work-item", <<"wi", docs[i].id[2]>>>>
        /\ docs[i].id = <<"wi-", docs[i].id[2]>>
    BY NodeOfTask DEF Singular, n
  <2>2. n[1] = "work-item"
    BY <2>1
  <2>3. /\ k \in Tasks(docs) /\ docs[k].id # Absent /\ all[k] = docs[k]
        /\ n = <<"work-item", <<"wi", docs[k].id[2]>>>>
    BY <1>1, <1>7, <2>2, TaskOfNode DEF all
  <2>4. docs[k].id = <<"wi-", docs[k].id[2]>> /\ k \in Selectable(docs)
    BY <2>3, NodeOfTask
  <2>5. docs[k].id[2] = docs[i].id[2]
    BY <2>1, <2>3
  <2>6. k \in WithId(docs, docs[i].id)
    BY <2>1, <2>4, <2>5 DEF WithId
  <2>7. k = i
    BY <2>6 DEF Singular
  <2> QED BY <2>3, <2>7
<1> QED BY <1>4, <1>7, <1>8, <1>9, <1>10, <1>11 DEF all

(* What ready finds met in the graph is an item with the number that was   *)
(* written: the item that depends on it shares its id with none, all       *)
(* others have their own number, and nothing else is in the archive.       *)
MetItem(docs, j, r) ==
  /\ j \in Tasks(docs) /\ docs[j].id # Absent /\ OfNumber(r) /\ HasNumber(docs[j], r[2])
  /\ DependencyState(docs[j]).known /\ DependencyState(docs[j]).satisfied

(* For every dependency of the item, there is one.                         *)
LEMMA MetByItems ==
  ASSUME NEW docs, FilesOf(docs), NEW i, Singular(docs, i), OwnNames(docs, docs[i].id),
         \A k \in Tasks(docs) : docs[k].place = "archive" => docs[k].id = docs[i].id,
         ~DependencyState(docs[i]).satisfied, Met(Dependencies(docs, docs[i], docs))
  PROVE  \A r \in Refs(docs[i].links) : \E j : MetItem(docs, j, r) /\ docs[j].id # docs[i].id
<1> DEFINE all == GraphDocuments(docs)
           g == Project(all, <<>>, <<>>)
           d == docs[i]
           ends == EndsOf(g, NodeId(d))
<1>1. Dependencies(docs, d, docs)
        = {DependencyState(ById(all, MakerOf(all, m).id)) : m \in {k \in ends : ~LeftOut(all, k)}}
          \cup {Unknown : r \in Lost(all, ends, d)}
  <2>1. Dependencies(docs, d, docs) = GraphDependencies(all, g, NodeId(d), d)
    BY LookedUp
  <2> HIDE DEF all, g, d
  <2> QED BY <2>1, GraphDependenciesAre
<1>2. Lost(all, ends, d) = {}
  <2> HIDE DEF all, ends, d
  <2>1. ASSUME NEW r \in Lost(all, ends, d) PROVE FALSE
    <3>1. Unknown \in Dependencies(docs, d, docs) /\ ~Unknown.known
      BY <1>1, <2>1 DEF Unknown
    <3> QED BY <3>1 DEF Met, d
  <2> QED BY <2>1
<1>3. ASSUME NEW m \in ends, ~LeftOut(all, m)
      PROVE  DependencyState(ById(all, MakerOf(all, m).id)).known /\ DependencyState(ById(all, MakerOf(all, m).id)).satisfied
  <2> HIDE DEF all, ends, d
  <2> QED BY <1>1, <1>3 DEF Met, d
<1>4. ASSUME NEW r \in Refs(d.links)
      PROVE  \E j : MetItem(docs, j, r) /\ docs[j].id # docs[i].id
  <2>1. PICK m \in ends : Tokens(r) \cap TokensAt(all, m) # {}
    <3> HIDE DEF all, ends, d
    <3> QED BY <1>2, <1>4 DEF Lost
  <2>2. PICK j \in Tasks(docs) : docs[j].id # Absent /\ MakerOf(all, m) = docs[j]
    BY EndIsTask
  <2> HIDE DEF all, g, ends, d
  <2>3. j \in Selectable(docs) /\ docs[j].kind = "work-item" /\ FileOf(docs[j])
    BY <2>2, NodeOfTask
  <2>4. docs[j].place # "archive"
    <3>1. SUFFICES ASSUME docs[j].place = "archive" PROVE FALSE
      OBVIOUS
    <3>2. docs[j].id = docs[i].id
      BY <2>2, <3>1
    <3>3. j \in WithId(docs, docs[i].id)
      BY <2>3, <3>2 DEF WithId
    <3> QED BY <3>1, <3>3 DEF Singular
  <2>5. ~LeftOut(all, m)
    BY <2>2, <2>3, <2>4 DEF LeftOut, Selectable
  <2>6. /\ DependencyState(ById(all, docs[j].id)).known
        /\ DependencyState(ById(all, docs[j].id)).satisfied
    BY <1>3, <2>2, <2>5
  <2>7. docs[j].id # docs[i].id
    <3>1. SUFFICES ASSUME docs[j].id = docs[i].id PROVE FALSE
      OBVIOUS
    <3>2. /\ Selectable(all) = Selectable(docs)
          /\ \A k \in Selectable(docs) : all[k] = docs[k]
      BY FilesInGraph DEF all
    <3>3. WithId(all, docs[i].id) = WithId(docs, docs[i].id)
      BY <3>2 DEF WithId
    <3>4. WithId(all, docs[i].id) = {i} /\ i \in Selectable(docs)
      BY <3>3 DEF Singular, Tasks
    <3>5. i \in Nat
      BY <3>4 DEF Selectable, FilesOf, IsList
    <3>6. Max({i}) = i
      BY <3>5 DEF Max
    <3>7. ById(all, docs[i].id) = docs[i]
      BY <3>2, <3>4, <3>6 DEF ById
    <3> QED BY <2>6, <3>1, <3>7
  <2>8. WithId(docs, docs[j].id) = {j} /\ ById(all, docs[j].id) = docs[j]
    BY <2>2, <2>7, OwnNumber DEF all
  <2>9. TokensAt(all, m) = Tokens(docs[j].id) \cup ReadyAliases(docs[j])
    <3>1. WithId(all, docs[j].id) = {j} /\ all[j] = docs[j]
      <4>1. /\ Selectable(all) = Selectable(docs)
            /\ \A k \in Selectable(docs) : all[k] = docs[k]
        BY FilesInGraph DEF all
      <4>2. WithId(all, docs[j].id) = WithId(docs, docs[j].id)
        BY <4>1 DEF WithId
      <4> QED BY <2>3, <2>8, <4>1, <4>2
    <3>2. UNION {ReadyAliases(all[k]) : k \in {j}} = ReadyAliases(docs[j])
      BY <3>1
    <3> QED BY <2>2, <2>5, <3>1, <3>2 DEF TokensAt
  <2>10. OfNumber(r) /\ HasNumber(docs[j], r[2])
    BY <2>1, <2>2, <2>3, <2>9, MeantByNumber
  <2> QED BY <2>2, <2>6, <2>7, <2>8, <2>10 DEF MetItem
<1> QED BY <1>4 DEF d

(* Claim finds it met, too, if it sees what the references mean.           *)
LEMMA MetInGraph ==
  ASSUME NEW docs, FilesOf(docs), NEW i, Singular(docs, i), OwnNames(docs, docs[i].id),
         \A k \in Tasks(docs) : docs[k].place = "archive" => docs[k].id = docs[i].id,
         ~DependencyState(docs[i]).satisfied, Met(Dependencies(docs, docs[i], docs)), AllSeen(docs[i])
  PROVE  Met(ModelDependencies(docs, docs[i]))
<1> DEFINE d == docs[i]
<1>1. Around(d.links)
  BY InList, NodeOfTask DEF Singular, FileOf
<1>2. ASSUME NEW l \in Depends(d.links)
      PROVE  FirstOf(docs, Called(docs, l)).known /\ FirstOf(docs, Called(docs, l)).satisfied
  <2>1. l.ref \in Refs(d.links) /\ SeenByClaim(l) /\ Marked(l)
    BY <1>1, <1>2 DEF Refs, AllSeen, Around
  <2> HIDE DEF d
  <2>2. PICK j : MetItem(docs, j, l.ref) /\ docs[j].id # docs[i].id
    BY <2>1, MetByItems DEF d
  <2>3. FirstOf(docs, Called(docs, l)) = DependencyState(docs[j])
    BY <2>1, <2>2, CalledIsOwn DEF MetItem
  <2> QED BY <2>2, <2>3 DEF MetItem
<1> HIDE DEF d
<1>3. ModelDependencies(docs, d) = {FirstOf(docs, Called(docs, l)) : l \in Depends(d.links)}
  BY DEF ModelDependencies, Called, CalledBy
<1> QED BY <1>2, <1>3 DEF Met, d

-----------------------------------------------------------------------------
(* A backlog of nothing but items, of which each has its own number in its *)
(* id and in the name of its file; references are pairs.                   *)
PlainFiles(docs) ==
  /\ Selectable(docs) = DOMAIN docs
  /\ \A i \in DOMAIN docs : /\ docs[i].kind = "work-item" /\ docs[i].id # Absent
                            /\ docs[i].place = "active" /\ docs[i].rels = <<>>
                            /\ docs[i].file[2] = docs[i].id[2]
                            /\ \A r \in Refs(docs[i].links) : r = <<r[1], r[2]>>
                            /\ \A j \in DOMAIN docs : docs[i].id = docs[j].id => i = j

(* Each is alone with its id, and with its number.                         *)
LEMMA PlainIsOwn ==
  ASSUME NEW docs, FilesOf(docs), PlainFiles(docs)
  PROVE  /\ Tasks(docs) = DOMAIN docs
         /\ \A task : OwnNames(docs, task)
         /\ \A i \in DOMAIN docs : Singular(docs, i)
         /\ \A i \in DOMAIN docs, j \in DOMAIN docs : HasNumber(docs[j], docs[i].id[2]) => i = j
<1>1. Tasks(docs) = DOMAIN docs
  BY DEF Tasks, PlainFiles
<1>2. \A i \in DOMAIN docs : docs[i].id = <<"wi-", docs[i].id[2]>> /\ i \in Selectable(docs)
  BY <1>1, NodeOfTask DEF PlainFiles
<1>3. ASSUME NEW i \in DOMAIN docs, NEW j \in DOMAIN docs, HasNumber(docs[j], docs[i].id[2])
      PROVE  i = j
  <2>1. docs[j].id[2] = docs[i].id[2]
    BY <1>3 DEF HasNumber, PlainFiles
  <2>2. docs[j].id = docs[i].id
    BY <1>2, <2>1
  <2> QED BY <2>2 DEF PlainFiles
<1>4. ASSUME NEW task PROVE OwnNames(docs, task)
  BY <1>1, <1>3 DEF OwnNames, PlainFiles
<1>5. ASSUME NEW i \in DOMAIN docs PROVE Singular(docs, i)
  <2>1. WithId(docs, docs[i].id) = {i}
    BY <1>2 DEF WithId, PlainFiles
  <2> QED BY <1>1, <2>1 DEF Singular, PlainFiles
<1> QED BY <1>1, <1>3, <1>4, <1>5

(* The documents that a link means for the review.                         *)
Reviewing(docs, l) == {k \in Selectable(docs) : \/ docs[k].id \in {ReviewId(l), Bare(ReviewId(l))}
                                                \/ docs[k].file = Stripped(l)}

(* In a plain backlog, those are the items of its number, if it has one    *)
(* and is not in code.                                                     *)
LEMMA ReviewingByNumber ==
  ASSUME NEW docs, FilesOf(docs), PlainFiles(docs), NEW l, Marked(l)
  PROVE  \A k : k \in Reviewing(docs, l) <=>
           k \in DOMAIN docs /\ OfNumber(l.ref) /\ l.around # "code" /\ docs[k].id[2] = l.ref[2]
<1> DEFINE r == l.ref  x == l.ref[2]
<1>1. Selectable(docs) = DOMAIN docs
  BY DEF PlainFiles
<1>2. \A k \in DOMAIN docs : docs[k].id = <<"wi-", docs[k].id[2]>> /\ docs[k].file = <<"file", docs[k].id[2]>>
  <2>1. ASSUME NEW k \in DOMAIN docs
        PROVE  docs[k].id = <<"wi-", docs[k].id[2]>> /\ docs[k].file = <<"file", docs[k].id[2]>>
    <3>1. k \in Tasks(docs) /\ docs[k].id # Absent /\ docs[k].file[2] = docs[k].id[2]
      BY PlainIsOwn DEF PlainFiles
    <3>2. docs[k].id = <<"wi-", docs[k].id[2]>> /\ FileOf(docs[k]) /\ docs[k].kind = "work-item"
      BY <3>1, NodeOfTask
    <3>3. docs[k].file = <<"file", docs[k].file[2]>>
      BY <3>2 DEF FileOf
    <3> QED BY <3>1, <3>2, <3>3
  <2> QED BY <2>1
<1>3. \A y : Written3(r, y) => OfNumber(r) /\ x = y
  BY FormsOfReference
<1>4. l.around # "" => \E a \in {"tail", "code"} : l.around = a /\ Stripped(l) = <<a, x>>
  BY DEF Stripped, Marked
<1>5. \A a \in {"tail", "code"} : \A y, z :
        /\ <<a, y>> # <<"file", z>> /\ <<a, y>> # <<"wi-", z>> /\ Bare(<<a, y>>) = <<a, y>>
        /\ <<"", y>> # <<"wi-", z>>
  BY DEF Bare
<1>6. OfNumber(r) => DependencyId(r) = <<"wi-", x>> /\ DependencyId(r)[1] = "wi-"
  BY DEF DependencyId, OfNumber
<1>7. ~OfNumber(r) => DependencyId(r) = r /\ r[1] # "wi-" /\ Bare(r) = r
  BY FormsOfReference DEF OfNumber
<1> HIDE DEF r, x
<1>8. ReviewId(l) = IF l.around # "code" /\ DependencyId(r)[1] = "wi-" THEN DependencyId(r) ELSE Stripped(l)
  BY DEF ReviewId, r
<1>9. l.around = "" => Stripped(l) = r
  BY DEF Stripped, r
<1>10. ASSUME NEW k \in DOMAIN docs, docs[k].file = Stripped(l)
       PROVE  OfNumber(r) /\ l.around # "code" /\ docs[k].id[2] = x
  <2>1. l.around = ""
    <3>1. SUFFICES ASSUME l.around # "" PROVE FALSE
      OBVIOUS
    <3>2. PICK a \in {"tail", "code"} : Stripped(l) = <<a, x>>
      BY <1>4, <3>1
    <3>3. <<a, x>> = <<"file", docs[k].id[2]>>
      BY <1>2, <1>10, <3>2
    <3> QED BY <1>5, <3>3
  <2>2. Written3(r, docs[k].id[2])
    BY <1>2, <1>9, <1>10, <2>1 DEF Written3
  <2> QED BY <1>3, <2>1, <2>2
<1>11. ASSUME NEW k \in DOMAIN docs, docs[k].id \in {ReviewId(l), Bare(ReviewId(l))}
       PROVE  OfNumber(r) /\ l.around # "code" /\ docs[k].id[2] = x
  <2>1. CASE OfNumber(r) /\ l.around # "code"
    <3>1. ReviewId(l) = <<"wi-", x>> /\ Bare(<<"wi-", x>>) = <<"", x>>
      BY <1>6, <1>8, <2>1, FormsOfId
    <3>2. docs[k].id = <<"wi-", x>>
      <4>1. docs[k].id # <<"", x>>
        BY <1>2, <1>5
      <4> QED BY <1>11, <3>1, <4>1
    <3>3. <<"wi-", x>>[2] = x
      OBVIOUS
    <3> QED BY <2>1, <3>2, <3>3
  <2>2. CASE ~(OfNumber(r) /\ l.around # "code")
    <3>1. ReviewId(l) = Stripped(l)
      BY <1>7, <1>8, <2>2
    <3>2. l.around = ""
      <4>1. SUFFICES ASSUME l.around # "" PROVE FALSE
        OBVIOUS
      <4>2. PICK a \in {"tail", "code"} : Stripped(l) = <<a, x>>
        BY <1>4, <4>1
      <4>3. docs[k].id = <<a, x>>
        BY <1>5, <1>11, <3>1, <4>2
      <4> QED BY <1>2, <1>5, <4>3
    <3>3. ~OfNumber(r) /\ ReviewId(l) = r /\ Bare(r) = r
      BY <1>7, <1>9, <2>2, <3>1, <3>2
    <3>4. Written3(r, docs[k].id[2])
      BY <1>2, <1>11, <3>3 DEF Written3
    <3> QED BY <1>3, <3>3, <3>4
  <2> QED BY <2>1, <2>2
<1>12. ASSUME NEW k \in DOMAIN docs, OfNumber(r), l.around # "code", docs[k].id[2] = x
       PROVE  docs[k].id \in {ReviewId(l), Bare(ReviewId(l))}
  <2>1. ReviewId(l) = <<"wi-", x>>
    BY <1>6, <1>8, <1>12
  <2>2. docs[k].id = <<"wi-", x>>
    BY <1>2, <1>12
  <2> HIDE DEF x
  <2> QED BY <2>1, <2>2
<1> QED BY <1>1, <1>10, <1>11, <1>12 DEF Reviewing, r, x

(* What the review finds met is the item of the number.                    *)
LEMMA MetByReview ==
  ASSUME NEW docs, FilesOf(docs), PlainFiles(docs), NEW i \in DOMAIN docs
  PROVE  Met(ReviewDependencies(docs, docs[i])) <=>
           \A l \in Depends(docs[i].links) : l.around # "code" /\ \E j : MetItem(docs, j, l.ref)
<1> DEFINE d == docs[i]
<1>1. \A l \in Depends(d.links) : Marked(l)
  BY InList DEF FilesOf, FileOf, Around
<1>2. /\ Tasks(docs) = DOMAIN docs
      /\ \A k \in DOMAIN docs : docs[k].id # Absent /\ docs[k].file[2] = docs[k].id[2]
      /\ \A k \in DOMAIN docs, j \in DOMAIN docs : HasNumber(docs[j], docs[k].id[2]) => k = j
  BY PlainIsOwn DEF PlainFiles
<1> HIDE DEF d
<1>3. ASSUME NEW l \in Depends(d.links)
      PROVE  FirstOf(docs, Reviewing(docs, l)).known /\ FirstOf(docs, Reviewing(docs, l)).satisfied
               <=> l.around # "code" /\ \E j : MetItem(docs, j, l.ref)
  <2>1. \A k : k \in Reviewing(docs, l) <=>
           k \in DOMAIN docs /\ OfNumber(l.ref) /\ l.around # "code" /\ docs[k].id[2] = l.ref[2]
    BY <1>1, <1>3, ReviewingByNumber
  <2>2. ASSUME NEW k \in Reviewing(docs, l)
        PROVE  FirstOf(docs, Reviewing(docs, l)) = DependencyState(docs[k])
    <3>1. Reviewing(docs, l) = {k}
      BY <1>2, <2>1, <2>2 DEF HasNumber
    <3>2. k \in Nat
      BY <2>1, <2>2 DEF FilesOf, IsList
    <3>3. Min({k}) = k
      BY <3>2, LeastOf
    <3> QED BY <3>1, <3>3 DEF FirstOf
  <2>3. ASSUME Reviewing(docs, l) = {} PROVE ~FirstOf(docs, Reviewing(docs, l)).known
    BY <2>3 DEF FirstOf, Unknown
  <2>4. ASSUME NEW j, MetItem(docs, j, l.ref), l.around # "code" PROVE j \in Reviewing(docs, l)
    BY <1>2, <2>1, <2>4 DEF MetItem, HasNumber
  <2>5. ASSUME NEW k \in Reviewing(docs, l), DependencyState(docs[k]).known, DependencyState(docs[k]).satisfied
        PROVE  MetItem(docs, k, l.ref) /\ l.around # "code"
    BY <1>2, <2>1, <2>5 DEF MetItem, HasNumber
  <2> QED BY <2>2, <2>3, <2>4, <2>5 DEF MetItem
<1>4. ReviewDependencies(docs, d) = {FirstOf(docs, Reviewing(docs, l)) : l \in Depends(d.links)}
  BY DEF ReviewDependencies, Reviewing
<1>5. Met(ReviewDependencies(docs, d)) <=>
        \A l \in Depends(d.links) :
          FirstOf(docs, Reviewing(docs, l)).known /\ FirstOf(docs, Reviewing(docs, l)).satisfied
  BY <1>4 DEF Met
<1> QED BY <1>3, <1>5 DEF d

(* What the review finds met, claim finds met, if it sees it.              *)
LEMMA MetInReview ==
  ASSUME NEW docs, FilesOf(docs), PlainFiles(docs), NEW i \in DOMAIN docs,
         Met(ReviewDependencies(docs, docs[i])), AllSeen(docs[i])
  PROVE  Met(ModelDependencies(docs, docs[i]))
<1> DEFINE d == docs[i]
<1>1. \A l \in Depends(d.links) : /\ Marked(l) /\ SeenByClaim(l)
                                  /\ \E j : MetItem(docs, j, l.ref)
  BY InList, MetByReview DEF FilesOf, FileOf, Around, AllSeen
<1> HIDE DEF d
<1>2. OwnNames(docs, Absent)
  BY PlainIsOwn
<1>3. ASSUME NEW l \in Depends(d.links)
      PROVE  FirstOf(docs, Called(docs, l)).known /\ FirstOf(docs, Called(docs, l)).satisfied
  <2>1. PICK j : MetItem(docs, j, l.ref)
    BY <1>1, <1>3
  <2>2. FirstOf(docs, Called(docs, l)) = DependencyState(docs[j])
    BY <1>1, <1>2, <1>3, <2>1, CalledIsOwn DEF MetItem
  <2> QED BY <2>1, <2>2 DEF MetItem
<1>4. ModelDependencies(docs, d) = {FirstOf(docs, Called(docs, l)) : l \in Depends(d.links)}
  BY DEF ModelDependencies, Called, CalledBy
<1> QED BY <1>3, <1>4 DEF Met, d

(* A reference by a bare number, or with something behind its number: no   *)
(* name of an item in the graph.                                           *)
ByNumber(r) == r[1] \in {"", "wi-slug"}

(* In a plain backlog, what the review finds met is met in the graph, if   *)
(* no reference is of this kind.                                           *)
LEMMA MetInFiles ==
  ASSUME NEW docs, FilesOf(docs), PlainFiles(docs), NEW i \in DOMAIN docs,
         Met(ReviewDependencies(docs, docs[i])), \A r \in Refs(docs[i].links) : ~ByNumber(r)
  PROVE  Met(Dependencies(docs, docs[i], docs))
<1> DEFINE all == GraphDocuments(docs)
           g == Project(all, <<>>, <<>>)
           d == docs[i]
           ends == EndsOf(g, NodeId(d))
<1>0. /\ Tasks(docs) = DOMAIN docs /\ OwnNames(docs, Absent) /\ Singular(docs, i)
      /\ \A k \in DOMAIN docs, j \in DOMAIN docs : HasNumber(docs[j], docs[k].id[2]) => k = j
  BY PlainIsOwn
<1>1. Dependencies(docs, d, docs)
        = {DependencyState(ById(all, MakerOf(all, m).id)) : m \in {k \in ends : ~LeftOut(all, k)}}
          \cup {Unknown : r \in Lost(all, ends, d)}
  <2>1. Dependencies(docs, d, docs) = GraphDependencies(all, g, NodeId(d), d)
    BY <1>0, LookedUp
  <2> HIDE DEF all, g, d
  <2> QED BY <2>1, GraphDependenciesAre
<1>2. /\ DOMAIN all = DOMAIN docs /\ \A k \in DOMAIN docs : all[k] = docs[k]
  BY FilesInGraph DEF PlainFiles
<1>3. Refs(d.links) \cup Refs(d.rels) = Refs(d.links)
  <2>1. d.rels = <<>>
    BY DEF PlainFiles
  <2>2. ToSet(<<>>) = {}
    BY DEF ToSet
  <2>3. Refs(<<>>) = {}
    BY <2>2 DEF Refs, Depends
  <2> HIDE DEF d
  <2> QED BY <2>1, <2>3
<1>4. \A k \in DOMAIN docs : /\ FileOf(docs[k]) /\ docs[k].kind = "work-item" /\ docs[k].id # Absent
                             /\ docs[k].id = <<"wi-", docs[k].id[2]>> /\ docs[k].file = <<"file", docs[k].id[2]>>
                             /\ Class(docs[k]) = "projectable"
  <2>1. ASSUME NEW k \in DOMAIN docs
        PROVE  /\ FileOf(docs[k]) /\ docs[k].kind = "work-item" /\ docs[k].id # Absent
               /\ docs[k].id = <<"wi-", docs[k].id[2]>> /\ docs[k].file = <<"file", docs[k].id[2]>>
               /\ Class(docs[k]) = "projectable"
    <3>1. docs[k].kind = "work-item" /\ docs[k].id # Absent /\ docs[k].file[2] = docs[k].id[2]
      BY DEF PlainFiles
    <3>2. FileOf(docs[k]) /\ docs[k].id = <<"wi-", docs[k].id[2]>> /\ Class(docs[k]) = "projectable"
      BY <1>0, <3>1, NodeOfTask
    <3>3. docs[k].file = <<"file", docs[k].file[2]>>
      BY <3>1, <3>2 DEF FileOf
    <3> QED BY <3>1, <3>2, <3>3
  <2> QED BY <2>1
(* What each reference means, by the files.                                *)
<1>5. ASSUME NEW r \in Refs(d.links)
      PROVE  \E j \in DOMAIN docs :
               /\ OfNumber(r) /\ r[2] = docs[j].id[2] /\ r \in {docs[j].id, docs[j].file}
               /\ DependencyState(docs[j]).known /\ DependencyState(docs[j]).satisfied
               /\ \A k \in DOMAIN docs : r[2] = docs[k].id[2] => k = j
  <2>1. PICK l \in Depends(d.links) : l.ref = r
    BY <1>5 DEF Refs
  <2>2. PICK j : MetItem(docs, j, r)
    BY <2>1, MetByReview DEF d
  <2>4. j \in DOMAIN docs /\ j \in Tasks(docs)
    BY <1>0, <2>2 DEF MetItem
  <2>5. /\ OfNumber(r) /\ HasNumber(docs[j], r[2])
        /\ DependencyState(docs[j]).known /\ DependencyState(docs[j]).satisfied
    BY <2>2 DEF MetItem
  <2>6. r[2] = docs[j].id[2]
    BY <1>0, <1>4, <2>4, <2>5, OwnNumber
  <2>7. r \in {docs[j].id, docs[j].file}
    <3>1. r = <<r[1], r[2]>>
      BY DEF PlainFiles
    <3>2. r[1] = "wi-" \/ r[1] = "file"
      BY <1>5, <2>5 DEF OfNumber, ByNumber
    <3>3. r = <<"wi-", r[2]>> \/ r = <<"file", r[2]>>
      <4> HIDE DEF d
      <4>1. CASE r[1] = "wi-"
        BY <3>1, <4>1
      <4>2. CASE r[1] = "file"
        BY <3>1, <4>2
      <4> QED BY <3>2, <4>1, <4>2
    <3> QED BY <1>4, <2>4, <2>6, <3>3
  <2>8. \A k \in DOMAIN docs : r[2] = docs[k].id[2] => k = j
    BY <1>0, <2>4, <2>5
  <2> QED BY <2>4, <2>5, <2>6, <2>7, <2>8
<1> HIDE DEF all, g
(* Where each dependency of the graph leads to.                            *)
<1>6. ASSUME NEW m \in ends
      PROVE  \E j \in DOMAIN docs, r \in Refs(d.links) :
               /\ MakerOf(all, m) = docs[j] /\ r \in Aliases(docs[j])
               /\ ById(all, docs[j].id) = docs[j]
  <2>1. PICK j \in Tasks(docs), h \in Tasks(docs) : \E r :
          /\ docs[j].id # Absent /\ MakerOf(all, m) = docs[j]
          /\ docs[h].id # Absent /\ docs[h].id = docs[j].id /\ r \in Aliases(docs[h])
          /\ r \in Refs(docs[i].links) \cup Refs(docs[i].rels)
    BY <1>0, EndIsTask DEF all, g
  <2>2. h = j
    BY <1>0, <2>1 DEF PlainFiles
  <2>3. ById(all, docs[j].id) = docs[j]
    BY <1>0, <2>1, OwnNumber DEF all
  <2> QED BY <1>0, <1>3, <2>1, <2>2, <2>3
<1>7. ASSUME NEW j \in DOMAIN docs, NEW r, r \in Aliases(docs[j])
      PROVE  r[2] = docs[j].id[2]
  <2>1. r \in {docs[j].id, docs[j].file} \/ r = <<docs[j].id[1] \o "-", docs[j].id[2]>>
    BY <1>7 DEF Aliases
  <2> QED BY <1>4, <2>1
<1>8. ASSUME NEW m \in ends
      PROVE  /\ DependencyState(ById(all, MakerOf(all, m).id)).known
             /\ DependencyState(ById(all, MakerOf(all, m).id)).satisfied
  <2>1. PICK j \in DOMAIN docs, r \in Refs(d.links) :
          /\ MakerOf(all, m) = docs[j] /\ r \in Aliases(docs[j]) /\ ById(all, docs[j].id) = docs[j]
    BY <1>6
  <2>2. r[2] = docs[j].id[2]
    BY <1>7, <2>1
  <2>3. DependencyState(docs[j]).known /\ DependencyState(docs[j]).satisfied
    BY <1>5, <2>1, <2>2
  <2> QED BY <2>1, <2>3
<1>9. ASSUME NEW r \in Refs(d.links)
      PROVE  \E m \in ends : Tokens(r) \cap TokensAt(all, m) # {}
  <2>1. PICK q \in DOMAIN docs : OfNumber(r) /\ r[2] = docs[q].id[2] /\ r \in {docs[q].id, docs[q].file}
    BY <1>5
  <2>2. Calls(all[q], r)
    BY <1>2, <1>4, <2>1 DEF Calls, Aliases
  <2>3. /\ IsList(all)
        /\ \A x \in ToSet(all) : WellWritten(x) /\ WellIdentified(x)
    BY FilesInGraph DEF all
  <2>4. r \in Refs(all[i].links) /\ all[i] = d /\ all[i].kind = "work-item" /\ Class(all[i]) = "projectable"
    BY <1>2, <1>4
  <2>5. PICK e \in ToSet(g.edges), h \in DOMAIN all : DependencyEdge(all, e, i, h, r)
    BY <1>2, <2>2, <2>3, <2>4, ItemsOfProject DEF g
  <2>6. /\ e.from = NodeId(d) /\ e.type = "depends_on" /\ e.to = NodeId(docs[h])
        /\ r \in Aliases(docs[h]) /\ h \in DOMAIN docs
    BY <1>2, <2>4, <2>5 DEF DependencyEdge, Calls
  <2> DEFINE m == e.to
  <2>7. m[1] = "work-item" /\ m = <<"work-item", <<"wi", docs[h].id[2]>>>>
    BY <1>0, <1>4, <2>6, NodeOfTask
  <2>8. m \in ends
    BY <2>6, <2>7 DEF EndsOf
  <2>9. PICK j \in DOMAIN docs, p \in Refs(d.links) :
          /\ MakerOf(all, m) = docs[j] /\ p \in Aliases(docs[j]) /\ ById(all, docs[j].id) = docs[j]
    BY <1>6, <2>8
  <2>10. PICK k \in Tasks(docs) : /\ docs[k].id # Absent /\ MakerOf(all, m) = docs[k]
                                  /\ m = <<"work-item", <<"wi", docs[k].id[2]>>>>
    <3>1. Class(all[h]) = "projectable" /\ NodeId(all[h]) = m /\ h \in DOMAIN docs
      BY <1>2, <1>4, <2>6
    <3> HIDE DEF m
    <3> QED BY <2>7, <3>1, MakerIsTask DEF all
  <2>11. docs[k].id[2] = docs[h].id[2]
    BY <2>7, <2>10
  <2>12. r[2] = docs[k].id[2]
    BY <1>7, <2>6, <2>11
  <2>13. Tokens(r) \cap Tokens(docs[k].id) # {}
    BY <1>0, <1>4, <2>1, <2>10, <2>12, MeantByNumber
  <2>14. Tokens(docs[k].id) \subseteq TokensAt(all, m)
    <3> HIDE DEF m
    <3> QED BY <2>10 DEF TokensAt
  <2> HIDE DEF m
  <2> QED BY <2>8, <2>13, <2>14
<1>10. Lost(all, ends, d) = {}
  <2> HIDE DEF ends, d
  <2> QED BY <1>3, <1>9 DEF Lost
<1> HIDE DEF ends, d
<1> QED BY <1>1, <1>8, <1>10 DEF Met, all, g, d, ends

-----------------------------------------------------------------------------
(* The kernel has nothing to say of a document.                            *)
LEMMA NothingGoverned ==
  ASSUME NEW doc, NEW deps
  PROVE  GovernanceReasons(doc, deps) = {} <=>
           /\ doc.id # Absent /\ doc.place # "archive" /\ doc.status = "ready" /\ doc.lifecycle = "active"
           /\ "afk" \in doc.tags /\ "hitl" \notin doc.tags /\ DependencyReasons(deps) = {}
<1> DEFINE S == doc.status
           L == doc.lifecycle
           P == doc.place
           K == {"invalid", "archived", "closed", "blocked", "dependency_blocked", "not_ready", "not_active"}
           t == [invalid |-> doc.id = Absent \/ S = "" \/ L = "",
                 archived |-> P = "archive" \/ L = "archived",
                 closed |-> S = "closed" \/ L = "inactive",
                 blocked |-> S = "blocked",
                 dependency_blocked |-> S = "dependency-blocked",
                 not_ready |-> S # "ready",
                 not_active |-> L # "active"]
<1>1. LifecycleReasons(doc) = {r \in K : t[r]}
  BY DEF LifecycleReasons, Holding
<1>2. /\ t["invalid"] = (doc.id = Absent \/ S = "" \/ L = "")
      /\ t["archived"] = (P = "archive" \/ L = "archived")
      /\ t["closed"] = (S = "closed" \/ L = "inactive")
      /\ t["blocked"] = (S = "blocked")
      /\ t["dependency_blocked"] = (S = "dependency-blocked")
      /\ t["not_ready"] = (S # "ready")
      /\ t["not_active"] = (L # "active")
  OBVIOUS
<1> HIDE DEF t
<1>3. LifecycleReasons(doc) = {} <=> doc.id # Absent /\ P # "archive" /\ S = "ready" /\ L = "active"
  <2>1. ASSUME LifecycleReasons(doc) = {}
        PROVE  doc.id # Absent /\ P # "archive" /\ S = "ready" /\ L = "active"
    <3>1. \A r \in K : ~t[r]
      BY <1>1, <2>1
    <3>2. ~t["invalid"] /\ ~t["archived"] /\ ~t["not_ready"] /\ ~t["not_active"]
      BY <3>1
    <3> HIDE DEF S, L, P
    <3> QED BY <1>2, <3>2
  <2>2. ASSUME doc.id # Absent, P # "archive", S = "ready", L = "active"
        PROVE  LifecycleReasons(doc) = {}
    <3>1. \A r \in K : ~t[r]
      <4> HIDE DEF S, L, P
      <4> QED BY <1>2, <2>2
    <3> QED BY <1>1, <3>1
  <2> QED BY <2>1, <2>2
<1> HIDE DEF S, L, P
<1>4. ClassificationReasons(doc) = {} <=> "afk" \in doc.tags /\ "hitl" \notin doc.tags
  <2> DEFINE u == [hitl |-> "hitl" \in doc.tags,
                   missing_classification |-> doc.tags \cap {"hitl", "afk"} = {}]
  <2>1. ClassificationReasons(doc) = {r \in {"hitl", "missing_classification"} : u[r]}
    BY DEF ClassificationReasons, Holding
  <2>2. /\ u["hitl"] = ("hitl" \in doc.tags)
        /\ u["missing_classification"] = (doc.tags \cap {"hitl", "afk"} = {})
    OBVIOUS
  <2> HIDE DEF u
  <2>3. ClassificationReasons(doc) = {} <=> ~u["hitl"] /\ ~u["missing_classification"]
    BY <2>1
  <2> QED BY <2>2, <2>3
<1> QED BY <1>3, <1>4 DEF GovernanceReasons, S, L, P

(* Nothing keeps a task from being claimed.                                *)
LEMMA NothingFails ==
  ASSUME NEW doc, NEW deps, NEW log
  PROVE  ClaimabilityFailures(TaskView(doc, deps, log)) = {} <=>
           /\ doc.status = "ready" /\ doc.lifecycle = "active"
           /\ "afk" \in doc.tags /\ "hitl" \notin doc.tags /\ DependencyReasons(deps) = {}
           /\ log = NoLog \/ ReadyPermitting(log)
<1> DEFINE task == TaskView(doc, deps, log)
           K == {"not_active", "not_ready", "missing_classification", "hitl", "dependency_blocked",
                 "execution_not_ready"}
           t == [not_active |-> ~task.active, not_ready |-> task.status # "ready",
                 missing_classification |-> ~task.afk, hitl |-> task.hitl,
                 dependency_blocked |-> ~task.satisfied,
                 execution_not_ready |-> ~task.runtime.executionReady]
<1>1. ClaimabilityFailures(task) = {r \in K : t[r]}
  BY DEF ClaimabilityFailures, Holding
<1>2. /\ task.active = (doc.lifecycle = "active") /\ task.status = doc.status
      /\ task.afk = ("afk" \in doc.tags /\ "hitl" \notin doc.tags) /\ task.hitl = ("hitl" \in doc.tags)
      /\ task.satisfied = (DependencyReasons(deps) = {})
      /\ task.runtime.executionReady = (log = NoLog \/ ReadyPermitting(log))
  BY DEF TaskView, Runtime
<1> HIDE DEF task
<1>3. /\ t["not_active"] = ~task.active /\ t["not_ready"] = (task.status # "ready")
      /\ t["missing_classification"] = ~task.afk /\ t["hitl"] = task.hitl
      /\ t["dependency_blocked"] = ~task.satisfied
      /\ t["execution_not_ready"] = ~task.runtime.executionReady
  OBVIOUS
<1> HIDE DEF t
<1>4. ClaimabilityFailures(task) = {} <=>
        /\ ~t["not_active"] /\ ~t["not_ready"] /\ ~t["missing_classification"] /\ ~t["hitl"]
        /\ ~t["dependency_blocked"] /\ ~t["execution_not_ready"]
  BY <1>1
<1> QED BY <1>2, <1>3, <1>4 DEF task

(* A document is not excluded.                                             *)
LEMMA NothingExcludes ==
  ASSUME NEW doc, doc.kind # "malformed", NEW deps, NEW log, NEW claim
  PROVE  Exclusions(doc, deps, log, claim) = {} <=>
           /\ GovernanceReasons(doc, deps) = {} /\ ClaimabilityFailures(TaskView(doc, deps, log)) = {}
           /\ claim \notin {"active", "expired"} /\ doc.titled
<1> DEFINE said == GovernanceReasons(doc, deps)
           fails == ClaimabilityFailures(TaskView(doc, deps, log))
           t == [task_claim_active |-> claim = "active",
                 task_claim_expired |-> claim = "expired", invalid |-> ~doc.titled]
           own == {r \in {"task_claim_active", "task_claim_expired", "invalid"} : t[r]}
<1>1. Exclusions(doc, deps, log, claim) = said \cup {f \in fails : SaidBy[f] \cap said = {}} \cup own
  <2>1. Holding(t) = own
    BY DEF Holding
  <2> QED BY <2>1 DEF Exclusions
<1>2. /\ t["task_claim_active"] = (claim = "active") /\ t["task_claim_expired"] = (claim = "expired")
      /\ t["invalid"] = ~doc.titled
  OBVIOUS
<1> HIDE DEF t
<1>3. own = {} <=> claim \notin {"active", "expired"} /\ doc.titled
  <2>1. own = {} <=> ~t["task_claim_active"] /\ ~t["task_claim_expired"] /\ ~t["invalid"]
    OBVIOUS
  <2> QED BY <1>2, <2>1
<1> HIDE DEF said, fails, own
<1>4. said = {} => {f \in fails : SaidBy[f] \cap said = {}} = fails
  OBVIOUS
<1>5. Exclusions(doc, deps, log, claim) = {} <=> said = {} /\ fails = {} /\ own = {}
  BY <1>1, <1>4
<1> QED BY <1>3, <1>5 DEF said, fails

(* An authority is one of the checkouts that there are.                    *)
Roots(w) == \A t \in DOMAIN w.trees : w.trees[t].root \in {1, 2}

(* And so is every task's.                                                 *)
LEMMA AuthorityIsRoot ==
  ASSUME NEW w, Roots(w), NEW id
  PROVE  Authority(w, id) \in {1, 2}
<1> DEFINE wanted == <<LogIn(w, 1, id).branch, Issue(id)>>
           found == {k \in {1, 2} : wanted[k] # Absent /\ SingleTrees(w, wanted[k]) # {}}
           trees == SingleTrees(w, wanted[Min(found)])
           t == CHOOSE i \in trees : TRUE
<1>1. CASE w.branch \in {wanted[1], wanted[2]} \ {Absent} \/ found = {}
  <2>1. Authority(w, id) = 1
    BY <1>1 DEF Authority
  <2> QED BY <2>1
<1>2. CASE ~(w.branch \in {wanted[1], wanted[2]} \ {Absent} \/ found = {})
  <2>1. Authority(w, id) = w.trees[t].root
    BY <1>2 DEF Authority
  <2>2. found # {} /\ found \subseteq Nat
    BY <1>2
  <2>3. Min(found) \in found
    <3> HIDE DEF found
    <3> QED BY <2>2, LeastOf
  <2>4. trees # {}
    <3> HIDE DEF wanted
    <3> QED BY <2>3
  <2>5. t \in trees
    <3> HIDE DEF trees
    <3> QED BY <2>4
  <2>6. t \in DOMAIN w.trees
    <3> HIDE DEF wanted, found, t
    <3> QED BY <2>5 DEF SingleTrees
  <2> HIDE DEF t
  <2> QED BY <2>1, <2>6 DEF Roots
<1> QED BY <1>1, <1>2

(* How a task is judged, if both checkouts have the same files.            *)
JudgedAs(w, id, d, j) == LET docs == w.docs[1] root == Authority(w, id) IN
  /\ j.doc = d /\ j.deps = Dependencies(docs, d, docs)
  /\ j.log = LogIn(w, root, id) /\ j.claim = ClaimIn(w, root, id)

(* Every task is judged so, as one that has its id.                        *)
LEMMA JudgedAlike ==
  ASSUME NEW w, Roots(w), w.docs[2] = w.docs[1], IsList(w.docs[1]),
         NEW k \in Selectable(w.docs[1]), w.docs[1][k].id # Absent
  PROVE  LET docs == w.docs[1] id == docs[k].id IN
         \E h \in WithId(docs, id) : JudgedAs(w, id, docs[h], Judged(w, docs[k]))
<1> DEFINE docs == w.docs[1]
           id == docs[k].id
           root == Authority(w, id)
           found == WithId(docs, id)
           d == IF root = 1 THEN docs[k] ELSE docs[Min(found)]
<1>1. root \in {1, 2}
  BY AuthorityIsRoot
<1> HIDE DEF root
<1>2. w.docs[root] = docs
  BY <1>1
<1>3. k \in found
  BY DEF WithId
<1>4. found \subseteq Nat
  BY DEF WithId, Selectable, IsList
<1>5. Min(found) \in found
  <2> HIDE DEF found
  <2> QED BY <1>3, <1>4, LeastOf
<1>6. Judged(w, docs[k]) = [doc |-> d, deps |-> IF root = 1 THEN Dependencies(docs, d, docs)
                                                ELSE Dependencies(docs, d, docs),
                            log |-> LogIn(w, root, id), claim |-> ClaimIn(w, root, id)]
  <2>1. ~(id = Absent \/ (root # 1 /\ found = {}))
    BY <1>3
  <2>2. root = 1 => d = docs[k]
    OBVIOUS
  <2> HIDE DEF d
  <2>3. CASE root = 1
    <3>1. Authority(w, docs[k].id) = 1
      BY <2>3 DEF root
    <3> QED BY <1>2, <2>1, <2>2, <2>3, <3>1 DEF Judged, root
  <2>4. CASE root # 1
    <3>1. d = docs[Min(found)]
      BY <2>4 DEF d
    <3> QED BY <1>2, <2>1, <2>4, <3>1 DEF Judged, root
  <2> QED BY <2>3, <2>4
<1>7. d = docs[IF root = 1 THEN k ELSE Min(found)]
  OBVIOUS
<1>8. JudgedAs(w, id, d, Judged(w, docs[k]))
  <2> HIDE DEF d, docs
  <2> QED BY <1>6 DEF JudgedAs, root, docs
<1> QED BY <1>3, <1>5, <1>7, <1>8

(* What the claim command loads for a task that no other shares the id     *)
(* with.                                                                   *)
LEMMA LoadedAlone ==
  ASSUME NEW docs, FilesOf(docs), \A d \in ToSet(docs) : d.kind # "malformed",
         NEW i, Singular(docs, i)
  PROVE  Load(docs, docs[i].id) = [outcome |-> "loaded", doc |-> docs[i],
                                   deps |-> ModelDependencies(docs, docs[i])]
<1> DEFINE id == docs[i].id
           found == {k \in Tasks(docs) : Identifies(docs[k], id)}
<1>1. i \in Tasks(docs) /\ id # Absent /\ docs[i].place # "archive" /\ WithId(docs, id) = {i}
  BY DEF Singular
<1>2. id = <<"wi-", id[2]>> /\ i \in Selectable(docs) /\ i \in DOMAIN docs
  BY <1>1, NodeOfTask
<1>3. ASSUME NEW k \in found PROVE k = i
  <2>1. k \in Tasks(docs) /\ k \in Selectable(docs) /\ k \in DOMAIN docs /\ docs[k].kind = "work-item"
    BY DEF Tasks, Selectable
  <2>2. docs[k].file = <<"file", docs[k].file[2]>>
    BY <2>1, InList DEF FilesOf, FileOf
  <2>3. docs[k].file # id
    <3>1. id[1] = "wi-"
      BY <1>2, FormsOfId
    <3>2. docs[k].file[1] = "file"
      BY <2>2
    <3> QED BY <3>1, <3>2
  <2>4. id[1] # ""
    <3>1. id[1] = "wi-"
      BY <1>2, FormsOfId
    <3> QED BY <3>1
  <2>5. docs[k].id = id
    BY <2>3, <2>4 DEF Identifies
  <2>6. k \in WithId(docs, id)
    BY <2>1, <2>5 DEF WithId
  <2> QED BY <1>1, <2>6
<1>4. i \in found
  BY <1>1 DEF Identifies
<1>5. found = {i} /\ i \in Nat
  <2>1. i \in Nat
    BY <1>2 DEF FilesOf, IsList
  <2> QED BY <1>3, <1>4, <2>1
<1> HIDE DEF found
<1>6. docs[Min(found)] = docs[i]
  BY <1>5, LeastOf
<1>7. ~\E k \in Selectable(docs) : docs[k].kind = "malformed"
  BY InList DEF Selectable
<1>8. found # {} /\ ~\E p, q \in found : p # q
  BY <1>5
<1> QED BY <1>1, <1>6, <1>7, <1>8 DEF Load, found

(* The files of the checkout where a command runs, and what is known of    *)
(* its task.                                                               *)
WorldOf(w) == /\ FilesOf(w.docs[1]) /\ Roots(w) /\ OwnNames(w.docs[1], w.task)
              /\ w.task # Absent /\ w.task = <<"wi-", w.task[2]>>

(* The published selection keeps its promise: what it selects can be       *)
(* claimed, in whatever backlog, if claim sees what the task's references  *)
(* mean, and nothing but the task shares its number with another item.     *)
THEOREM SelectionIsKept ==
  ASSUME NEW w, WorldOf(w), OneView(w), WrittenForClaim(w), Selection(w, w.task) = "selected"
  PROVE  Claimable(w, w.task)
<1> DEFINE docs == w.docs[1]
           id == w.task
           root == Authority(w, id)
           named == {k \in WithId(docs, id) : Judged(w, docs[k]).doc.kind = "work-item"}
<1>1. /\ FilesOf(docs) /\ IsList(docs) /\ Roots(w) /\ OwnNames(docs, id)
      /\ id # Absent /\ id = <<"wi-", id[2]>> /\ w.docs[2] = docs
      /\ \A d \in ToSet(docs) : d.kind # "malformed" /\ (d.place = "archive" => d.id = id)
  BY DEF WorldOf, OneView, FilesOf
<1>2. ~(\E k, h \in named : k # h) /\ named # {} /\ id \in Candidates(w)
  BY DEF Selection
<1>3. PICK i \in Selectable(docs) : docs[i].id = id /\ Candidate(Judged(w, docs[i]))
  BY <1>2 DEF Candidates
<1> HIDE DEF docs, id
<1>4. ASSUME NEW k \in WithId(docs, id) PROVE k \in Tasks(docs) /\ k \in DOMAIN docs
  <2>1. k \in Selectable(docs) /\ k \in DOMAIN docs /\ docs[k].id = id
    BY DEF WithId, Selectable
  <2>2. FileOf(docs[k])
    BY <1>1, <2>1, InList DEF FilesOf
  <2>3. docs[k].kind = "work-item"
    BY <1>1, <2>1, <2>2 DEF FileOf
  <2> QED BY <2>1, <2>3 DEF Tasks
<1>5. ASSUME NEW k \in WithId(docs, id)
      PROVE  \E h \in WithId(docs, id) : JudgedAs(w, id, docs[h], Judged(w, docs[k]))
  <2>1. k \in Selectable(docs) /\ docs[k].id = id
    BY DEF WithId
  <2>2. k \in Selectable(w.docs[1]) /\ w.docs[1][k].id # Absent
    BY <1>1, <2>1 DEF docs
  <2> QED BY <1>1, <2>1, <2>2, JudgedAlike DEF docs
<1>6. named = WithId(docs, id)
  <2>1. ASSUME NEW k \in WithId(docs, id) PROVE k \in named
    <3>1. PICK h \in WithId(docs, id) : JudgedAs(w, id, docs[h], Judged(w, docs[k]))
      BY <1>5
    <3>2. Judged(w, docs[k]).doc.kind = "work-item"
      BY <1>4, <3>1 DEF JudgedAs, Tasks
    <3> QED BY <3>2
  <2> QED BY <2>1
<1> HIDE DEF named
<1>7. WithId(docs, id) = {i}
  <2>1. i \in WithId(docs, id)
    BY <1>3 DEF WithId
  <2> QED BY <1>2, <1>6, <2>1
<1> DEFINE d == docs[i]
           deps == Dependencies(docs, d, docs)
           log == LogIn(w, root, id)
<1>8. JudgedAs(w, id, d, Judged(w, docs[i]))
  BY <1>5, <1>7
<1>9. Exclusions(d, deps, log, ClaimIn(w, root, id)) = {} /\ d.kind = "work-item"
  <2> DEFINE j == Judged(w, docs[i])
  <2>1. j.doc = d /\ j.deps = deps /\ j.log = log /\ j.claim = ClaimIn(w, root, id)
    BY <1>8 DEF JudgedAs, docs
  <2>2. j.doc.kind = "work-item" /\ Exclusions(j.doc, j.deps, j.log, j.claim) = {}
    BY <1>3 DEF Candidate
  <2> HIDE DEF j, d, deps, log, root
  <2> QED BY <2>1, <2>2
<1>10. GovernanceReasons(d, deps) = {} /\ ClaimabilityFailures(TaskView(d, deps, log)) = {}
  <2>1. d.kind # "malformed"
    BY <1>9
  <2> HIDE DEF d, deps, log, root
  <2> QED BY <1>9, <2>1, NothingExcludes
<1>11. /\ d.place # "archive" /\ d.status = "ready" /\ d.lifecycle = "active"
       /\ "afk" \in d.tags /\ "hitl" \notin d.tags /\ DependencyReasons(deps) = {}
       /\ log = NoLog \/ ReadyPermitting(log)
  <2> HIDE DEF d, deps, log, root
  <2>1. /\ d.place # "archive" /\ d.status = "ready" /\ d.lifecycle = "active"
        /\ "afk" \in d.tags /\ "hitl" \notin d.tags /\ DependencyReasons(deps) = {}
    BY <1>10, NothingGoverned
  <2>2. log = NoLog \/ ReadyPermitting(log)
    BY <1>10, NothingFails
  <2> QED BY <2>1, <2>2
<1>12. Singular(docs, i) /\ d.id = id
  BY <1>1, <1>3, <1>4, <1>7, <1>11 DEF Singular
<1>13. Met(ModelDependencies(docs, d))
  <2>1. \A k \in Tasks(docs) : docs[k].place = "archive" => docs[k].id = d.id
    BY <1>1, <1>12, InList DEF Tasks, Selectable
  <2>2. ~DependencyState(d).satisfied
    <3> HIDE DEF d
    <3> QED BY <1>11 DEF DependencyState
  <2>3. Met(deps)
    <3> HIDE DEF deps
    <3> QED BY <1>11, NoReason
  <2>4. AllSeen(d)
    BY <1>3, <1>12, InList DEF WrittenForClaim, docs, id, Selectable
  <2> QED BY <1>1, <1>12, <2>1, <2>2, <2>3, <2>4, MetInGraph
<1>14. Load(docs, id) = [outcome |-> "loaded", doc |-> d, deps |-> ModelDependencies(docs, d)]
  BY <1>1, <1>12, LoadedAlone
<1>15. w.docs[root] = docs /\ w.docs[1] = docs
  <2>1. root \in {1, 2}
    BY <1>1, AuthorityIsRoot
  <2> HIDE DEF root
  <2> QED BY <1>1, <2>1 DEF docs
<1>16. ClaimabilityFailures(TaskView(d, ModelDependencies(docs, d), log)) = {}
  <2>1. DependencyReasons(ModelDependencies(docs, d)) = {}
    BY <1>13, NoReason
  <2> HIDE DEF d, log
  <2> QED BY <1>11, <2>1, NothingFails
<1>17. Claimable(w, id)
  <2> DEFINE task == Load(w.docs[root], id)
  <2>1. Load(w.docs[1], id) = task
    BY <1>15
  <2>2. task.outcome = "loaded" /\ task.doc = d /\ task.deps = ModelDependencies(docs, d) /\ task.doc.id = id
    BY <1>12, <1>14, <1>15
  <2> HIDE DEF task, d, root
  <2>3. ClaimabilityFailures(TaskView(task.doc, task.deps, LogIn(w, root, task.doc.id))) = {}
    BY <1>16, <2>2
  <2> QED BY <2>1, <2>2, <2>3 DEF Claimable, task, root
<1> QED BY <1>17 DEF id

-----------------------------------------------------------------------------
(* There is no finding against a document.                                 *)
LEMMA NothingFound ==
  ASSUME NEW doc, NEW deps, NEW log, NEW claim
  PROVE  Findings(doc, deps, log, claim) = {} <=>
           /\ GovernanceReasons(doc, deps) = {} /\ EvidenceReasons(doc) = {}
           /\ claim \notin {"active", "expired"} /\ (log = NoLog \/ ReadyPermitting(log))
<1> DEFINE t == [runtime_claim_active |-> claim = "active", runtime_claim_expired |-> claim = "expired",
                 runtime_execution_not_ready |-> log # NoLog /\ ~ReadyPermitting(log)]
           own == {r \in {"runtime_claim_active", "runtime_claim_expired", "runtime_execution_not_ready"} : t[r]}
<1>1. Findings(doc, deps, log, claim) = GovernanceReasons(doc, deps) \cup EvidenceReasons(doc) \cup own
  <2>1. Holding(t) = own
    BY DEF Holding
  <2> QED BY <2>1 DEF Findings
<1>2. /\ t["runtime_claim_active"] = (claim = "active") /\ t["runtime_claim_expired"] = (claim = "expired")
      /\ t["runtime_execution_not_ready"] = (log # NoLog /\ ~ReadyPermitting(log))
  OBVIOUS
<1> HIDE DEF t
<1>3. own = {} <=> /\ ~t["runtime_claim_active"] /\ ~t["runtime_claim_expired"]
                   /\ ~t["runtime_execution_not_ready"]
  OBVIOUS
<1>4. own = {} <=> claim \notin {"active", "expired"} /\ (log = NoLog \/ ReadyPermitting(log))
  BY <1>2, <1>3
<1> HIDE DEF own
<1> QED BY <1>1, <1>4

(* A titled item is offered exactly if there is no finding against it.     *)
LEMMA OfferedUnlessFound ==
  ASSUME NEW j, j.doc.kind = "work-item", j.doc.titled
  PROVE  Candidate(j) <=> Findings(j.doc, j.deps, j.log, j.claim) = {}
<1> DEFINE doc == j.doc  deps == j.deps  log == j.log  claim == j.claim
<1>1. doc.kind = "work-item" /\ doc.titled /\ doc.kind # "malformed"
  OBVIOUS
<1>2. Candidate(j) <=> Exclusions(doc, deps, log, claim) = {}
  BY DEF Candidate
<1> HIDE DEF doc, deps, log, claim
<1>3. Exclusions(doc, deps, log, claim) = {} <=>
        /\ GovernanceReasons(doc, deps) = {} /\ ClaimabilityFailures(TaskView(doc, deps, log)) = {}
        /\ claim \notin {"active", "expired"}
  BY <1>1, NothingExcludes
<1>4. GovernanceReasons(doc, deps) = {} =>
        /\ ClaimabilityFailures(TaskView(doc, deps, log)) = {} <=> log = NoLog \/ ReadyPermitting(log)
        /\ EvidenceReasons(doc) = {}
  <2> SUFFICES ASSUME GovernanceReasons(doc, deps) = {}
               PROVE  /\ ClaimabilityFailures(TaskView(doc, deps, log)) = {} <=> log = NoLog \/ ReadyPermitting(log)
                      /\ EvidenceReasons(doc) = {}
    OBVIOUS
  <2>1. /\ doc.status = "ready" /\ doc.lifecycle = "active"
        /\ "afk" \in doc.tags /\ "hitl" \notin doc.tags /\ DependencyReasons(deps) = {}
    BY NothingGoverned
  <2>2. EvidenceReasons(doc) = {}
    BY <2>1 DEF EvidenceReasons
  <2> QED BY <2>1, <2>2, NothingFails
<1>5. Findings(doc, deps, log, claim) = {} <=>
        /\ GovernanceReasons(doc, deps) = {} /\ EvidenceReasons(doc) = {}
        /\ claim \notin {"active", "expired"} /\ (log = NoLog \/ ReadyPermitting(log))
  BY NothingFound
<1> QED BY <1>2, <1>3, <1>4, <1>5 DEF doc, deps, log, claim

(* The review finds nothing against a candidate of its own.                *)
LEMMA CandidateUnfound ==
  ASSUME NEW w, NEW doc, ReviewCandidate(w, doc)
  PROVE  ReviewFindings(w, doc) = {}
<1> DEFINE r == ReviewReasons(w.docs[1], doc)
<1>1. /\ doc.kind = "work-item" /\ ReviewReady(w.docs[1], doc) /\ r.dependencies = {} /\ r.evidence = {}
      /\ ReviewRuntime(w, doc).ready
  BY DEF ReviewCandidate
<1>2. r.lifecycle \cup r.classification \cup r.dependencies = {}
  BY <1>1 DEF ReviewReady
<1>3. ReviewRuntime(w, doc).executionReady
  BY <1>1 DEF ReviewRuntime, Runtime
<1>4. DOMAIN r = {"lifecycle", "classification", "dependencies", "evidence"}
  BY <1>1 DEF ReviewReasons
<1>5. \A check \in DOMAIN r : r[check] = {}
  <2> HIDE DEF r
  <2> QED BY <1>1, <1>2, <1>4
<1>6. UNION {{[check |-> check, code |-> code] : code \in r[check]} : check \in DOMAIN r} = {}
  <2> HIDE DEF r
  <2> QED BY <1>5
<1> HIDE DEF r
<1> QED BY <1>1, <1>3, <1>6 DEF ReviewFindings, r

(* Nothing blocks a candidate of the review that it does not exclude too.  *)
LEMMA CandidatesUnblocked ==
  ASSUME NEW w, NEW id \in ReviewReport(w).candidates, id \notin ReviewReport(w).excluded
  PROVE  ReviewReport(w).findings[id] = {}
<1> DEFINE docs == w.docs[1]
           items == Reviewed(docs)
           ids == {SubjectId(docs[i]) : i \in items}
           table == [x \in ids |-> UNION {ReviewFindings(w, docs[i]) : i \in {k \in items : SubjectId(docs[k]) = x}}]
<1>1. /\ ReviewReport(w).candidates = {SubjectId(docs[i]) : i \in {k \in items : ReviewCandidate(w, docs[k])}}
      /\ ReviewReport(w).excluded = {SubjectId(docs[i]) : i \in {k \in items : ~ReviewCandidate(w, docs[k])}}
      /\ ReviewReport(w).findings = table
  BY DEF ReviewReport
<1>2. id \in ids
  BY <1>1
<1>3. table[id] = UNION {ReviewFindings(w, docs[i]) : i \in {k \in items : SubjectId(docs[k]) = id}}
  BY <1>2
<1>4. ASSUME NEW i \in items, SubjectId(docs[i]) = id PROVE ReviewFindings(w, docs[i]) = {}
  <2>1. ReviewCandidate(w, docs[i])
    BY <1>1, <1>4
  <2> QED BY <2>1, CandidateUnfound
<1> HIDE DEF docs, items
<1>5. UNION {ReviewFindings(w, docs[i]) : i \in {k \in items : SubjectId(docs[k]) = id}} = {}
  BY <1>4
<1> HIDE DEF table
<1> QED BY <1>1, <1>3, <1>5

-----------------------------------------------------------------------------
(* The review offers an item that has an id exactly if the gates of the    *)
(* kernel are open, in the log here.                                       *)
GatesOpen(doc, deps, log) ==
  /\ doc.place # "archive" /\ doc.status = "ready" /\ doc.lifecycle = "active"
  /\ "afk" \in doc.tags /\ "hitl" \notin doc.tags /\ DependencyReasons(deps) = {}
  /\ log = NoLog \/ ReadyPermitting(log)

(* So it is for the review.                                                *)
LEMMA ReviewedByGates ==
  ASSUME NEW w, NEW doc, FileOf(doc), doc.kind = "work-item", doc.id # Absent
  PROVE  ReviewCandidate(w, doc) <=> GatesOpen(doc, ReviewDependencies(w.docs[1], doc), LogIn(w, 1, doc.id))
<1> DEFINE docs == w.docs[1]
           deps == ReviewDependencies(docs, doc)
           log == LogIn(w, 1, doc.id)
           r == ReviewReasons(docs, doc)
<1>1. SubjectId(doc) = doc.id /\ Governed(doc) = doc
  <2>1. SubjectId(doc) = doc.id
    BY DEF SubjectId
  <2>2. doc = [f \in DOMAIN doc |-> doc[f]] /\ "id" \in DOMAIN doc
    BY DEF FileOf
  <2>3. [doc EXCEPT !.id = doc.id] = doc
    BY <2>2
  <2> QED BY <2>1, <2>3 DEF Governed
<1>2. /\ r.lifecycle = LifecycleReasons(doc) /\ r.classification = ClassificationReasons(doc)
      /\ r.dependencies = DependencyReasons(deps) /\ r.evidence = EvidenceReasons(doc) \cap {"missing_evidence"}
  BY <1>1 DEF ReviewReasons
<1> HIDE DEF deps, r
<1>3. ReviewReady(docs, doc) <=> GovernanceReasons(doc, deps) = {}
  BY <1>2 DEF ReviewReady, GovernanceReasons, r
<1>4. ReviewRuntime(w, doc).ready <=> ReviewReady(docs, doc) /\ (log = NoLog \/ ReadyPermitting(log))
  BY <1>1 DEF ReviewRuntime, Runtime
<1>5. GovernanceReasons(doc, deps) = {} <=>
        /\ doc.place # "archive" /\ doc.status = "ready" /\ doc.lifecycle = "active"
        /\ "afk" \in doc.tags /\ "hitl" \notin doc.tags /\ DependencyReasons(deps) = {}
  BY NothingGoverned
<1>6. doc.status = "ready" => r.evidence = {}
  BY <1>2 DEF EvidenceReasons
<1>7. ReviewCandidate(w, doc) <=>
        /\ ReviewReady(docs, doc) /\ "afk" \in doc.tags /\ "hitl" \notin doc.tags
        /\ r.dependencies = {} /\ r.evidence = {} /\ ReviewRuntime(w, doc).ready
  BY DEF ReviewCandidate, r
<1> HIDE DEF docs, log
<1> QED BY <1>2, <1>3, <1>4, <1>5, <1>6, <1>7 DEF GatesOpen, docs, deps, log

(* And for ready, but for the claim and the title.                         *)
LEMMA OfferedByGates ==
  ASSUME NEW j, j.doc.kind = "work-item", j.doc.id # Absent
  PROVE  Candidate(j) <=> /\ GatesOpen(j.doc, j.deps, j.log) /\ j.claim \notin {"active", "expired"}
                          /\ j.doc.titled
<1> DEFINE doc == j.doc  deps == j.deps  log == j.log  claim == j.claim
<1>1. doc.kind # "malformed" /\ doc.id # Absent
  OBVIOUS
<1>2. Candidate(j) <=> Exclusions(doc, deps, log, claim) = {}
  BY DEF Candidate
<1> HIDE DEF doc, deps, log, claim
<1>3. Exclusions(doc, deps, log, claim) = {} <=>
        /\ GovernanceReasons(doc, deps) = {} /\ ClaimabilityFailures(TaskView(doc, deps, log)) = {}
        /\ claim \notin {"active", "expired"} /\ doc.titled
  BY <1>1, NothingExcludes
<1> QED BY <1>1, <1>2, <1>3, NothingGoverned, NothingFails DEF GatesOpen, doc, deps, log, claim

(* How an item of a plain backlog is judged, and loaded.                   *)
LEMMA PlainIsJudged ==
  ASSUME NEW w, Roots(w), FilesOf(w.docs[1]), PlainFiles(w.docs[1]), PlainWorld(w),
         NEW i \in DOMAIN w.docs[1]
  PROVE  LET docs == w.docs[1] d == docs[i] j == Judged(w, d) root == Authority(w, d.id) IN
         /\ j.doc = d /\ j.deps = Dependencies(docs, d, docs) /\ j.log = LogIn(w, 1, d.id)
         /\ LogIn(w, root, d.id) = LogIn(w, 1, d.id)
         /\ Load(w.docs[1], d.id) = [outcome |-> "loaded", doc |-> d, deps |-> ModelDependencies(docs, d)]
         /\ Load(w.docs[root], d.id) = Load(w.docs[1], d.id)
         /\ WithId(docs, d.id) = {i} /\ d.kind = "work-item" /\ d.id # Absent /\ FileOf(d)
<1> DEFINE docs == w.docs[1]
           d == docs[i]
           root == Authority(w, d.id)
<1>1. w.docs[2] = docs /\ Authority(w, w.task) = 1 /\ \A x \in ToSet(docs) : x.kind # "malformed"
  BY DEF PlainWorld, OneView
<1>2. IsList(docs) /\ Singular(docs, i)
  BY PlainIsOwn DEF FilesOf
<1>3. i \in Tasks(docs) /\ i \in Selectable(docs) /\ d.id # Absent /\ WithId(docs, d.id) = {i}
  BY <1>2, NodeOfTask DEF Singular
<1>4. root \in {1, 2}
  BY AuthorityIsRoot
<1>5. LogIn(w, root, d.id) = LogIn(w, 1, d.id)
  BY <1>1 DEF LogIn
<1>6. JudgedAs(w, d.id, d, Judged(w, d))
  <2>1. PICK h \in WithId(docs, d.id) : JudgedAs(w, d.id, docs[h], Judged(w, d))
    BY <1>1, <1>2, <1>3, JudgedAlike
  <2> QED BY <1>3, <2>1
<1>7. Load(docs, d.id) = [outcome |-> "loaded", doc |-> d, deps |-> ModelDependencies(docs, d)]
  BY <1>1, <1>2, LoadedAlone
<1>8. FileOf(d) /\ d.kind = "work-item"
  BY InList DEF FilesOf, PlainFiles
<1> HIDE DEF root
<1>9. w.docs[root] = docs
  BY <1>1, <1>4
<1> QED BY <1>3, <1>5, <1>6, <1>7, <1>8, <1>9 DEF JudgedAs, root

(* Of the documents of a plain backlog, the review offers one if its own   *)
(* gates are open.                                                         *)
LEMMA PlainIsReviewed ==
  ASSUME NEW w, Roots(w), FilesOf(w.docs[1]), PlainFiles(w.docs[1]), PlainWorld(w),
         NEW i \in DOMAIN w.docs[1]
  PROVE  LET docs == w.docs[1] d == docs[i] IN
         d.id \in ReviewReport(w).candidates <=>
           GatesOpen(d, ReviewDependencies(docs, d), LogIn(w, 1, d.id))
<1> DEFINE docs == w.docs[1]
           d == docs[i]
<1>1. ReviewReport(w).candidates = {SubjectId(docs[k]) : k \in {h \in Reviewed(docs) : ReviewCandidate(w, docs[h])}}
  BY DEF ReviewReport
<1>2. \A k \in DOMAIN docs : /\ docs[k].kind = "work-item" /\ docs[k].id # Absent /\ FileOf(docs[k])
                             /\ SubjectId(docs[k]) = docs[k].id /\ k \in Reviewed(docs)
  BY PlainIsJudged DEF SubjectId, Reviewed, PlainFiles
<1>3. \A k \in DOMAIN docs : docs[k].id = d.id => k = i
  BY DEF PlainFiles
<1>4. Reviewed(docs) \subseteq DOMAIN docs
  BY DEF Reviewed, Selectable
<1>5. d.id \in ReviewReport(w).candidates <=> ReviewCandidate(w, d)
  <2>1. ASSUME d.id \in ReviewReport(w).candidates PROVE ReviewCandidate(w, d)
    <3>1. PICK k \in Reviewed(docs) : ReviewCandidate(w, docs[k]) /\ SubjectId(docs[k]) = d.id
      <4> HIDE DEF docs
      <4> QED BY <1>1, <2>1
    <3>2. k = i
      BY <1>2, <1>3, <1>4, <3>1
    <3> QED BY <3>1, <3>2
  <2>2. ASSUME ReviewCandidate(w, d) PROVE d.id \in ReviewReport(w).candidates
    <3>1. SubjectId(d) = d.id /\ i \in Reviewed(docs)
      BY <1>2
    <3>2. SubjectId(docs[i]) \in {SubjectId(docs[k]) : k \in {h \in Reviewed(docs) : ReviewCandidate(w, docs[h])}}
      BY <2>2, <3>1
    <3> QED BY <1>1, <3>1, <3>2
  <2> QED BY <2>1, <2>2
<1>6. ReviewCandidate(w, d) <=> GatesOpen(d, ReviewDependencies(docs, d), LogIn(w, 1, d.id))
  BY <1>2, ReviewedByGates
<1> QED BY <1>5, <1>6

(* Files of which an id, if nobody else's, is that of a work item whose    *)
(* file has its number; references are pairs.                              *)
NamedFiles(docs) == \A i \in DOMAIN docs : docs[i].id # Absent =>
  /\ docs[i].kind = "work-item"
  /\ \A r \in Refs(docs[i].links) : r = <<r[1], r[2]>>
  /\ docs[i].file[2] = docs[i].id[2] \/ \E j \in DOMAIN docs : j # i /\ docs[j].id = docs[i].id

(* A plain world is one of plain files then.                               *)
LEMMA NamedIsPlain ==
  ASSUME NEW w, NamedFiles(w.docs[1]), PlainWorld(w)
  PROVE  PlainFiles(w.docs[1])
<1> DEFINE docs == w.docs[1]
<1>1. \A i, j \in DOMAIN docs : /\ docs[i].place = "active" /\ docs[i].id # Absent /\ docs[i].rels = <<>>
                                /\ docs[i].id = docs[j].id => i = j
  BY DEF PlainWorld
<1> HIDE DEF docs
<1>2. Selectable(docs) = DOMAIN docs
  BY <1>1 DEF Selectable
<1>3. \A i \in DOMAIN docs : docs[i].kind = "work-item" /\ docs[i].file[2] = docs[i].id[2]
                             /\ \A r \in Refs(docs[i].links) : r = <<r[1], r[2]>>
  BY <1>1 DEF NamedFiles, docs
<1> QED BY <1>1, <1>2, <1>3 DEF PlainFiles, docs

(* Findings are the reasons: in whatever backlog and state of its tasks,   *)
(* who decides by the findings decides as ready and the review do.  In a   *)
(* plain world, the review offers what ready does but for a claim, a title *)
(* and how references are written, and only what can be claimed if claim   *)
(* sees what they mean.                                                    *)
THEOREM FindingsAreReasons ==
  ASSUME NEW w, FilesOf(w.docs[1]), Roots(w), NamedFiles(w.docs[1])
  PROVE  Explained(w, ReviewReport(w))
<1> DEFINE docs == w.docs[1]
           report == ReviewReport(w)
<1>1. ASSUME NEW id \in report.candidates
      PROVE  \/ id \in report.excluded
             \/ \A f \in report.findings[id] : ~Blocking(f) /\ f.code # "execution_not_ready"
  BY <1>1, CandidatesUnblocked
<1>2. ASSUME NEW j, j.doc.kind = "work-item", j.doc.titled
      PROVE  Candidate(j) <=> Findings(j.doc, j.deps, j.log, j.claim) = {}
  BY <1>2, OfferedUnlessFound
<1>3. ASSUME PlainWorld(w), NEW i \in Reviewed(docs)
      PROVE  LET d == docs[i] j == Judged(w, d) IN
             /\ d.id \in report.candidates /\ AllSeen(d) => Claimable(w, d.id)
             /\ Candidate(j) /\ (\A l \in Depends(d.links) : l.around # "code")
                  => d.id \in report.candidates
             /\ d.id \in report.candidates /\ j.claim = "none" /\ d.titled
                  /\ (\A r \in Refs(d.links) : r[1] \notin {"", "wi-slug"}) => Candidate(j)
  <2> DEFINE d == docs[i]
             j == Judged(w, d)
             root == Authority(w, d.id)
             deps == Dependencies(docs, d, docs)
             model == ModelDependencies(docs, d)
           review == ReviewDependencies(docs, d)
             log == LogIn(w, 1, d.id)
  <2>1. PlainFiles(docs) /\ i \in DOMAIN docs
    BY <1>3, NamedIsPlain DEF Reviewed, Selectable
  <2>2. /\ j.doc = d /\ j.deps = deps /\ j.log = log /\ LogIn(w, root, d.id) = log
        /\ Load(docs, d.id) = [outcome |-> "loaded", doc |-> d, deps |-> model]
        /\ Load(w.docs[root], d.id) = Load(docs, d.id)
        /\ WithId(docs, d.id) = {i} /\ d.kind = "work-item" /\ d.id # Absent
    BY <1>3, <2>1, PlainIsJudged
  <2>3. d.id \in report.candidates <=> GatesOpen(d, review, log)
    BY <1>3, <2>1, PlainIsReviewed
  <2>4. Candidate(j) <=> GatesOpen(d, deps, log) /\ j.claim \notin {"active", "expired"} /\ d.titled
    <3> HIDE DEF j, d, deps, log
    <3> QED BY <2>2, OfferedByGates
  <2>5. (\A l \in Depends(d.links) : l.around # "code") /\ GatesOpen(d, deps, log) => GatesOpen(d, review, log)
    <3> SUFFICES ASSUME \A l \in Depends(d.links) : l.around # "code", GatesOpen(d, deps, log)
                 PROVE  GatesOpen(d, review, log)
      OBVIOUS
    <3>1. d.status = "ready" /\ d.lifecycle = "active" /\ DependencyReasons(deps) = {}
      BY DEF GatesOpen
    <3>2. ~DependencyState(d).satisfied
      <4> HIDE DEF d
      <4> QED BY <3>1 DEF DependencyState
    <3>3. Met(deps)
      <4> HIDE DEF deps
      <4> QED BY <3>1, NoReason
    <3>4. Singular(docs, i) /\ OwnNames(docs, d.id)
      BY <2>1, PlainIsOwn
    <3>5. \A k \in Tasks(docs) : docs[k].place = "archive" => docs[k].id = docs[i].id
      BY <2>1 DEF Tasks, Selectable, PlainFiles
    <3>6. \A r \in Refs(d.links) : \E k : MetItem(docs, k, r)
      BY <3>2, <3>3, <3>4, <3>5, MetByItems
    <3>7. Met(review)
      <4>1. \A l \in Depends(d.links) : l.ref \in Refs(d.links)
        BY DEF Refs
      <4> QED BY <2>1, <3>6, <4>1, MetByReview
    <3>8. DependencyReasons(review) = {}
      <4> HIDE DEF review
      <4> QED BY <3>7, NoReason
    <3> HIDE DEF d, review, deps, log
    <3> QED BY <3>8 DEF GatesOpen
  <2>6. (\A r \in Refs(d.links) : r[1] \notin {"", "wi-slug"}) /\ GatesOpen(d, review, log) => GatesOpen(d, deps, log)
    <3> SUFFICES ASSUME \A r \in Refs(d.links) : ~ByNumber(r), GatesOpen(d, review, log)
                 PROVE  GatesOpen(d, deps, log)
      BY DEF ByNumber
    <3>1. Met(review)
      <4> HIDE DEF review
      <4> QED BY NoReason DEF GatesOpen
    <3>2. Met(deps)
      BY <2>1, <3>1, MetInFiles
    <3>3. DependencyReasons(deps) = {}
      <4> HIDE DEF deps
      <4> QED BY <3>2, NoReason
    <3> HIDE DEF d, review, deps, log
    <3> QED BY <3>3 DEF GatesOpen
  <2>8. AllSeen(d) /\ GatesOpen(d, review, log) => GatesOpen(d, model, log)
    <3> SUFFICES ASSUME AllSeen(d), GatesOpen(d, review, log) PROVE GatesOpen(d, model, log)
      OBVIOUS
    <3>1. Met(review)
      <4> HIDE DEF review
      <4> QED BY NoReason DEF GatesOpen
    <3>2. Met(model)
      BY <2>1, <3>1, MetInReview
    <3>3. DependencyReasons(model) = {}
      <4> HIDE DEF model
      <4> QED BY <3>2, NoReason
    <3> HIDE DEF d, review, model, log
    <3> QED BY <3>3 DEF GatesOpen
  <2>7. GatesOpen(d, model, log) => Claimable(w, d.id)
    <3> SUFFICES ASSUME GatesOpen(d, model, log) PROVE Claimable(w, d.id)
      OBVIOUS
    <3> DEFINE task == Load(w.docs[root], d.id)
    <3>1. Load(w.docs[1], d.id) = task /\ task.outcome = "loaded" /\ task.doc = d /\ task.deps = model
      BY <2>2
    <3>2. ClaimabilityFailures(TaskView(d, model, log)) = {}
      <4> HIDE DEF d, model, log
      <4> QED BY NothingFails DEF GatesOpen
    <3> HIDE DEF task, d, model, log, root
    <3>3. LogIn(w, root, task.doc.id) = log
      BY <2>2, <3>1
    <3>4. ClaimabilityFailures(TaskView(task.doc, task.deps, LogIn(w, root, task.doc.id))) = {}
      BY <3>1, <3>2, <3>3
    <3> QED BY <3>1, <3>4 DEF Claimable, task, root
  <2> HIDE DEF j, d, deps, model, review, log, report, docs
  <2> QED BY <2>3, <2>4, <2>5, <2>6, <2>7, <2>8 DEF d, j
<1> HIDE DEF report
<1>4. ASSUME NEW i \in Reviewed(docs), NEW d \in {docs[i]}, NEW j \in {Judged(w, d)}
      PROVE  /\ j.doc.kind = "work-item" /\ j.doc.titled /\ j.doc.id # Absent =>
                  (Candidate(j) <=> Findings(j.doc, j.deps, j.log, j.claim) = {})
             /\ PlainWorld(w) =>
                  /\ d.id \in report.candidates /\ AllSeen(d) => Claimable(w, d.id)
                  /\ Candidate(j) /\ (\A l \in Depends(d.links) : l.around # "code")
                       => d.id \in report.candidates
                  /\ d.id \in report.candidates /\ j.claim = "none" /\ d.titled
                       /\ (\A r \in Refs(d.links) : r[1] \notin {"", "wi-slug"}) => Candidate(j)
  <2>1. d = docs[i] /\ j = Judged(w, d)
    OBVIOUS
  <2>2. j.doc.kind = "work-item" /\ j.doc.titled => (Candidate(j) <=> Findings(j.doc, j.deps, j.log, j.claim) = {})
    BY <1>2
  <2>3. PlainWorld(w) =>
          /\ d.id \in report.candidates /\ AllSeen(d) => Claimable(w, d.id)
          /\ Candidate(j) /\ (\A l \in Depends(d.links) : l.around # "code")
               => d.id \in report.candidates
          /\ d.id \in report.candidates /\ j.claim = "none" /\ d.titled
               /\ (\A r \in Refs(d.links) : r[1] \notin {"", "wi-slug"}) => Candidate(j)
    BY <1>3, <2>1
  <2> QED BY <2>2, <2>3
<1>5. Explained(w, report)
  <2> HIDE DEF docs
  <2>1. \A id \in report.candidates : \/ id \in report.excluded
                                      \/ \A f \in report.findings[id] : ~Blocking(f) /\ f.code # "execution_not_ready"
    BY <1>1
  <2> QED BY <1>4, <2>1 DEF Explained, docs
<1> QED BY <1>5 DEF report

-----------------------------------------------------------------------------
(* An item of the questions about readiness.                               *)
Fields == {"kind", "id", "file", "place", "status", "lifecycle", "tags", "titled", "links", "rels", "subjects"}
AskedFile(d) == d = [f \in DOMAIN d |-> d[f]] /\ DOMAIN d = Fields /\ d.subjects = <<>>

(* Such a record is a file.                                                *)
LEMMA AskedIsFile ==
  ASSUME NEW d, AskedFile(d), IsList(d.links), IsList(d.rels), d.kind \in {"work-item", "malformed"},
         d.place # "records", NEW x, d.file = <<"file", x>>, NEW y, d.id \in {<<"wi-", y>>, Absent},
         d.kind = "malformed" => d.id = Absent, Around(d.links)
  PROVE  FileOf(d)
<1>1. WellWritten(d)
  <2>1. IsList(<<>>)
    BY DEF IsList
  <2> QED BY <2>1 DEF WellWritten, AskedFile
<1>2. WellIdentified(d)
  BY DEF WellIdentified, Created
<1>3. d.file = <<"file", d.file[2]>>
  OBVIOUS
<1>4. d.id = Absent \/ d.id = <<"wi-", d.id[2]>>
  BY FormsOfId
<1>5. \A z : Absent # <<"wi-", z>>
  BY FormsOfId
<1> QED BY <1>1, <1>2, <1>3, <1>4, <1>5 DEF FileOf, AskedFile, Fields

(* The items that the questions are made of.                               *)
LEMMA ItemAsked ==
  ASSUME NEW n, NEW place, NEW status, NEW lifecycle
  PROVE  LET d == Item(n, place, status, lifecycle) IN
         /\ AskedFile(d) /\ d.kind = "work-item" /\ d.id = <<"wi-", n>> /\ d.file = <<"file", n>>
         /\ d.place = place /\ d.status = status /\ d.lifecycle = lifecycle /\ d.tags = {"afk"} /\ d.titled
         /\ d.links = <<>> /\ d.rels = <<>>
<1> DEFINE i == <<"wi-", n>>  f == <<"file", n>>  none == <<>>
<1>1. Item(n, place, status, lifecycle) =
        [kind |-> "work-item", id |-> i, file |-> f, place |-> place,
         status |-> status, lifecycle |-> lifecycle, tags |-> {"afk"}, titled |-> TRUE,
         links |-> none, rels |-> none, subjects |-> none]
  BY DEF Item
<1> HIDE DEF i, f, none
<1> DEFINE d == Item(n, place, status, lifecycle)
<1>2. /\ d.kind = "work-item" /\ d.id = i /\ d.file = f /\ d.subjects = none
      /\ d.place = place /\ d.status = status /\ d.lifecycle = lifecycle /\ d.tags = {"afk"} /\ d.titled
      /\ d.links = none /\ d.rels = none
  BY <1>1
<1>3. DOMAIN d = Fields
  BY <1>1 DEF Fields
<1>4. d = [g \in DOMAIN d |-> d[g]]
  BY <1>1
<1> HIDE DEF d
<1> QED BY <1>2, <1>3, <1>4 DEF AskedFile, i, f, none, d

(* A list of two, and perhaps of a third.                                  *)
MadeOf(docs, a, b, third, c) == docs = <<a, b>> \o third /\ third \in {<<>>, <<c>>}

(* Its elements.                                                           *)
LEMMA TwoAndMore ==
  ASSUME NEW a, NEW b, NEW third, NEW c, NEW docs, MadeOf(docs, a, b, third, c)
  PROVE  /\ DOMAIN docs = 1..2 \/ (third = <<c>> /\ DOMAIN docs = 1..3)
         /\ docs[1] = a /\ docs[2] = b /\ (third = <<c>> => docs[3] = c)
<1>0. docs = <<a, b>> \o third /\ third \in {<<>>, <<c>>}
  BY DEF MadeOf
<1> DEFINE S == {a, b, c}
<1>1. <<a, b>> \in Seq(S) /\ <<c>> \in Seq(S) /\ <<>> \in Seq(S)
  OBVIOUS
<1>2. Len(<<a, b>>) = 2 /\ Len(<<c>>) = 1 /\ Len(<<>>) = 0
  OBVIOUS
<1>3. third \in Seq(S) /\ Len(third) \in {0, 1} /\ (Len(third) = 1 => third = <<c>>)
      /\ (third = <<c>> => Len(third) = 1 /\ third[1] = c)
  <2>1. CASE third = <<>>
    <3>1. <<>> # <<c>>
      BY <1>2
    <3> QED BY <1>1, <1>2, <2>1, <3>1
  <2>2. CASE third = <<c>>
    <3>1. <<c>>[1] = c
      OBVIOUS
    <3> QED BY <1>1, <1>2, <2>2, <3>1
  <2> QED BY <1>0, <2>1, <2>2
<1> DEFINE two == <<a, b>>
<1>4. two \in Seq(S) /\ Len(two) = 2 /\ two[1] = a /\ two[2] = b
  BY <1>1, <1>2
<1>5. docs = two \o third
  BY <1>0
<1> HIDE DEF two, S
<1>6. /\ docs \in Seq(S) /\ Len(docs) = 2 + Len(third)
      /\ \A k \in 1..2 + Len(third) : docs[k] = IF k <= 2 THEN two[k] ELSE third[k - 2]
  <2>1. /\ two \o third \in Seq(S) /\ Len(two \o third) = Len(two) + Len(third)
        /\ \A k \in 1..Len(two) + Len(third) :
             (two \o third)[k] = IF k <= Len(two) THEN two[k] ELSE third[k - Len(two)]
    BY <1>3, <1>4, ConcatProperties
  <2> QED BY <1>4, <1>5, <2>1
<1>7. DOMAIN docs = 1..Len(docs)
  BY <1>6
<1>8. docs[1] = a /\ docs[2] = b
  BY <1>3, <1>4, <1>6
<1>9. third = <<c>> => docs[3] = c
  BY <1>3, <1>6
<1>10. DOMAIN docs = 1..2 \/ (third = <<c>> /\ DOMAIN docs = 1..3)
  BY <1>3, <1>6, <1>7
<1> QED BY <1>8, <1>9, <1>10

(* A backlog of up to three, of which the third may be a twin of the task. *)
LEMMA SmallBacklog ==
  ASSUME NEW docs, DOMAIN docs \subseteq {1, 2, 3}, NEW task, task[2] = "1",
         1 \in DOMAIN docs => docs[1].id \in {task, Absent} /\ docs[1].file[2] = "1",
         2 \in DOMAIN docs => docs[2].id[2] = "2" /\ docs[2].file[2] = "2",
         3 \in DOMAIN docs => \/ docs[3].kind # "work-item"
                              \/ docs[3].file[2] = "3" /\ (docs[3].id = task \/ docs[3].id[2] = "3")
  PROVE  OwnNames(docs, task)
<1> SUFFICES ASSUME NEW i \in Tasks(docs), docs[i].id \notin {task, Absent}
             PROVE  /\ docs[i].file[2] = docs[i].id[2]
                    /\ \A j \in Tasks(docs) : HasNumber(docs[j], docs[i].id[2]) => j = i
  BY DEF OwnNames
<1>1. \A k \in Tasks(docs) : k \in DOMAIN docs /\ docs[k].kind = "work-item" /\ k \in {1, 2, 3}
  BY DEF Tasks, Selectable
<1>2. i \in {2, 3} /\ docs[i].file[2] = docs[i].id[2] /\ (i = 2 => docs[i].id[2] = "2")
      /\ (i = 3 => docs[i].id[2] = "3")
  BY <1>1
<1>3. ASSUME NEW j \in Tasks(docs), HasNumber(docs[j], docs[i].id[2]) PROVE j = i
  <2>1. j = 1 => docs[j].file[2] = "1" /\ (docs[j].id # Absent => docs[j].id[2] = "1")
    BY <1>1
  <2>2. j = 2 => docs[j].file[2] = "2" /\ docs[j].id[2] = "2"
    BY <1>1
  <2>3. j = 3 => docs[j].file[2] = "3" /\ docs[j].id[2] \in {"1", "3"}
    BY <1>1
  <2> QED BY <1>1, <1>2, <1>3, <2>1, <2>2, <2>3 DEF HasNumber
<1> QED BY <1>2, <1>3

(* References that questions are made of, and lists of them, are of pairs. *)
OfPairs(pairs) == \A r \in Refs(pairs) : r = <<r[1], r[2]>>

(* Nothing refers to nothing.                                              *)
LEMMA NoPairs == OfPairs(<<>>) /\ Around(<<>>) /\ IsList(<<>>)
<1>1. ToSet(<<>>) = {}
  BY DEF ToSet
<1>2. Depends(<<>>) = {}
  BY <1>1 DEF Depends
<1>3. DOMAIN <<>> = 1..0 /\ 0 \in Nat
  OBVIOUS
<1> QED BY <1>2, <1>3 DEF OfPairs, Around, Refs, IsList

(* A link that questions are made of.                                      *)
LinkOfPair(l) == l.ref = <<l.ref[1], l.ref[2]>> /\ Marked(l)

(* A dependency on a pair is such a link.                                  *)
LEMMA DependencyOnPair ==
  ASSUME NEW x, NEW y, NEW a \in {"", "tail", "code"}
  PROVE  LinkOfPair(Dependency(<<x, y>>, a))
<1> DEFINE r == <<x, y>>
<1>1. r = <<r[1], r[2]>>
  OBVIOUS
<1> HIDE DEF r
<1>2. Dependency(r, a).ref = r /\ Dependency(r, a).around = a
  BY DEF Dependency
<1> QED BY <1>1, <1>2 DEF LinkOfPair, Marked, r

(* The links that a question may give.                                     *)
LEMMA ReferencesArePairs == \A l \in References : LinkOfPair(l)
<1> DEFINE a == <<"wi-", "2">>  b == <<"", "2">>  c == <<"file", "2">>  d == <<"wi-", "9">>
           e == <<"wi-slug", "2">>
<1>1. \A q \in {"", "tail", "code"} :
        /\ LinkOfPair(Dependency(a, q)) /\ LinkOfPair(Dependency(b, q)) /\ LinkOfPair(Dependency(c, q))
        /\ LinkOfPair(Dependency(d, q)) /\ LinkOfPair(Dependency(e, q))
  BY DependencyOnPair
<1>2. /\ NamedPlainly = {Dependency(r, "") : r \in {a, b, c, d}}
      /\ Unadorned({e}) = {Dependency(r, "") : r \in {e}}
      /\ References = NamedPlainly \cup Unadorned({e}) \cup {Dependency(r, "tail") : r \in {a, b, c}}
                       \cup {Dependency(a, "code")}
  BY DEF References, NamedPlainly, Unadorned
<1> HIDE DEF a, b, c, d, e
<1> QED BY <1>1, <1>2

(* A list of those refers to pairs, in the ways that are written.          *)
LEMMA LinksArePlain ==
  ASSUME NEW links, \A i \in DOMAIN links : LinkOfPair(links[i])
  PROVE  OfPairs(links) /\ Around(links)
<1>1. ToSet(links) = {links[i] : i \in DOMAIN links}
  BY DEF ToSet
<1>2. \A l \in Depends(links) : LinkOfPair(l)
  BY <1>1 DEF Depends
<1> QED BY <1>2 DEF OfPairs, Around, Refs, LinkOfPair

(* The lists of links that a question may give.                            *)
LEMMA ListsOfLinks ==
  ASSUME NEW refs \in DependencyLists \cup SeqOf(NamedPlainly, 1)
  PROVE  IsList(refs) /\ OfPairs(refs) /\ Around(refs)
<1>1. NamedPlainly \subseteq References
  BY DEF References
<1>2. ASSUME NEW n \in Nat, NEW S \in SUBSET References, refs \in SeqOf(S, n)
      PROVE  IsList(refs) /\ \A i \in DOMAIN refs : refs[i] \in References
  <2>1. PICK m \in 0..n : refs \in [1..m -> S]
    BY <1>2 DEF SeqOf
  <2> QED BY <2>1 DEF IsList
<1>3. ASSUME NEW r \in References, refs = <<r, Dependency(<<"wi-", "2">>, "")>>
      PROVE  IsList(refs) /\ \A i \in DOMAIN refs : LinkOfPair(refs[i])
  <2> DEFINE s == Dependency(<<"wi-", "2">>, "")
  <2>1. LinkOfPair(r) /\ LinkOfPair(s)
    BY ReferencesArePairs, DependencyOnPair
  <2>2. refs = <<r, s>>
    BY <1>3
  <2> HIDE DEF s
  <2>3. DOMAIN refs = 1..2 /\ refs[1] = r /\ refs[2] = s
    BY <2>2
  <2> QED BY <2>1, <2>3 DEF IsList
<1>4. \/ refs \in SeqOf(NamedPlainly, MaxDepends) \/ refs \in SeqOf(References, 1)
      \/ refs \in SeqOf(NamedPlainly, 1)
      \/ \E r \in References : refs = <<r, Dependency(<<"wi-", "2">>, "")>>
  BY DEF DependencyLists
<1>5. IsList(refs) /\ \A i \in DOMAIN refs : LinkOfPair(refs[i])
  BY <1>1, <1>2, <1>3, <1>4, ReferencesArePairs, DependsAssumption
<1> QED BY <1>5, LinksArePlain

(* A file whose id, if any, has its number.                                *)
NamedFile(d) == d.id # Absent => d.kind = "work-item" /\ OfPairs(d.links) /\ d.file[2] = d.id[2]

(* A backlog of those, and of twins.                                       *)
LEMMA NamedOrTwins ==
  ASSUME NEW docs,
         \A i \in DOMAIN docs : \/ NamedFile(docs[i])
                                \/ /\ docs[i].kind = "work-item" /\ OfPairs(docs[i].links)
                                   /\ \E j \in DOMAIN docs : j # i /\ docs[j].id = docs[i].id
  PROVE  NamedFiles(docs)
BY DEF NamedFile, NamedFiles, OfPairs

(* What is read of a world of a question.                                  *)
WorldAsked(w, docs) == w.task = <<"wi-", "1">> /\ w.docs[1] = docs /\ Roots(w)

(* Such a world is one of files that are read, and of their checkouts.     *)
LEMMA AskedIsWorld ==
  ASSUME NEW w, NEW docs, WorldAsked(w, docs), IsList(docs), \A i \in DOMAIN docs : FileOf(docs[i]),
         OwnNames(docs, w.task)
  PROVE  WorldOf(w)
<1>1. FilesOf(docs)
  BY InList DEF FilesOf
<1>2. w.task = <<"wi-", w.task[2]>> /\ w.task # Absent
  BY FormsOfId DEF WorldAsked
<1> QED BY <1>1, <1>2 DEF WorldAsked, WorldOf

(* Worlds of which the files are known.                                    *)
LEMMA WorldIsAsked ==
  ASSUME NEW docs
  PROVE  WorldAsked(World(docs), docs)
<1> DEFINE task == <<"wi-", "1">>  branch == <<"run", "main">>  none == <<>>
           logs == <<NoLog, NoLog>>  claims == <<"none", "none">>
           w == [task |-> task, docs |-> <<docs, docs>>, log |-> logs,
                 claim |-> claims, branch |-> branch, trees |-> none]
<1>1. World(docs) = w
  BY DEF World
<1>2. DOMAIN none = {}
  OBVIOUS
<1> HIDE DEF task, branch, none, logs, claims
<1>3. w.task = task /\ w.docs[1] = docs /\ w.trees = none
  OBVIOUS
<1> HIDE DEF w
<1>4. Roots(w)
  BY <1>2, <1>3 DEF Roots
<1> QED BY <1>1, <1>3, <1>4 DEF WorldAsked, task

(* The same, with a log and a claim.                                       *)
LEMMA GatedIsAsked ==
  ASSUME NEW task, NEW log, NEW claim
  PROVE  WorldAsked(Gated(task, log, claim), <<task>>)
<1> DEFINE docs == <<task>>
           own == <<"wi-", "1">>  branch == <<"run", "main">>  none == <<>>
           nologs == <<NoLog, NoLog>>  noclaims == <<"none", "none">>
           logs == <<log, log>>  claims == <<claim, claim>>
           w == [task |-> own, docs |-> <<docs, docs>>, log |-> nologs,
                 claim |-> noclaims, branch |-> branch, trees |-> none]
           v == [w EXCEPT !.log = logs, !.claim = claims]
<1>1. Gated(task, log, claim) = v
  BY DEF Gated, World
<1>2. DOMAIN none = {}
  OBVIOUS
<1> HIDE DEF docs, own, branch, none, nologs, noclaims, logs, claims
<1>3. v.task = own /\ v.docs[1] = docs /\ v.trees = none
  OBVIOUS
<1> HIDE DEF v
<1>4. Roots(v)
  BY <1>2, <1>3 DEF Roots
<1> QED BY <1>1, <1>3, <1>4 DEF WorldAsked, docs, own

(* The files of a question about dependencies.                             *)
LEMMA DependenciesAsked ==
  ASSUME NEW refs \in DependencyLists, NEW rels \in SeqOf(NamedPlainly, 1),
         NEW second \in Seconds2, NEW third \in Thirds
  PROVE  LET docs == <<[Task EXCEPT !.links = refs, !.rels = rels], second>> \o third IN
         /\ IsList(docs) /\ \A i \in DOMAIN docs : FileOf(docs[i])
         /\ OwnNames(docs, <<"wi-", "1">>) /\ NamedFiles(docs)
<1> DEFINE task == <<"wi-", "1">>
           first == [Task EXCEPT !.links = refs, !.rels = rels]
           docs == <<first, second>> \o third
<1>1. IsList(refs) /\ IsList(rels) /\ OfPairs(refs) /\ Around(refs)
  BY ListsOfLinks
<1>2. /\ AskedFile(Task) /\ Task.kind = "work-item" /\ Task.id = task /\ Task.file = <<"file", "1">>
      /\ Task.place = "active" /\ Task.links = <<>> /\ Task.rels = <<>>
  BY ItemAsked DEF Task
<1>3. IsList(<<>>) /\ Around(<<>>)
  BY NoPairs
<1>4. FileOf(first) /\ first.id = task /\ first.file[2] = "1" /\ NamedFile(first)
  <2>1. /\ AskedFile(first) /\ first.kind = "work-item" /\ first.id = task /\ first.file = <<"file", "1">>
        /\ first.place = "active" /\ first.links = refs /\ first.rels = rels
    <3> HIDE DEF task
    <3> DEFINE f == <<"file", "1">>
    <3>1. Task.file = f
      BY <1>2
    <3> HIDE DEF f
    <3>2. [Task EXCEPT !.links = refs, !.rels = rels].file = f
      BY <1>2, <3>1 DEF AskedFile, Fields
    <3> QED BY <1>2, <3>2 DEF AskedFile, Fields, f
  <2>2. first.id \in {<<"wi-", "1">>, Absent} /\ first.place # "records"
    BY <2>1
  <2> HIDE DEF first, task
  <2>3. FileOf(first)
    BY <1>1, <2>1, <2>2, AskedIsFile
  <2>4. OfPairs(first.links)
    BY <1>1, <2>1
  <2>5. task[2] = "1" /\ first.file[2] = "1"
    BY <2>1 DEF task
  <2> QED BY <2>1, <2>3, <2>4, <2>5 DEF NamedFile
<1>5. FileOf(second) /\ second.id[2] = "2" /\ second.file[2] = "2" /\ NamedFile(second)
  <2>1. PICK place \in {"active", "archive", "audit"} : \E s, l : second = Item("2", place, s, l)
    <3> DEFINE A == {Item("2", "active", s, "active") : s \in States2}
               B == Item("2", "active", "ready", "inactive")
               C == {Item("2", "archive", s, l) : s \in {"completed", "aborted"}, l \in {"active", "archived"}}
               D == Item("2", "audit", "completed", "active")
    <3>5. second \in A \cup {B} \cup C \cup {D}
      BY DEF Seconds2
    <3>6. second \in A \/ second = B \/ second \in C \/ second = D
      <4> HIDE DEF A, B, C, D
      <4> QED BY <3>5
    <3>1. CASE second \in A
      BY <3>1
    <3>2. CASE second = B
      BY <3>2
    <3>3. CASE second \in C
      <4>1. PICK s \in {"completed", "aborted"}, l \in {"active", "archived"} : second = Item("2", "archive", s, l)
        BY <3>3
      <4> QED BY <4>1
    <3>4. CASE second = D
      BY <3>4
    <3> HIDE DEF A, B, C, D
    <3> QED BY <3>1, <3>2, <3>3, <3>4, <3>6
  <2>2. /\ AskedFile(second) /\ second.kind = "work-item" /\ second.id = <<"wi-", "2">>
        /\ second.file = <<"file", "2">> /\ second.place = place
        /\ second.links = <<>> /\ second.rels = <<>>
    <3>1. PICK s, l : second = Item("2", place, s, l)
      BY <2>1
    <3> QED BY <3>1, ItemAsked
  <2>5. IsList(second.links) /\ IsList(second.rels) /\ Around(second.links)
    BY <1>3, <2>2
  <2>3. second.id \in {<<"wi-", "2">>, Absent} /\ second.place # "records"
    BY <2>1, <2>2
  <2>6. AskedFile(second) /\ second.kind = "work-item" /\ second.file = <<"file", "2">>
    BY <2>2
  <2>4. FileOf(second)
    BY <2>3, <2>5, <2>6, AskedIsFile
  <2>7. NamedFile(second)
    BY <2>2, NoPairs DEF NamedFile
  <2> QED BY <2>2, <2>4, <2>7
<1>6. \E c : /\ third \in {<<>>, <<c>>} /\ FileOf(c)
             /\ c.kind # "work-item" \/ (c.file[2] = "3" /\ (c.id = task \/ c.id[2] = "3"))
             /\ NamedFile(c) \/ (c.kind = "work-item" /\ OfPairs(c.links) /\ c.id = task)
  <2>1. CASE third = <<>>
    <3>1. third \in {<<>>, <<first>>}
      BY <2>1
    <3> DEFINE c == Item("3", "active", "ready", "active")
    <3>2. /\ AskedFile(c) /\ c.kind = "work-item" /\ c.id = <<"wi-", "3">> /\ c.file = <<"file", "3">>
          /\ c.place = "active" /\ c.links = <<>> /\ c.rels = <<>>
      BY ItemAsked
    <3> HIDE DEF c
    <3>3. c.id \in {<<"wi-", "3">>, Absent} /\ c.place # "records" /\ IsList(c.links) /\ IsList(c.rels) /\ Around(c.links)
      BY <1>3, <3>2
    <3>6. AskedFile(c) /\ c.kind = "work-item" /\ c.file = <<"file", "3">>
      BY <3>2
    <3>4. FileOf(c)
      BY <3>3, <3>6, AskedIsFile
    <3>5. third \in {<<>>, <<c>>}
      BY <2>1
    <3>7. NamedFile(c)
      BY <3>2, NoPairs DEF NamedFile
    <3> QED BY <3>2, <3>4, <3>5, <3>7
  <2>2. CASE third = <<Item("3", "active", "ready", "active")>>
    <3> DEFINE c == Item("3", "active", "ready", "active")
    <3>1. third = <<c>>
      BY <2>2
    <3>2. /\ AskedFile(c) /\ c.kind = "work-item" /\ c.id = <<"wi-", "3">> /\ c.file = <<"file", "3">>
          /\ c.place = "active" /\ c.links = <<>> /\ c.rels = <<>>
      BY ItemAsked
    <3> HIDE DEF c
    <3>3. c.id \in {<<"wi-", "3">>, Absent} /\ c.place # "records" /\ IsList(c.links) /\ IsList(c.rels) /\ Around(c.links)
      BY <1>3, <3>2
    <3>6. AskedFile(c) /\ c.kind = "work-item" /\ c.file = <<"file", "3">>
      BY <3>2
    <3>4. FileOf(c)
      BY <3>3, <3>6, AskedIsFile
    <3>7. NamedFile(c)
      BY <3>2, NoPairs DEF NamedFile
    <3> QED BY <3>1, <3>2, <3>4, <3>7
  <2>3. CASE third = <<[Task EXCEPT !.kind = "malformed", !.id = Absent, !.status = ""]>>
    <3> DEFINE e == ""
               c == [Task EXCEPT !.kind = "malformed", !.id = Absent, !.status = e]
    <3>1. third = <<c>>
      BY <2>3
    <3> HIDE DEF e
    <3>2. /\ AskedFile(c) /\ c.kind = "malformed" /\ c.id = Absent /\ c.file = Task.file
          /\ c.place = "active" /\ c.links = Task.links /\ c.rels = Task.rels
      BY <1>2 DEF AskedFile, Fields
    <3> HIDE DEF c
    <3>3. c.id \in {<<"wi-", "3">>, Absent} /\ c.place # "records" /\ c.file = <<"file", "1">>
          /\ IsList(c.links) /\ IsList(c.rels) /\ Around(c.links)
      BY <1>2, <1>3, <3>2
    <3>4. FileOf(c)
      BY <3>2, <3>3, AskedIsFile
    <3>5. NamedFile(c)
      BY <3>2 DEF NamedFile
    <3> QED BY <3>1, <3>2, <3>4, <3>5
  <2>4. CASE \E s \in {"ready", "completed"}, p \in {"active", "archive"} :
               third = <<[Task EXCEPT !.file = <<"file", "3">>, !.status = s, !.place = p]>>
    <3>1. PICK s \in {"ready", "completed"}, p \in {"active", "archive"} :
               third = <<[Task EXCEPT !.file = <<"file", "3">>, !.status = s, !.place = p]>>
      BY <2>4
    <3> DEFINE f == <<"file", "3">>
               c == [Task EXCEPT !.file = f, !.status = s, !.place = p]
    <3>2. third = <<c>>
      BY <3>1
    <3> HIDE DEF f, task
    <3>3. /\ AskedFile(c) /\ c.kind = "work-item" /\ c.id = task /\ c.file = f
          /\ c.place = p /\ c.links = Task.links /\ c.rels = Task.rels
      BY <1>2 DEF AskedFile, Fields
    <3> HIDE DEF c
    <3>4. c.id \in {<<"wi-", "1">>, Absent} /\ c.place # "records" /\ c.file = <<"file", "3">>
          /\ IsList(c.links) /\ IsList(c.rels) /\ Around(c.links)
      BY <1>2, <1>3, <3>3 DEF f, task
    <3>5. FileOf(c)
      BY <3>3, <3>4, AskedIsFile
    <3>6. c.file[2] = "3" /\ OfPairs(c.links)
      BY <1>2, <3>3, <3>4, NoPairs
    <3> QED BY <3>2, <3>3, <3>5, <3>6
  <2> HIDE DEF task, docs, first
  <2> QED BY <2>1, <2>2, <2>3, <2>4 DEF Thirds
<1>7. PICK c : /\ third \in {<<>>, <<c>>} /\ FileOf(c)
               /\ c.kind # "work-item" \/ (c.file[2] = "3" /\ (c.id = task \/ c.id[2] = "3"))
               /\ NamedFile(c) \/ (c.kind = "work-item" /\ OfPairs(c.links) /\ c.id = task)
  BY <1>6
<1> HIDE DEF first
<1>8. /\ DOMAIN docs = 1..2 \/ (third = <<c>> /\ DOMAIN docs = 1..3)
      /\ docs[1] = first /\ docs[2] = second /\ (third = <<c>> => docs[3] = c)
  <2>1. third \in {<<>>, <<c>>}
    BY <1>7
  <2>2. MadeOf(docs, first, second, third, c)
    BY <2>1 DEF MadeOf
  <2> HIDE DEF docs
  <2> QED BY <2>2, TwoAndMore
<1> HIDE DEF docs
<1>9. IsList(docs) /\ DOMAIN docs \subseteq {1, 2, 3} /\ (3 \in DOMAIN docs => docs[3] = c)
  <2>1. CASE DOMAIN docs = 1..2
    BY <2>1 DEF IsList
  <2>2. CASE third = <<c>> /\ DOMAIN docs = 1..3
    BY <1>8, <2>2 DEF IsList
  <2> QED BY <1>8, <2>1, <2>2
<1>10. \A i \in DOMAIN docs : FileOf(docs[i])
  BY <1>4, <1>5, <1>7, <1>8, <1>9
<1>11. task[2] = "1"
  OBVIOUS
<1> HIDE DEF task
<1>12. OwnNames(docs, task)
  BY <1>4, <1>5, <1>7, <1>8, <1>9, <1>11, SmallBacklog
<1>13. NamedFiles(docs)
  <2>1. /\ 1 \in DOMAIN docs /\ \A i \in DOMAIN docs : i \in {1, 2, 3} /\ (i = 3 => 1 # i)
        /\ docs[1].id = task
    BY <1>4, <1>8
  <2>2. ASSUME NEW i \in DOMAIN docs
        PROVE  \/ NamedFile(docs[i])
               \/ /\ docs[i].kind = "work-item" /\ OfPairs(docs[i].links)
                  /\ \E j \in DOMAIN docs : j # i /\ docs[j].id = docs[i].id
    <3>1. i = 1 \/ i = 2 => NamedFile(docs[i])
      BY <1>4, <1>5, <1>8
    <3>2. i = 3 => docs[i] = c
      BY <1>9
    <3> QED BY <1>7, <2>1, <3>1, <3>2
  <2> QED BY <2>2, NamedOrTwins
<1> QED BY <1>9, <1>10, <1>12, <1>13 DEF docs, task, first

(* The files of a question about the gates.                                *)
LEMMA GatesFiles ==
  ASSUME NEW id \in GatedIds, NEW s, NEW l, NEW tags, NEW titled
  PROVE  LET docs == <<GatedTask(id, s, l, tags, titled)>> IN
         /\ IsList(docs) /\ \A i \in DOMAIN docs : FileOf(docs[i])
         /\ OwnNames(docs, <<"wi-", "1">>) /\ NamedFiles(docs)
<1> DEFINE own == <<"wi-", "1">>
           task == GatedTask(id, s, l, tags, titled)
           docs == <<task>>
<1>1. task = [Task EXCEPT !.id = id, !.status = s, !.lifecycle = l, !.tags = tags, !.titled = titled]
  BY DEF GatedTask
<1>2. /\ AskedFile(Task) /\ Task.kind = "work-item" /\ Task.file = <<"file", "1">>
      /\ Task.place = "active" /\ Task.links = <<>> /\ Task.rels = <<>>
  BY ItemAsked DEF Task
<1>3. IsList(Task.links) /\ IsList(Task.rels) /\ Around(Task.links)
  BY <1>2, NoPairs
<1>4. id \in {own, Absent}
  BY DEF GatedIds
<1> HIDE DEF own, task
<1>5. AskedFile(Task) /\ Task.kind = "work-item" /\ Task.place = "active"
  BY <1>2
<1>6. /\ AskedFile(task) /\ task.kind = "work-item" /\ task.id = id /\ task.file = Task.file
      /\ task.place = "active" /\ task.links = Task.links /\ task.rels = Task.rels
  BY <1>1, <1>5 DEF AskedFile, Fields
<1>7. task.id \in {<<"wi-", "1">>, Absent} /\ task.file = <<"file", "1">>
  BY <1>2, <1>4, <1>6 DEF own
<1>8. FileOf(task)
  <2>1. /\ AskedFile(task) /\ IsList(task.links) /\ IsList(task.rels) /\ task.kind = "work-item"
        /\ task.place # "records" /\ Around(task.links)
    BY <1>3, <1>6
  <2> QED BY <1>7, <2>1, AskedIsFile
<1>9. DOMAIN docs = {1} /\ docs[1] = task
  BY ListOfOne
<1> HIDE DEF docs
<1>10. IsList(docs)
  <2>1. DOMAIN docs = 1..1
    BY <1>9
  <2> QED BY <2>1 DEF IsList
<1>11. docs[1].file[2] = "1" /\ docs[1].id \in {own, Absent} /\ own[2] = "1"
  BY <1>4, <1>6, <1>7, <1>9 DEF own
<1>12. OwnNames(docs, own)
  <2>1. DOMAIN docs \subseteq {1, 2, 3} /\ 2 \notin DOMAIN docs /\ 3 \notin DOMAIN docs
    BY <1>9
  <2> QED BY <1>11, <2>1, SmallBacklog
<1>13. \A i \in DOMAIN docs : FileOf(docs[i])
  BY <1>8, <1>9
<1>14. NamedFile(task)
  <2>1. OfPairs(task.links)
    BY <1>2, <1>6, NoPairs
  <2>2. task.file[2] = "1" /\ (task.id # Absent => task.id[2] = "1")
    BY <1>7
  <2> QED BY <1>6, <2>1, <2>2 DEF NamedFile
<1>15. NamedFiles(docs)
  BY <1>9, <1>14, NamedOrTwins
<1> QED BY <1>10, <1>12, <1>13, <1>15 DEF docs, own, task

(* The files of a question about another checkout.                         *)
LEMMA CheckoutsFiles ==
  ASSUME NEW status, NEW second
  PROVE  LET docs == Files(status, second) IN
         /\ IsList(docs) /\ \A i \in DOMAIN docs : FileOf(docs[i])
         /\ OwnNames(docs, <<"wi-", "1">>) /\ NamedFiles(docs)
<1> DEFINE own == <<"wi-", "1">>
           links == <<Dependency(<<"wi-", "2">>, "")>>
           first == [Task EXCEPT !.status = status, !.links = links]
           other == Item("2", "active", second, "active")
           docs == <<first, other>>
<1>1. Files(status, second) = docs
  BY DEF Files
<1>2. /\ AskedFile(Task) /\ Task.kind = "work-item" /\ Task.id = own /\ Task.file = <<"file", "1">>
      /\ Task.place = "active" /\ Task.rels = <<>>
  BY ItemAsked DEF Task
<1>3. IsList(links) /\ IsList(Task.rels)
  <2> DEFINE l == Dependency(<<"wi-", "2">>, "")
  <2>1. DOMAIN <<l>> = {1}
    BY ListOfOne
  <2>2. {1} = 1..1
    OBVIOUS
  <2> HIDE DEF l
  <2>3. IsList(<<l>>)
    BY <2>1, <2>2 DEF IsList
  <2> QED BY <1>2, <2>3, NoPairs DEF l
<1>4. OfPairs(links) /\ Around(links)
  <2> DEFINE l == Dependency(<<"wi-", "2">>, "")
  <2>1. LinkOfPair(l)
    BY DependencyOnPair
  <2> HIDE DEF l
  <2>2. DOMAIN <<l>> = {1} /\ <<l>>[1] = l
    BY ListOfOne
  <2>3. OfPairs(<<l>>) /\ Around(<<l>>)
    BY <2>1, <2>2, LinksArePlain
  <2> QED BY <2>3 DEF l
<1> HIDE DEF own, links
<1>5. AskedFile(Task) /\ Task.kind = "work-item" /\ Task.place = "active" /\ Task.id = own
  BY <1>2
<1>6. /\ AskedFile(first) /\ first.kind = "work-item" /\ first.id = own /\ first.file = Task.file
      /\ first.place = "active" /\ first.links = links /\ first.rels = Task.rels
  BY <1>5 DEF AskedFile, Fields
<1> HIDE DEF first
<1>7. first.id \in {<<"wi-", "1">>, Absent} /\ first.file = <<"file", "1">>
  BY <1>2, <1>6 DEF own
<1>8. FileOf(first)
  <2>1. /\ AskedFile(first) /\ IsList(first.links) /\ IsList(first.rels) /\ first.kind = "work-item"
        /\ first.place # "records" /\ Around(first.links)
    BY <1>3, <1>4, <1>6
  <2> QED BY <1>7, <2>1, AskedIsFile
<1>9. /\ AskedFile(other) /\ other.kind = "work-item" /\ other.id = <<"wi-", "2">>
      /\ other.file = <<"file", "2">> /\ other.place = "active"
      /\ other.links = <<>> /\ other.rels = <<>>
  BY ItemAsked
<1> HIDE DEF other
<1>10. other.id \in {<<"wi-", "2">>, Absent} /\ other.id[2] = "2" /\ other.file[2] = "2"
  BY <1>9
<1>11. FileOf(other)
  <2>1. /\ AskedFile(other) /\ IsList(other.links) /\ IsList(other.rels) /\ other.kind = "work-item"
        /\ other.place # "records" /\ other.file = <<"file", "2">> /\ Around(other.links)
    BY <1>9, NoPairs
  <2> QED BY <1>10, <2>1, AskedIsFile
<1>12. DOMAIN docs = 1..2 /\ docs[1] = first /\ docs[2] = other
  OBVIOUS
<1> HIDE DEF docs
<1>13. IsList(docs) /\ DOMAIN docs = {1, 2}
  BY <1>12 DEF IsList
<1>14. docs[1].file[2] = "1" /\ docs[1].id \in {own, Absent} /\ own[2] = "1"
  BY <1>6, <1>7, <1>12 DEF own
<1>15. OwnNames(docs, own)
  <2>1. DOMAIN docs \subseteq {1, 2, 3} /\ 3 \notin DOMAIN docs
    BY <1>13
  <2> QED BY <1>10, <1>12, <1>14, <2>1, SmallBacklog
<1>16. \A i \in DOMAIN docs : FileOf(docs[i])
  BY <1>8, <1>11, <1>12, <1>13
<1>17. NamedFile(first) /\ NamedFile(other)
  <2>1. OfPairs(first.links) /\ OfPairs(other.links)
    BY <1>4, <1>6, <1>9, NoPairs
  <2>2. first.file[2] = "1" /\ first.id[2] = "1"
    BY <1>6, <1>7 DEF own
  <2> QED BY <1>6, <1>9, <1>10, <2>1, <2>2 DEF NamedFile
<1>18. NamedFiles(docs)
  BY <1>12, <1>13, <1>17, NamedOrTwins
<1> QED BY <1>1, <1>13, <1>15, <1>16, <1>18 DEF own

(* The world of a question about another checkout.                         *)
LEMMA ElsewhereIsAsked ==
  ASSUME NEW here, NEW there, NEW logs, NEW claim, NEW trees \in SeqOf(OtherTrees, 2)
  PROVE  WorldAsked(Elsewhere(here, there, logs, claim, trees), here)
<1> DEFINE task == <<"wi-", "1">>  branch == <<"run", "main">>  none == <<>>
           nologs == <<NoLog, NoLog>>  noclaims == <<"none", "none">>  claims == <<"none", claim>>
           docs == <<here, here>>
           w == [task |-> task, docs |-> docs, log |-> nologs,
                 claim |-> noclaims, branch |-> branch, trees |-> none]
           v == [w EXCEPT !.docs[2] = there, !.log = logs, !.claim = claims, !.trees = trees]
<1>1. Elsewhere(here, there, logs, claim, trees) = v
  BY DEF Elsewhere, World
<1> HIDE DEF task, branch, none, nologs, noclaims, claims
<1>2. v.task = task /\ v.trees = trees /\ v.docs = [docs EXCEPT ![2] = there]
  <2> HIDE DEF docs
  <2> QED OBVIOUS
<1>3. v.docs[1] = here
  <2> HIDE DEF v
  <2>1. docs[1] = here /\ 1 \in DOMAIN docs
    OBVIOUS
  <2> HIDE DEF docs
  <2> QED BY <1>2, <2>1
<1> HIDE DEF v
<1>4. Roots(v)
  <2>1. \A i \in DOMAIN trees : trees[i] \in OtherTrees
    BY DEF SeqOf
  <2>2. \A t \in OtherTrees : t.root = 2
    <3> DEFINE issue == <<"issue", "1">>  run == <<"run", "b">>
    <3>1. OtherTrees = {[root |-> 2, branch |-> issue], [root |-> 2, branch |-> run]}
      BY DEF OtherTrees
    <3> HIDE DEF issue, run
    <3> QED BY <3>1
  <2> QED BY <1>2, <2>1, <2>2 DEF Roots
<1> QED BY <1>1, <1>2, <1>3, <1>4 DEF WorldAsked, task

(* The worlds of the questions about readiness.                            *)
LEMMA WorldsAsked ==
  ASSUME AskDependencies \/ AskGates \/ AskCheckouts
  PROVE  WorldOf(asked'.world) /\ NamedFiles(asked'.world.docs[1])
<1>1. CASE AskDependencies
  <2>1. PICK refs \in DependencyLists, rels \in SeqOf(NamedPlainly, 1),
             second \in Seconds2, third \in Thirds :
          asked' = [kind |-> "ready", world |-> WithDependencies(refs, rels, second, third)]
    BY <1>1 DEF AskDependencies, Ask
  <2> DEFINE docs == <<[Task EXCEPT !.links = refs, !.rels = rels], second>> \o third
  <2>2. /\ IsList(docs) /\ \A i \in DOMAIN docs : FileOf(docs[i])
        /\ OwnNames(docs, <<"wi-", "1">>) /\ NamedFiles(docs)
    BY DependenciesAsked
  <2>3. asked'.world = World(docs)
    BY <2>1 DEF WithDependencies
  <2> HIDE DEF docs
  <2>4. WorldAsked(asked'.world, docs)
    BY <2>3, WorldIsAsked
  <2> QED BY <2>2, <2>4, AskedIsWorld DEF WorldAsked
<1>2. CASE AskGates
  <2>1. PICK id \in GatedIds : \E s, l, tags, titled, log, claim :
          asked' = [kind |-> "ready", world |-> Gated(GatedTask(id, s, l, tags, titled), log, claim)]
    BY <1>2 DEF AskGates, Ask
  <2>5. PICK s, l, tags, titled, log, claim :
          asked' = [kind |-> "ready", world |-> Gated(GatedTask(id, s, l, tags, titled), log, claim)]
    BY <2>1
  <2> DEFINE task == GatedTask(id, s, l, tags, titled)
             docs == <<task>>
  <2>2. /\ IsList(docs) /\ \A i \in DOMAIN docs : FileOf(docs[i])
        /\ OwnNames(docs, <<"wi-", "1">>) /\ NamedFiles(docs)
    BY GatesFiles
  <2>3. asked'.world = Gated(task, log, claim)
    BY <2>5
  <2>4. WorldAsked(asked'.world, docs)
    <3> HIDE DEF task
    <3> QED BY <2>3, GatedIsAsked
  <2> HIDE DEF docs
  <2> QED BY <2>2, <2>4, AskedIsWorld DEF WorldAsked
<1>3. CASE AskCheckouts
  <2>1. \E here, done, other, logs, claim : \E trees \in SeqOf(OtherTrees, 2) :
          asked' = [kind |-> "ready",
                    world |-> Elsewhere(Files(here, done), other, logs, claim, trees)]
    BY <1>3 DEF AskCheckouts, Ask
  <2>2. PICK here, done, other, logs, claim : \E trees \in SeqOf(OtherTrees, 2) :
          asked' = [kind |-> "ready",
                    world |-> Elsewhere(Files(here, done), other, logs, claim, trees)]
    BY <2>1
  <2>3. PICK trees \in SeqOf(OtherTrees, 2) :
          asked' = [kind |-> "ready",
                    world |-> Elsewhere(Files(here, done), other, logs, claim, trees)]
    BY <2>2
  <2> DEFINE docs == Files(here, done)
  <2>4. /\ IsList(docs) /\ \A i \in DOMAIN docs : FileOf(docs[i])
        /\ OwnNames(docs, <<"wi-", "1">>) /\ NamedFiles(docs)
    BY CheckoutsFiles
  <2> HIDE DEF docs
  <2>5. WorldAsked(asked'.world, docs)
    <3>1. asked'.world = Elsewhere(docs, other, logs, claim, trees)
      BY <2>3 DEF docs
    <3> QED BY <3>1, ElsewhereIsAsked
  <2> QED BY <2>4, <2>5, AskedIsWorld DEF WorldAsked
<1> QED BY <1>1, <1>2, <1>3

(* What the published selection offers can be claimed, in every question   *)
(* asked.                                                                  *)
THEOREM SelectionsAreKept == Spec => []SelectedIsClaimable
<1>1. Init => SelectedIsClaimable
  BY DEF Init, SelectedIsClaimable, Asked
<1>2. SelectedIsClaimable /\ [Next]_asked => SelectedIsClaimable'
  <2> SUFFICES ASSUME SelectedIsClaimable, [Next]_asked PROVE SelectedIsClaimable'
    OBVIOUS
  <2>1. CASE AskDependencies \/ AskGates \/ AskCheckouts
    <3> DEFINE w == asked'.world
    <3>1. WorldOf(w)
      BY <2>1, WorldsAsked
    <3> HIDE DEF w
    <3>2. OneView(w) /\ WrittenForClaim(w) /\ Selection(w, w.task) = "selected" => Claimable(w, w.task)
      BY <3>1, SelectionIsKept
    <3> QED BY <3>2 DEF SelectedIsClaimable, w
  <2>2. CASE AnyAsk /\ ~(AskDependencies \/ AskGates \/ AskCheckouts)
    <3>1. asked'.kind # "ready"
      BY <2>2, KindsOfQuestions DEF AnyAsk
    <3> QED BY <3>1 DEF SelectedIsClaimable, Asked
  <2>3. CASE UNCHANGED asked
    BY <2>3 DEF SelectedIsClaimable, Asked
  <2> QED BY <2>1, <2>2, <2>3, NextAsks
<1> QED BY <1>1, <1>2, PTL DEF Spec

(* Findings are the reasons, in every question asked.                      *)
THEOREM FindingsAlwaysExplain == Spec => []FindingsExplain
<1>1. Init => FindingsExplain
  BY DEF Init, FindingsExplain, Asked
<1>2. FindingsExplain /\ [Next]_asked => FindingsExplain'
  <2> SUFFICES ASSUME FindingsExplain, [Next]_asked PROVE FindingsExplain'
    OBVIOUS
  <2>1. CASE AskDependencies \/ AskGates \/ AskCheckouts
    <3>1. WorldOf(asked'.world) /\ NamedFiles(asked'.world.docs[1])
      BY <2>1, WorldsAsked
    <3>2. Explained(asked'.world, ReviewReport(asked'.world))
      BY <3>1, FindingsAreReasons DEF WorldOf
    <3> QED BY <3>2 DEF FindingsExplain
  <2>2. CASE AnyAsk /\ ~(AskDependencies \/ AskGates \/ AskCheckouts)
    <3>1. asked'.kind # "ready"
      BY <2>2, KindsOfQuestions DEF AnyAsk
    <3> QED BY <3>1 DEF FindingsExplain, Asked
  <2>3. CASE UNCHANGED asked
    BY <2>3 DEF FindingsExplain, Asked
  <2> QED BY <2>1, <2>2, <2>3, NextAsks
<1> QED BY <1>1, <1>2, PTL DEF Spec

-----------------------------------------------------------------------------
(* Paths are sequences of segments that are not empty; git tracks a        *)
(* sequence of them, none of which is the runtime's own.                   *)
IsPath(p) == (\E S : p \in Seq(S)) /\ Len(p) > 0
(* The path is not one of the runtime's own files.                         *)
Outside(p) == p[1][1] # "internal"
(* What git tracks.                                                        *)
WellTracked(repo) ==
  /\ repo.ignoreCase \in BOOLEAN
  /\ \E S : repo.tracked \in Seq(S)
  /\ \A i \in DOMAIN repo.tracked : IsPath(repo.tracked[i]) /\ Outside(repo.tracked[i])

(* The identity of a path has its segments, in another spelling, and the   *)
(* paths of one file that is tracked have one.                             *)
LEMMA IdentityFolds ==
  ASSUME NEW repo, WellTracked(repo), NEW p, IsPath(p)
  PROVE  LET c == CanonicalPath(p, repo.tracked) IN
         /\ DOMAIN c = DOMAIN p /\ \A i \in DOMAIN p : c[i][1] = p[i][1]
         /\ p[1][1] = "internal" => c = p
         /\ Internal(c) => Internal(p)
<1> DEFINE tracked == repo.tracked
           known == {k \in 1..Len(p) : \E i \in DOMAIN tracked : Shares(tracked[i], p, k)}
           k == Max(known)
           I == {i \in 1..Len(tracked) : Shares(tracked[i], p, k)}
           t == tracked[SelectInSeq(tracked, LAMBDA x : Shares(x, p, k))]
           c == CanonicalPath(p, tracked)
<1>1. Len(p) \in Nat /\ Len(p) > 0 /\ DOMAIN p = 1..Len(p) /\ DOMAIN tracked = 1..Len(tracked) /\ Len(tracked) \in Nat
  BY DEF IsPath, WellTracked
<1>2. c = IF known = {} THEN p ELSE [i \in DOMAIN p |-> IF i <= k THEN t[i] ELSE p[i]]
  BY DEF CanonicalPath
<1>3. t = tracked[IF I # {} THEN Min(I) ELSE 0]
  BY DEF SelectInSeq
<1>4. CASE known = {}
  BY <1>2, <1>4
<1>5. CASE known # {}
  <2>1. known \in SUBSET (0..Len(p))
    BY <1>1
  <2>2. k \in known
    <3> HIDE DEF known
    <3> QED BY <1>1, <1>5, <2>1, F!MaxOfSet DEF Max, F!Max
  <2> HIDE DEF k
  <2>3. k \in 1..Len(p) /\ I # {}
    BY <1>1, <2>2
  <2>4. Min(I) \in I
    <3>1. I \in SUBSET Nat
      BY <1>1
    <3> HIDE DEF I
    <3> QED BY <2>3, <3>1, F!MinOfSet DEF Min, F!Min
  <2>5. Min(I) \in DOMAIN tracked /\ Shares(tracked[Min(I)], p, k) /\ t = tracked[Min(I)]
    <3>1. \A i \in I : i \in DOMAIN tracked /\ Shares(tracked[i], p, k)
      BY <1>1
    <3> HIDE DEF I, t
    <3> QED BY <1>3, <2>3, <2>4, <3>1
  <2> HIDE DEF I, t, known, tracked
  <2>6. Shares(t, p, k) /\ Outside(t)
    BY <2>5 DEF WellTracked, tracked
  <2>7. \A i \in DOMAIN p : c[i][1] = p[i][1]
    BY <1>1, <1>2, <1>5, <2>3, <2>6 DEF Shares
  <2>8. t[1][1] = p[1][1] /\ 1 <= k
    BY <1>1, <2>3, <2>6 DEF Shares
  <2>9. DOMAIN c = DOMAIN p /\ c[1] = t[1]
    BY <1>1, <1>2, <1>5, <2>8
  <2>10. p[1][1] # "internal"
    BY <2>6, <2>8 DEF Outside
  <2>11. ~Internal(c)
    BY <2>6, <2>9, PartsOfPair DEF Internal, Outside
  <2> QED BY <2>7, <2>9, <2>10, <2>11 DEF tracked
<1> QED BY <1>4, <1>5

(* Sequences of one domain have one length.                                *)
LEMMA SameLength ==
  ASSUME NEW m \in Nat, NEW n \in Nat, 1..m = 1..n PROVE m = n
<1>1. ASSUME m < n PROVE FALSE
  <2>1. n \in 1..n
    BY <1>1
  <2>2. n \in 1..m
    BY <2>1
  <2> QED BY <1>1, <2>2
<1>2. ASSUME n < m PROVE FALSE
  <2>1. m \in 1..m
    BY <1>2
  <2>2. m \in 1..n
    BY <2>1
  <2> QED BY <1>2, <2>2
<1> QED BY <1>1, <1>2

(* The greatest of the numbers up to one of them is that one.              *)
LEMMA GreatestIs ==
  ASSUME NEW n \in Nat, NEW S \in SUBSET (1..n), n \in S PROVE Max(S) = n
<1>1. \A x \in S : n >= x
  OBVIOUS
<1>2. \A x \in S : (\A y \in S : x >= y) => x = n
  <2> SUFFICES ASSUME NEW x \in S, x >= n PROVE x = n
    OBVIOUS
  <2> QED BY <1>1
<1> QED BY <1>1, <1>2 DEF Max

(* A path of a tracked file has the identity of any other path of it.      *)
LEMMA OneIdentity ==
  ASSUME NEW repo, WellTracked(repo), NEW p, IsPath(p), NEW q, IsPath(q), Folded(p) = Folded(q),
         NEW j \in DOMAIN repo.tracked, Folded(repo.tracked[j]) = Folded(p)
  PROVE  CanonicalPath(p, repo.tracked) = CanonicalPath(q, repo.tracked)
<1> DEFINE tracked == repo.tracked
           known(x) == {k \in 1..Len(x) : \E i \in DOMAIN tracked : Shares(tracked[i], x, k)}
           t(x, k) == tracked[SelectInSeq(tracked, LAMBDA y : Shares(y, x, k))]
           n == Len(p)
<1>1. n \in Nat /\ n > 0 /\ DOMAIN p = 1..n /\ Len(q) \in Nat /\ DOMAIN q = 1..Len(q)
      /\ DOMAIN tracked[j] = 1..Len(tracked[j]) /\ Len(tracked[j]) \in Nat
  BY DEF IsPath, WellTracked
<1>2. DOMAIN Folded(p) = DOMAIN p /\ DOMAIN Folded(q) = DOMAIN q /\ DOMAIN Folded(tracked[j]) = DOMAIN tracked[j]
  BY DEF Folded
<1>3. Len(q) = n /\ Len(tracked[j]) = n
  <2>1. 1..Len(q) = 1..n /\ 1..Len(tracked[j]) = 1..n
    BY <1>1, <1>2
  <2> QED BY <1>1, <2>1, SameLength
<1>4. \A i \in 1..n : p[i][1] = q[i][1] /\ tracked[j][i][1] = p[i][1]
  <2>1. \A i \in 1..n : Folded(p)[i] = p[i][1] /\ Folded(q)[i] = q[i][1] /\ Folded(tracked[j])[i] = tracked[j][i][1]
    BY <1>1, <1>3 DEF Folded
  <2> QED BY <2>1
<1>5. ASSUME NEW k \in 1..n, NEW x PROVE Shares(x, p, k) <=> Shares(x, q, k)
  BY <1>1, <1>4 DEF Shares
<1>6. n \in known(p) /\ n \in known(q)
  <2>1. Shares(tracked[j], p, n)
    BY <1>1, <1>3, <1>4 DEF Shares
  <2> QED BY <1>1, <1>3, <1>5, <2>1
<1>8. Max(known(p)) = n /\ Max(known(q)) = n
  <2>1. known(p) \subseteq 1..n /\ known(q) \subseteq 1..n
    BY <1>3
  <2> HIDE DEF known
  <2> QED BY <1>1, <1>6, <2>1, GreatestIs
<1>9. t(p, n) = t(q, n)
  <2>1. {i \in 1..Len(tracked) : Shares(tracked[i], p, n)} = {i \in 1..Len(tracked) : Shares(tracked[i], q, n)}
    BY <1>1, <1>5
  <2> QED BY <2>1 DEF SelectInSeq
<1>10. ASSUME NEW x, Max(known(x)) = n, Len(x) = n, DOMAIN x = 1..n, n \in known(x)
       PROVE  CanonicalPath(x, tracked) = [i \in 1..n |-> t(x, n)[i]]
  <2>1. CanonicalPath(x, tracked) =
          IF known(x) = {} THEN x
          ELSE [i \in DOMAIN x |-> IF i <= Max(known(x)) THEN t(x, Max(known(x)))[i] ELSE x[i]]
    BY DEF CanonicalPath
  <2> HIDE DEF known, t
  <2> QED BY <1>1, <1>10, <2>1
<1> HIDE DEF known, t
<1> QED BY <1>1, <1>3, <1>6, <1>8, <1>9, <1>10

(* What has been merged of the entries of a list: one entry for each path  *)
(* that is not the runtime's own, a rename if there is one.                *)
Merges(m, E) ==
  /\ m \in Seq(E)
  /\ \A i \in DOMAIN m : ~Internal(m[i].path)
  /\ \A i, j \in DOMAIN m : m[i].path = m[j].path => i = j
  /\ \A e \in E : ~Internal(e.path) =>
       \E i \in DOMAIN m : m[i].path = e.path /\ (IsRename(e) => IsRename(m[i]))

(* Another entry is merged without losing a path or a rename.              *)
LEMMA PutMerges ==
  ASSUME NEW E, NEW m, Merges(m, E), NEW e
  PROVE  Merges(Put(m, e), E \cup {e})
<1> DEFINE I == {i \in 1..Len(m) : m[i].path = e.path}
           n == IF I # {} THEN Min(I) ELSE 0
           E1 == E \cup {e}
<1>1. Put(m, e) = IF Internal(e.path) THEN m
                  ELSE IF n = 0 THEN Append(m, e)
                  ELSE IF (~IsRename(m[n]) /\ IsRename(e)) \/ (m[n].status = "?" /\ e.status # "?")
                    THEN [m EXCEPT ![n] = e]
                  ELSE m
  BY DEF Put, SelectInSeq
<1>2. m \in Seq(E) /\ m \in Seq(E1) /\ DOMAIN m = 1..Len(m) /\ Len(m) \in Nat
  BY DEF Merges
<1>3. I # {} => n \in I
  <2>1. I \in SUBSET Nat
    BY <1>2
  <2> HIDE DEF I
  <2> QED BY <2>1, F!MinOfSet DEF Min, F!Min
<1>4. n # 0 => n \in DOMAIN m /\ m[n].path = e.path
  BY <1>2, <1>3
<1>5. n = 0 => \A i \in DOMAIN m : m[i].path # e.path
  BY <1>2, <1>3
<1> HIDE DEF n
<1>6. CASE Internal(e.path)
  BY <1>1, <1>2, <1>6 DEF Merges
<1>7. CASE ~Internal(e.path) /\ n = 0
  <2> DEFINE r == Append(m, e)
  <2>1. /\ r \in Seq(E1) /\ DOMAIN r = 1..(Len(m) + 1)
        /\ \A i \in DOMAIN m : r[i] = m[i]
        /\ r[Len(m) + 1] = e
    BY <1>2
  <2>2. Put(m, e) = r
    BY <1>1, <1>7
  <2> HIDE DEF r
  <2>3. \A i \in DOMAIN r : i \in DOMAIN m \/ i = Len(m) + 1
    BY <1>2, <2>1
  <2>4. \A i \in DOMAIN r : ~Internal(r[i].path)
    BY <1>7, <2>1, <2>3 DEF Merges
  <2>5. \A i, j \in DOMAIN r : r[i].path = r[j].path => i = j
    BY <1>5, <1>7, <2>1, <2>3 DEF Merges
  <2>6. \A x \in E1 : ~Internal(x.path) =>
          \E i \in DOMAIN r : r[i].path = x.path /\ (IsRename(x) => IsRename(r[i]))
    BY <1>2, <2>1 DEF Merges
  <2> QED BY <2>1, <2>2, <2>4, <2>5, <2>6 DEF Merges
<1>8. CASE /\ ~Internal(e.path) /\ n # 0
           /\ (~IsRename(m[n]) /\ IsRename(e)) \/ (m[n].status = "?" /\ e.status # "?")
  <2> DEFINE r == [m EXCEPT ![n] = e]
  <2>1. /\ r \in Seq(E1) /\ DOMAIN r = DOMAIN m
        /\ \A i \in DOMAIN m : r[i] = IF i = n THEN e ELSE m[i]
    BY <1>2, <1>4, <1>8
  <2>2. Put(m, e) = r
    BY <1>1, <1>8
  <2> HIDE DEF r
  <2>3. \A i \in DOMAIN r : r[i].path = m[i].path /\ (IsRename(m[i]) => IsRename(r[i]))
    BY <1>4, <1>8, <2>1 DEF IsRename
  <2>4. \A x \in E1 : ~Internal(x.path) =>
          \E i \in DOMAIN r : r[i].path = x.path /\ (IsRename(x) => IsRename(r[i]))
    <3>1. \A x \in E : ~Internal(x.path) =>
            \E i \in DOMAIN r : r[i].path = x.path /\ (IsRename(x) => IsRename(r[i]))
      BY <2>1, <2>3 DEF Merges
    <3>2. r[n].path = e.path /\ (IsRename(e) => IsRename(r[n])) /\ n \in DOMAIN r
      BY <1>4, <1>8, <2>1
    <3> QED BY <3>1, <3>2
  <2>5. \A i \in DOMAIN r : ~Internal(r[i].path)
    BY <2>1, <2>3 DEF Merges
  <2>6. \A i, j \in DOMAIN r : r[i].path = r[j].path => i = j
    BY <2>1, <2>3 DEF Merges
  <2> QED BY <2>1, <2>2, <2>4, <2>5, <2>6 DEF Merges
<1>9. CASE /\ ~Internal(e.path) /\ n # 0
           /\ ~((~IsRename(m[n]) /\ IsRename(e)) \/ (m[n].status = "?" /\ e.status # "?"))
  <2>1. Put(m, e) = m
    BY <1>1, <1>9
  <2>2. IsRename(e) => IsRename(m[n])
    BY <1>9
  <2> QED BY <1>2, <1>4, <1>9, <2>1, <2>2 DEF Merges
<1> QED BY <1>6, <1>7, <1>8, <1>9

(* Merging is a fold that takes one entry after the other.                 *)
LEMMA MergeIsOver == \A list : FoldLeft(Put, <<>>, list) = F!Over(0, <<>>, list)
BY DEF FoldLeft, MapThenFoldSet, F!Over, F!FoldLeft, F!MapThenFoldSet, After, Max, F!Max

(* The steps of a merge.                                                   *)
Merging(h, c, base, list, n) ==
  /\ h[0] = base
  /\ \A k \in 1..n : h[k] = Put(h[k - 1], list[k])
  /\ F!Over(c, base, list) = h[n]

(* The values a merge goes through, one for each entry.                    *)
LEMMA MergeSteps ==
  ASSUME NEW c, NEW base, NEW list, NEW n \in Nat, DOMAIN list = 1..n
  PROVE  \E h : Merging(h, c, base, list, n)
<1>1. PICK h : F!Goes(h, c, base, list, n)
  BY F!FoldSteps
<1>2. Merging(h, c, base, list, n)
  BY <1>1 DEF F!Goes, After, Merging
<1> QED BY <1>2

(* A merged list has one entry for each path of the list.                  *)
LEMMA MergedList ==
  ASSUME NEW S, NEW list \in Seq(S)
  PROVE  Merges(FoldLeft(Put, <<>>, list), ToSet(list))
<1> DEFINE n == Len(list)
           E(k) == {list[i] : i \in 1..k}
<1>1. n \in Nat /\ DOMAIN list = 1..n /\ ToSet(list) = E(n)
  BY DEF ToSet
<1>2. PICK h : Merging(h, 0, <<>>, list, n)
  BY <1>1, MergeSteps
<1> DEFINE S1 == {k \in Nat : k <= n => Merges(h[k], E(k))}
<1>3. 0 \in S1
  <2>1. E(0) = {}
    OBVIOUS
  <2>2. h[0] = <<>> /\ <<>> \in Seq(E(0)) /\ DOMAIN <<>> = {}
    BY <1>2 DEF Merging
  <2> QED BY <2>1, <2>2 DEF Merges
<1>4. ASSUME NEW k \in S1 PROVE k + 1 \in S1
  <2> SUFFICES ASSUME k + 1 <= n PROVE Merges(h[k + 1], E(k + 1))
    OBVIOUS
  <2>1. k \in Nat /\ k + 1 \in 1..n /\ (k + 1) - 1 = k /\ Merges(h[k], E(k))
    BY <1>1
  <2>2. h[k + 1] = Put(h[k], list[k + 1])
    BY <1>2, <2>1 DEF Merging
  <2>3. E(k + 1) = E(k) \cup {list[k + 1]}
    <3>1. 1..(k + 1) = (1..k) \cup {k + 1}
      BY <2>1
    <3> QED BY <3>1
  <2> HIDE DEF E
  <2> QED BY <2>1, <2>2, <2>3, PutMerges
<1>5. S1 = Nat
  <2>1. S1 \in SUBSET Nat
    OBVIOUS
  <2> HIDE DEF S1
  <2> QED BY <1>3, <1>4, <2>1, F!SetInduction
<1>6. Merges(h[n], E(n))
  <2>1. n \in S1
    <3> HIDE DEF n, S1
    <3> QED BY <1>1, <1>5
  <2>2. n <= n
    BY <1>1
  <2> HIDE DEF n, E
  <2> QED BY <2>1, <2>2
<1> QED BY <1>1, <1>2, <1>6, MergeIsOver DEF Merging

-----------------------------------------------------------------------------
(* What an audit is given: lists of entries of which only a rename has     *)
(* another path before, and locks that know their paths as they were       *)
(* tracked when they were made.                                            *)
Lists == {"branch", "worktree", "untracked"}
(* A world of which all this is so.                                        *)
WellListed(w) ==
  /\ WellTracked(w.repo) /\ WellTracked(w.before) /\ w.before.ignoreCase = w.repo.ignoreCase
  /\ \A list \in Lists :
       /\ \E S : w[list] \in Seq(S)
       /\ \A e \in ToSet(w[list]) : IsPath(e.path) /\ (IsRename(e) \/ e.previous = e.path)
  /\ \A l \in w.locks : IsPath(l.typed) /\ l.path = Identity(l.typed, w.before)

(* The entries that are compared.                                          *)
Given(w, target) == {e \in UNION {ToSet(w[list]) : list \in Lists} :
  \E list \in Lists \ w.failed : e \in ToSet(w[list]) /\ (list = "branch" => target # "HEAD")}

(* What is in two sequences, one after the other.                          *)
LEMMA ToSetOfConcat ==
  ASSUME NEW S, NEW s \in Seq(S), NEW t \in Seq(S)
  PROVE  s \o t \in Seq(S) /\ ToSet(s \o t) = ToSet(s) \cup ToSet(t)
<1> DEFINE r == s \o t
<1>1. /\ r \in Seq(S) /\ DOMAIN r = 1..(Len(s) + Len(t))
      /\ \A i \in 1..(Len(s) + Len(t)) : r[i] = IF i <= Len(s) THEN s[i] ELSE t[i - Len(s)]
  BY ConcatProperties
<1>2. Len(s) \in Nat /\ Len(t) \in Nat /\ DOMAIN s = 1..Len(s) /\ DOMAIN t = 1..Len(t)
  OBVIOUS
<1> HIDE DEF r
<1>3. ASSUME NEW x \in ToSet(r) PROVE x \in ToSet(s) \cup ToSet(t)
  <2>1. PICK i \in 1..(Len(s) + Len(t)) : x = r[i]
    BY <1>1 DEF ToSet
  <2>2. CASE i <= Len(s)
    <3>1. i \in 1..Len(s) /\ x = s[i]
      BY <1>1, <1>2, <2>1, <2>2
    <3> QED BY <1>2, <3>1 DEF ToSet
  <2>3. CASE i > Len(s)
    <3>1. i - Len(s) \in 1..Len(t) /\ x = t[i - Len(s)]
      BY <1>1, <1>2, <2>1, <2>3
    <3> QED BY <1>2, <3>1 DEF ToSet
  <2> QED BY <1>2, <2>1, <2>2, <2>3
<1>4. ASSUME NEW x \in ToSet(s) PROVE x \in ToSet(r)
  <2>1. PICK i \in 1..Len(s) : x = s[i]
    BY <1>2 DEF ToSet
  <2>2. i \in 1..(Len(s) + Len(t)) /\ r[i] = x
    BY <1>1, <1>2, <2>1
  <2> QED BY <1>1, <2>2 DEF ToSet
<1>5. ASSUME NEW x \in ToSet(t) PROVE x \in ToSet(r)
  <2>1. PICK i \in 1..Len(t) : x = t[i]
    BY <1>2 DEF ToSet
  <2>2. i + Len(s) \in 1..(Len(s) + Len(t)) /\ ~(i + Len(s) <= Len(s)) /\ (i + Len(s)) - Len(s) = i
    BY <1>2
  <2>3. r[i + Len(s)] = x
    BY <1>1, <2>1, <2>2
  <2> QED BY <1>1, <2>2, <2>3 DEF ToSet
<1> QED BY <1>1, <1>3, <1>4, <1>5 DEF r

(* A list is parsed entry by entry, if git could list it.                  *)
LEMMA ParsedEntries ==
  ASSUME NEW w, WellListed(w), NEW list \in Lists
  PROVE  LET E == IF list \in w.failed THEN {} ELSE {Identified(w, e) : e \in ToSet(w[list])} IN
         Parsed(w, list) \in Seq(E) /\ ToSet(Parsed(w, list)) = E
<1> DEFINE q == w[list]
           n == Len(q)
<1>1. DOMAIN q = 1..n /\ n \in Nat /\ ToSet(q) = {q[i] : i \in 1..n}
  BY DEF WellListed, ToSet
<1>2. CASE list \in w.failed
  BY <1>2 DEF Parsed, ToSet
<1>3. CASE list \notin w.failed
  <2> DEFINE r == [i \in 1..n |-> Identified(w, q[i])]
             E == {Identified(w, e) : e \in ToSet(q)}
  <2>1. Parsed(w, list) = r
    BY <1>1, <1>3 DEF Parsed
  <2> HIDE DEF q, n
  <2>2. \A i \in 1..n : r[i] \in E
    BY <1>1
  <2>3. \A x \in E : \E i \in 1..n : x = r[i]
    BY <1>1
  <2>4. DOMAIN r = 1..n
    OBVIOUS
  <2>5. r \in [1..n -> E]
    BY <2>2
  <2> HIDE DEF r, E
  <2>6. r \in Seq(E)
    BY <1>1, <2>5
  <2>7. ToSet(r) = E
    BY <2>2, <2>3, <2>4 DEF ToSet
  <2> QED BY <1>3, <2>1, <2>6, <2>7 DEF E, q
<1> QED BY <1>2, <1>3

(* What has changed is what is given, merged.                              *)
LEMMA ChangedEntries ==
  ASSUME NEW w, WellListed(w), NEW target
  PROVE  Merges(ChangesSince(w, target), {Identified(w, e) : e \in Given(w, target)})
<1> DEFINE P(list) == IF list \in w.failed THEN {} ELSE {Identified(w, e) : e \in ToSet(w[list])}
           E == {Identified(w, e) : e \in Given(w, target)}
           a == IF target = "HEAD" THEN <<>> ELSE Parsed(w, "branch")
           b == Parsed(w, "worktree")
           c == Parsed(w, "untracked")
           A == IF target = "HEAD" THEN {} ELSE P("branch")
           S == P("branch") \cup P("worktree") \cup P("untracked")
<1>1. \A list \in Lists : Parsed(w, list) \in Seq(P(list)) /\ ToSet(Parsed(w, list)) = P(list)
  BY ParsedEntries
<1>2. "branch" \in Lists /\ "worktree" \in Lists /\ "untracked" \in Lists
  BY DEF Lists
<1>3. E = A \cup P("worktree") \cup P("untracked")
  <2>1. \A x \in E : x \in A \cup P("worktree") \cup P("untracked")
    BY DEF Given, Lists
  <2>2. \A x \in A : x \in E
    <3> SUFFICES ASSUME NEW x \in A PROVE x \in E
      OBVIOUS
    <3>1. PICK e \in ToSet(w["branch"]) : x = Identified(w, e)
      OBVIOUS
    <3>2. e \in Given(w, target)
      BY <1>2 DEF Given
    <3> QED BY <3>1, <3>2
  <2>3. \A x \in P("worktree") \cup P("untracked") : x \in E
    BY <1>2 DEF Given
  <2> QED BY <2>1, <2>2, <2>3
<1>4. ToSet(<<>>) = {}
  BY DEF ToSet
<1> HIDE DEF P
<1>5. b \in Seq(S) /\ c \in Seq(S) /\ Parsed(w, "branch") \in Seq(S)
      /\ ToSet(b) = P("worktree") /\ ToSet(c) = P("untracked") /\ ToSet(Parsed(w, "branch")) = P("branch")
  BY <1>1, <1>2
<1>6. a \in Seq(S) /\ ToSet(a) = A
  <2>1. CASE target = "HEAD"
    BY <1>4, <2>1
  <2>2. CASE target # "HEAD"
    BY <1>5, <2>2
  <2> QED BY <2>1, <2>2
<1> HIDE DEF a, b, c, A, S
<1>7. a \o b \in Seq(S) /\ ToSet(a \o b) = A \cup P("worktree")
  BY <1>5, <1>6, ToSetOfConcat
<1>8. (a \o b) \o c \in Seq(S) /\ ToSet((a \o b) \o c) = A \cup P("worktree") \cup P("untracked")
  <2> DEFINE ab == a \o b
  <2>1. ab \in Seq(S) /\ ToSet(ab) = A \cup P("worktree")
    BY <1>7
  <2> HIDE DEF ab
  <2>2. ab \o c \in Seq(S) /\ ToSet(ab \o c) = ToSet(ab) \cup ToSet(c)
    BY <1>5, <2>1, ToSetOfConcat
  <2> QED BY <1>5, <2>1, <2>2 DEF ab
<1>9. ChangesSince(w, target) = FoldLeft(Put, <<>>, (a \o b) \o c)
  BY DEF ChangesSince, a, b, c
<1> QED BY <1>3, <1>8, <1>9, MergedList

(* A lock that counts as owned is one on that file, under the claim.       *)
LEMMA OwnedIsLocked ==
  ASSUME NEW w, WellListed(w), NEW p, IsPath(p), NEW renames,
         LockState(w, Identity(p, w.repo), renames) = "owned"
  PROVE  Locked(w, p)
<1> DEFINE c == Identity(p, w.repo)
           held == {l \in w.locks : l.path = c}
<1>1. held # {} /\ ~w.expired /\ \A l \in held : l.owner = "self"
  BY DEF LockState
<1>2. PICK l \in w.locks : l.path = c /\ l.owner = "self"
  BY <1>1
<1>3. WellTracked(w.repo) /\ WellTracked(w.before) /\ w.before.ignoreCase = w.repo.ignoreCase
      /\ IsPath(l.typed) /\ l.path = Identity(l.typed, w.before)
  BY DEF WellListed
<1>4. SameFile(w, l.typed, p)
  <2>1. CASE ~w.repo.ignoreCase
    BY <1>2, <1>3, <2>1 DEF SameFile, Identity
  <2>2. CASE w.repo.ignoreCase
    <3> DEFINE d == CanonicalPath(l.typed, w.before.tracked)
               e == CanonicalPath(p, w.repo.tracked)
    <3>1. d = e
      BY <1>2, <1>3, <2>2 DEF Identity
    <3>2. /\ DOMAIN d = DOMAIN l.typed /\ \A i \in DOMAIN l.typed : d[i][1] = l.typed[i][1]
          /\ DOMAIN e = DOMAIN p /\ \A i \in DOMAIN p : e[i][1] = p[i][1]
      BY <1>3, IdentityFolds
    <3> HIDE DEF d, e
    <3>3. DOMAIN l.typed = DOMAIN p /\ \A i \in DOMAIN p : l.typed[i][1] = p[i][1]
      BY <3>1, <3>2
    <3>4. Folded(l.typed) = Folded(p)
      BY <3>3 DEF Folded
    <3> QED BY <2>2, <3>4 DEF SameFile
  <2> QED BY <2>1, <2>2
<1> QED BY <1>1, <1>2, <1>4 DEF Locked

(* The identity of a path of the runtime's own is one as well.             *)
LEMMA InternalIdentity ==
  ASSUME NEW repo, WellTracked(repo), NEW p, IsPath(p)
  PROVE  Internal(Identity(p, repo)) <=> Internal(p)
<1> DEFINE c == CanonicalPath(p, repo.tracked)
<1>1. (p[1][1] = "internal" => c = p) /\ (Internal(c) => Internal(p))
  BY IdentityFolds
<1>2. Internal(p) => p[1][1] = "internal"
  BY PartsOfPair DEF Internal
<1> HIDE DEF c
<1>3. Internal(c) <=> Internal(p)
  BY <1>1, <1>2
<1> QED BY <1>3 DEF Identity, c

(* What the property sees of a list is what is compared.                   *)
LEMMA SeenIsGiven ==
  ASSUME NEW w, WellListed(w), NEW e
  PROVE  /\ e \in Seen(w) => e \in Given(w, DefaultTarget(w.refs)) /\ ~Internal(e.path) /\ IsPath(e.path)
         /\ e \in Seen(w) => IsRename(e) \/ e.previous = e.path
         /\ w.failed = {} /\ e \in Given(w, DefaultTarget(w.refs)) /\ ~Internal(e.path) => e \in Seen(w)
<1>1. e \in Listed(w) <=> \E list \in Lists : e \in ToSet(w[list]) /\ (list = "branch" => DefaultTarget(w.refs) # "HEAD")
  BY DEF Listed, Lists
<1>2. ASSUME e \in Seen(w)
      PROVE  e \in Given(w, DefaultTarget(w.refs)) /\ ~Internal(e.path) /\ IsPath(e.path)
             /\ (IsRename(e) \/ e.previous = e.path)
  BY <1>1, <1>2 DEF Seen, Given, WellListed
<1>3. ASSUME w.failed = {}, e \in Given(w, DefaultTarget(w.refs)), ~Internal(e.path) PROVE e \in Seen(w)
  BY <1>1, <1>3 DEF Seen, Given
<1> QED BY <1>2, <1>3

(* An audit that passes: the claim, still held, has locked every file that *)
(* is listed as changed and all that is required, and none of them was     *)
(* moved; whatever is listed, locked or tracked, in whatever spelling.     *)
THEOREM AuditCovers ==
  ASSUME NEW w, WellListed(w), NEW required, \A p \in required : IsPath(p), NEW excluded,
         CoveragePassed(w, required, excluded)
  PROVE  /\ \A e \in Seen(w) : ~IsRename(e)
         /\ \A e \in Seen(w) : \/ Locked(w, e.path)
                               \/ Identity(e.path, w.repo) \in excluded \cup VerifiedPaths(w)
         /\ \A p \in required : Locked(w, p)
<1> DEFINE target == DefaultTarget(w.refs)
           m == ChangesSince(w, target)
           E == {Identified(w, e) : e \in Given(w, target)}
           changed == ToSet(m)
           renamed == {e \in changed : IsRename(e)}
           current == AuditChangedFiles(w, target)
           needed == AuditClaimedPaths(w, target, required)
<1>1. Merges(m, E)
  BY ChangedEntries
<1>2. ~current.renamed /\ needed.diagnostics = {}
      /\ \A d \in current.diagnostics : d[1] \in excluded
  BY DEF CoveragePassed, AuditPassed
<1>3. current = AuditOf(w, target, renamed # {},
        {d \in Diagnostics(w, {e.path : e \in changed},
                           {e.path : e \in renamed} \cup {e.previous : e \in renamed}) : d[1] \notin VerifiedPaths(w)})
  BY DEF AuditChangedFiles
<1>4. renamed = {}
  <2> DEFINE diagnostics == {d \in Diagnostics(w, {e.path : e \in changed},
               {e.path : e \in renamed} \cup {e.previous : e \in renamed}) : d[1] \notin VerifiedPaths(w)}
  <2>1. current = AuditOf(w, target, renamed # {}, diagnostics)
    BY <1>3
  <2> HIDE DEF current, renamed, diagnostics
  <2>2. current.renamed = (renamed # {})
    BY <2>1 DEF AuditOf
  <2> QED BY <1>2, <2>2
<1>5. current.diagnostics = {d \in Diagnostics(w, {e.path : e \in changed}, {}) : d[1] \notin VerifiedPaths(w)}
  BY <1>3, <1>4 DEF AuditOf
<1>6. DOMAIN m = 1..Len(m) /\ changed = {m[i] : i \in DOMAIN m}
  BY <1>1 DEF Merges, ToSet
<1> HIDE DEF m, changed, current, needed, E
<1>7. ASSUME NEW e \in Seen(w) PROVE ~IsRename(e) /\ \E x \in changed : x.path = Identity(e.path, w.repo)
  <2> DEFINE f == Identified(w, e)
  <2>1. e \in Given(w, target) /\ ~Internal(e.path) /\ IsPath(e.path)
    BY SeenIsGiven
  <2>2. f \in E /\ f.path = Identity(e.path, w.repo) /\ (IsRename(f) <=> IsRename(e))
    BY <2>1 DEF E, Identified, Entry, IsRename
  <2>3. ~Internal(f.path)
    BY <2>1, <2>2, InternalIdentity DEF WellListed
  <2> HIDE DEF f
  <2>4. PICK i \in DOMAIN m : m[i].path = f.path /\ (IsRename(f) => IsRename(m[i]))
    BY <1>1, <2>2, <2>3 DEF Merges
  <2>5. m[i] \in changed /\ ~IsRename(m[i])
    BY <1>4, <1>6
  <2> QED BY <2>2, <2>4, <2>5
<1>8. ASSUME NEW e \in Seen(w)
      PROVE  Locked(w, e.path) \/ Identity(e.path, w.repo) \in excluded \cup VerifiedPaths(w)
  <2> DEFINE c == Identity(e.path, w.repo)
  <2>1. c \in {x.path : x \in changed} /\ IsPath(e.path)
    BY <1>7, SeenIsGiven
  <2>2. CASE LockState(w, c, {}) = "owned"
    BY <2>1, <2>2, OwnedIsLocked
  <2>3. CASE LockState(w, c, {}) # "owned"
    <3> DEFINE d == <<c, LockState(w, c, {})>>
    <3> HIDE DEF c
    <3>1. d \in Diagnostics(w, {x.path : x \in changed}, {}) /\ d[1] = c
      BY <2>1, <2>3 DEF Diagnostics
    <3> HIDE DEF d
    <3>2. c \in VerifiedPaths(w) \/ c \in excluded
      BY <1>2, <1>5, <3>1
    <3> QED BY <3>2 DEF c
  <2> QED BY <2>2, <2>3
<1>9. ASSUME NEW p \in required PROVE Locked(w, p)
  <2> DEFINE c == Identity(p, w.repo)
  <2>1. needed.diagnostics = Diagnostics(w, {Identity(q, w.repo) : q \in required}, {})
    BY DEF needed, AuditClaimedPaths, AuditOf
  <2>2. c \in {Identity(q, w.repo) : q \in required}
    OBVIOUS
  <2>3. LockState(w, c, {}) = "owned"
    <3> HIDE DEF c
    <3> QED BY <1>2, <2>1, <2>2 DEF Diagnostics
  <2> QED BY <2>3, OwnedIsLocked
<1> QED BY <1>7, <1>8, <1>9

(* A lock on a tracked file counts as owned under any spelling of it.      *)
LEMMA LockedIsOwned ==
  ASSUME NEW w, WellListed(w), w.before = w.repo,
         \A l, k \in w.locks : l.path = k.path => l = k,
         NEW p, IsPath(p), Locked(w, p),
         \E i \in DOMAIN w.repo.tracked : SameFile(w, w.repo.tracked[i], p)
  PROVE  LockState(w, Identity(p, w.repo), {}) = "owned"
<1>1. PICK l \in w.locks : l.owner = "self" /\ SameFile(w, l.typed, p)
  BY DEF Locked
<1>2. PICK i \in DOMAIN w.repo.tracked : SameFile(w, w.repo.tracked[i], p)
  OBVIOUS
<1>3. ~w.expired
  BY DEF Locked
<1>4. WellTracked(w.repo) /\ IsPath(l.typed) /\ l.path = Identity(l.typed, w.repo)
  BY DEF WellListed
<1>5. l.path = Identity(p, w.repo)
  <2>1. CASE ~w.repo.ignoreCase
    BY <1>1, <1>4, <2>1 DEF SameFile, Identity
  <2>2. CASE w.repo.ignoreCase
    <3>1. Folded(l.typed) = Folded(p) /\ Folded(w.repo.tracked[i]) = Folded(p)
      BY <1>1, <1>2, <2>2 DEF SameFile
    <3>2. CanonicalPath(p, w.repo.tracked) = CanonicalPath(l.typed, w.repo.tracked)
      BY <1>4, <3>1, OneIdentity
    <3> QED BY <1>4, <2>2, <3>2 DEF Identity
  <2> QED BY <2>1, <2>2
<1> DEFINE c == Identity(p, w.repo)
           held == {k \in w.locks : k.path = c}
<1>6. held # {} /\ \A k \in held : k.owner = "self"
  BY <1>1, <1>5
<1> HIDE DEF c
<1> QED BY <1>3, <1>6 DEF LockState, c

(* And one that has locked all this passes, whatever is excluded: nothing  *)
(* is refused for its spelling.                                            *)
THEOREM LocksSuffice ==
  ASSUME NEW w, WellListed(w), w.before = w.repo,
         \A l, k \in w.locks : l.path = k.path => l = k,
         Fresh(w, "main"), Mergeable(w, "main"), w.failed = {},
         NEW required, \A p \in required : IsPath(p), NEW excluded,
         \A p \in {e.path : e \in Seen(w)} \cup required :
           Locked(w, p) /\ \E i \in DOMAIN w.repo.tracked : SameFile(w, w.repo.tracked[i], p),
         \A e \in Seen(w) : ~IsRename(e)
  PROVE  /\ CoveragePassed(w, required, excluded)
         /\ \A p \in required : RecoveryPassed(w, p, TRUE)
<1> DEFINE target == DefaultTarget(w.refs)
           m == ChangesSince(w, target)
           E == {Identified(w, e) : e \in Given(w, target)}
           changed == ToSet(m)
           renamed == {e \in changed : IsRename(e)}
<1>1. Merges(m, E)
  BY ChangedEntries
<1>2. Fresh(w, target) /\ Mergeable(w, target)
  BY DEF Fresh, Mergeable
<1>3. DOMAIN m = 1..Len(m) /\ changed = {m[i] : i \in DOMAIN m}
  BY <1>1 DEF Merges, ToSet
<1>4. ASSUME NEW x \in changed PROVE ~IsRename(x) /\ LockState(w, x.path, {}) = "owned"
  <2> HIDE DEF changed, m
  <2>1. x \in E /\ ~Internal(x.path)
    BY <1>1, <1>3, <1>4 DEF Merges
  <2>2. PICK e \in Given(w, target) : x = Identified(w, e)
    BY <2>1
  <2>3. IsPath(e.path)
    BY DEF Given, WellListed
  <2>4. x.path = Identity(e.path, w.repo) /\ (IsRename(x) <=> IsRename(e))
    BY <2>2 DEF Identified, Entry, IsRename
  <2>5. ~Internal(e.path)
    BY <2>1, <2>3, <2>4, InternalIdentity DEF WellListed
  <2>6. e \in Seen(w)
    BY <2>5, SeenIsGiven
  <2>7. Locked(w, e.path) /\ \E i \in DOMAIN w.repo.tracked : SameFile(w, w.repo.tracked[i], e.path)
    BY <2>6
  <2>8. LockState(w, Identity(e.path, w.repo), {}) = "owned"
    BY <2>3, <2>7, LockedIsOwned
  <2> QED BY <2>4, <2>6, <2>8
<1>5. renamed = {}
  BY <1>4
<1> DEFINE current == AuditChangedFiles(w, target)
<1>6. current = AuditOf(w, target, renamed # {},
        {d \in Diagnostics(w, {e.path : e \in changed},
                           {e.path : e \in renamed} \cup {e.previous : e \in renamed}) : d[1] \notin VerifiedPaths(w)})
  BY DEF AuditChangedFiles
<1>7. Diagnostics(w, {e.path : e \in changed}, {}) = {}
  BY <1>4 DEF Diagnostics
<1> HIDE DEF current, changed, m
<1>8. current = AuditOf(w, target, FALSE, {})
  BY <1>5, <1>6, <1>7
<1>9. AuditPassed(current) /\ current.renamed = FALSE /\ current.diagnostics = {}
  BY <1>2, <1>8 DEF AuditOf, AuditPassed
<1>10. ASSUME NEW paths \in SUBSET required, NEW t
       PROVE  AuditClaimedPaths(w, t, paths) = AuditOf(w, t, FALSE, {})
  <2>1. ASSUME NEW p \in paths PROVE LockState(w, Identity(p, w.repo), {}) = "owned"
    BY LockedIsOwned
  <2>2. Diagnostics(w, {Identity(p, w.repo) : p \in paths}, {}) = {}
    BY <2>1 DEF Diagnostics
  <2> QED BY <2>2 DEF AuditClaimedPaths
<1>11. CoveragePassed(w, required, excluded)
  <2> DEFINE needed == AuditClaimedPaths(w, target, required)
  <2>1. needed = AuditOf(w, target, FALSE, {})
    BY <1>10
  <2>2. needed.diagnostics = {} /\ AuditPassed(needed)
    BY <1>2, <2>1 DEF AuditOf, AuditPassed
  <2>3. CoveragePassed(w, required, excluded) <=>
          /\ IF excluded # {}
               THEN needed.diagnostics = {} /\ \A d \in current.diagnostics : d[1] \in excluded
               ELSE AuditPassed(current) /\ AuditPassed(needed)
          /\ ~current.renamed
    BY DEF CoveragePassed, current
  <2> HIDE DEF needed
  <2> QED BY <1>9, <2>2, <2>3
<1>12. ASSUME NEW p \in required PROVE RecoveryPassed(w, p, TRUE)
  <2>1. AuditClaimedPaths(w, "HEAD", {p}) = AuditOf(w, "HEAD", FALSE, {})
    BY <1>10
  <2> QED BY <2>1 DEF RecoveryPassed, AuditOf
<1> QED BY <1>11, <1>12

-----------------------------------------------------------------------------
(* The paths that the questions name.                                      *)
LEMMA PathsOfQuestions ==
  /\ \A p \in {PathF, PathFUpper, PathG, PathIn} : IsPath(p)
  /\ \A p \in {PathF, PathFUpper, PathG} : Outside(p)
  /\ \A p \in {PathF, PathFUpper} : DOMAIN p = 1..2 /\ p[2][1] = "f"
  /\ DOMAIN PathG = 1..2 /\ PathG[2][1] = "g"
<1>1. ASSUME NEW a, NEW b, NEW c, NEW d
      PROVE  LET p == <<<<a, b>>, <<c, d>>>> IN
             IsPath(p) /\ p[1][1] = a /\ DOMAIN p = 1..2 /\ p[2][1] = c
  <2> DEFINE x == <<a, b>>
             y == <<c, d>>
             p == <<x, y>>
  <2>1. x[1] = a /\ y[1] = c
    BY PartsOfPair
  <2> HIDE DEF x, y
  <2>2. p \in Seq({x, y}) /\ Len(p) = 2 /\ p[1] = x /\ p[2] = y /\ DOMAIN p = 1..2
    OBVIOUS
  <2>3. IsPath(p)
    <3> HIDE DEF p
    <3> QED BY <2>2 DEF IsPath
  <2> QED BY <2>1, <2>2, <2>3 DEF x, y
<1>2. IsPath(PathF) /\ PathF[1][1] = "d" /\ DOMAIN PathF = 1..2 /\ PathF[2][1] = "f"
  BY <1>1 DEF PathF
<1>3. IsPath(PathFUpper) /\ PathFUpper[1][1] = "d" /\ DOMAIN PathFUpper = 1..2 /\ PathFUpper[2][1] = "f"
  BY <1>1 DEF PathFUpper
<1>4. IsPath(PathG) /\ PathG[1][1] = "d" /\ DOMAIN PathG = 1..2 /\ PathG[2][1] = "g"
  BY <1>1 DEF PathG
<1>5. IsPath(PathIn)
  BY <1>1 DEF PathIn
<1> QED BY <1>2, <1>3, <1>4, <1>5 DEF Outside

(* A list of none or one.                                                  *)
LEMMA ListUpToOne ==
  ASSUME NEW X, NEW list \in UpToOne(X) PROVE list \in Seq(X) /\ ToSet(list) \subseteq X
<1>1. list = <<>> \/ \E x \in X : list = <<x>>
  BY DEF UpToOne
<1>2. <<>> \in Seq(X) /\ \A x \in X : <<x>> \in Seq(X)
  OBVIOUS
<1>3. list \in Seq(X)
  BY <1>1, <1>2
<1> QED BY <1>3 DEF ToSet

(* The entries of the questions are on paths, and a rename alone has two.  *)
LEMMA EntriesOfQuestions ==
  \A e \in Entries \cup Untracked : IsPath(e.path) /\ (IsRename(e) \/ e.previous = e.path)
<1>1. \A s, p, q : LET e == Entry(s, p, q) IN
        e.path = p /\ e.previous = q /\ (IsRename(e) <=> s = "R")
  BY DEF Entry, IsRename
<1>2. \A e \in Entries \cup Untracked : \E s : \E p, q \in {PathF, PathFUpper, PathG, PathIn} :
        e = Entry(s, p, q) /\ (s = "R" \/ q = p)
  BY DEF Entries, Untracked, Modified
<1> QED BY <1>1, <1>2, PathsOfQuestions

(* The locks that the questions put: each is on the identity of its path,  *)
(* and none has the path of another.                                       *)
LEMMA LocksOfQuestions ==
  ASSUME NEW repo, WellTracked(repo), NEW spellings \in SUBSET {PathF, PathFUpper},
         NEW locks \in LockSets(repo, spellings)
  PROVE  /\ \A l \in locks : IsPath(l.typed) /\ l.path = Identity(l.typed, repo)
         /\ \A l, k \in locks : l.path = k.path => l = k
<1>1. \A p, o : LockedAs(p, o, repo).typed = p /\ LockedAs(p, o, repo).path = Identity(p, repo)
  BY DEF LockedAs
<1>2. PICK Fs \in {{}} \cup {{LockedAs(p, o, repo)} : p \in spellings, o \in {"self", "other"}},
           Gs \in {{}} \cup {{LockedAs(PathG, o, repo)} : o \in {"self", "other"}} : locks = Fs \cup Gs
  BY DEF LockSets
<1>3. \A l \in Fs : l.typed \in {PathF, PathFUpper} /\ l.path = Identity(l.typed, repo)
  BY <1>1
<1>4. \A l \in Gs : l.typed = PathG /\ l.path = Identity(l.typed, repo)
  BY <1>1
<1>5. (\A l, k \in Fs : l = k) /\ \A l, k \in Gs : l = k
  OBVIOUS
<1>6. ASSUME NEW p \in {PathF, PathFUpper} PROVE Identity(p, repo) # Identity(PathG, repo)
  <2>1. p # PathG
    BY PathsOfQuestions
  <2>2. CanonicalPath(p, repo.tracked)[2][1] = p[2][1] /\ CanonicalPath(PathG, repo.tracked)[2][1] = PathG[2][1]
    <3>1. 2 \in DOMAIN p /\ 2 \in DOMAIN PathG /\ IsPath(p) /\ IsPath(PathG)
      BY PathsOfQuestions
    <3> QED BY <3>1, IdentityFolds
  <2>3. p[2][1] # PathG[2][1]
    BY PathsOfQuestions
  <2> QED BY <2>1, <2>2, <2>3 DEF Identity
<1>7. \A l \in locks : IsPath(l.typed) /\ l.path = Identity(l.typed, repo)
  BY <1>2, <1>3, <1>4, PathsOfQuestions
<1>8. \A l \in Fs, k \in Gs : l.path # k.path
  BY <1>3, <1>4, <1>6
<1> QED BY <1>2, <1>5, <1>7, <1>8

(* What git tracks in the questions.                                       *)
LEMMA TrackedOfQuestions ==
  ASSUME NEW i \in BOOLEAN,
         NEW t \in {<<>>, <<PathF>>, <<PathFUpper, PathG>>, <<PathF, PathG>>}
  PROVE  WellTracked(Tracking(i, t)) /\ Tracking(i, t).ignoreCase = i
<1> DEFINE S == {PathF, PathFUpper, PathG}
<1>1. \A p \in S : IsPath(p) /\ Outside(p)
  BY PathsOfQuestions
<1>2. PathF \in S /\ PathFUpper \in S /\ PathG \in S
  OBVIOUS
<1> HIDE DEF S
<1>3. <<>> \in Seq(S) /\ (\A x \in S : <<x>> \in Seq(S)) /\ \A x, y \in S : <<x, y>> \in Seq(S)
  OBVIOUS
<1>4. t \in Seq(S)
  BY <1>2, <1>3
<1>5. \A j \in DOMAIN t : t[j] \in S
  BY <1>4
<1> QED BY <1>1, <1>4, <1>5 DEF Tracking, WellTracked

(* A world of a question, and the question.                                *)
Auditable(a) ==
  /\ WellListed(a.world)
  /\ \A l, k \in a.world.locks : l.path = k.path => l = k
  /\ \A p \in a.required : IsPath(p)
  /\ ~a.world.repo.ignoreCase \/ (a.excluded = {} /\ a.world.manifest.paths = {})

(* The parts of a question, before they are put together.                  *)
WellAsked(repo, before, locks, branch, worktree, untracked, s, required, excluded) ==
  /\ WellTracked(repo) /\ WellTracked(before) /\ before.ignoreCase = repo.ignoreCase
  /\ locks \in LockSets(before, {PathF, PathFUpper}) \cup LockSets(before, {PathF})
  /\ \A list \in {branch, worktree, untracked} : list \in Seq(Entries \cup Untracked)
  /\ required \in {{}, {PathF}}
  /\ ~repo.ignoreCase \/ (excluded = {} /\ s.manifest.paths = {})

(* A world put together from such parts is well listed.                    *)
LEMMA WorldOfQuestion ==
  ASSUME NEW repo, NEW before, NEW locks, NEW branch, NEW worktree, NEW untracked, NEW s, NEW required, NEW excluded,
         WellAsked(repo, before, locks, branch, worktree, untracked, s, required, excluded),
         AskAboutWorld(Audited(repo, before, locks, branch, worktree, untracked, s), required, excluded)
  PROVE  asked'.kind = "audit" /\ Auditable(asked')
<1>0. /\ WellTracked(repo) /\ WellTracked(before) /\ before.ignoreCase = repo.ignoreCase
      /\ locks \in LockSets(before, {PathF, PathFUpper}) \cup LockSets(before, {PathF})
      /\ \A list \in {branch, worktree, untracked} : list \in Seq(Entries \cup Untracked)
      /\ required \in {{}, {PathF}}
      /\ ~repo.ignoreCase \/ (excluded = {} /\ s.manifest.paths = {})
  BY DEF WellAsked
<1> DEFINE X == Entries \cup Untracked
<1> DEFINE w == Audited(repo, before, locks, branch, worktree, untracked, s)
<1>1. asked'.kind = "audit" /\ asked'.world = w /\ asked'.required = required /\ asked'.excluded = excluded
  BY DEF AskAboutWorld, Ask
<1>2. /\ w.repo = repo /\ w.before = before /\ w.locks = locks /\ w.manifest = s.manifest
      /\ w["branch"] = branch /\ w["worktree"] = worktree /\ w["untracked"] = untracked
  BY DEF Audited
<1> HIDE DEF w
<1>3. \A list \in Lists : w[list] \in Seq(X)
  BY <1>0, <1>2 DEF Lists
<1>4. ASSUME NEW list \in Lists, NEW e \in ToSet(w[list])
      PROVE  IsPath(e.path) /\ (IsRename(e) \/ e.previous = e.path)
  <2>1. e \in X
    BY <1>3 DEF ToSet
  <2> QED BY <2>1, EntriesOfQuestions
<1>5. (\A l \in locks : IsPath(l.typed) /\ l.path = Identity(l.typed, before))
      /\ \A l, k \in locks : l.path = k.path => l = k
  <2>1. {PathF, PathFUpper} \in SUBSET {PathF, PathFUpper} /\ {PathF} \in SUBSET {PathF, PathFUpper}
    OBVIOUS
  <2> QED BY <1>0, <2>1, LocksOfQuestions
<1>6. WellListed(w)
  BY <1>0, <1>2, <1>3, <1>4, <1>5 DEF WellListed
<1>7. \A p \in required : IsPath(p)
  BY <1>0, PathsOfQuestions
<1> QED BY <1>0, <1>1, <1>2, <1>5, <1>6, <1>7 DEF Auditable

(* The questions about one file in every spelling.                         *)
LEMMA SpellingQuestions == ASSUME AskSpelling PROVE asked'.kind = "audit" /\ Auditable(asked')
<1>1. PICK before, repo \in Trackings,
           branch \in UpToOne(Entries), untracked \in UpToOne(Untracked), required \in {{}, {PathF}} :
        /\ before.ignoreCase = repo.ignoreCase
        /\ \E locks \in LockSets(before, {PathF, PathFUpper}) :
             AskAboutWorld(Audited(repo, before, locks, branch, <<>>, untracked, Plainly), required, {})
  BY DEF AskSpelling
<1>2. PICK locks \in LockSets(before, {PathF, PathFUpper}) :
        AskAboutWorld(Audited(repo, before, locks, branch, <<>>, untracked, Plainly), required, {})
  BY <1>1
<1>3. WellTracked(repo) /\ WellTracked(before)
  BY TrackedOfQuestions DEF Trackings
<1> DEFINE X == Entries \cup Untracked
<1>4. branch \in Seq(X) /\ <<>> \in Seq(X) /\ untracked \in Seq(X)
  <2>1. branch \in Seq(Entries) /\ untracked \in Seq(Untracked)
    BY ListUpToOne
  <2> QED BY <2>1
<1>5. Plainly.manifest.paths = {}
  <2> DEFINE s == [expired |-> FALSE, manifest |-> NoManifest, behind |-> FALSE, conflict |-> FALSE,
                   refs |-> {"main", "HEAD"}, failed |-> {}]
  <2>1. s \in Situations
    BY DEF Situations
  <2>2. "main" \in s.refs /\ ~s.behind /\ ~s.conflict /\ s.failed = {} /\ s.manifest = NoManifest
    OBVIOUS
  <2> HIDE DEF s
  <2>3. Plainly.manifest = NoManifest
    BY <2>1, <2>2 DEF Plainly
  <2> QED BY <2>3 DEF NoManifest
<1>6. WellAsked(repo, before, locks, branch, <<>>, untracked, Plainly, required, {})
  BY <1>1, <1>3, <1>4, <1>5 DEF WellAsked
<1> QED BY <1>2, <1>6, WorldOfQuestion

(* The questions about files that change together.                         *)
LEMMA ChangesQuestions == ASSUME AskChanges PROVE asked'.kind = "audit" /\ Auditable(asked')
<1> DEFINE repo == Tracking(FALSE, <<PathF, PathG>>)
<1>1. PICK branch, worktree \in UpToOne(Entries \ {Modified(PathFUpper)}),
           untracked \in UpToOne({e \in Untracked : e.path # PathFUpper}), situation \in Situations,
           required \in {{}, {PathF}}, excluded \in {{}, {PathG}} :
        \E locks \in LockSets(repo, {PathF}) :
          AskAboutWorld(Audited(repo, repo, locks, branch, worktree, untracked, situation), required, excluded)
  BY DEF AskChanges
<1>2. PICK locks \in LockSets(repo, {PathF}) :
        AskAboutWorld(Audited(repo, repo, locks, branch, worktree, untracked, situation), required, excluded)
  BY <1>1
<1>3. WellTracked(repo) /\ repo.ignoreCase = FALSE
  BY TrackedOfQuestions
<1> DEFINE X == Entries \cup Untracked
<1>4. branch \in Seq(X) /\ worktree \in Seq(X) /\ untracked \in Seq(X)
  <2>1. branch \in Seq(Entries \ {Modified(PathFUpper)}) /\ worktree \in Seq(Entries \ {Modified(PathFUpper)})
        /\ untracked \in Seq({e \in Untracked : e.path # PathFUpper})
    BY ListUpToOne
  <2> QED BY <2>1
<1>5. WellAsked(repo, repo, locks, branch, worktree, untracked, situation, required, excluded)
  BY <1>1, <1>2, <1>3, <1>4 DEF WellAsked
<1> QED BY <1>2, <1>5, WorldOfQuestion

(* The property, of any question about a world that is well formed.        *)
LEMMA AuditableMeansLocked ==
  ASSUME NEW a, Auditable(a) PROVE LockedIfPassed(a)
<1> DEFINE w == a.world
           required == a.required
           excluded == a.excluded
           names == UNION {{e.path, e.previous} : e \in Seen(w)}
<1>1. /\ WellListed(w) /\ (\A p \in required : IsPath(p))
      /\ \A l, k \in w.locks : l.path = k.path => l = k
      /\ ~w.repo.ignoreCase \/ (excluded = {} /\ w.manifest.paths = {})
  BY DEF Auditable
<1>2. ASSUME CoveragePassed(w, required, excluded)
      PROVE  /\ \A p \in names : Locked(w, p) \/ Excused(a, p)
             /\ \A p \in required : Locked(w, p)
             /\ \A e \in Seen(w) : ~IsRename(e)
  <2>1. /\ \A e \in Seen(w) : ~IsRename(e)
        /\ \A e \in Seen(w) : \/ Locked(w, e.path)
                              \/ Identity(e.path, w.repo) \in excluded \cup VerifiedPaths(w)
        /\ \A p \in required : Locked(w, p)
    BY <1>1, <1>2, AuditCovers
  <2>2. ASSUME NEW p \in names PROVE Locked(w, p) \/ Excused(a, p)
    <3>1. PICK e \in Seen(w) : p \in {e.path, e.previous}
      OBVIOUS
    <3>2. e.previous = e.path
      BY <1>1, <2>1, SeenIsGiven
    <3>3. VerifiedPaths(w) \subseteq w.manifest.paths
          /\ (VerifiedPaths(w) # {} => \A x \in ToSet(w.manifest.actual) : ~IsRename(x))
      BY DEF VerifiedPaths
    <3>4. CASE Identity(e.path, w.repo) \in excluded \cup VerifiedPaths(w)
      <4>1. Identity(e.path, w.repo) = e.path
        BY <1>1, <3>3, <3>4 DEF Identity
      <4> QED BY <3>1, <3>2, <3>3, <3>4, <4>1 DEF Excused
    <3> QED BY <2>1, <3>1, <3>2, <3>4
  <2> QED BY <2>1, <2>2
<1>3. ASSUME w.before = w.repo, Fresh(w, "main"), Mergeable(w, "main"), w.failed = {},
             \A p \in names \cup required :
               Locked(w, p) /\ \E i \in DOMAIN w.repo.tracked : SameFile(w, w.repo.tracked[i], p),
             \A e \in Seen(w) : ~IsRename(e)
      PROVE  CoveragePassed(w, required, excluded) /\ \A p \in required : RecoveryPassed(w, p, TRUE)
  <2>1. {e.path : e \in Seen(w)} \subseteq names
    OBVIOUS
  <2>2. \A p \in {e.path : e \in Seen(w)} \cup required :
               Locked(w, p) /\ \E i \in DOMAIN w.repo.tracked : SameFile(w, w.repo.tracked[i], p)
    BY <1>3, <2>1
  <2> HIDE DEF w, required, excluded
  <2> QED BY <1>1, <1>3, <2>2, LocksSuffice
<1> QED BY <1>2, <1>3 DEF LockedIfPassed

(* No claim passes the audit with a changed file it has not locked, and    *)
(* none that has locked them all is refused.                               *)
THEOREM AuditsMeanLocked == Spec => []AuditMeansLocked
<1>1. Init => AuditMeansLocked
  BY DEF Init, AuditMeansLocked, Asked
<1>2. AuditMeansLocked /\ [Next]_asked => AuditMeansLocked'
  <2> SUFFICES ASSUME AuditMeansLocked, [Next]_asked PROVE AuditMeansLocked'
    OBVIOUS
  <2>1. CASE AskSpelling \/ AskChanges
    <3>1. Auditable(asked')
      BY <2>1, SpellingQuestions, ChangesQuestions
    <3> QED BY <3>1, AuditableMeansLocked DEF AuditMeansLocked
  <2>2. CASE AnyAsk /\ ~AskSpelling /\ ~AskChanges
    <3>1. asked'.kind # "audit"
      BY <2>2, KindsOfQuestions DEF AnyAsk
    <3> QED BY <3>1 DEF AuditMeansLocked, Asked
  <2>3. CASE UNCHANGED asked
    BY <2>3 DEF AuditMeansLocked, Asked
  <2> QED BY <2>1, <2>2, <2>3, NextAsks
<1> QED BY <1>1, <1>2, PTL DEF Spec
=============================================================================
