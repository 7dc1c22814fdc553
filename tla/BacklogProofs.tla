--------------------------- MODULE BacklogProofs ----------------------------
(***************************************************************************)
(* What is made of a whole backlog, for every backlog.  The projected work *)
(* graph is closed, it does not depend on the order of documents, claims   *)
(* and locks, a renewal is shown in it, and the status command agrees with *)
(* it about what leads nowhere.  A batch of proposals does not depend on   *)
(* the order of its drafts either.  A migration and a renumbering lose no  *)
(* item, wherever they are killed.  DecisionsProofs and ReadinessProofs    *)
(* rest on what is said here of questions and lists.                       *)
(***************************************************************************)
EXTENDS Decisions, SequenceTheorems, FiniteSetTheorems, TLAPS

(* The changed files of an audit are merged by a fold; it has no context.  *)
After(c, merged, e) == Put(merged, e)
F == INSTANCE FoldTheory WITH Op <- After

(* Every step asks one question, and its kind says which.                  *)
AnyAsk == \/ AskTable \/ AskSchema \/ AskGraph \/ AskStatus \/ AskAudited \/ AskBatch
          \/ AskDependencies \/ AskGates \/ AskCheckouts \/ AskRecovery \/ AskScan
          \/ AskLint \/ AskBacklog \/ AskSpelling \/ AskChanges
          \/ AskMigration \/ AskRenumbering \/ AskBody \/ AskFrontmatter \/ AskLife

(* A step of the specification asks one of the questions.                  *)
LEMMA NextAsks == Next => AnyAsk
BY DEF Next, AnyAsk, AskProfile, AskBacklogWide, AskAboutReadiness, AskLinted, AskAudit,
       AskRewrite, AskGate

(* A question is of the kind of the action that asks it.                   *)
LEMMA KindsOfQuestions ==
  /\ AskTable => asked'.kind = "table"
  /\ AskSchema => asked'.kind = "schema"
  /\ AskGraph => asked'.kind = "graph"
  /\ AskStatus => asked'.kind = "status"
  /\ AskAudited => asked'.kind = "audited"
  /\ AskBatch => asked'.kind = "batch"
  /\ AskDependencies => asked'.kind = "ready"
  /\ AskGates => asked'.kind = "ready"
  /\ AskCheckouts => asked'.kind = "ready"
  /\ AskRecovery => asked'.kind = "recovery"
  /\ AskScan => asked'.kind = "scan"
  /\ AskLint => asked'.kind = "lint"
  /\ AskBacklog => asked'.kind = "backlog"
  /\ AskSpelling => asked'.kind = "audit"
  /\ AskChanges => asked'.kind = "audit"
  /\ AskMigration => asked'.kind = "migration"
  /\ AskRenumbering => asked'.kind = "renumbering"
  /\ AskBody => asked'.kind = "gate"
  /\ AskFrontmatter => asked'.kind = "gate"
  /\ AskLife => asked'.kind = "life"
<1>1. ASSUME AskTable PROVE asked'.kind = "table"
  BY <1>1 DEF AskTable, Ask
<1>2. ASSUME AskSchema PROVE asked'.kind = "schema"
  BY <1>2 DEF AskSchema, Ask
<1>3. ASSUME AskGraph PROVE asked'.kind = "graph"
  BY <1>3 DEF AskGraph, Ask
<1>4. ASSUME AskStatus PROVE asked'.kind = "status"
  BY <1>4 DEF AskStatus, Ask
<1>5. ASSUME AskAudited PROVE asked'.kind = "audited"
  BY <1>5 DEF AskAudited, Ask
<1>6. ASSUME AskBatch PROVE asked'.kind = "batch"
  <2>1. PICK one, two, more, n : Ask([kind |-> "batch", drafts |-> BatchOf(one, two, more, n)])
    BY <1>6 DEF AskBatch
  <2> QED BY <2>1 DEF Ask
<1>7. ASSUME AskDependencies PROVE asked'.kind = "ready"
  BY <1>7 DEF AskDependencies, Ask
<1>8. ASSUME AskGates PROVE asked'.kind = "ready"
  BY <1>8 DEF AskGates, Ask
<1>9. ASSUME AskCheckouts PROVE asked'.kind = "ready"
  BY <1>9 DEF AskCheckouts, Ask
<1>10. ASSUME AskRecovery PROVE asked'.kind = "recovery"
  BY <1>10 DEF AskRecovery, Ask
<1>11. ASSUME AskScan PROVE asked'.kind = "scan"
  BY <1>11 DEF AskScan, Ask
<1>12. ASSUME AskLint PROVE asked'.kind = "lint"
  BY <1>12 DEF AskLint, Ask
<1>13. ASSUME AskBacklog PROVE asked'.kind = "backlog"
  BY <1>13 DEF AskBacklog, Ask
<1>14. ASSUME AskSpelling PROVE asked'.kind = "audit"
  BY <1>14 DEF AskSpelling, AskAboutWorld, Ask
<1>15. ASSUME AskChanges PROVE asked'.kind = "audit"
  BY <1>15 DEF AskChanges, AskAboutWorld, Ask
<1>16. ASSUME AskMigration PROVE asked'.kind = "migration"
  BY <1>16 DEF AskMigration, Ask
<1>17. ASSUME AskRenumbering PROVE asked'.kind = "renumbering"
  BY <1>17 DEF AskRenumbering, Ask
<1>18. ASSUME AskBody PROVE asked'.kind = "gate"
  BY <1>18 DEF AskBody, Ask
<1>19. ASSUME AskFrontmatter PROVE asked'.kind = "gate"
  <2>1. PICK s \in {"running", "completed"}, l \in {"active", "inactive"}, reason \in BOOLEAN,
             actual \in BOOLEAN, date \in {"", "bad", "valid"}, est \in {"", "bad", "number"},
             shape \in {"object", "list"}, ev \in SUBSET {"record", "bad"}, prs \in SUBSET {"pr", "pr2", "bad"},
             second \in {<<>>, <<Finished>>} :
           Ask([kind |-> "gate",
                items |-> <<Fronted(s, l, reason, actual, date, est, shape, ev, prs)>> \o second])
    BY <1>19 DEF AskFrontmatter
  <2> QED BY <2>1 DEF Ask
<1>20. ASSUME AskLife PROVE asked'.kind = "life"
  <2>1. PICK e \in {"", "info", "error"}, a \in {"", "none", "warning", "error", "fatal"},
             c \in {"", "fatal", "warn"}, schema \in {"", "strict"}, own \in BOOLEAN,
             failOn \in {"warning", "error"},
             d \in {"", "work-item", "remote", "elsewhere"}, v \in SUBSET {"work-item", "strict", "remote"},
             b \in {Finished.body, <<"tasks">>}, s \in {"completed", "ready-for-review"}, where \in Wheres :
      /\ where # "direct" => c = "" /\ b = Finished.body
      /\ Ask([kind |-> "life", config |-> Config(e, where, Section(a, c, schema), own), failOn |-> failOn,
              items |-> <<Declaring(d, v, b, s)>>])
    BY <1>20 DEF AskLife
  <2> QED BY <2>1 DEF Ask
<1> QED BY <1>1, <1>2, <1>3, <1>4, <1>5, <1>6, <1>7, <1>8, <1>9, <1>10, <1>11, <1>12, <1>13,
           <1>14, <1>15, <1>16, <1>17, <1>18, <1>19, <1>20

-----------------------------------------------------------------------------

-----------------------------------------------------------------------------
(* A list that a pass goes through, in its order.                          *)
IsList(list) == \E n \in Nat : DOMAIN list = 1..n

(* A sequence, of whatever: a list to which an element can be added.       *)
IsSeq(list) == \E S : list \in Seq(S)

(* A sequence with another element at its end.                             *)
LEMMA OneMore ==
  ASSUME NEW list, IsSeq(list), NEW x
  PROVE  /\ IsSeq(Append(list, x)) /\ ToSet(Append(list, x)) = ToSet(list) \cup {x}
         /\ IsInjective(list) /\ x \notin ToSet(list) => IsInjective(Append(list, x))
<1>1. PICK S : list \in Seq(S)
  BY DEF IsSeq
<1> DEFINE T == S \cup {x}
           more == Append(list, x)
<1>2. list \in Seq(T) /\ x \in T
  <2>1. S \subseteq T
    OBVIOUS
  <2> QED BY <1>1, <2>1
<1>3. /\ more \in Seq(T) /\ DOMAIN more = 1..(Len(list) + 1) /\ DOMAIN list = 1..Len(list)
      /\ Len(list) \in Nat /\ more[Len(list) + 1] = x
      /\ \A i \in 1..Len(list) : more[i] = list[i]
  <2> HIDE DEF T
  <2> QED BY <1>2, AppendProperties
<1>4. ToSet(more) = ToSet(list) \cup {x}
  <2> HIDE DEF more, T
  <2> QED BY <1>3 DEF ToSet
<1>5. IsInjective(list) /\ x \notin ToSet(list) => IsInjective(more)
  <2> HIDE DEF more, T
  <2> QED BY <1>3 DEF IsInjective, ToSet
<1> QED BY <1>3, <1>4, <1>5 DEF IsSeq

(* A list of one, or of the same again and again, and a list of two.       *)
LEMMA ShortLists ==
  ASSUME NEW S, NEW x \in S
  PROVE  /\ <<>> \in Seq(S) /\ <<x>> \in Seq(S) /\ \A y \in S : <<x, y>> \in Seq(S)
         /\ \A n \in Nat : [i \in 1..n |-> x] \in Seq(S)
OBVIOUS

(* The first index of a sequence at which something is found.              *)
LEMMA LeastOf ==
  ASSUME NEW I, I \subseteq Nat, I # {}
  PROVE  Min(I) \in I /\ \A i \in I : Min(I) <= i
BY F!MinOfSet DEF Min, F!Min

(* A list of one.                                                          *)
LEMMA ListOfOne ==
  ASSUME NEW x
  PROVE  DOMAIN <<x>> = {1} /\ <<x>>[1] = x
<1>1. Len(<<x>>) = 1 /\ <<x>>[1] = x
  OBVIOUS
<1>2. DOMAIN <<x>> = 1..1
  OBVIOUS
<1>3. 1..1 = {1}
  OBVIOUS
<1> QED BY <1>1, <1>2, <1>3

(* A pair has its two parts.                                               *)
LEMMA PartsOfPair == \A x, y : <<x, y>>[1] = x /\ <<x, y>>[2] = y
OBVIOUS

-----------------------------------------------------------------------------
(* A graph of which no node is there twice, and every edge has its ends.   *)
SoundGraph(s) ==
  /\ IsSeq(s.nodes) /\ IsSeq(s.edges) /\ IsInjective(s.nodes)
  /\ \A e \in ToSet(s.edges) : HasNode(s, e.from) /\ HasNode(s, e.to)

(* Another one that has all this and perhaps more.                         *)
Grows(s, t) == /\ SoundGraph(t) /\ ToSet(s.nodes) \subseteq ToSet(t.nodes)
               /\ ToSet(s.edges) \subseteq ToSet(t.edges)

(* A node is added if it is not there.                                     *)
LEMMA NodeAdded ==
  ASSUME NEW s, SoundGraph(s), NEW n
  PROVE  /\ Grows(s, WithNode(s, n)) /\ HasNode(WithNode(s, n), n)
         /\ WithNode(s, n).edges = s.edges
<1>1. CASE HasNode(s, n)
  BY <1>1 DEF WithNode, Grows
<1>2. CASE ~HasNode(s, n)
  <2> DEFINE t == Graph(Append(s.nodes, n), s.edges, s.alias)
  <2>1. WithNode(s, n) = t
    BY <1>2 DEF WithNode
  <2>2. t.nodes = Append(s.nodes, n) /\ t.edges = s.edges
    BY DEF Graph
  <2>3. IsSeq(t.nodes) /\ ToSet(t.nodes) = ToSet(s.nodes) \cup {n} /\ IsInjective(t.nodes)
    <3>1. n \notin ToSet(s.nodes) /\ IsSeq(s.nodes) /\ IsInjective(s.nodes)
      BY <1>2 DEF HasNode, SoundGraph
    <3> QED BY <2>2, <3>1, OneMore
  <2>4. SoundGraph(t)
    <3> HIDE DEF t
    <3> QED BY <2>2, <2>3 DEF SoundGraph, HasNode
  <2> HIDE DEF t
  <2> QED BY <2>1, <2>2, <2>3, <2>4 DEF Grows, HasNode
<1> QED BY <1>1, <1>2

(* An edge between nodes that are there is added.                          *)
LEMMA EdgeAdded ==
  ASSUME NEW s, SoundGraph(s), NEW e, HasNode(s, e.from), HasNode(s, e.to)
  PROVE  Grows(s, WithEdge(s, e)) /\ e \in ToSet(WithEdge(s, e).edges)
<1> DEFINE t == WithEdge(s, e)
<1>1. t.nodes = s.nodes /\ t.edges = Append(s.edges, e)
  BY DEF WithEdge, Graph
<1>2. IsSeq(t.edges) /\ ToSet(t.edges) = ToSet(s.edges) \cup {e}
  <2>1. IsSeq(s.edges)
    BY DEF SoundGraph
  <2> QED BY <1>1, <2>1, OneMore
<1>3. SoundGraph(t)
  <2> HIDE DEF t
  <2> QED BY <1>1, <1>2 DEF SoundGraph, HasNode
<1>4. Grows(s, t) /\ e \in ToSet(t.edges)
  <2> HIDE DEF t
  <2> QED BY <1>1, <1>2, <1>3 DEF Grows
<1> QED BY <1>4

(* Growing twice is growing.                                               *)
LEMMA GrowsOn ==
  ASSUME NEW s, NEW t, NEW u, Grows(s, t), Grows(t, u)
  PROVE  Grows(s, u)
BY DEF Grows

(* The ends of an edge.                                                    *)
LEMMA EndsOfEdge ==
  ASSUME NEW from, NEW type, NEW to, NEW source, NEW key, NEW raw
  PROVE  LET e == Edge(from, type, to, source, key, raw) IN
         e.from = from /\ e.type = type /\ e.to = to /\ e.source = source /\ e.raw = raw
BY DEF Edge

(* An edge that a document has, if it leads anywhere.                      *)
LEMMA Pointed ==
  ASSUME NEW s, SoundGraph(s), NEW from, NEW type, NEW to, NEW doc, NEW key, NEW raw,
         HasNode(s, from), to # Absent => to[1] = "scope" \/ HasNode(s, to)
  PROVE  Grows(s, Point(s, from, type, to, doc, key, raw))
<1>1. CASE to = Absent
  BY <1>1 DEF Point, Grows
<1>2. CASE to # Absent
  <2> DEFINE t == IF to[1] = "scope" THEN WithNode(s, to) ELSE s
             e == Edge(from, type, to, doc.file, key, raw)
  <2>1. Grows(s, t) /\ HasNode(t, to)
    BY <1>2, NodeAdded DEF Grows
  <2>2. e.from = from /\ e.to = to
    BY EndsOfEdge
  <2>3. SoundGraph(t) /\ HasNode(t, e.from) /\ HasNode(t, e.to)
    <3> HIDE DEF t, e
    <3> QED BY <2>1, <2>2 DEF Grows, HasNode
  <2>4. Grows(t, WithEdge(t, e))
    <3> HIDE DEF t, e
    <3> QED BY <2>3, EdgeAdded
  <2>5. Point(s, from, type, to, doc, key, raw) = WithEdge(t, e)
    BY <1>2 DEF Point
  <2> HIDE DEF t, e
  <2> QED BY <2>1, <2>4, <2>5, GrowsOn
<1> QED BY <1>1, <1>2

-----------------------------------------------------------------------------
(* The passes of the projection are folds; a pass over the parts of a      *)
(* document has this document as its context.                              *)
GraphStep(c, s, x) ==
  CASE c.pass = "document" -> AddDocument(s, x)
    [] c.pass = "claim" -> AddClaim(s, x)
    [] c.pass = "lock" -> AddLock(s, x)
    [] c.pass = "edges" -> AddEdges(s, x)
    [] c.pass = "informal" -> InformalLink(c.doc, s, x)
    [] c.pass = "evidence" -> EvidenceLink(c.doc, s, x)
    [] c.pass = "dependency" -> DependencyLink(c.doc, s, x)
    [] c.pass = "relationship" -> Relationship(c.doc, s, x)
    [] c.pass = "subject" -> SubjectLink(c.doc, s, x)

(* The fold theory with these steps.                                       *)
Step(c, s, x) == GraphStep(c, s, x)
G == INSTANCE FoldTheory WITH Op <- Step

(* A pass: what it is, of which document, from which graph on, over which  *)
(* list.                                                                   *)
Pass(pass, doc, base, list) == [pass |-> pass, doc |-> doc, base |-> base, list |-> list]

(* Documents first: there are no edges yet, and the scope of a work item   *)
(* is there with the item only.                                            *)
FreshGraph(s) ==
  /\ IsSeq(s.nodes) /\ IsInjective(s.nodes) /\ s.edges = <<>>
  /\ \A r : r[1] = "wi" /\ HasNode(s, <<"scope", r>>) => HasNode(s, <<"work-item", r>>)

(* The graph shows a claim: its node, joined to the scope it is on.        *)
ClaimShown(s, c) == LET from == <<"claim", c.token>> to == <<"scope", ClaimScope(c)>> IN
  HasNode(s, from) /\ HasNode(s, to) /\ Joined(s, from, "belongs_to", to)

(* The graph shows a lock: an edge from its claim to the scope it locks.   *)
LockShown(s, l) == LET from == <<"claim", l.token>> to == <<"scope", Canonical(l.scope)>> IN
  HasNode(s, to) /\ \E e \in ToSet(s.edges) :
    e.from = from /\ e.type = "locks" /\ e.to = to /\ e.source = l.token /\ e.raw = l.scope

(* What is so after k elements of a pass.                                  *)
GraphHolds(c, k, s) ==
  /\ c.pass = "document" => FreshGraph(s)
  /\ c.pass # "document" => Grows(c.base, s)
  /\ c.pass = "claim" => \A j \in 1..k : ClaimShown(s, c.list[j])
  /\ c.pass = "lock" =>
       \A j \in 1..k : c.list[j].state = "active" /\ HasNode(c.base, <<"claim", c.list[j].token>>)
                         => LockShown(s, c.list[j])

(* What every step keeps is so in the end.                                 *)
LEMMA PassHolds ==
  ASSUME NEW c, NEW base, NEW list, NEW n \in Nat, DOMAIN list = 1..n, GraphHolds(c, 0, base),
         \A k \in 1..n :
           \A s : GraphHolds(c, k - 1, s) => GraphHolds(c, k, GraphStep(c, s, list[k]))
  PROVE  GraphHolds(c, n, G!Over(c, base, list))
<1>0. PICK h : G!Goes(h, c, base, list, n)
  BY G!FoldSteps
<1>1. /\ h[0] = base
      /\ \A k \in 1..n : h[k] = GraphStep(c, h[k - 1], list[k])
      /\ G!Over(c, base, list) = h[n]
  BY <1>0 DEF G!Goes, Step
<1> DEFINE S == {k \in Nat : k <= n => GraphHolds(c, k, h[k])}
<1>2. 0 \in S
  BY <1>1
<1>3. ASSUME NEW k \in S PROVE k + 1 \in S
  <2>1. SUFFICES ASSUME k + 1 <= n PROVE GraphHolds(c, k + 1, h[k + 1])
    OBVIOUS
  <2>2. k \in Nat /\ k <= n /\ GraphHolds(c, k, h[k]) /\ k + 1 \in 1..n /\ (k + 1) - 1 = k
    BY <2>1
  <2>3. h[k + 1] = GraphStep(c, h[k], list[k + 1])
    BY <1>1, <2>2
  <2> HIDE DEF S
  <2> QED BY <2>2, <2>3
<1>4. S = Nat
  <2> S \in SUBSET Nat
    OBVIOUS
  <2> HIDE DEF S
  <2> QED BY <1>2, <1>3, F!SetInduction
<1>5. GraphHolds(c, n, h[n])
  BY <1>4
<1> QED BY <1>1, <1>5

(* The passes that only make the graph grow.                               *)
Inner == {"informal", "evidence", "dependency", "relationship", "subject", "edges"}

(* A pass of which every step makes the graph grow makes it grow.          *)
LEMMA PassGrows ==
  ASSUME NEW pass \in Inner, NEW doc, NEW base, SoundGraph(base), NEW list, IsList(list),
         \A s : \A i \in DOMAIN list :
           Grows(base, s) => Grows(s, GraphStep(Pass(pass, doc, base, list), s, list[i]))
  PROVE  Grows(base, G!Over(Pass(pass, doc, base, list), base, list))
<1> DEFINE c == Pass(pass, doc, base, list)
<1>1. c.pass = pass /\ c.base = base
  BY DEF Pass
<1>2. PICK n \in Nat : DOMAIN list = 1..n
  BY DEF IsList
<1>3. \A k, s : GraphHolds(c, k, s) <=> Grows(base, s)
  <2> pass # "document" /\ pass # "claim" /\ pass # "lock"
    BY DEF Inner
  <2> HIDE DEF c
  <2> QED BY <1>1 DEF GraphHolds
<1>4. Grows(base, base)
  BY DEF Grows
<1>5. \A s : \A i \in DOMAIN list : Grows(base, s) => Grows(base, GraphStep(c, s, list[i]))
  <2> HIDE DEF c
  <2> SUFFICES ASSUME NEW s, NEW i \in DOMAIN list, Grows(base, s)
               PROVE  Grows(base, GraphStep(c, s, list[i]))
    OBVIOUS
  <2>1. Grows(s, GraphStep(c, s, list[i]))
    BY DEF c
  <2> QED BY <2>1, GrowsOn
<1> HIDE DEF c
<1>6. GraphHolds(c, n, G!Over(c, base, list))
  <2>1. GraphHolds(c, 0, base)
    BY <1>3, <1>4
  <2>2. \A k \in 1..n :
           \A s : GraphHolds(c, k - 1, s) => GraphHolds(c, k, GraphStep(c, s, list[k]))
    BY <1>2, <1>3, <1>5
  <2> QED BY <1>2, <2>1, <2>2, PassHolds
<1>7. Grows(base, G!Over(c, base, list))
  BY <1>3, <1>6
<1> QED BY <1>7 DEF c

-----------------------------------------------------------------------------
(* The steps within a document whose node is there.                        *)
LEMMA DocumentLinksGrow ==
  ASSUME NEW s, SoundGraph(s), NEW doc, HasNode(s, NodeId(doc)), NEW x
  PROVE  /\ Grows(s, InformalLink(doc, s, x))
         /\ Grows(s, EvidenceLink(doc, s, x))
         /\ Grows(s, DependencyLink(doc, s, x))
         /\ Grows(s, Relationship(doc, s, x))
         /\ Grows(s, SubjectLink(doc, s, x))
<1>0. Grows(s, s)
  BY DEF Grows
<1>1. \A ref : Target(s, ref) # Absent => Target(s, ref)[1] = "scope" \/ HasNode(s, Target(s, ref))
  BY DEF Target
<1>2. Subject(s, x) # Absent => Subject(s, x)[1] = "scope" \/ HasNode(s, Subject(s, x))
  <2>1. CASE x[1] = "claim"
    BY <2>1 DEF Subject
  <2>2. CASE x[1] # "claim" /\ Resolve(s, x) # Absent
    <3>1. Subject(s, x) = Target(s, x)
      BY <2>2 DEF Subject
    <3> QED BY <1>1, <3>1
  <2>3. CASE x[1] # "claim" /\ Resolve(s, x) = Absent
    BY <2>3 DEF Subject
  <2> QED BY <2>1, <2>2, <2>3
<1>3. Grows(s, InformalLink(doc, s, x))
  BY <1>0, <1>1, Pointed DEF InformalLink
<1>4. Grows(s, EvidenceLink(doc, s, x))
  BY <1>0, Pointed DEF EvidenceLink
<1>5. Grows(s, DependencyLink(doc, s, x))
  BY <1>0, <1>1, Pointed DEF DependencyLink
<1>6. Grows(s, Relationship(doc, s, x))
  BY <1>0, <1>1, Pointed DEF Relationship
<1>7. Grows(s, SubjectLink(doc, s, x))
  BY <1>2, Pointed DEF SubjectLink
<1> QED BY <1>3, <1>4, <1>5, <1>6, <1>7

(* The passes over the links of a document are such folds.                 *)
LEMMA PassesOfDocument ==
  \A s, doc, base, list :
    /\ InformalLinks(s, doc) = G!Over(Pass("informal", doc, base, list), s, doc.links)
    /\ EvidenceLinks(s, doc) = G!Over(Pass("evidence", doc, base, list), s, doc.links)
    /\ DependencyLinks(s, doc) = G!Over(Pass("dependency", doc, base, list), s, doc.links)
    /\ Relationships(s, doc) = G!Over(Pass("relationship", doc, base, list), s, doc.rels)
    /\ Subjects(s, doc) = G!Over(Pass("subject", doc, base, list), s, doc.subjects)
<1> SUFFICES ASSUME NEW s, NEW doc, NEW base, NEW list PROVE
    /\ InformalLinks(s, doc) = G!Over(Pass("informal", doc, base, list), s, doc.links)
    /\ EvidenceLinks(s, doc) = G!Over(Pass("evidence", doc, base, list), s, doc.links)
    /\ DependencyLinks(s, doc) = G!Over(Pass("dependency", doc, base, list), s, doc.links)
    /\ Relationships(s, doc) = G!Over(Pass("relationship", doc, base, list), s, doc.rels)
    /\ Subjects(s, doc) = G!Over(Pass("subject", doc, base, list), s, doc.subjects)
  OBVIOUS
<1>1. InformalLinks(s, doc) = G!Over(Pass("informal", doc, base, list), s, doc.links)
  BY DEF InformalLinks, FoldLeft, MapThenFoldSet, G!Over, G!FoldLeft, G!MapThenFoldSet, Step,
         GraphStep, Pass, Max, G!Max
<1>2. EvidenceLinks(s, doc) = G!Over(Pass("evidence", doc, base, list), s, doc.links)
  BY DEF EvidenceLinks, FoldLeft, MapThenFoldSet, G!Over, G!FoldLeft, G!MapThenFoldSet, Step,
         GraphStep, Pass, Max, G!Max
<1>3. DependencyLinks(s, doc) = G!Over(Pass("dependency", doc, base, list), s, doc.links)
  BY DEF DependencyLinks, FoldLeft, MapThenFoldSet, G!Over, G!FoldLeft, G!MapThenFoldSet, Step,
         GraphStep, Pass, Max, G!Max
<1>4. Relationships(s, doc) = G!Over(Pass("relationship", doc, base, list), s, doc.rels)
  BY DEF Relationships, FoldLeft, MapThenFoldSet, G!Over, G!FoldLeft, G!MapThenFoldSet, Step,
         GraphStep, Pass, Max, G!Max
<1>5. Subjects(s, doc) = G!Over(Pass("subject", doc, base, list), s, doc.subjects)
  BY DEF Subjects, FoldLeft, MapThenFoldSet, G!Over, G!FoldLeft, G!MapThenFoldSet, Step,
         GraphStep, Pass, Max, G!Max
<1> QED BY <1>1, <1>2, <1>3, <1>4, <1>5

(* A document as the projection reads it.                                  *)
WellWritten(doc) == IsList(doc.links) /\ IsList(doc.rels) /\ IsList(doc.subjects)

(* All that a document adds in the third pass.                             *)
LEMMA LinksGrow ==
  ASSUME NEW s, SoundGraph(s), NEW doc, WellWritten(doc), HasNode(s, NodeId(doc))
  PROVE  /\ Grows(s, InformalLinks(s, doc))
         /\ Grows(s, EvidenceLinks(s, doc))
         /\ Grows(s, DependencyLinks(s, doc))
         /\ Grows(s, Relationships(s, doc))
         /\ Grows(s, Subjects(s, doc))
<1>1. ASSUME NEW pass \in {"informal", "evidence", "dependency", "relationship", "subject"},
             NEW list, IsList(list)
      PROVE  Grows(s, G!Over(Pass(pass, doc, s, list), s, list))
  <2>1. ASSUME NEW t, NEW x, Grows(s, t)
        PROVE  Grows(t, GraphStep(Pass(pass, doc, s, list), t, x))
    <3>1. SoundGraph(t) /\ HasNode(t, NodeId(doc))
      BY <2>1 DEF Grows, HasNode
    <3>2. /\ Grows(t, InformalLink(doc, t, x))
          /\ Grows(t, EvidenceLink(doc, t, x))
          /\ Grows(t, DependencyLink(doc, t, x))
          /\ Grows(t, Relationship(doc, t, x))
          /\ Grows(t, SubjectLink(doc, t, x))
      BY <3>1, DocumentLinksGrow
    <3> QED BY <3>2 DEF GraphStep, Pass
  <2>2. pass \in Inner
    BY DEF Inner
  <2> QED BY <2>1, <2>2, <1>1, PassGrows
<1>2. IsList(doc.links) /\ IsList(doc.rels) /\ IsList(doc.subjects)
  BY DEF WellWritten
<1>3. /\ InformalLinks(s, doc) = G!Over(Pass("informal", doc, s, doc.links), s, doc.links)
      /\ EvidenceLinks(s, doc) = G!Over(Pass("evidence", doc, s, doc.links), s, doc.links)
      /\ DependencyLinks(s, doc) = G!Over(Pass("dependency", doc, s, doc.links), s, doc.links)
      /\ Relationships(s, doc) = G!Over(Pass("relationship", doc, s, doc.rels), s, doc.rels)
      /\ Subjects(s, doc) = G!Over(Pass("subject", doc, s, doc.subjects), s, doc.subjects)
  BY PassesOfDocument
<1> QED BY <1>1, <1>2, <1>3

(* The third pass makes the graph grow, document by document.              *)
LEMMA EdgesGrow ==
  ASSUME NEW s, SoundGraph(s), NEW doc, WellWritten(doc)
  PROVE  Grows(s, AddEdges(s, doc))
<1>0. Grows(s, s)
  BY DEF Grows
<1>1. CASE Class(doc) # "projectable" \/ ~HasNode(s, NodeId(doc))
  BY <1>0, <1>1 DEF AddEdges
<1>2. CASE Class(doc) = "projectable" /\ HasNode(s, NodeId(doc))
  <2> DEFINE n == NodeId(doc)
  <2>1. ASSUME NEW t, SoundGraph(t), HasNode(t, n)
        PROVE  /\ Grows(t, InformalLinks(t, doc)) /\ Grows(t, EvidenceLinks(t, doc))
               /\ Grows(t, DependencyLinks(t, doc)) /\ Grows(t, Relationships(t, doc))
               /\ Grows(t, Subjects(t, doc))
    BY <2>1, LinksGrow
  <2>2. ASSUME NEW t, NEW u, HasNode(t, n), Grows(t, u) PROVE SoundGraph(u) /\ HasNode(u, n)
    BY <2>2 DEF Grows, HasNode
  <2> DEFINE a == InformalLinks(s, doc)
             b == EvidenceLinks(a, doc)
             d == DependencyLinks(b, doc)
             e == Relationships(d, doc)
             f == Subjects(a, doc)
  <2> HIDE DEF n
  <2>3. Grows(s, a) /\ SoundGraph(a) /\ HasNode(a, n)
    BY <1>2, <2>1, <2>2 DEF n
  <2>4. Grows(a, b) /\ SoundGraph(b) /\ HasNode(b, n)
    <3> HIDE DEF a
    <3> QED BY <2>1, <2>2, <2>3
  <2>5. Grows(b, d) /\ SoundGraph(d) /\ HasNode(d, n)
    <3> HIDE DEF b
    <3> QED BY <2>1, <2>2, <2>4
  <2>6. Grows(d, e)
    <3> HIDE DEF d
    <3> QED BY <2>1, <2>5
  <2>7. Grows(a, f)
    <3> HIDE DEF a
    <3> QED BY <2>1, <2>3
  <2>8. AddEdges(s, doc) \in {a, e, f}
    BY <1>2 DEF AddEdges
  <2> HIDE DEF a, b, d, e, f
  <2>9. Grows(s, e) /\ Grows(s, f)
    BY <2>3, <2>4, <2>5, <2>6, <2>7, GrowsOn
  <2> QED BY <2>3, <2>8, <2>9
<1> QED BY <1>1, <1>2

-----------------------------------------------------------------------------
(* A scope has a document of its own if it is none of a work item.         *)
OwnScope(doc) == ~(doc.kind = "scope" /\ doc.id # Absent /\ doc.id[1] = "wi")

(* The first pass keeps nodes apart.                                       *)
LEMMA DocumentsStayFresh ==
  ASSUME NEW s, FreshGraph(s), NEW doc, OwnScope(doc)
  PROVE  FreshGraph(AddDocument(s, doc))
<1> DEFINE n == Created(doc)
           t == AddDocument(s, doc)
           scope == <<"scope", n[2]>>
<1>1. CASE Class(doc) # "projectable"
  BY <1>1 DEF AddDocument
<1>2. CASE Class(doc) = "projectable" /\ HasNode(s, n)
  <2>1. t.nodes = s.nodes /\ t.edges = s.edges
    BY <1>2 DEF AddDocument, Graph
  <2> HIDE DEF t
  <2>2. FreshGraph(t)
    BY <2>1 DEF FreshGraph, HasNode
  <2> QED BY <2>2 DEF t
<1>3. CASE Class(doc) = "projectable" /\ ~HasNode(s, n)
  <2>0. doc.id # Absent /\ NodeId(doc) # Absent
    BY <1>3 DEF Class
  <2>1. CASE doc.kind = "work-item"
    <3>1. WorkItemRef(doc.id) # Absent /\ n = <<"work-item", WorkItemRef(doc.id)>>
      BY <2>0, <2>1 DEF Created, NodeId
    <3>2. n[2] = WorkItemRef(doc.id) /\ n[2][1] = "wi"
      BY <3>1 DEF WorkItemRef
    <3>3. t.nodes = Append(Append(s.nodes, n), scope) /\ t.edges = s.edges
      BY <1>3, <2>1 DEF AddDocument, Graph
    <3>4. n = <<"work-item", n[2]>> /\ n # scope
      BY <3>1
    <3>5. ~HasNode(s, scope)
      <4>1. \A r : r[1] = "wi" /\ HasNode(s, <<"scope", r>>) => HasNode(s, <<"work-item", r>>)
        BY DEF FreshGraph
      <4> HIDE DEF n
      <4> QED BY <1>3, <3>2, <3>4, <4>1
    <3> HIDE DEF n, t, scope
    <3>6. /\ IsSeq(Append(s.nodes, n)) /\ ToSet(Append(s.nodes, n)) = ToSet(s.nodes) \cup {n}
          /\ IsInjective(Append(s.nodes, n))
      BY <1>3, OneMore DEF FreshGraph, HasNode
    <3>7. scope \notin ToSet(Append(s.nodes, n))
      BY <3>4, <3>5, <3>6 DEF HasNode
    <3>8. IsSeq(t.nodes) /\ ToSet(t.nodes) = ToSet(s.nodes) \cup {n, scope} /\ IsInjective(t.nodes)
      <4>1. /\ IsSeq(Append(Append(s.nodes, n), scope))
            /\ ToSet(Append(Append(s.nodes, n), scope)) = ToSet(Append(s.nodes, n)) \cup {scope}
            /\ IsInjective(Append(Append(s.nodes, n), scope))
        BY <3>6, <3>7, OneMore
      <4> QED BY <3>3, <3>6, <4>1
    <3>9. ASSUME NEW r, r[1] = "wi", HasNode(t, <<"scope", r>>) PROVE HasNode(t, <<"work-item", r>>)
      <4>1. CASE <<"scope", r>> = scope
        <5>1. r = n[2]
          BY <4>1 DEF scope
        <5> QED BY <3>4, <3>8, <5>1 DEF HasNode
      <4>2. CASE <<"scope", r>> = n
        BY <3>4, <4>2
      <4>3. CASE HasNode(s, <<"scope", r>>)
        BY <3>8, <3>9, <4>3 DEF FreshGraph, HasNode
      <4> QED BY <3>8, <3>9, <4>1, <4>2, <4>3 DEF HasNode
    <3>10. FreshGraph(t)
      BY <3>3, <3>8, <3>9 DEF FreshGraph
    <3> QED BY <3>10 DEF t
  <2>2. CASE doc.kind # "work-item"
    <3>1. /\ n[1] # "work-item"
          /\ n[1] = "scope" => n[2][1] # "wi"
      BY <2>0, <2>2 DEF Created, NodeId, OwnScope
    <3>2. t.nodes = Append(s.nodes, n) /\ t.edges = s.edges
      BY <1>3, <2>2 DEF AddDocument, Graph
    <3> HIDE DEF n, t, scope
    <3>3. IsSeq(t.nodes) /\ ToSet(t.nodes) = ToSet(s.nodes) \cup {n} /\ IsInjective(t.nodes)
      BY <1>3, <3>2, OneMore DEF FreshGraph, HasNode
    <3>4. ASSUME NEW r, r[1] = "wi", HasNode(t, <<"scope", r>>) PROVE HasNode(t, <<"work-item", r>>)
      <4>1. <<"scope", r>>[1] = "scope" /\ <<"scope", r>>[2] = r
        OBVIOUS
      <4>2. <<"scope", r>> # n
        BY <3>1, <3>4, <4>1
      <4>3. HasNode(s, <<"scope", r>>)
        BY <3>3, <3>4, <4>2 DEF HasNode
      <4> QED BY <3>3, <3>4, <4>3 DEF FreshGraph, HasNode
    <3>5. FreshGraph(t)
      BY <3>2, <3>3, <3>4 DEF FreshGraph
    <3> QED BY <3>5 DEF t
  <2> QED BY <2>1, <2>2
<1> QED BY <1>1, <1>2, <1>3

(* A fresh graph is a sound one.                                           *)
LEMMA FreshIsSound == \A s : FreshGraph(s) => SoundGraph(s)
<1> SUFFICES ASSUME NEW s, FreshGraph(s) PROVE SoundGraph(s)
  OBVIOUS
<1>1. <<>> \in Seq({}) /\ ToSet(<<>>) = {}
  BY DEF ToSet
<1> QED BY <1>1 DEF FreshGraph, SoundGraph, IsSeq

(* What a graph shows, a greater one shows.                                *)
LEMMA ShownStays ==
  ASSUME NEW s, NEW t, Grows(s, t)
  PROVE  /\ \A c : ClaimShown(s, c) => ClaimShown(t, c)
         /\ \A l : LockShown(s, l) => LockShown(t, l)
<1>1. ToSet(s.nodes) \subseteq ToSet(t.nodes) /\ ToSet(s.edges) \subseteq ToSet(t.edges)
  BY DEF Grows
<1>2. \A c : ClaimShown(s, c) => ClaimShown(t, c)
  BY <1>1 DEF ClaimShown, HasNode, Joined
<1>3. \A l : LockShown(s, l) => LockShown(t, l)
  BY <1>1 DEF LockShown, HasNode
<1> QED BY <1>2, <1>3

(* The second pass shows a claim, and a lock if its claim is there.        *)
LEMMA ClaimIsShown ==
  ASSUME NEW s, SoundGraph(s), NEW c
  PROVE  Grows(s, AddClaim(s, c)) /\ ClaimShown(AddClaim(s, c), c)
<1> DEFINE from == <<"claim", c.token>>
           to == <<"scope", ClaimScope(c)>>
           a == WithNode(s, from)
           b == WithNode(a, to)
           e == Edge(from, "belongs_to", to, c.token, "edge", to)
           t == WithEdge(b, e)
<1>1. AddClaim(s, c) = t
  BY DEF AddClaim
<1>2. e.from = from /\ e.to = to /\ e.type = "belongs_to"
  BY EndsOfEdge
<1> HIDE DEF from, to
<1>3. Grows(s, a) /\ HasNode(a, from) /\ SoundGraph(a)
  BY NodeAdded DEF Grows
<1>4. Grows(a, b) /\ HasNode(b, to) /\ SoundGraph(b)
  <2> HIDE DEF a
  <2> QED BY <1>3, NodeAdded DEF Grows
<1> HIDE DEF a, b, e
<1>5. HasNode(b, from)
  BY <1>3, <1>4 DEF Grows, HasNode
<1>6. Grows(b, t) /\ e \in ToSet(t.edges)
  BY <1>2, <1>4, <1>5, EdgeAdded
<1> HIDE DEF t
<1>7. HasNode(t, from) /\ HasNode(t, to) /\ Joined(t, from, "belongs_to", to)
  BY <1>2, <1>4, <1>5, <1>6 DEF Grows, HasNode, Joined
<1>8. Grows(s, t)
  BY <1>3, <1>4, <1>6, GrowsOn
<1> QED BY <1>1, <1>7, <1>8 DEF ClaimShown, from, to

(* The same of a lock.                                                     *)
LEMMA LockIsShown ==
  ASSUME NEW s, SoundGraph(s), NEW l
  PROVE  /\ Grows(s, AddLock(s, l))
         /\ l.state = "active" /\ HasNode(s, <<"claim", l.token>>) => LockShown(AddLock(s, l), l)
<1> DEFINE from == <<"claim", l.token>>
           to == <<"scope", Canonical(l.scope)>>
           a == WithNode(s, to)
           e == Edge(from, "locks", to, l.token, "scope_lock", l.scope)
           t == WithEdge(a, e)
<1>1. CASE l.state # "active" \/ ~HasNode(s, from)
  <2>1. AddLock(s, l) = s
    BY <1>1 DEF AddLock
  <2> QED BY <1>1, <2>1 DEF Grows
<1>2. CASE l.state = "active" /\ HasNode(s, from)
  <2>1. AddLock(s, l) = t
    BY <1>2 DEF AddLock
  <2>2. e.from = from /\ e.to = to /\ e.type = "locks" /\ e.source = l.token /\ e.raw = l.scope
    BY EndsOfEdge
  <2> HIDE DEF from, to
  <2>3. Grows(s, a) /\ HasNode(a, to) /\ SoundGraph(a)
    BY NodeAdded DEF Grows
  <2> HIDE DEF a, e
  <2>4. HasNode(a, from)
    BY <1>2, <2>3 DEF Grows, HasNode
  <2>5. Grows(a, t) /\ e \in ToSet(t.edges)
    BY <2>2, <2>3, <2>4, EdgeAdded
  <2> HIDE DEF t
  <2>6. Grows(s, t)
    BY <2>3, <2>5, GrowsOn
  <2>7. HasNode(t, to)
    BY <2>3, <2>5 DEF Grows, HasNode
  <2> QED BY <2>1, <2>2, <2>5, <2>6, <2>7 DEF LockShown, from, to
<1> QED BY <1>1, <1>2

-----------------------------------------------------------------------------
(* What is projected: lists of documents, claims and locks.                *)
WellGiven(docs, claims, locks) ==
  /\ IsList(docs) /\ IsList(claims) /\ IsList(locks)
  /\ \A i \in DOMAIN docs : WellWritten(docs[i]) /\ OwnScope(docs[i])

(* The passes over documents, claims and locks are folds.                  *)
LEMMA PassesOfProject ==
  ASSUME NEW base, NEW list
  PROVE  /\ FoldLeft(AddDocument, base, list) = G!Over(Pass("document", 0, base, list), base, list)
         /\ FoldLeft(AddClaim, base, list) = G!Over(Pass("claim", 0, base, list), base, list)
         /\ FoldLeft(AddLock, base, list) = G!Over(Pass("lock", 0, base, list), base, list)
         /\ FoldLeft(AddEdges, base, list) = G!Over(Pass("edges", 0, base, list), base, list)
<1>1. FoldLeft(AddDocument, base, list) = G!Over(Pass("document", 0, base, list), base, list)
  BY DEF FoldLeft, MapThenFoldSet, G!Over, G!FoldLeft, G!MapThenFoldSet, Step, GraphStep,
         Pass, Max, G!Max
<1>2. FoldLeft(AddClaim, base, list) = G!Over(Pass("claim", 0, base, list), base, list)
  BY DEF FoldLeft, MapThenFoldSet, G!Over, G!FoldLeft, G!MapThenFoldSet, Step, GraphStep,
         Pass, Max, G!Max
<1>3. FoldLeft(AddLock, base, list) = G!Over(Pass("lock", 0, base, list), base, list)
  BY DEF FoldLeft, MapThenFoldSet, G!Over, G!FoldLeft, G!MapThenFoldSet, Step, GraphStep,
         Pass, Max, G!Max
<1>4. FoldLeft(AddEdges, base, list) = G!Over(Pass("edges", 0, base, list), base, list)
  BY DEF FoldLeft, MapThenFoldSet, G!Over, G!FoldLeft, G!MapThenFoldSet, Step, GraphStep,
         Pass, Max, G!Max
<1> QED BY <1>1, <1>2, <1>3, <1>4

(* The empty graph is fresh.                                               *)
LEMMA EmptyIsFresh == FreshGraph(Empty)
<1>1. Empty.nodes = <<>> /\ Empty.edges = <<>>
  BY DEF Empty, Graph
<1>2. <<>> \in Seq({}) /\ ToSet(<<>>) = {} /\ IsInjective(<<>>)
  BY DEF ToSet, IsInjective
<1> QED BY <1>1, <1>2 DEF FreshGraph, IsSeq, HasNode

(* The first pass.                                                         *)
LEMMA FirstPass ==
  ASSUME NEW docs, IsList(docs), \A i \in DOMAIN docs : OwnScope(docs[i])
  PROVE  FreshGraph(FoldLeft(AddDocument, Empty, docs))
<1> DEFINE c == Pass("document", 0, Empty, docs)
<1>1. c.pass = "document"
  BY DEF Pass
<1>2. PICK n \in Nat : DOMAIN docs = 1..n
  BY DEF IsList
<1>3. \A s, x : GraphStep(c, s, x) = AddDocument(s, x)
  BY <1>1 DEF GraphStep
<1> HIDE DEF c
<1>4. \A k, s : GraphHolds(c, k, s) <=> FreshGraph(s)
  BY <1>1 DEF GraphHolds
<1>5. \A k \in 1..n : \A s : GraphHolds(c, k - 1, s) => GraphHolds(c, k, GraphStep(c, s, docs[k]))
  BY <1>2, <1>3, <1>4, DocumentsStayFresh
<1>6. GraphHolds(c, n, G!Over(c, Empty, docs))
  BY <1>2, <1>4, <1>5, EmptyIsFresh, PassHolds
<1>7. FreshGraph(G!Over(c, Empty, docs))
  BY <1>4, <1>6
<1> QED BY <1>7, PassesOfProject DEF c

(* The second pass, over the claims.                                       *)
LEMMA ClaimPass ==
  ASSUME NEW base, SoundGraph(base), NEW list, IsList(list)
  PROVE  LET s == FoldLeft(AddClaim, base, list) IN
         Grows(base, s) /\ \A i \in DOMAIN list : ClaimShown(s, list[i])
<1> DEFINE c == Pass("claim", 0, base, list)
           s == FoldLeft(AddClaim, base, list)
<1>1. c.pass = "claim" /\ c.base = base /\ c.list = list
  BY DEF Pass
<1>2. PICK n \in Nat : DOMAIN list = 1..n
  BY DEF IsList
<1>3. \A t, x : GraphStep(c, t, x) = AddClaim(t, x)
  BY <1>1 DEF GraphStep
<1>0. s = G!Over(c, base, list)
  BY PassesOfProject
<1> HIDE DEF c, s
<1>4. \A k, t : GraphHolds(c, k, t) <=> Grows(base, t) /\ \A j \in 1..k : ClaimShown(t, list[j])
  BY <1>1 DEF GraphHolds
<1>5. GraphHolds(c, 0, base)
  BY <1>4 DEF Grows
<1>6. \A k \in 1..n : \A t : GraphHolds(c, k - 1, t) => GraphHolds(c, k, GraphStep(c, t, list[k]))
  <2> SUFFICES ASSUME NEW k \in 1..n, NEW t, GraphHolds(c, k - 1, t)
               PROVE  GraphHolds(c, k, AddClaim(t, list[k]))
    BY <1>3
  <2>1. Grows(base, t) /\ SoundGraph(t) /\ \A j \in 1..(k - 1) : ClaimShown(t, list[j])
    BY <1>4 DEF Grows
  <2>2. Grows(t, AddClaim(t, list[k])) /\ ClaimShown(AddClaim(t, list[k]), list[k])
    BY <2>1, ClaimIsShown
  <2>3. \A j \in 1..(k - 1) : ClaimShown(AddClaim(t, list[k]), list[j])
    BY <2>1, <2>2, ShownStays
  <2>4. \A j \in 1..k : j \in 1..(k - 1) \/ j = k
    OBVIOUS
  <2>5. Grows(base, AddClaim(t, list[k]))
    BY <2>1, <2>2, GrowsOn
  <2> QED BY <1>4, <2>2, <2>3, <2>4, <2>5
<1>7. GraphHolds(c, n, s)
  BY <1>0, <1>2, <1>5, <1>6, PassHolds
<1>8. Grows(base, s) /\ \A i \in DOMAIN list : ClaimShown(s, list[i])
  BY <1>2, <1>4, <1>7
<1> QED BY <1>8 DEF s

(* The second pass, over the locks.                                        *)
LEMMA LockPass ==
  ASSUME NEW base, SoundGraph(base), NEW list, IsList(list)
  PROVE  LET s == FoldLeft(AddLock, base, list) IN
         /\ Grows(base, s)
         /\ \A i \in DOMAIN list :
              list[i].state = "active" /\ HasNode(base, <<"claim", list[i].token>>)
                                   => LockShown(s, list[i])
<1> DEFINE c == Pass("lock", 0, base, list)
           s == FoldLeft(AddLock, base, list)
           Matters(l) == l.state = "active" /\ HasNode(base, <<"claim", l.token>>)
<1>1. c.pass = "lock" /\ c.base = base /\ c.list = list
  BY DEF Pass
<1>2. PICK n \in Nat : DOMAIN list = 1..n
  BY DEF IsList
<1>3. \A t, x : GraphStep(c, t, x) = AddLock(t, x)
  BY <1>1 DEF GraphStep
<1>0. s = G!Over(c, base, list)
  BY PassesOfProject
<1> HIDE DEF c, s
<1>4. \A k, t : GraphHolds(c, k, t)
        <=> Grows(base, t) /\ \A j \in 1..k : Matters(list[j]) => LockShown(t, list[j])
  BY <1>1 DEF GraphHolds
<1>5. GraphHolds(c, 0, base)
  BY <1>4 DEF Grows
<1>6. \A k \in 1..n : \A t : GraphHolds(c, k - 1, t) => GraphHolds(c, k, GraphStep(c, t, list[k]))
  <2> SUFFICES ASSUME NEW k \in 1..n, NEW t, GraphHolds(c, k - 1, t)
               PROVE  GraphHolds(c, k, AddLock(t, list[k]))
    BY <1>3
  <2>1. Grows(base, t) /\ SoundGraph(t) /\ \A j \in 1..(k - 1) : Matters(list[j]) => LockShown(t, list[j])
    BY <1>4 DEF Grows
  <2>2. Grows(t, AddLock(t, list[k])) /\ (Matters(list[k]) => LockShown(AddLock(t, list[k]), list[k]))
    BY <2>1, LockIsShown DEF Grows, HasNode
  <2>3. \A j \in 1..(k - 1) : Matters(list[j]) => LockShown(AddLock(t, list[k]), list[j])
    BY <2>1, <2>2, ShownStays
  <2>4. \A j \in 1..k : j \in 1..(k - 1) \/ j = k
    OBVIOUS
  <2>5. Grows(base, AddLock(t, list[k]))
    BY <2>1, <2>2, GrowsOn
  <2> QED BY <1>4, <2>2, <2>3, <2>4, <2>5
<1>7. GraphHolds(c, n, s)
  BY <1>0, <1>2, <1>5, <1>6, PassHolds
<1>8. Grows(base, s) /\ \A i \in DOMAIN list : Matters(list[i]) => LockShown(s, list[i])
  BY <1>2, <1>4, <1>7
<1> QED BY <1>8 DEF s

(* The third pass.                                                         *)
LEMMA ThirdPass ==
  ASSUME NEW base, SoundGraph(base), NEW docs, IsList(docs), \A i \in DOMAIN docs : WellWritten(docs[i])
  PROVE  Grows(base, FoldLeft(AddEdges, base, docs))
<1> DEFINE c == Pass("edges", 0, base, docs)
<1>1. \A s, x : GraphStep(c, s, x) = AddEdges(s, x)
  BY DEF Pass, GraphStep
<1>2. \A s : \A i \in DOMAIN docs : Grows(base, s) => Grows(s, GraphStep(c, s, docs[i]))
  <2> HIDE DEF c
  <2> QED BY <1>1, EdgesGrow DEF Grows
<1>3. "edges" \in Inner
  BY DEF Inner
<1>4. Grows(base, G!Over(c, base, docs))
  BY <1>2, <1>3, PassGrows
<1> QED BY <1>4, PassesOfProject

(* The graph is sound, and shows every claim, and every active lock of one *)
(* of them.                                                                *)
LEMMA ProjectShows ==
  ASSUME NEW docs, NEW claims, NEW locks, WellGiven(docs, claims, locks)
  PROVE  LET g == Project(docs, claims, locks) IN
         /\ SoundGraph(g)
         /\ \A i \in DOMAIN claims : ClaimShown(g, claims[i])
         /\ \A i \in DOMAIN locks : \A j \in DOMAIN claims :
              locks[i].state = "active" /\ locks[i].token = claims[j].token => LockShown(g, locks[i])
<1> DEFINE a == FoldLeft(AddDocument, Empty, docs)
           b == FoldLeft(AddClaim, a, claims)
           d == FoldLeft(AddLock, b, locks)
           g == FoldLeft(AddEdges, d, docs)
<1>1. SoundGraph(a)
  BY FirstPass, FreshIsSound DEF WellGiven
<1>2. Grows(a, b) /\ SoundGraph(b) /\ \A i \in DOMAIN claims : ClaimShown(b, claims[i])
  <2> HIDE DEF a
  <2> QED BY <1>1, ClaimPass DEF WellGiven, Grows
<1>3. /\ Grows(b, d) /\ SoundGraph(d)
      /\ \A i \in DOMAIN locks : locks[i].state = "active" /\ HasNode(b, <<"claim", locks[i].token>>)
                                 => LockShown(d, locks[i])
  <2> HIDE DEF b
  <2> QED BY <1>2, LockPass DEF WellGiven, Grows
<1>4. Grows(d, g) /\ SoundGraph(g)
  <2> HIDE DEF d
  <2> QED BY <1>3, ThirdPass DEF WellGiven, Grows
<1>5. Project(docs, claims, locks) = g
  BY DEF Project
<1> HIDE DEF a, b, d, g
<1>6. Grows(b, g)
  BY <1>3, <1>4, GrowsOn
<1>7. \A i \in DOMAIN claims : ClaimShown(g, claims[i])
  BY <1>2, <1>6, ShownStays
<1>8. ASSUME NEW i \in DOMAIN locks, NEW j \in DOMAIN claims,
             locks[i].state = "active", locks[i].token = claims[j].token
      PROVE  LockShown(g, locks[i])
  <2>1. HasNode(b, <<"claim", locks[i].token>>)
    BY <1>2, <1>8 DEF ClaimShown
  <2> QED BY <1>3, <1>4, <1>8, <2>1, ShownStays
<1> QED BY <1>4, <1>5, <1>7, <1>8

(* After a renewal the graph shows the claim, its scope and its locks,     *)
(* whatever the documents say, if locks are taken on canonical scopes.     *)
THEOREM RenewalIsVerified ==
  ASSUME NEW docs, NEW claims, NEW locks, WellGiven(docs, claims, locks), NEW j \in DOMAIN claims,
         claims[j].type \in {"task", "work-item"},
         \A i \in DOMAIN locks : locks[i].token = claims[j].token /\ locks[i].state = "active"
                                 => Canonical(locks[i].scope) = locks[i].scope
  PROVE  Verified(Project(docs, claims, locks), claims[j], locks)
<1> DEFINE g == Project(docs, claims, locks)
           c == claims[j]
<1>1. /\ ClaimShown(g, c)
      /\ \A i \in DOMAIN locks : locks[i].state = "active" /\ locks[i].token = c.token => LockShown(g, locks[i])
  BY ProjectShows
<1>2. ClaimScopeRef(c) = ClaimScope(c)
  BY DEF ClaimScopeRef, ClaimScope
<1> HIDE DEF g, c
<1>3. /\ HasNode(g, <<"claim", c.token>>) /\ HasNode(g, <<"scope", ClaimScopeRef(c)>>)
      /\ Joined(g, <<"claim", c.token>>, "belongs_to", <<"scope", ClaimScopeRef(c)>>)
  BY <1>1, <1>2 DEF ClaimShown
<1>4. ASSUME NEW i \in DOMAIN locks, locks[i].token = c.token, locks[i].state = "active"
      PROVE  LET to == <<"scope", locks[i].scope>> IN
             /\ HasNode(g, to)
             /\ \E e \in ToSet(g.edges) : e.from = <<"claim", c.token>> /\ e.type = "locks" /\ e.to = to
                                          /\ e.source = c.token /\ e.raw = locks[i].scope
  <2>1. LockShown(g, locks[i]) /\ Canonical(locks[i].scope) = locks[i].scope
    BY <1>1, <1>4 DEF c
  <2> QED BY <1>4, <2>1 DEF LockShown
<1>5. Verified(g, c, locks)
  BY <1>3, <1>4 DEF Verified
<1> QED BY <1>5 DEF g, c

-----------------------------------------------------------------------------
(* Whatever the edges are, no two of them have one id.                     *)
LEMMA EdgeIdsDiffer ==
  ASSUME NEW edges, IsSeq(edges), NEW i \in DOMAIN edges, NEW j \in DOMAIN edges, i < j
  PROVE  EdgeId(edges, i) # EdgeId(edges, j)
<1> DEFINE N(k) == {m \in 1..k : SameSource(edges[m], edges[k])}
           long(k) == <<edges[k].from, edges[k].type, edges[k].to, edges[k].source, edges[k].key,
                        edges[k].raw, Cardinality(N(k))>>
           short(k) == <<edges[k].from, edges[k].type, edges[k].to>>
<1>1. DOMAIN edges = 1..Len(edges) /\ Len(edges) \in Nat
  BY DEF IsSeq
<1>2. \A k : EdgeId(edges, k) = IF Plain(edges, k) THEN short(k) ELSE long(k)
  BY DEF EdgeId
<1>3. \A k, m : short(k) # long(m)
  <2> SUFFICES ASSUME NEW k, NEW m, short(k) = long(m) PROVE FALSE
    OBVIOUS
  <2>1. Len(short(k)) = 3 /\ Len(long(m)) = 7
    OBVIOUS
  <2> QED BY <2>1
<1>4. ASSUME Plain(edges, i), Plain(edges, j), short(i) = short(j) PROVE FALSE
  <2>1. SameId(edges[j], edges[i])
    BY <1>4 DEF SameId
  <2> QED BY <1>4, <2>1 DEF Plain
<1>5. ASSUME long(i) = long(j) PROVE FALSE
  <2>1. SameSource(edges[i], edges[j]) /\ Cardinality(N(i)) = Cardinality(N(j))
    BY <1>5 DEF SameSource, SameId
  <2>2. N(i) \subseteq N(j)
    BY <1>1, <2>1 DEF SameSource, SameId
  <2>3. j \in N(j) /\ j \notin N(i)
    BY <1>1 DEF SameSource, SameId
  <2>4. IsFiniteSet(N(j))
    <3>1. IsFiniteSet(1..j)
      BY <1>1, FS_Interval
    <3> QED BY <3>1, FS_Subset
  <2>5. Cardinality(N(i)) = Cardinality(N(j)) => N(i) = N(j)
    <3> HIDE DEF N
    <3> QED BY <2>2, <2>4, FS_Subset
  <2> QED BY <2>1, <2>3, <2>5
<1> HIDE DEF long, short
<1> QED BY <1>2, <1>3, <1>4, <1>5

(* Every edge of the graph joins two of its nodes, no node is there twice, *)
(* and no two edges have one id, whatever documents, claims and locks are  *)
(* projected, if no work item's scope has a document of its own.           *)
THEOREM GraphIsClosed ==
  ASSUME NEW docs, NEW claims, NEW locks, WellGiven(docs, claims, locks)
  PROVE  Closed(Project(docs, claims, locks))
<1> DEFINE g == Project(docs, claims, locks)
<1>1. SoundGraph(g)
  BY ProjectShows
<1> HIDE DEF g
<1>2. \A e \in ToSet(g.edges) :
        HasNode(g, e.from) /\ HasNode(g, e.to) /\ e.to \in Neighbours(g, e.from)
  <2> SUFFICES ASSUME NEW e \in ToSet(g.edges) PROVE e.to \in Neighbours(g, e.from)
    BY <1>1 DEF SoundGraph
  <2>1. PICK i \in DOMAIN g.edges : e = g.edges[i]
    BY DEF ToSet
  <2>2. i \in Outgoing(g, e.from)
    BY <2>1 DEF Outgoing
  <2> QED BY <1>1, <2>1, <2>2 DEF SoundGraph, HasNode, Neighbours
<1>3. ASSUME NEW i \in DOMAIN g.edges, NEW j \in DOMAIN g.edges,
             EdgeId(g.edges, i) = EdgeId(g.edges, j)
      PROVE  i = j
  <2>1. IsSeq(g.edges)
    BY <1>1 DEF SoundGraph
  <2>2. DOMAIN g.edges = 1..Len(g.edges) /\ Len(g.edges) \in Nat
    BY <2>1 DEF IsSeq
  <2>3. ~(i < j) /\ ~(j < i)
    BY <1>3, <2>1, EdgeIdsDiffer
  <2> QED BY <2>2, <2>3
<1>4. Closed(g)
  BY <1>1, <1>2, <1>3 DEF Closed, SoundGraph
<1> QED BY <1>4 DEF g

(* The questions about the graph.                                          *)
LEMMA GraphQuestionsAreWellGiven ==
  ASSUME AskGraph
  PROVE  /\ WellGiven(asked'.docs, asked'.claims, asked'.locks)
         /\ 1 \in DOMAIN asked'.claims /\ asked'.claims[1] = TaskClaim
         /\ \A i \in DOMAIN asked'.locks : asked'.locks[i].token = TaskClaim.token
              /\ asked'.locks[i].state = "active"
                   => Canonical(asked'.locks[i].scope) = asked'.locks[i].scope
<1>1. PICK ls \in SeqOf(Links, MaxLinks), rs \in SeqOf(Rels, 1), second \in Seconds,
           ss \in SubjectLists, locks \in LockLists :
        asked' = [kind |-> "graph", docs |-> Workspace(ls, rs, <<>>, second, ss),
                  claims |-> <<TaskClaim>>, locks |-> locks]
  BY DEF AskGraph, Ask
<1>2. \A S : \A m \in Nat : \A f \in SeqOf(S, m) : IsList(f)
  <2> SUFFICES ASSUME NEW S, NEW m \in Nat, NEW f \in SeqOf(S, m) PROVE IsList(f)
    OBVIOUS
  <2>1. PICK n \in 0..m : f \in [1..n -> S]
    BY DEF SeqOf
  <2> QED BY <2>1 DEF IsList
<1>3. IsList(<<>>)
  BY DEF IsList
<1>4. IsList(ls) /\ IsList(rs)
  BY <1>2, MaxLinksIsANumber
<1>0. \A a, b, c : IsList(<<a, b>>) /\ IsList(<<a, b, c>>)
  <2> SUFFICES ASSUME NEW a, NEW b, NEW c PROVE IsList(<<a, b>>) /\ IsList(<<a, b, c>>)
    OBVIOUS
  <2>1. DOMAIN <<a, b>> = 1..2 /\ DOMAIN <<a, b, c>> = 1..3
    OBVIOUS
  <2> QED BY <2>1 DEF IsList
<1>5. IsList(ss)
  BY <1>0, <1>3 DEF SubjectLists
<1>6. IsList(locks)
  BY <1>0, <1>3 DEF LockLists
<1>7. WellWritten(second) /\ OwnScope(second)
  <2>1. PICK id, file : second = Named("work-item", id, file)
    BY DEF Seconds
  <2> QED BY <1>3, <2>1 DEF Named, Document, WellWritten, OwnScope
<1> DEFINE docs == Workspace(ls, rs, <<>>, second, ss)
<1>8. IsList(docs) /\ \A i \in DOMAIN docs : WellWritten(docs[i]) /\ OwnScope(docs[i])
  <2>1. DOMAIN docs = 1..5
    BY DEF Workspace
  <2>2. IsList(docs)
    <3> HIDE DEF docs
    <3> QED BY <2>1 DEF IsList
  <2>3. WellWritten(docs[1]) /\ OwnScope(docs[1])
    BY <1>3, <1>4 DEF Workspace, Document, WellWritten, OwnScope
  <2>4. WellWritten(docs[2]) /\ OwnScope(docs[2])
    BY <1>7 DEF Workspace
  <2>5. WellWritten(docs[3]) /\ OwnScope(docs[3])
    BY <1>3 DEF Workspace, Named, Document, WellWritten, OwnScope
  <2>6. WellWritten(docs[4]) /\ OwnScope(docs[4])
    BY <1>3, <1>5 DEF Workspace, Document, WellWritten, OwnScope
  <2>7. WellWritten(docs[5]) /\ OwnScope(docs[5])
    BY <1>3 DEF Workspace, Named, Document, WellWritten, OwnScope
  <2> HIDE DEF docs
  <2> QED BY <2>1, <2>2, <2>3, <2>4, <2>5, <2>6, <2>7
<1> HIDE DEF docs
<1>9. IsList(<<TaskClaim>>) /\ 1 \in DOMAIN <<TaskClaim>>
  BY DEF IsList
<1>10. \A i \in DOMAIN locks : locks[i].token = TaskClaim.token /\ locks[i].state = "active"
                               => Canonical(locks[i].scope) = locks[i].scope
  <2>1. Canonical(<<"wi", "1">>) = <<"wi", "1">> /\ Canonical(<<"wi", "2">>) = <<"wi", "2">>
    BY DEF Canonical, Absent
  <2>2. Canonical(<<"project", "p">>) = <<"project", "p">>
    BY DEF Canonical, Absent
  <2> QED BY <2>1, <2>2 DEF LockLists, Lock
<1>11. asked'.docs = docs /\ asked'.claims = <<TaskClaim>> /\ asked'.locks = locks
  BY <1>1 DEF docs
<1> HIDE DEF TaskClaim
<1> QED BY <1>6, <1>8, <1>9, <1>10, <1>11 DEF WellGiven

(* In whatever workspace the graph is asked about, every edge has its      *)
(* ends, nothing is there twice, and every edge leads to a neighbour: the  *)
(* half of GraphShowsAll that is about the projection.                     *)
THEOREM GraphsAreClosed == Spec => []GraphClosed
<1>1. Init => GraphClosed
  BY DEF Init, GraphClosed, Asked
<1>2. GraphClosed /\ [Next]_asked => GraphClosed'
  <2> SUFFICES ASSUME GraphClosed, [Next]_asked PROVE GraphClosed'
    OBVIOUS
  <2>1. CASE AskGraph
    <3>1. Closed(Project(asked'.docs, asked'.claims, asked'.locks))
      BY <2>1, GraphQuestionsAreWellGiven, GraphIsClosed
    <3> QED BY <3>1 DEF GraphClosed
  <2>2. CASE AnyAsk /\ ~AskGraph
    <3>1. asked'.kind # "graph"
      BY <2>2, KindsOfQuestions DEF AnyAsk
    <3> QED BY <3>1 DEF GraphClosed, Asked
  <2>3. CASE UNCHANGED asked
    BY <2>3 DEF GraphClosed, Asked
  <2> QED BY <2>1, <2>2, <2>3, NextAsks
<1> QED BY <1>1, <1>2, PTL DEF Spec

(* A renewal that is verified by the graph of claim, locks and documents   *)
(* after it never fails this verification, in whatever workspace it is     *)
(* made.                                                                   *)
THEOREM RenewalsAreVerified == Spec => []RenewalVerifies
<1>1. Init => RenewalVerifies
  BY DEF Init, RenewalVerifies, Asked
<1>2. RenewalVerifies /\ [Next]_asked => RenewalVerifies'
  <2> SUFFICES ASSUME RenewalVerifies, [Next]_asked PROVE RenewalVerifies'
    OBVIOUS
  <2>1. CASE AskGraph
    <3>1. TaskClaim.type \in {"task", "work-item"}
      BY DEF TaskClaim
    <3>2. Verified(Project(asked'.docs, asked'.claims, asked'.locks), TaskClaim, asked'.locks)
      <4> HIDE DEF TaskClaim
      <4> QED BY <2>1, <3>1, GraphQuestionsAreWellGiven, RenewalIsVerified
    <3> QED BY <3>2 DEF RenewalVerifies
  <2>2. CASE AnyAsk /\ ~AskGraph
    <3>1. asked'.kind # "graph"
      BY <2>2, KindsOfQuestions DEF AnyAsk
    <3> QED BY <3>1 DEF RenewalVerifies, Asked
  <2>3. CASE UNCHANGED asked
    BY <2>3 DEF RenewalVerifies, Asked
  <2> QED BY <2>1, <2>2, <2>3, NextAsks
<1> QED BY <1>1, <1>2, PTL DEF Spec

-----------------------------------------------------------------------------
(* What a step says, exactly: which nodes and which edges it adds.  It     *)
(* finds these in the graph before its pass, of which it looks at aliases  *)
(* and at nodes that are no scopes; nothing in the pass changes them.      *)
Alike(s, t) == /\ s.alias = t.alias
               /\ \A n : n[1] # "scope" => (HasNode(s, n) <=> HasNode(t, n))

(* What an edge to a node adds, if the node is anything.                   *)
PointNode(to, n) == to # Absent /\ to[1] = "scope" /\ n = to
PointEdge(from, type, to, doc, key, raw, e) ==
  to # Absent /\ e = Edge(from, type, to, doc.file, key, raw)

(* Where a part of a document leads to in the graph b: Absent if nowhere.  *)
Destination(pass, doc, b, x) ==
  CASE pass = "informal" -> IF x.key \in {"depends_on", "evidence"} THEN Absent ELSE Target(b, x.ref)
    [] pass = "evidence" -> IF x.key = "evidence" /\ Resolve(b, x.ref) # Absent
                                 /\ Resolve(b, x.ref)[1] = "record" /\ HasNode(b, Resolve(b, x.ref))
                            THEN NodeId(doc) ELSE Absent
    [] pass = "dependency" -> IF x.key = "depends_on" THEN Target(b, x.ref) ELSE Absent
    [] pass = "relationship" -> IF x.key \in DOMAIN RelationType THEN Target(b, x.ref) ELSE Absent
    [] pass = "subject" -> Subject(b, x)
    [] OTHER -> Absent

(* The edge that a part of a document makes to there.                      *)
PartEdge(pass, doc, b, x, e) == LET to == Destination(pass, doc, b, x) IN
  CASE pass = "informal" -> PointEdge(NodeId(doc), "references", to, doc, x.key, x.ref, e)
    [] pass = "evidence" -> PointEdge(Resolve(b, x.ref), "records", to, doc, x.key, x.ref, e)
    [] pass = "dependency" -> PointEdge(NodeId(doc), "depends_on", to, doc, x.key, x.ref, e)
    [] pass = "relationship" -> PointEdge(NodeId(doc), RelationType[x.key], to, doc, x.key, x.ref, e)
    [] pass = "subject" -> PointEdge(NodeId(doc), "records", to, doc, "subject_reference", x, e)
    [] OTHER -> FALSE

(* The passes over a document, and the parts of it that each goes through. *)
PassesOver(doc) == {"informal"} \cup
  (CASE doc.kind = "work-item" -> {"evidence", "dependency", "relationship"}
     [] doc.kind = "record" -> {"subject"}
     [] OTHER -> {})
Parts(pass, doc) == CASE pass = "relationship" -> ToSet(doc.rels)
                      [] pass = "subject" -> ToSet(doc.subjects)
                      [] OTHER -> ToSet(doc.links)
Linkable(b, doc) == Class(doc) = "projectable" /\ HasNode(b, NodeId(doc))

(* What a step of a pass adds to the graph.                                *)
GivesNode(c, x, n) ==
  CASE c.pass = "claim" -> n \in {<<"claim", x.token>>, <<"scope", ClaimScope(x)>>}
    [] c.pass = "lock" -> /\ x.state = "active" /\ HasNode(c.base, <<"claim", x.token>>)
                          /\ n = <<"scope", Canonical(x.scope)>>
    [] c.pass = "edges" -> Linkable(c.base, x) /\ \E pass \in PassesOver(x) : \E y \in Parts(pass, x) :
                             PointNode(Destination(pass, x, c.base, y), n)
    [] OTHER -> PointNode(Destination(c.pass, c.doc, c.base, x), n)
GivesEdge(c, x, e) ==
  CASE c.pass = "claim" -> LET to == <<"scope", ClaimScope(x)>> IN
                           e = Edge(<<"claim", x.token>>, "belongs_to", to, x.token, "edge", to)
    [] c.pass = "lock" -> /\ x.state = "active" /\ HasNode(c.base, <<"claim", x.token>>)
                          /\ e = Edge(<<"claim", x.token>>, "locks", <<"scope", Canonical(x.scope)>>,
                                      x.token, "scope_lock", x.scope)
    [] c.pass = "edges" -> Linkable(c.base, x) /\ \E pass \in PassesOver(x) : \E y \in Parts(pass, x) :
                             PartEdge(pass, x, c.base, y, e)
    [] OTHER -> PartEdge(c.pass, c.doc, c.base, x, e)

(* A graph to which elements can be added; a graph with certain additions. *)
Appendable(s) == IsSeq(s.nodes) /\ IsSeq(s.edges)
StepAdds(c, s, x) == LET t == GraphStep(c, s, x) IN
  /\ Appendable(t) /\ t.alias = s.alias
  /\ \A n : HasNode(t, n) <=> HasNode(s, n) \/ GivesNode(c, x, n)
  /\ \A e : e \in ToSet(t.edges) <=> e \in ToSet(s.edges) \/ GivesEdge(c, x, e)
PassAdds(c, k, s) ==
  /\ Appendable(s) /\ s.alias = c.base.alias
  /\ \A n : HasNode(s, n) <=> HasNode(c.base, n) \/ \E j \in 1..k : GivesNode(c, c.list[j], n)
  /\ \A e : e \in ToSet(s.edges)
              <=> e \in ToSet(c.base.edges) \/ \E j \in 1..k : GivesEdge(c, c.list[j], e)

(* A pass that adds nothing but scopes leaves what its steps look at; the  *)
(* pass over the claims looks at nothing.                                  *)
Steady(c) == c.pass = "claim" \/ \A x, n : GivesNode(c, x, n) => n[1] = "scope"
Looks(c, s) == \/ c.pass = "claim"
               \/ Alike(s, c.base) /\ \A n : HasNode(c.base, n) => HasNode(s, n)

(* A pass adds what its steps do.                                          *)
LEMMA PassIsExact ==
  ASSUME NEW c, Steady(c), Appendable(c.base), NEW n \in Nat, DOMAIN c.list = 1..n,
         \A k \in 1..n : \A s : Appendable(s) /\ Looks(c, s) => StepAdds(c, s, c.list[k])
  PROVE  PassAdds(c, n, G!Over(c, c.base, c.list))
<1> DEFINE base == c.base
           list == c.list
<1>0. PICK h : G!Goes(h, c, base, list, n)
  <2> HIDE DEF base, list
  <2> QED BY G!FoldSteps DEF list
<1>1. /\ h[0] = base
      /\ \A k \in 1..n : h[k] = GraphStep(c, h[k - 1], list[k])
      /\ G!Over(c, base, list) = h[n]
  BY <1>0 DEF G!Goes, Step
<1> DEFINE S == {k \in Nat : k <= n => PassAdds(c, k, h[k])}
<1>2. 0 \in S
  BY <1>1 DEF PassAdds
<1>3. ASSUME NEW k \in S PROVE k + 1 \in S
  <2>1. SUFFICES ASSUME k + 1 <= n PROVE PassAdds(c, k + 1, h[k + 1])
    OBVIOUS
  <2>2. k \in Nat /\ k <= n /\ PassAdds(c, k, h[k]) /\ k + 1 \in 1..n /\ (k + 1) - 1 = k
    BY <2>1
  <2> DEFINE s == h[k]
             x == list[k + 1]
  <2>3. h[k + 1] = GraphStep(c, s, x)
    BY <1>1, <2>2
  <2>4. \A j : j \in 1..(k + 1) <=> j \in 1..k \/ j = k + 1
    BY <2>2
  <2>5. PassAdds(c, k, s)
    BY <2>2
  <2>6. Looks(c, s)
    <3> HIDE DEF s
    <3> QED BY <2>5 DEF PassAdds, Looks, Steady, Alike
  <2>7. StepAdds(c, s, x)
    <3> HIDE DEF s
    <3> QED BY <2>2, <2>5, <2>6 DEF PassAdds
  <2>8. PassAdds(c, k + 1, GraphStep(c, s, x))
    <3> HIDE DEF s, S
    <3>1. x = c.list[k + 1]
      OBVIOUS
    <3> HIDE DEF x
    <3> QED BY <2>4, <2>5, <2>7, <3>1 DEF PassAdds, StepAdds
  <2> QED BY <2>3, <2>8
<1>4. S = Nat
  <2> S \in SUBSET Nat
    OBVIOUS
  <2> HIDE DEF S
  <2> QED BY <1>2, <1>3, F!SetInduction
<1>5. PassAdds(c, n, h[n])
  BY <1>4
<1> QED BY <1>1, <1>5

-----------------------------------------------------------------------------
(* Nodes and edges that are added are there, and nothing else is.          *)
LEMMA NodeExact ==
  ASSUME NEW s, Appendable(s), NEW m
  PROVE  LET t == WithNode(s, m) IN
         /\ Appendable(t) /\ t.alias = s.alias /\ t.edges = s.edges
         /\ \A n : HasNode(t, n) <=> HasNode(s, n) \/ n = m
<1> DEFINE t == WithNode(s, m)
<1>1. CASE HasNode(s, m)
  BY <1>1 DEF WithNode
<1>2. CASE ~HasNode(s, m)
  <2>1. t.nodes = Append(s.nodes, m) /\ t.edges = s.edges /\ t.alias = s.alias
    BY <1>2 DEF WithNode, Graph
  <2>2. IsSeq(t.nodes) /\ ToSet(t.nodes) = ToSet(s.nodes) \cup {m}
    <3>1. IsSeq(s.nodes)
      BY DEF Appendable
    <3> QED BY <2>1, <3>1, OneMore
  <2> HIDE DEF t
  <2>3. \A n : HasNode(t, n) <=> HasNode(s, n) \/ n = m
    BY <2>2 DEF HasNode
  <2>4. Appendable(t)
    BY <2>1, <2>2 DEF Appendable
  <2> QED BY <2>1, <2>3, <2>4 DEF t
<1> QED BY <1>1, <1>2

(* An edge that is added is there, under its own key, and no other.        *)
LEMMA EdgeExact ==
  ASSUME NEW s, Appendable(s), NEW f
  PROVE  LET t == WithEdge(s, f) IN
         /\ Appendable(t) /\ t.alias = s.alias /\ t.nodes = s.nodes
         /\ \A e : e \in ToSet(t.edges) <=> e \in ToSet(s.edges) \/ e = f
<1> DEFINE t == WithEdge(s, f)
<1>1. t.nodes = s.nodes /\ t.edges = Append(s.edges, f) /\ t.alias = s.alias
  BY DEF WithEdge, Graph
<1>2. IsSeq(t.edges) /\ ToSet(t.edges) = ToSet(s.edges) \cup {f}
  <2>1. IsSeq(s.edges)
    BY DEF Appendable
  <2> QED BY <1>1, <2>1, OneMore
<1> HIDE DEF t
<1>3. Appendable(t)
  BY <1>1, <1>2 DEF Appendable
<1>4. \A e : e \in ToSet(t.edges) <=> e \in ToSet(s.edges) \/ e = f
  BY <1>2
<1> QED BY <1>1, <1>3, <1>4 DEF t

(* A link adds its edge, and the scope it leads to.                        *)
LEMMA PointExact ==
  ASSUME NEW s, Appendable(s), NEW from, NEW type, NEW to, NEW doc, NEW key, NEW raw
  PROVE  LET t == Point(s, from, type, to, doc, key, raw) IN
         /\ Appendable(t) /\ t.alias = s.alias
         /\ \A n : HasNode(t, n) <=> HasNode(s, n) \/ PointNode(to, n)
         /\ \A e : e \in ToSet(t.edges)
                     <=> e \in ToSet(s.edges) \/ PointEdge(from, type, to, doc, key, raw, e)
<1>1. CASE to = Absent
  BY <1>1 DEF Point, PointNode, PointEdge
<1>2. CASE to # Absent
  <2> DEFINE f == Edge(from, type, to, doc.file, key, raw)
             u == IF to[1] = "scope" THEN WithNode(s, to) ELSE s
             t == WithEdge(u, f)
  <2>1. /\ Appendable(u) /\ u.alias = s.alias /\ u.edges = s.edges
        /\ \A n : HasNode(u, n) <=> HasNode(s, n) \/ PointNode(to, n)
    <3>1. CASE to[1] = "scope"
      BY <1>2, <3>1, NodeExact DEF PointNode
    <3>2. CASE to[1] # "scope"
      BY <1>2, <3>2 DEF PointNode
    <3> QED BY <3>1, <3>2
  <2> HIDE DEF u, f
  <2>2. /\ Appendable(t) /\ t.alias = u.alias /\ t.nodes = u.nodes
        /\ \A e : e \in ToSet(t.edges) <=> e \in ToSet(u.edges) \/ e = f
    BY <2>1, EdgeExact
  <2>3. \A e : PointEdge(from, type, to, doc, key, raw, e) <=> e = f
    BY <1>2 DEF PointEdge, f
  <2>4. Point(s, from, type, to, doc, key, raw) = t
    BY <1>2 DEF Point, u, f
  <2> HIDE DEF t
  <2>5. \A n : HasNode(t, n) <=> HasNode(u, n)
    BY <2>2 DEF HasNode
  <2> QED BY <2>1, <2>2, <2>3, <2>4, <2>5
<1> QED BY <1>1, <1>2

(* What a step looks up is the same in graphs that are alike.              *)
LEMMA SameDestinations ==
  ASSUME NEW s, NEW b, Alike(s, b)
  PROVE  /\ \A ref : Resolve(s, ref) = Resolve(b, ref)
         /\ \A pass, doc, x : Destination(pass, doc, s, x) = Destination(pass, doc, b, x)
         /\ \A pass, doc, x, e : PartEdge(pass, doc, s, x, e) <=> PartEdge(pass, doc, b, x, e)
<1>1. \A ref : Resolve(s, ref) = Resolve(b, ref)
  BY DEF Resolve, Alike
<1>2. \A n : n[1] # "scope" => (HasNode(s, n) <=> HasNode(b, n))
  BY DEF Alike
<1>3. \A ref : Target(s, ref) = Target(b, ref)
  BY <1>1, <1>2 DEF Target
<1>4. \A ref : Subject(s, ref) = Subject(b, ref)
  <2> SUFFICES ASSUME NEW ref PROVE Subject(s, ref) = Subject(b, ref)
    OBVIOUS
  <2>1. CASE ref[1] = "claim"
    BY <1>2, <2>1 DEF Subject
  <2>2. CASE ref[1] # "claim"
    BY <1>1, <1>3, <2>2 DEF Subject
  <2> QED BY <2>1, <2>2
<1>5. \A pass, doc, x : Destination(pass, doc, s, x) = Destination(pass, doc, b, x)
  BY <1>1, <1>2, <1>3, <1>4 DEF Destination
<1>6. \A pass, doc, x, e : PartEdge(pass, doc, s, x, e) <=> PartEdge(pass, doc, b, x, e)
  BY <1>1, <1>5 DEF PartEdge
<1> QED BY <1>1, <1>5, <1>6

(* The steps within a document.                                            *)
InDocument == {"informal", "evidence", "dependency", "relationship", "subject"}

(* Each of them adds what one part of the document says.                   *)
LEMMA PartIsExact ==
  ASSUME NEW pass \in InDocument, NEW doc, NEW base, NEW list, NEW s, Appendable(s), Alike(s, base), NEW x
  PROVE  StepAdds(Pass(pass, doc, base, list), s, x)
<1> DEFINE c == Pass(pass, doc, base, list)
           to == Destination(pass, doc, s, x)
           Made(t, from, type, key, raw) == Point(t, from, type, to, doc, key, raw)
<1>1. c.pass = pass /\ c.doc = doc /\ c.base = base
  BY DEF Pass
<1>2. /\ \A n : GivesNode(c, x, n) <=> PointNode(to, n)
      /\ \A e : GivesEdge(c, x, e) <=> PartEdge(pass, doc, s, x, e)
  <2> HIDE DEF c, to
  <2>1. pass \notin {"claim", "lock", "edges"}
    BY DEF InDocument
  <2>2. to = Destination(pass, doc, base, x)
    BY SameDestinations DEF to
  <2>3. \A e : PartEdge(pass, doc, s, x, e) <=> PartEdge(pass, doc, base, x, e)
    BY SameDestinations
  <2>4. \A n : GivesNode(c, x, n) <=> PointNode(to, n)
    BY <1>1, <2>1, <2>2 DEF GivesNode
  <2>5. \A e : GivesEdge(c, x, e) <=> PartEdge(pass, doc, base, x, e)
    BY <1>1, <2>1 DEF GivesEdge
  <2> QED BY <2>3, <2>4, <2>5
<1>3. \E from, type, key, raw :
        /\ GraphStep(c, s, x) = Point(s, from, type, to, doc, key, raw)
        /\ \A e : PartEdge(pass, doc, s, x, e) <=> PointEdge(from, type, to, doc, key, raw, e)
  <2>0. \A from, type, key, raw : Point(s, from, type, Absent, doc, key, raw) = s
    BY DEF Point
  <2>1. CASE pass = "informal"
    <3> HIDE DEF c
    <3>1. GraphStep(c, s, x) = InformalLink(doc, s, x)
      BY <1>1, <2>1 DEF GraphStep
    <3>2. GraphStep(c, s, x) = Point(s, NodeId(doc), "references", to, doc, x.key, x.ref)
      BY <2>0, <2>1, <3>1 DEF InformalLink, Destination
    <3>3. \A e : PartEdge(pass, doc, s, x, e)
                   <=> PointEdge(NodeId(doc), "references", to, doc, x.key, x.ref, e)
      BY <2>1 DEF PartEdge
    <3> QED BY <3>2, <3>3
  <2>2. CASE pass = "evidence"
    <3> HIDE DEF c
    <3>1. GraphStep(c, s, x) = EvidenceLink(doc, s, x)
      BY <1>1, <2>2 DEF GraphStep
    <3>2. GraphStep(c, s, x) = Point(s, Resolve(s, x.ref), "records", to, doc, x.key, x.ref)
      BY <2>0, <2>2, <3>1 DEF EvidenceLink, Destination
    <3>3. \A e : PartEdge(pass, doc, s, x, e)
                   <=> PointEdge(Resolve(s, x.ref), "records", to, doc, x.key, x.ref, e)
      BY <2>2 DEF PartEdge
    <3> QED BY <3>2, <3>3
  <2>3. CASE pass = "dependency"
    <3> HIDE DEF c
    <3>1. GraphStep(c, s, x) = DependencyLink(doc, s, x)
      BY <1>1, <2>3 DEF GraphStep
    <3>2. GraphStep(c, s, x) = Point(s, NodeId(doc), "depends_on", to, doc, x.key, x.ref)
      BY <2>0, <2>3, <3>1 DEF DependencyLink, Destination
    <3>3. \A e : PartEdge(pass, doc, s, x, e)
                   <=> PointEdge(NodeId(doc), "depends_on", to, doc, x.key, x.ref, e)
      BY <2>3 DEF PartEdge
    <3> QED BY <3>2, <3>3
  <2>4. CASE pass = "relationship"
    <3> HIDE DEF c
    <3>1. GraphStep(c, s, x) = Relationship(doc, s, x)
      BY <1>1, <2>4 DEF GraphStep
    <3> DEFINE type == RelationType[x.key]
    <3>2. GraphStep(c, s, x) = Point(s, NodeId(doc), type, to, doc, x.key, x.ref)
      <4> HIDE DEF type
      <4>1. Relationship(doc, s, x) = IF x.key \notin DOMAIN RelationType THEN s
              ELSE Point(s, NodeId(doc), type, Target(s, x.ref), doc, x.key, x.ref)
        BY DEF Relationship, type
      <4>2. to = IF x.key \in DOMAIN RelationType THEN Target(s, x.ref) ELSE Absent
        BY <2>4 DEF Destination
      <4> HIDE DEF to
      <4> QED BY <2>0, <3>1, <4>1, <4>2
    <3>3. \A e : PartEdge(pass, doc, s, x, e)
                   <=> PointEdge(NodeId(doc), type, to, doc, x.key, x.ref, e)
      BY <2>4 DEF PartEdge
    <3> HIDE DEF type
    <3> QED BY <3>2, <3>3
  <2>5. CASE pass = "subject"
    <3> HIDE DEF c
    <3>1. GraphStep(c, s, x) = SubjectLink(doc, s, x)
      BY <1>1, <2>5 DEF GraphStep
    <3>2. GraphStep(c, s, x) = Point(s, NodeId(doc), "records", to, doc, "subject_reference", x)
      BY <2>5, <3>1 DEF SubjectLink, Destination
    <3>3. \A e : PartEdge(pass, doc, s, x, e)
                   <=> PointEdge(NodeId(doc), "records", to, doc, "subject_reference", x, e)
      BY <2>5 DEF PartEdge
    <3> QED BY <3>2, <3>3
  <2> QED BY <2>1, <2>2, <2>3, <2>4, <2>5 DEF InDocument
<1>4. PICK from, type, key, raw :
        /\ GraphStep(c, s, x) = Point(s, from, type, to, doc, key, raw)
        /\ \A e : PartEdge(pass, doc, s, x, e) <=> PointEdge(from, type, to, doc, key, raw, e)
  BY <1>3
<1> HIDE DEF c, to
<1>5. StepAdds(c, s, x)
  BY <1>2, <1>4, PointExact DEF StepAdds
<1> QED BY <1>5 DEF c

-----------------------------------------------------------------------------
(* The graph t is s with what certain passes over a document say in b.     *)
Said(b, doc, passes, s, t) ==
  /\ Appendable(t) /\ t.alias = s.alias
  /\ \A n : HasNode(t, n) <=> HasNode(s, n) \/ \E pass \in passes : \E y \in Parts(pass, doc) :
                                PointNode(Destination(pass, doc, b, y), n)
  /\ \A e : e \in ToSet(t.edges) <=> e \in ToSet(s.edges) \/ \E pass \in passes : \E y \in Parts(pass, doc) :
                                PartEdge(pass, doc, b, y, e)

(* The passes add up.                                                      *)
LEMMA SaidOn ==
  ASSUME NEW b, NEW doc, NEW P, NEW Q, NEW s, NEW t, NEW u, Said(b, doc, P, s, t), Said(b, doc, Q, t, u)
  PROVE  Said(b, doc, P \cup Q, s, u)
<1>1. \A n : HasNode(u, n) <=> HasNode(s, n) \/ \E pass \in P \cup Q : \E y \in Parts(pass, doc) :
                                 PointNode(Destination(pass, doc, b, y), n)
  BY DEF Said
<1>2. \A e : e \in ToSet(u.edges) <=> e \in ToSet(s.edges) \/ \E pass \in P \cup Q : \E y \in Parts(pass, doc) :
                                 PartEdge(pass, doc, b, y, e)
  BY DEF Said
<1> QED BY <1>1, <1>2 DEF Said

(* They add scopes only.                                                   *)
LEMMA SaidIsAlike ==
  ASSUME NEW b, NEW doc, NEW P, NEW s, NEW t, Alike(s, b), Said(b, doc, P, s, t)
  PROVE  Alike(t, b) /\ Appendable(t)
BY DEF Said, Alike, PointNode

(* One pass.                                                               *)
LEMMA PartsAreExact ==
  ASSUME NEW pass \in InDocument, NEW doc, NEW b, NEW s, Appendable(s), Alike(s, b),
         NEW list, IsList(list), Parts(pass, doc) = ToSet(list)
  PROVE  Said(b, doc, {pass}, s, G!Over(Pass(pass, doc, s, list), s, list))
<1> DEFINE c == Pass(pass, doc, s, list)
           t == G!Over(c, s, list)
<1>1. c.pass = pass /\ c.doc = doc /\ c.base = s /\ c.list = list
  BY DEF Pass
<1>2. PICK n \in Nat : DOMAIN list = 1..n
  BY DEF IsList
<1>3. pass \notin {"claim", "lock", "edges"}
  BY DEF InDocument
<1>4. \A v, x : Appendable(v) /\ Looks(c, v) => StepAdds(c, v, x)
  <2> SUFFICES ASSUME NEW v, NEW x, Appendable(v), Looks(c, v) PROVE StepAdds(c, v, x)
    OBVIOUS
  <2>1. Alike(v, s)
    <3> HIDE DEF c
    <3> QED BY <1>1, <1>3 DEF Looks
  <2> QED BY <2>1, PartIsExact
<1> HIDE DEF c
<1>5. /\ \A x, m : GivesNode(c, x, m) <=> PointNode(Destination(pass, doc, s, x), m)
      /\ \A x, e : GivesEdge(c, x, e) <=> PartEdge(pass, doc, s, x, e)
  BY <1>1, <1>3 DEF GivesNode, GivesEdge
<1>6. Steady(c)
  BY <1>5 DEF Steady, PointNode
<1>7. PassAdds(c, n, t)
  BY <1>1, <1>2, <1>4, <1>6, PassIsExact
<1>8. \A y : y \in Parts(pass, doc) <=> \E j \in 1..n : y = list[j]
  BY <1>2 DEF ToSet
<1>9. /\ \A x : Destination(pass, doc, s, x) = Destination(pass, doc, b, x)
      /\ \A x, e : PartEdge(pass, doc, s, x, e) <=> PartEdge(pass, doc, b, x, e)
  BY SameDestinations
<1> HIDE DEF t
<1>10. \A m : HasNode(t, m) <=> HasNode(s, m) \/ \E y \in Parts(pass, doc) :
                                  PointNode(Destination(pass, doc, b, y), m)
  <2>1. \A m : HasNode(t, m) <=> HasNode(s, m) \/ \E j \in 1..n :
                                  PointNode(Destination(pass, doc, b, list[j]), m)
    BY <1>1, <1>5, <1>7, <1>9 DEF PassAdds
  <2> QED BY <1>8, <2>1
<1>11. \A e : e \in ToSet(t.edges) <=> e \in ToSet(s.edges) \/ \E y \in Parts(pass, doc) :
                                  PartEdge(pass, doc, b, y, e)
  <2>1. \A e : e \in ToSet(t.edges) <=> e \in ToSet(s.edges) \/ \E j \in 1..n :
                                  PartEdge(pass, doc, b, list[j], e)
    BY <1>1, <1>5, <1>7, <1>9 DEF PassAdds
  <2> QED BY <1>8, <2>1
<1>12. Said(b, doc, {pass}, s, t)
  BY <1>1, <1>7, <1>10, <1>11 DEF Said, PassAdds
<1> QED BY <1>12 DEF t, c

(* The passes over a document, each after the one before.                  *)
LEMMA LinksAreExact ==
  ASSUME NEW doc, WellWritten(doc), NEW b, NEW s, Appendable(s), Alike(s, b)
  PROVE  /\ Said(b, doc, {"informal"}, s, InformalLinks(s, doc))
         /\ Said(b, doc, {"evidence"}, s, EvidenceLinks(s, doc))
         /\ Said(b, doc, {"dependency"}, s, DependencyLinks(s, doc))
         /\ Said(b, doc, {"relationship"}, s, Relationships(s, doc))
         /\ Said(b, doc, {"subject"}, s, Subjects(s, doc))
<1>1. IsList(doc.links) /\ IsList(doc.rels) /\ IsList(doc.subjects)
  BY DEF WellWritten
<1>2. /\ Parts("informal", doc) = ToSet(doc.links) /\ Parts("evidence", doc) = ToSet(doc.links)
      /\ Parts("dependency", doc) = ToSet(doc.links) /\ Parts("relationship", doc) = ToSet(doc.rels)
      /\ Parts("subject", doc) = ToSet(doc.subjects)
  BY DEF Parts
<1>3. \A list : \A pass \in InDocument : IsList(list) /\ Parts(pass, doc) = ToSet(list)
        => Said(b, doc, {pass}, s, G!Over(Pass(pass, doc, s, list), s, list))
  BY PartsAreExact
<1>4. /\ InformalLinks(s, doc) = G!Over(Pass("informal", doc, s, doc.links), s, doc.links)
      /\ EvidenceLinks(s, doc) = G!Over(Pass("evidence", doc, s, doc.links), s, doc.links)
      /\ DependencyLinks(s, doc) = G!Over(Pass("dependency", doc, s, doc.links), s, doc.links)
      /\ Relationships(s, doc) = G!Over(Pass("relationship", doc, s, doc.rels), s, doc.rels)
      /\ Subjects(s, doc) = G!Over(Pass("subject", doc, s, doc.subjects), s, doc.subjects)
  BY PassesOfDocument
<1> QED BY <1>1, <1>2, <1>3, <1>4 DEF InDocument

(* A document has its node in the graph, or it is none that others make.   *)
Anchored(b, doc) == Class(doc) = "projectable" /\ NodeId(doc)[1] = "scope" => HasNode(b, NodeId(doc))

(* All that a document says.                                               *)
LEMMA DocumentIsExact ==
  ASSUME NEW doc, WellWritten(doc), NEW b, Anchored(b, doc), NEW s, Appendable(s), Alike(s, b),
         \A n : HasNode(b, n) => HasNode(s, n)
  PROVE  LET t == AddEdges(s, doc) IN
         IF Linkable(b, doc) THEN Said(b, doc, PassesOver(doc), s, t) ELSE t = s
<1>1. Linkable(s, doc) <=> Linkable(b, doc)
  BY DEF Linkable, Anchored, Alike
<1>2. CASE ~Linkable(s, doc)
  BY <1>1, <1>2 DEF AddEdges, Linkable
<1>3. CASE Linkable(s, doc)
  <2> DEFINE a == InformalLinks(s, doc)
             v == EvidenceLinks(a, doc)
             d == DependencyLinks(v, doc)
             r == Relationships(d, doc)
             u == Subjects(a, doc)
  <2>1. AddEdges(s, doc) = CASE doc.kind = "work-item" -> r [] doc.kind = "record" -> u [] OTHER -> a
    BY <1>3 DEF AddEdges, Linkable
  <2>2. Said(b, doc, {"informal"}, s, a) /\ Alike(a, b) /\ Appendable(a)
    <3>1. Said(b, doc, {"informal"}, s, a)
      BY LinksAreExact
    <3> HIDE DEF a
    <3> QED BY <3>1, SaidIsAlike
  <2> HIDE DEF a
  <2>3. Said(b, doc, {"evidence"}, a, v) /\ Alike(v, b) /\ Appendable(v)
    <3>1. Said(b, doc, {"evidence"}, a, v)
      BY <2>2, LinksAreExact
    <3> HIDE DEF v
    <3> QED BY <2>2, <3>1, SaidIsAlike
  <2>4. Said(b, doc, {"subject"}, a, u)
    BY <2>2, LinksAreExact
  <2> HIDE DEF v, u
  <2>5. Said(b, doc, {"dependency"}, v, d) /\ Alike(d, b) /\ Appendable(d)
    <3>1. Said(b, doc, {"dependency"}, v, d)
      BY <2>3, LinksAreExact
    <3> HIDE DEF d
    <3> QED BY <2>3, <3>1, SaidIsAlike
  <2> HIDE DEF d
  <2>6. Said(b, doc, {"relationship"}, d, r)
    BY <2>5, LinksAreExact
  <2> HIDE DEF r
  <2>7. Said(b, doc, {"informal"} \cup {"subject"}, s, u)
    BY <2>2, <2>4, SaidOn
  <2>8. Said(b, doc, {"informal"} \cup {"evidence"}, s, v)
    BY <2>2, <2>3, SaidOn
  <2>9. Said(b, doc, ({"informal"} \cup {"evidence"}) \cup {"dependency"}, s, d)
    BY <2>8, <2>5, SaidOn
  <2>10. Said(b, doc, (({"informal"} \cup {"evidence"}) \cup {"dependency"}) \cup {"relationship"}, s, r)
    BY <2>9, <2>6, SaidOn
  <2>11. /\ doc.kind = "work-item" =>
              PassesOver(doc) = (({"informal"} \cup {"evidence"}) \cup {"dependency"}) \cup {"relationship"}
         /\ doc.kind = "record" => PassesOver(doc) = {"informal"} \cup {"subject"}
         /\ doc.kind \notin {"work-item", "record"} => PassesOver(doc) = {"informal"}
    BY DEF PassesOver
  <2> QED BY <1>1, <1>3, <2>1, <2>2, <2>7, <2>10, <2>11
<1> QED BY <1>2, <1>3

(* The third pass, exactly.                                                *)
LEMMA ThirdIsExact ==
  ASSUME NEW b, Appendable(b), NEW docs, NEW n \in Nat, DOMAIN docs = 1..n,
         \A i \in 1..n : WellWritten(docs[i]) /\ Anchored(b, docs[i])
  PROVE  PassAdds(Pass("edges", 0, b, docs), n, FoldLeft(AddEdges, b, docs))
<1> DEFINE c == Pass("edges", 0, b, docs)
<1>1. c.pass = "edges" /\ c.base = b /\ c.list = docs
  BY DEF Pass
<1> HIDE DEF c
<1>2. Steady(c)
  BY <1>1 DEF Steady, GivesNode, PointNode
<1>3. ASSUME NEW k \in 1..n, NEW s, Appendable(s), Looks(c, s) PROVE StepAdds(c, s, docs[k])
  <2> DEFINE doc == docs[k]
             t == AddEdges(s, doc)
  <2>1. GraphStep(c, s, doc) = t
    BY <1>1 DEF GraphStep
  <2>2. Alike(s, b) /\ \A m : HasNode(b, m) => HasNode(s, m)
    BY <1>1, <1>3 DEF Looks
  <2>3. WellWritten(doc) /\ Anchored(b, doc)
    OBVIOUS
  <2> HIDE DEF doc
  <2>4. IF Linkable(b, doc) THEN Said(b, doc, PassesOver(doc), s, t) ELSE t = s
    BY <1>3, <2>2, <2>3, DocumentIsExact
  <2>5. /\ \A m : GivesNode(c, doc, m) <=> Linkable(b, doc) /\ \E pass \in PassesOver(doc) :
                       \E y \in Parts(pass, doc) : PointNode(Destination(pass, doc, b, y), m)
        /\ \A e : GivesEdge(c, doc, e) <=> Linkable(b, doc) /\ \E pass \in PassesOver(doc) :
                       \E y \in Parts(pass, doc) : PartEdge(pass, doc, b, y, e)
    BY <1>1 DEF GivesNode, GivesEdge
  <2> HIDE DEF t
  <2>6. StepAdds(c, s, doc)
    BY <1>3, <2>1, <2>4, <2>5 DEF StepAdds, Said
  <2> QED BY <2>6 DEF doc
<1>4. PassAdds(c, n, G!Over(c, b, docs))
  BY <1>1, <1>2, <1>3, PassIsExact
<1>5. FoldLeft(AddEdges, b, docs) = G!Over(c, b, docs)
  BY PassesOfProject DEF c
<1> QED BY <1>4, <1>5 DEF c

-----------------------------------------------------------------------------
(* The pass over claims adds the claim and its edge to the work item.      *)
LEMMA ClaimsAreExact ==
  ASSUME NEW b, Appendable(b), NEW claims, NEW n \in Nat, DOMAIN claims = 1..n
  PROVE  PassAdds(Pass("claim", 0, b, claims), n, FoldLeft(AddClaim, b, claims))
<1> DEFINE c == Pass("claim", 0, b, claims)
<1>1. c.pass = "claim" /\ c.base = b /\ c.list = claims
  BY DEF Pass
<1> HIDE DEF c
<1>2. Steady(c)
  BY <1>1 DEF Steady
<1>3. ASSUME NEW s, NEW x, Appendable(s) PROVE StepAdds(c, s, x)
  <2> DEFINE from == <<"claim", x.token>>
             to == <<"scope", ClaimScope(x)>>
             f == Edge(from, "belongs_to", to, x.token, "edge", to)
             u == WithNode(s, from)
             v == WithNode(u, to)
             t == WithEdge(v, f)
  <2>1. GraphStep(c, s, x) = t
    BY <1>1 DEF GraphStep, AddClaim
  <2>2. /\ \A m : GivesNode(c, x, m) <=> m \in {from, to}
        /\ \A e : GivesEdge(c, x, e) <=> e = f
    BY <1>1 DEF GivesNode, GivesEdge
  <2> HIDE DEF from, to, f
  <2>3. /\ Appendable(u) /\ u.alias = s.alias /\ u.edges = s.edges
        /\ \A m : HasNode(u, m) <=> HasNode(s, m) \/ m = from
    BY <1>3, NodeExact
  <2> HIDE DEF u
  <2>4. /\ Appendable(v) /\ v.alias = u.alias /\ v.edges = u.edges
        /\ \A m : HasNode(v, m) <=> HasNode(u, m) \/ m = to
    BY <2>3, NodeExact
  <2> HIDE DEF v
  <2>5. /\ Appendable(t) /\ t.alias = v.alias /\ t.nodes = v.nodes
        /\ \A e : e \in ToSet(t.edges) <=> e \in ToSet(v.edges) \/ e = f
    BY <2>4, EdgeExact
  <2> HIDE DEF t
  <2>6. \A m : HasNode(t, m) <=> HasNode(v, m)
    BY <2>5 DEF HasNode
  <2> QED BY <2>1, <2>2, <2>3, <2>4, <2>5, <2>6 DEF StepAdds
<1>4. PassAdds(c, n, G!Over(c, b, claims))
  BY <1>1, <1>2, <1>3, PassIsExact
<1>5. FoldLeft(AddClaim, b, claims) = G!Over(c, b, claims)
  BY PassesOfProject DEF c
<1> QED BY <1>4, <1>5 DEF c

(* The pass over locks adds the lock, what it locks and its claim's edge.  *)
LEMMA LocksAreExact ==
  ASSUME NEW b, Appendable(b), NEW locks, NEW n \in Nat, DOMAIN locks = 1..n
  PROVE  PassAdds(Pass("lock", 0, b, locks), n, FoldLeft(AddLock, b, locks))
<1> DEFINE c == Pass("lock", 0, b, locks)
<1>1. c.pass = "lock" /\ c.base = b /\ c.list = locks
  BY DEF Pass
<1> HIDE DEF c
<1>2. Steady(c)
  BY <1>1 DEF Steady, GivesNode
<1>3. ASSUME NEW s, NEW x, Appendable(s), Looks(c, s) PROVE StepAdds(c, s, x)
  <2> DEFINE from == <<"claim", x.token>>
             to == <<"scope", Canonical(x.scope)>>
             f == Edge(from, "locks", to, x.token, "scope_lock", x.scope)
             counts == x.state = "active" /\ HasNode(b, from)
             u == WithNode(s, to)
             t == WithEdge(u, f)
  <2>0. HasNode(s, from) <=> HasNode(b, from)
    BY <1>1, <1>3 DEF Looks, Alike
  <2>1. GraphStep(c, s, x) = IF counts THEN t ELSE s
    BY <1>1, <2>0 DEF GraphStep, AddLock
  <2>2. /\ \A m : GivesNode(c, x, m) <=> counts /\ m = to
        /\ \A e : GivesEdge(c, x, e) <=> counts /\ e = f
    BY <1>1 DEF GivesNode, GivesEdge
  <2> HIDE DEF from, to, f, counts
  <2>3. /\ Appendable(u) /\ u.alias = s.alias /\ u.edges = s.edges
        /\ \A m : HasNode(u, m) <=> HasNode(s, m) \/ m = to
    BY <1>3, NodeExact
  <2> HIDE DEF u
  <2>4. /\ Appendable(t) /\ t.alias = u.alias /\ t.nodes = u.nodes
        /\ \A e : e \in ToSet(t.edges) <=> e \in ToSet(u.edges) \/ e = f
    BY <2>3, EdgeExact
  <2> HIDE DEF t
  <2>5. \A m : HasNode(t, m) <=> HasNode(u, m)
    BY <2>4 DEF HasNode
  <2> QED BY <1>3, <2>1, <2>2, <2>3, <2>4, <2>5 DEF StepAdds
<1>4. PassAdds(c, n, G!Over(c, b, locks))
  BY <1>1, <1>2, <1>3, PassIsExact
<1>5. FoldLeft(AddLock, b, locks) = G!Over(c, b, locks)
  BY PassesOfProject DEF c
<1> QED BY <1>4, <1>5 DEF c

-----------------------------------------------------------------------------
(* The nodes that a document makes, and what it can be called.             *)
Makes(doc, n) == /\ Class(doc) = "projectable"
                 /\ \/ n = Created(doc)
                    \/ doc.kind = "work-item" /\ n = <<"scope", Created(doc)[2]>>
Calls(doc, a) == Class(doc) = "projectable" /\ a \in Aliases(doc)

(* The graph after the first k documents.                                  *)
FirstAdds(docs, k, s) ==
  /\ IsSeq(s.nodes) /\ s.edges = <<>>
  /\ s.alias = [a \in DOMAIN s.alias |-> s.alias[a]]
  /\ \A n : HasNode(s, n) <=> \E j \in 1..k : Makes(docs[j], n)
  /\ \A a : a \in DOMAIN s.alias <=> \E j \in 1..k : Calls(docs[j], a)
  /\ \A a \in DOMAIN s.alias : \E j \in 1..k : Calls(docs[j], a) /\ s.alias[a] = NodeId(docs[j])

(* A work item that is there was made by one, with its scope.              *)
LEMMA ItemHasScope ==
  ASSUME NEW doc, NEW other, Class(doc) = "projectable", doc.kind = "work-item", Makes(other, Created(doc))
  PROVE  Makes(other, <<"scope", Created(doc)[2]>>)
<1>1. Created(doc)[1] = "work-item"
  <2>1. NodeId(doc) # Absent /\ doc.id # Absent
    BY DEF Class
  <2>2. NodeId(doc) = <<"work-item", WorkItemRef(doc.id)>>
    BY <2>1 DEF NodeId, Absent
  <2> QED BY <2>2 DEF Created
<1>2. CASE Created(doc) = Created(other)
  <2>1. other.kind = "work-item"
    <3>1. other.kind # "work-item" => Created(other)[1] # "work-item" \/ Created(other) = Absent
      BY DEF Created, NodeId
    <3>2. Created(other)[1] = "work-item" /\ NodeId(other) # Absent
      BY <1>1, <1>2 DEF Makes, Class
    <3>3. other.kind = "scope" => Created(other)[1] = "scope"
      BY DEF Created
    <3>4. other.kind # "scope" => Created(other) = NodeId(other)
      BY DEF Created
    <3> QED BY <3>1, <3>2, <3>3, <3>4
  <2> QED BY <1>2, <2>1 DEF Makes
<1>3. CASE Created(doc) # Created(other)
  BY <1>1, <1>3 DEF Makes
<1> QED BY <1>2, <1>3

(* The first pass, step by step.                                           *)
LEMMA FirstStep ==
  ASSUME NEW docs, NEW k \in Nat, NEW s, FirstAdds(docs, k, s)
  PROVE  FirstAdds(docs, k + 1, AddDocument(s, docs[k + 1]))
<1> DEFINE doc == docs[k + 1]
           t == AddDocument(s, doc)
           n == Created(doc)
<1>0. \A j : j \in 1..(k + 1) <=> j \in 1..k \/ j = k + 1
  OBVIOUS
<1>1. CASE Class(doc) # "projectable"
  <2>1. t = s
    BY <1>1 DEF AddDocument
  <2>2. \A m : ~Makes(doc, m) /\ ~Calls(doc, m)
    BY <1>1 DEF Makes, Calls
  <2> HIDE DEF t
  <2> QED BY <1>0, <2>1, <2>2 DEF FirstAdds, t
<1>2. CASE Class(doc) = "projectable"
  <2> DEFINE nodes == IF HasNode(s, n) THEN s.nodes
             ELSE IF doc.kind = "work-item" THEN Append(Append(s.nodes, n), <<"scope", n[2]>>)
             ELSE Append(s.nodes, n)
  <2>1. t = Graph(nodes, s.edges, WithAliases(s, doc))
    BY <1>2 DEF AddDocument
  <2>2. t.nodes = nodes /\ t.edges = s.edges /\ t.alias = WithAliases(s, doc)
    BY <2>1 DEF Graph
  <2>3. IsSeq(nodes) /\ \A m : m \in ToSet(nodes) <=> m \in ToSet(s.nodes) \/ Makes(doc, m)
    <3>0. IsSeq(s.nodes)
      BY DEF FirstAdds
    <3>1. CASE HasNode(s, n)
      <4>1. \A m : Makes(doc, m) => m \in ToSet(s.nodes)
        <5> SUFFICES ASSUME NEW m, Makes(doc, m) PROVE HasNode(s, m)
          BY DEF HasNode
        <5>1. PICK j \in 1..k : Makes(docs[j], n)
          BY <3>1 DEF FirstAdds
        <5>2. m = n \/ (doc.kind = "work-item" /\ m = <<"scope", n[2]>>)
          BY DEF Makes
        <5>3. Makes(docs[j], m)
          BY <1>2, <5>1, <5>2, ItemHasScope
        <5> QED BY <5>3 DEF FirstAdds
      <4> QED BY <3>0, <3>1, <4>1
    <3>2. CASE ~HasNode(s, n) /\ doc.kind = "work-item"
      <4> DEFINE one == Append(s.nodes, n)
                 two == Append(one, <<"scope", n[2]>>)
      <4>1. IsSeq(one) /\ ToSet(one) = ToSet(s.nodes) \cup {n}
        BY <3>0, OneMore
      <4> HIDE DEF one
      <4>2. IsSeq(two) /\ ToSet(two) = ToSet(one) \cup {<<"scope", n[2]>>}
        BY <4>1, OneMore
      <4>3. nodes = two
        BY <3>2 DEF one
      <4>4. \A m : Makes(doc, m) <=> m \in {n, <<"scope", n[2]>>}
        BY <1>2, <3>2 DEF Makes
      <4> HIDE DEF two, nodes, n
      <4> QED BY <4>1, <4>2, <4>3, <4>4
    <3>3. CASE ~HasNode(s, n) /\ doc.kind # "work-item"
      <4> DEFINE one == Append(s.nodes, n)
      <4>1. IsSeq(one) /\ ToSet(one) = ToSet(s.nodes) \cup {n}
        BY <3>0, OneMore
      <4>2. nodes = one
        BY <3>3
      <4>3. \A m : Makes(doc, m) <=> m = n
        BY <1>2, <3>3 DEF Makes
      <4> HIDE DEF one, nodes, n
      <4> QED BY <4>1, <4>2, <4>3
    <3> QED BY <3>1, <3>2, <3>3
  <2> HIDE DEF t, nodes, n
  <2>4. \A m : HasNode(t, m) <=> \E j \in 1..(k + 1) : Makes(docs[j], m)
    <3>1. \A m : HasNode(t, m) <=> HasNode(s, m) \/ Makes(doc, m)
      BY <2>2, <2>3 DEF HasNode
    <3> QED BY <1>0, <3>1 DEF FirstAdds
  <2> DEFINE A == Aliases(doc) \cup DOMAIN s.alias
  <2>5. /\ DOMAIN t.alias = A /\ t.alias = [a \in DOMAIN t.alias |-> t.alias[a]]
        /\ \A a \in A : t.alias[a] = IF a \in Aliases(doc) THEN NodeId(doc) ELSE s.alias[a]
    BY <2>2 DEF WithAliases
  <2>6. \A a : Calls(doc, a) <=> a \in Aliases(doc)
    BY <1>2 DEF Calls
  <2>7. \A a : a \in DOMAIN t.alias <=> \E j \in 1..(k + 1) : Calls(docs[j], a)
    BY <1>0, <2>5, <2>6 DEF FirstAdds
  <2>8. ASSUME NEW a \in DOMAIN t.alias
        PROVE  \E j \in 1..(k + 1) : Calls(docs[j], a) /\ t.alias[a] = NodeId(docs[j])
    <3>1. CASE a \in Aliases(doc)
      BY <1>0, <2>5, <2>6, <3>1
    <3>2. CASE a \notin Aliases(doc)
      <4>1. a \in DOMAIN s.alias /\ t.alias[a] = s.alias[a]
        BY <2>5, <3>2
      <4>2. PICK j \in 1..k : Calls(docs[j], a) /\ s.alias[a] = NodeId(docs[j])
        BY <4>1 DEF FirstAdds
      <4> QED BY <1>0, <4>1, <4>2
    <3> QED BY <3>1, <3>2
  <2>9. IsSeq(t.nodes) /\ t.edges = <<>>
    BY <2>2, <2>3 DEF FirstAdds
  <2>10. t.alias = [a \in DOMAIN t.alias |-> t.alias[a]]
    BY <2>5
  <2> HIDE DEF A, doc
  <2>11. FirstAdds(docs, k + 1, t)
    BY <2>4, <2>7, <2>8, <2>9, <2>10 DEF FirstAdds
  <2> QED BY <2>11 DEF doc, t
<1> QED BY <1>1, <1>2

(* The first pass, exactly.                                                *)
LEMMA FirstIsExact ==
  ASSUME NEW docs, NEW n \in Nat, DOMAIN docs = 1..n
  PROVE  FirstAdds(docs, n, FoldLeft(AddDocument, Empty, docs))
<1> DEFINE c == Pass("document", 0, Empty, docs)
<1>1. \A s, x : GraphStep(c, s, x) = AddDocument(s, x)
  BY DEF GraphStep, Pass
<1> HIDE DEF c
<1>2. PICK h : G!Goes(h, c, Empty, docs, n)
  BY G!FoldSteps
<1>3. /\ h[0] = Empty
      /\ \A k \in 1..n : h[k] = AddDocument(h[k - 1], docs[k])
      /\ G!Over(c, Empty, docs) = h[n]
  BY <1>1, <1>2 DEF G!Goes, Step
<1> DEFINE S == {k \in Nat : k <= n => FirstAdds(docs, k, h[k])}
<1>4. 0 \in S
  <2>1. Empty.nodes = <<>> /\ Empty.edges = <<>> /\ Empty.alias = [a \in {} |-> Absent]
    BY DEF Empty, Graph
  <2>2. <<>> \in Seq({}) /\ ToSet(<<>>) = {}
    BY DEF ToSet
  <2>3. DOMAIN Empty.alias = {} /\ Empty.alias = [a \in DOMAIN Empty.alias |-> Empty.alias[a]]
    BY <2>1
  <2>4. FirstAdds(docs, 0, Empty)
    BY <2>1, <2>2, <2>3 DEF FirstAdds, IsSeq, HasNode
  <2> QED BY <1>3, <2>4
<1>5. ASSUME NEW k \in S PROVE k + 1 \in S
  <2>1. SUFFICES ASSUME k + 1 <= n PROVE FirstAdds(docs, k + 1, h[k + 1])
    OBVIOUS
  <2>2. k \in Nat /\ k <= n /\ FirstAdds(docs, k, h[k]) /\ k + 1 \in 1..n /\ (k + 1) - 1 = k
    BY <2>1
  <2>3. h[k + 1] = AddDocument(h[k], docs[k + 1])
    BY <1>3, <2>2
  <2> HIDE DEF S
  <2> QED BY <2>2, <2>3, FirstStep
<1>6. S = Nat
  <2> S \in SUBSET Nat
    OBVIOUS
  <2> HIDE DEF S
  <2> QED BY <1>4, <1>5, F!SetInduction
<1>7. FirstAdds(docs, n, h[n])
  BY <1>6
<1> QED BY <1>3, <1>7, PassesOfProject DEF c

-----------------------------------------------------------------------------
(* Two graphs with the same nodes and edges, in whatever order.            *)
SameGraph(s, t) ==
  /\ s.alias = t.alias
  /\ \A n : HasNode(s, n) <=> HasNode(t, n)
  /\ \A e : e \in ToSet(s.edges) <=> e \in ToSet(t.edges)

(* A pass over the same elements, from the same graph on, leads to the     *)
(* same graph.                                                             *)
LEMMA PassesAgree ==
  ASSUME NEW pass, NEW one, NEW two, SameGraph(one, two), NEW list, NEW other,
         NEW n \in Nat, DOMAIN list = 1..n, NEW m \in Nat, DOMAIN other = 1..m, ToSet(list) = ToSet(other),
         NEW s, PassAdds(Pass(pass, 0, one, list), n, s),
         NEW t, PassAdds(Pass(pass, 0, two, other), m, t)
  PROVE  SameGraph(s, t)
<1> DEFINE c == Pass(pass, 0, one, list)
           d == Pass(pass, 0, two, other)
<1>1. /\ c.pass = pass /\ c.doc = 0 /\ c.base = one /\ c.list = list
      /\ d.pass = pass /\ d.doc = 0 /\ d.base = two /\ d.list = other
  BY DEF Pass
<1> HIDE DEF c, d
<1>2. Alike(one, two)
  BY DEF Alike, SameGraph
<1>3. \A n2 : HasNode(one, n2) <=> HasNode(two, n2)
  BY DEF SameGraph
<1>4. /\ \A p, doc, x : Destination(p, doc, one, x) = Destination(p, doc, two, x)
      /\ \A p, doc, x, e : PartEdge(p, doc, one, x, e) <=> PartEdge(p, doc, two, x, e)
  BY <1>2, SameDestinations
<1>5. \A x : Linkable(one, x) <=> Linkable(two, x)
  BY <1>3 DEF Linkable
<1>6. \A x, v : GivesNode(c, x, v) <=> GivesNode(d, x, v)
  BY <1>1, <1>3, <1>4, <1>5 DEF GivesNode
<1>7. \A x, e : GivesEdge(c, x, e) <=> GivesEdge(d, x, e)
  BY <1>1, <1>3, <1>4, <1>5 DEF GivesEdge
<1>8. /\ \A x : x \in ToSet(list) <=> \E j \in 1..n : x = list[j]
      /\ \A x : x \in ToSet(list) <=> \E j \in 1..m : x = other[j]
  BY DEF ToSet
<1>9. PassAdds(c, n, s) /\ PassAdds(d, m, t)
  BY DEF c, d
<1>10. \A v : HasNode(s, v) <=> HasNode(t, v)
  <2>1. \A v : HasNode(s, v) <=> HasNode(one, v) \/ \E x \in ToSet(list) : GivesNode(c, x, v)
    BY <1>1, <1>8, <1>9 DEF PassAdds
  <2>2. \A v : HasNode(t, v) <=> HasNode(two, v) \/ \E x \in ToSet(list) : GivesNode(d, x, v)
    BY <1>1, <1>8, <1>9 DEF PassAdds
  <2> QED BY <1>3, <1>6, <2>1, <2>2
<1>11. \A e : e \in ToSet(s.edges) <=> e \in ToSet(t.edges)
  <2>1. \A e : e \in ToSet(s.edges) <=> e \in ToSet(one.edges) \/ \E x \in ToSet(list) : GivesEdge(c, x, e)
    BY <1>1, <1>8, <1>9 DEF PassAdds
  <2>2. \A e : e \in ToSet(t.edges) <=> e \in ToSet(two.edges) \/ \E x \in ToSet(list) : GivesEdge(d, x, e)
    BY <1>1, <1>8, <1>9 DEF PassAdds
  <2>3. \A e : e \in ToSet(one.edges) <=> e \in ToSet(two.edges)
    BY DEF SameGraph
  <2> QED BY <1>7, <2>1, <2>2, <2>3
<1>12. s.alias = t.alias
  BY <1>1, <1>9 DEF PassAdds, SameGraph
<1> QED BY <1>10, <1>11, <1>12 DEF SameGraph

(* The first pass over the same documents knows the same names, if none of *)
(* them means two things.                                                  *)
LEMMA FirstPassesAgree ==
  ASSUME NEW docs, NEW others, NEW n \in Nat, DOMAIN docs = 1..n, NEW m \in Nat, DOMAIN others = 1..m,
         ToSet(docs) = ToSet(others), Unambiguous(docs),
         NEW s, FirstAdds(docs, n, s), NEW t, FirstAdds(others, m, t)
  PROVE  SameGraph(s, t)
<1>1. /\ \A x : x \in ToSet(docs) <=> \E j \in 1..n : x = docs[j]
      /\ \A x : x \in ToSet(docs) <=> \E j \in 1..m : x = others[j]
  BY DEF ToSet
<1>2. \A v : HasNode(s, v) <=> HasNode(t, v)
  <2>1. \A v : HasNode(s, v) <=> \E x \in ToSet(docs) : Makes(x, v)
    BY <1>1 DEF FirstAdds
  <2>2. \A v : HasNode(t, v) <=> \E x \in ToSet(docs) : Makes(x, v)
    BY <1>1 DEF FirstAdds
  <2> QED BY <2>1, <2>2
<1>3. DOMAIN s.alias = DOMAIN t.alias
  <2>1. \A a : a \in DOMAIN s.alias <=> \E x \in ToSet(docs) : Calls(x, a)
    BY <1>1 DEF FirstAdds
  <2>2. \A a : a \in DOMAIN t.alias <=> \E x \in ToSet(docs) : Calls(x, a)
    BY <1>1 DEF FirstAdds
  <2> QED BY <2>1, <2>2
<1>4. \A a : \A x, y \in ToSet(docs) : Calls(x, a) /\ Calls(y, a) => NodeId(x) = NodeId(y)
  <2> SUFFICES ASSUME NEW x \in ToSet(docs), NEW y \in ToSet(docs), NEW a, Calls(x, a), Calls(y, a)
               PROVE  NodeId(x) = NodeId(y)
    OBVIOUS
  <2>1. PICK i \in 1..n : x = docs[i]
    BY <1>1
  <2>2. PICK j \in 1..n : y = docs[j]
    BY <1>1
  <2> QED BY <2>1, <2>2 DEF Unambiguous, Calls
<1>5. \A a \in DOMAIN s.alias : s.alias[a] = t.alias[a]
  <2> SUFFICES ASSUME NEW a \in DOMAIN s.alias PROVE s.alias[a] = t.alias[a]
    OBVIOUS
  <2>1. PICK i \in 1..n : Calls(docs[i], a) /\ s.alias[a] = NodeId(docs[i])
    BY DEF FirstAdds
  <2>2. PICK j \in 1..m : Calls(others[j], a) /\ t.alias[a] = NodeId(others[j])
    BY <1>3 DEF FirstAdds
  <2>3. docs[i] \in ToSet(docs) /\ others[j] \in ToSet(docs)
    BY <1>1
  <2> QED BY <1>4, <2>1, <2>2, <2>3
<1>6. s.alias = t.alias
  <2>1. s.alias = [a \in DOMAIN s.alias |-> s.alias[a]] /\ t.alias = [a \in DOMAIN t.alias |-> t.alias[a]]
    BY DEF FirstAdds
  <2> QED BY <1>3, <1>5, <2>1
<1>7. s.edges = t.edges
  BY DEF FirstAdds
<1> QED BY <1>2, <1>6, <1>7 DEF SameGraph

(* A document of a scope has its id in the form that references to it are  *)
(* brought into.                                                           *)
WellIdentified(doc) == Class(doc) = "projectable" => Created(doc) = NodeId(doc)

(* The graph before its third pass.                                        *)
Ground(docs, claims, locks) ==
  FoldLeft(AddLock, FoldLeft(AddClaim, FoldLeft(AddDocument, Empty, docs), claims), locks)

(* What is known of the passes in their order.                             *)
LEMMA ProjectIsExact ==
  ASSUME NEW docs, NEW n \in Nat, DOMAIN docs = 1..n, \A i \in 1..n : WellWritten(docs[i]) /\ WellIdentified(docs[i]),
         NEW claims, NEW m \in Nat, DOMAIN claims = 1..m, NEW locks, NEW k \in Nat, DOMAIN locks = 1..k
  PROVE  LET a == FoldLeft(AddDocument, Empty, docs)
             b == FoldLeft(AddClaim, a, claims)
             d == Ground(docs, claims, locks) IN
         /\ FirstAdds(docs, n, a)
         /\ PassAdds(Pass("claim", 0, a, claims), m, b)
         /\ PassAdds(Pass("lock", 0, b, locks), k, d)
         /\ PassAdds(Pass("edges", 0, d, docs), n, Project(docs, claims, locks))
<1> DEFINE a == FoldLeft(AddDocument, Empty, docs)
           b == FoldLeft(AddClaim, a, claims)
           d == FoldLeft(AddLock, b, locks)
           g == FoldLeft(AddEdges, d, docs)
<1>0. Project(docs, claims, locks) = g /\ Ground(docs, claims, locks) = d
  BY DEF Project, Ground
<1>1. FirstAdds(docs, n, a)
  BY FirstIsExact
<1>2. Appendable(a)
  <2>1. <<>> \in Seq({})
    OBVIOUS
  <2> HIDE DEF a
  <2> QED BY <1>1, <2>1 DEF FirstAdds, Appendable, IsSeq
<1>3. PassAdds(Pass("claim", 0, a, claims), m, b)
  <2> HIDE DEF a
  <2> QED BY <1>2, ClaimsAreExact
<1>4. Appendable(b)
  <2> HIDE DEF b
  <2> QED BY <1>3 DEF PassAdds
<1>5. PassAdds(Pass("lock", 0, b, locks), k, d)
  <2> HIDE DEF b
  <2> QED BY <1>4, LocksAreExact
<1>6. Appendable(d)
  <2> HIDE DEF d
  <2> QED BY <1>5 DEF PassAdds
<1> HIDE DEF a, b, d
<1>7. \A i \in 1..n : Anchored(d, docs[i])
  <2> SUFFICES ASSUME NEW i \in 1..n, Class(docs[i]) = "projectable" PROVE HasNode(d, NodeId(docs[i]))
    BY DEF Anchored
  <2>1. Makes(docs[i], NodeId(docs[i]))
    BY DEF Makes, WellIdentified
  <2>2. HasNode(a, NodeId(docs[i]))
    BY <1>1, <2>1 DEF FirstAdds
  <2>3. Pass("claim", 0, a, claims).base = a /\ Pass("lock", 0, b, locks).base = b
    BY DEF Pass
  <2>4. HasNode(b, NodeId(docs[i]))
    BY <1>3, <2>2, <2>3 DEF PassAdds
  <2> QED BY <1>5, <2>3, <2>4 DEF PassAdds
<1>8. PassAdds(Pass("edges", 0, d, docs), n, g)
  BY <1>6, <1>7, ThirdIsExact
<1> QED BY <1>0, <1>1, <1>3, <1>5, <1>8 DEF a, b, d

(* The graph is the same in whatever order, and however often, documents,  *)
(* claims and locks are read, if no name means two documents.              *)
THEOREM GraphIsOrderless ==
  ASSUME NEW docs, NEW claims, NEW locks, NEW docs2, NEW claims2, NEW locks2,
         IsList(docs), IsList(claims), IsList(locks), IsList(docs2), IsList(claims2), IsList(locks2),
         ToSet(docs2) = ToSet(docs), ToSet(claims2) = ToSet(claims), ToSet(locks2) = ToSet(locks),
         \A doc \in ToSet(docs) : WellWritten(doc) /\ WellIdentified(doc), Unambiguous(docs)
  PROVE  LET g == Project(docs, claims, locks)
             h == Project(docs2, claims2, locks2) IN
         ToSet(g.nodes) = ToSet(h.nodes) /\ ToSet(g.edges) = ToSet(h.edges)
<1> DEFINE a == FoldLeft(AddDocument, Empty, docs)
           b == FoldLeft(AddClaim, a, claims)
           d == Ground(docs, claims, locks)
           g == Project(docs, claims, locks)
           a2 == FoldLeft(AddDocument, Empty, docs2)
           b2 == FoldLeft(AddClaim, a2, claims2)
           d2 == Ground(docs2, claims2, locks2)
           h == Project(docs2, claims2, locks2)
<1>1. PICK n \in Nat : DOMAIN docs = 1..n
  BY DEF IsList
<1>2. PICK m \in Nat : DOMAIN claims = 1..m
  BY DEF IsList
<1>3. PICK k \in Nat : DOMAIN locks = 1..k
  BY DEF IsList
<1>4. PICK n2 \in Nat : DOMAIN docs2 = 1..n2
  BY DEF IsList
<1>5. PICK m2 \in Nat : DOMAIN claims2 = 1..m2
  BY DEF IsList
<1>6. PICK k2 \in Nat : DOMAIN locks2 = 1..k2
  BY DEF IsList
<1>7. /\ \A i \in 1..n : WellWritten(docs[i]) /\ WellIdentified(docs[i])
      /\ \A i \in 1..n2 : WellWritten(docs2[i]) /\ WellIdentified(docs2[i])
  <2>1. (\A i \in 1..n : docs[i] \in ToSet(docs)) /\ (\A i \in 1..n2 : docs2[i] \in ToSet(docs2))
    BY <1>1, <1>4 DEF ToSet
  <2> QED BY <2>1
<1>8. /\ FirstAdds(docs, n, a)
      /\ PassAdds(Pass("claim", 0, a, claims), m, b)
      /\ PassAdds(Pass("lock", 0, b, locks), k, d)
      /\ PassAdds(Pass("edges", 0, d, docs), n, g)
  BY <1>1, <1>2, <1>3, <1>7, ProjectIsExact
<1>9. /\ FirstAdds(docs2, n2, a2)
      /\ PassAdds(Pass("claim", 0, a2, claims2), m2, b2)
      /\ PassAdds(Pass("lock", 0, b2, locks2), k2, d2)
      /\ PassAdds(Pass("edges", 0, d2, docs2), n2, h)
  BY <1>4, <1>5, <1>6, <1>7, ProjectIsExact
<1> HIDE DEF a, b, d, g, a2, b2, d2, h
<1>10. SameGraph(a, a2)
  BY <1>1, <1>4, <1>8, <1>9, FirstPassesAgree
<1>11. SameGraph(b, b2)
  BY <1>2, <1>5, <1>8, <1>9, <1>10, PassesAgree
<1>12. SameGraph(d, d2)
  BY <1>3, <1>6, <1>8, <1>9, <1>11, PassesAgree
<1>13. SameGraph(g, h)
  BY <1>1, <1>4, <1>8, <1>9, <1>12, PassesAgree
<1>14. \A v : v \in ToSet(g.nodes) <=> v \in ToSet(h.nodes)
  BY <1>13 DEF SameGraph, HasNode
<1>15. \A e : e \in ToSet(g.edges) <=> e \in ToSet(h.edges)
  BY <1>13 DEF SameGraph
<1>16. ToSet(g.nodes) = ToSet(h.nodes) /\ ToSet(g.edges) = ToSet(h.edges)
  BY <1>14, <1>15
<1> QED BY <1>16 DEF g, h

(* Read backwards, a list is a list of the same elements.                  *)
LEMMA ReverseOfList ==
  ASSUME NEW S, NEW list \in Seq(S)
  PROVE  IsList(list) /\ IsList(Reverse(list)) /\ ToSet(Reverse(list)) = ToSet(list)
<1> DEFINE back == Reverse(list)
<1>1. Len(list) \in Nat /\ DOMAIN list = 1..Len(list)
  OBVIOUS
<1>2. DOMAIN back = 1..Len(list) /\ \A i \in 1..Len(list) : back[i] = list[(Len(list) - i) + 1]
  BY DEF Reverse
<1> HIDE DEF back
<1>3. \A i \in 1..Len(list) : (Len(list) - i) + 1 \in 1..Len(list)
                                /\ (Len(list) - ((Len(list) - i) + 1)) + 1 = i
  BY <1>1
<1>4. ToSet(back) = ToSet(list)
  <2>1. \A x \in ToSet(back) : x \in ToSet(list)
    BY <1>1, <1>2, <1>3 DEF ToSet
  <2>2. ASSUME NEW x \in ToSet(list) PROVE x \in ToSet(back)
    <3>1. PICK i \in 1..Len(list) : x = list[i]
      BY <1>1 DEF ToSet
    <3>2. x = back[(Len(list) - i) + 1]
      BY <1>2, <1>3, <3>1
    <3> QED BY <1>2, <1>3, <3>2 DEF ToSet
  <2> QED BY <2>1, <2>2
<1>5. IsList(list) /\ IsList(back)
  BY <1>1, <1>2 DEF IsList
<1> QED BY <1>4, <1>5 DEF back

(* The workspaces of the questions.                                        *)
LEMMA GraphQuestionsAreWellIdentified ==
  ASSUME AskGraph
  PROVE  /\ \A doc \in ToSet(asked'.docs) : WellWritten(doc) /\ WellIdentified(doc)
         /\ \E S : asked'.docs \in Seq(S)
         /\ \E S : asked'.claims \in Seq(S)
         /\ \E S : asked'.locks \in Seq(S)
<1>1. PICK ls \in SeqOf(Links, MaxLinks), rs \in SeqOf(Rels, 1), second \in Seconds,
           ss \in SubjectLists, locks \in LockLists :
        asked' = [kind |-> "graph", docs |-> Workspace(ls, rs, <<>>, second, ss),
                  claims |-> <<TaskClaim>>, locks |-> locks]
  BY DEF AskGraph, Ask
<1> DEFINE docs == Workspace(ls, rs, <<>>, second, ss)
<1>2. asked'.docs = docs /\ asked'.claims = <<TaskClaim>> /\ asked'.locks = locks
  BY <1>1
<1>3. docs \in Seq({docs[1], docs[2], docs[3], docs[4], docs[5]}) /\ DOMAIN docs = 1..5
  BY DEF Workspace
<1>4. \A doc \in ToSet(docs) : WellWritten(doc)
  <2>1. \A i \in DOMAIN asked'.docs : WellWritten(asked'.docs[i])
    BY GraphQuestionsAreWellGiven DEF WellGiven
  <2> HIDE DEF docs
  <2> QED BY <1>2, <2>1 DEF ToSet
<1>5. \A doc : doc.kind # "scope" => WellIdentified(doc)
  BY DEF WellIdentified, Created
<1>6. \A i \in 1..4 : docs[i].kind # "scope"
  <2>1. docs[1].kind # "scope" /\ docs[3].kind # "scope" /\ docs[4].kind # "scope"
    BY DEF Workspace, Document, Named
  <2>2. docs[2].kind # "scope"
    <3>1. PICK id, file : second = Named("work-item", id, file)
      BY DEF Seconds
    <3> QED BY <3>1 DEF Workspace, Named, Document
  <2> HIDE DEF docs
  <2> QED BY <2>1, <2>2
<1>7. WellIdentified(docs[5])
  <2>1. docs[5].kind = "scope" /\ docs[5].id = <<"project", "p">>
    BY DEF Workspace, Document, Named
  <2>2. Canonical(<<"project", "p">>) = <<"project", "p">> /\ <<"project", "p">> # Absent
    BY DEF Canonical, Absent
  <2> HIDE DEF docs
  <2> QED BY <2>1, <2>2 DEF WellIdentified, Created, NodeId
<1>8. \A i \in 1..5 : WellIdentified(docs[i])
  <2> HIDE DEF docs
  <2> QED BY <1>5, <1>6, <1>7
<1>9. \A doc \in ToSet(docs) : WellIdentified(doc)
  <2> HIDE DEF docs
  <2> QED BY <1>3, <1>8 DEF ToSet
<1>10. \E S : locks \in Seq(S)
  <2>1. \A x, y, z : <<>> \in Seq({x}) /\ <<x, y>> \in Seq({x, y}) /\ <<x, y, z>> \in Seq({x, y, z})
    OBVIOUS
  <2>2. \/ locks = <<>>
        \/ \E x, y : locks = <<x, y>>
        \/ \E x, y, z : locks = <<x, y, z>>
    BY DEF LockLists
  <2>3. CASE locks = <<>>
    BY <2>1, <2>3
  <2>4. CASE \E x, y : locks = <<x, y>>
    <3>1. PICK x, y : locks = <<x, y>>
      BY <2>4
    <3> QED BY <2>1, <3>1
  <2>5. CASE \E x, y, z : locks = <<x, y, z>>
    <3>1. PICK x, y, z : locks = <<x, y, z>>
      BY <2>5
    <3> QED BY <2>1, <3>1
  <2> QED BY <2>2, <2>3, <2>4, <2>5
<1>11. \E S : asked'.claims \in Seq(S)
  <2>1. <<TaskClaim>> \in Seq({TaskClaim})
    OBVIOUS
  <2> QED BY <1>2, <2>1
<1> HIDE DEF docs
<1> QED BY <1>2, <1>3, <1>4, <1>9, <1>10, <1>11

(* The graph asked about is the same when everything is read backwards.    *)
THEOREM GraphsAreOrderless == Spec => []GraphOrderIndependent
<1>1. Init => GraphOrderIndependent
  BY DEF Init, GraphOrderIndependent, Asked
<1>2. GraphOrderIndependent /\ [Next]_asked => GraphOrderIndependent'
  <2> SUFFICES ASSUME GraphOrderIndependent, [Next]_asked PROVE GraphOrderIndependent'
    OBVIOUS
  <2>1. CASE AskGraph
    <3> DEFINE docs == asked'.docs
               claims == asked'.claims
               locks == asked'.locks
    <3>1. /\ \A doc \in ToSet(docs) : WellWritten(doc) /\ WellIdentified(doc)
          /\ \E S : docs \in Seq(S)
          /\ \E S : claims \in Seq(S)
          /\ \E S : locks \in Seq(S)
      BY <2>1, GraphQuestionsAreWellIdentified
    <3> HIDE DEF docs, claims, locks
    <3>2. /\ IsList(docs) /\ IsList(Reverse(docs)) /\ ToSet(Reverse(docs)) = ToSet(docs)
          /\ IsList(claims) /\ IsList(Reverse(claims)) /\ ToSet(Reverse(claims)) = ToSet(claims)
          /\ IsList(locks) /\ IsList(Reverse(locks)) /\ ToSet(Reverse(locks)) = ToSet(locks)
      BY <3>1, ReverseOfList
    <3>3. ASSUME Unambiguous(docs)
          PROVE  LET g == Project(docs, claims, locks)
                     h == Project(Reverse(docs), Reverse(claims), Reverse(locks)) IN
                 ToSet(g.nodes) = ToSet(h.nodes) /\ ToSet(g.edges) = ToSet(h.edges)
      BY <3>1, <3>2, <3>3, GraphIsOrderless
    <3> QED BY <3>3 DEF GraphOrderIndependent, docs, claims, locks
  <2>2. CASE AnyAsk /\ ~AskGraph
    <3>1. asked'.kind # "graph"
      BY <2>2, KindsOfQuestions DEF AnyAsk
    <3> QED BY <3>1 DEF GraphOrderIndependent, Asked
  <2>3. CASE UNCHANGED asked
    BY <2>3 DEF GraphOrderIndependent, Asked
  <2> QED BY <2>1, <2>2, <2>3, NextAsks
<1> QED BY <1>1, <1>2, PTL DEF Spec

-----------------------------------------------------------------------------
(* What is before x by a relation, and a list of all by how many are.      *)
Below(S, R, x) == {y \in S : <<y, x>> \in R}
Ranks(list, S, R) ==
  /\ list = [i \in 1..Cardinality(S) |-> list[i]]
  /\ \A i \in 1..Cardinality(S) : (\E x \in S : Cardinality(Below(S, R, x)) + 1 = i)
       => list[i] \in S /\ Cardinality(Below(S, R, list[i])) + 1 = i

(* A relation that puts all elements of a set in one order.                *)
Orders(R, S) ==
  /\ \A x \in S : <<x, x>> \notin R
  /\ \A x, y \in S : x = y \/ <<x, y>> \in R \/ <<y, x>> \in R
  /\ \A x, y, z \in S : <<x, y>> \in R /\ <<y, z>> \in R => <<x, z>> \in R

(* The list of a finite set by an order has each element once, and in that *)
(* order.                                                                  *)
LEMMA RankedLists ==
  ASSUME NEW S, IsFiniteSet(S), NEW R, Orders(R, S), NEW list, Ranks(list, S, R)
  PROVE  /\ Cardinality(S) \in Nat /\ list \in [1..Cardinality(S) -> S]
         /\ ToSet(list) = S /\ IsInjective(list)
         /\ \A i, j \in 1..Cardinality(S) : i < j => <<list[i], list[j]>> \in R
<1> DEFINE n == Cardinality(S)
           f == [x \in S |-> Cardinality(Below(S, R, x)) + 1]
<1>1. n \in Nat
  BY FS_CardinalityType
<1>2. ASSUME NEW x \in S
      PROVE  /\ IsFiniteSet(Below(S, R, x)) /\ Cardinality(Below(S, R, x)) \in Nat
             /\ Cardinality(Below(S, R, x)) + 1 <= n
  <2>1. Below(S, R, x) \in SUBSET (S \ {x})
    BY DEF Below, Orders
  <2>2. IsFiniteSet(S \ {x}) /\ Cardinality(S \ {x}) = n - 1
    BY FS_RemoveElement
  <2>3. IsFiniteSet(Below(S, R, x)) /\ Cardinality(Below(S, R, x)) <= n - 1
    BY <2>1, <2>2, FS_Subset
  <2>4. Cardinality(Below(S, R, x)) \in Nat
    BY <2>3, FS_CardinalityType
  <2> HIDE DEF n
  <2> QED BY <1>1, <2>3, <2>4
<1>3. ASSUME NEW x \in S, NEW y \in S, <<x, y>> \in R
      PROVE  Cardinality(Below(S, R, x)) + 1 <= Cardinality(Below(S, R, y))
  <2>1. Below(S, R, x) \cup {x} \in SUBSET Below(S, R, y)
    BY <1>3 DEF Below, Orders
  <2>2. x \notin Below(S, R, x)
    BY DEF Below, Orders
  <2>3. Cardinality(Below(S, R, x) \cup {x}) = Cardinality(Below(S, R, x)) + 1
    BY <1>2, <2>2, FS_AddElement
  <2>4. Cardinality(Below(S, R, x) \cup {x}) <= Cardinality(Below(S, R, y))
    BY <1>2, <2>1, FS_Subset
  <2> QED BY <2>3, <2>4
<1>4. f \in [S -> 1..n] /\ \A x \in S : f[x] = Cardinality(Below(S, R, x)) + 1
  <2> HIDE DEF n
  <2> QED BY <1>1, <1>2
<1>5. \A x, y \in S : <<x, y>> \in R => f[x] < f[y]
  <2> SUFFICES ASSUME NEW x \in S, NEW y \in S, <<x, y>> \in R PROVE f[x] < f[y]
    OBVIOUS
  <2> HIDE DEF f, n
  <2> QED BY <1>2, <1>3, <1>4
<1>6. \A x, y \in S : f[x] = f[y] => x = y
  <2> SUFFICES ASSUME NEW x \in S, NEW y \in S, f[x] = f[y] PROVE x = y
    OBVIOUS
  <2> HIDE DEF f, n
  <2>1. f[x] \in Int /\ f[y] \in Int
    BY <1>1, <1>4
  <2>2. x = y \/ <<x, y>> \in R \/ <<y, x>> \in R
    BY DEF Orders
  <2>3. (<<x, y>> \in R => f[x] < f[y]) /\ (<<y, x>> \in R => f[y] < f[x])
    BY <1>5
  <2> QED BY <2>1, <2>2, <2>3
<1>7. \A i \in 1..n : \E x \in S : f[x] = i
  <2> HIDE DEF f
  <2>1. f \in Injection(S, 1..n)
    BY <1>4, <1>6 DEF Injection, IsInjective
  <2>2. IsFiniteSet(1..n) /\ Cardinality(1..n) = n
    BY <1>1, FS_Interval
  <2>3. f \in Surjection(S, 1..n)
    BY <2>1, <2>2, FS_Injection
  <2> HIDE DEF n
  <2> QED BY <2>3 DEF Surjection
<1>8. \A i \in 1..n : list[i] \in S /\ f[list[i]] = i
  <2> SUFFICES ASSUME NEW i \in 1..n PROVE list[i] \in S /\ f[list[i]] = i
    OBVIOUS
  <2>1. \E x \in S : Cardinality(Below(S, R, x)) + 1 = i
    BY <1>4, <1>7
  <2> HIDE DEF f
  <2> QED BY <1>4, <2>1 DEF Ranks
<1>9. list \in [1..n -> S]
  <2>1. list = [i \in 1..n |-> list[i]]
    BY DEF Ranks
  <2> HIDE DEF n, f
  <2> QED BY <1>8, <2>1
<1> HIDE DEF f, n
<1>10. \A x \in S : f[x] \in 1..n /\ list[f[x]] = x
  BY <1>4, <1>6, <1>8
<1>11. ToSet(list) = S
  BY <1>8, <1>9, <1>10 DEF ToSet
<1>12. IsInjective(list)
  BY <1>8, <1>9 DEF IsInjective
<1>13. ASSUME NEW i \in 1..n, NEW j \in 1..n, i < j PROVE <<list[i], list[j]>> \in R
  <2>1. list[i] \in S /\ list[j] \in S /\ f[list[i]] = i /\ f[list[j]] = j
    BY <1>8
  <2>2. list[i] = list[j] \/ <<list[i], list[j]>> \in R \/ <<list[j], list[i]>> \in R
    BY <2>1 DEF Orders
  <2>3. <<list[j], list[i]>> \in R => j < i
    BY <1>5, <2>1
  <2>4. i \in Int /\ j \in Int
    BY <1>1
  <2> QED BY <1>13, <2>1, <2>2, <2>3, <2>4
<1> QED BY <1>1, <1>9, <1>11, <1>12, <1>13 DEF n

(* Sorted lists what it is given.                                          *)
LEMMA SortedNumbers ==
  ASSUME NEW S \in SUBSET Nat, IsFiniteSet(S)
  PROVE  LET list == Sorted(S, <) IN
         /\ Cardinality(S) \in Nat /\ list \in [1..Cardinality(S) -> S]
         /\ ToSet(list) = S /\ IsInjective(list)
<1> DEFINE R == {r \in S \X S : r[1] < r[2]}
<1>1. Orders(R, S)
  BY DEF Orders
<1>2. \A x \in S : Below(S, R, x) = {y \in S : y < x}
  BY DEF Below
<1> DEFINE list == Sorted(S, <)
<1> HIDE DEF R
<1>3. Ranks(list, S, R)
  <2>1. list = [i \in 1..Cardinality(S) |-> list[i]]
    BY DEF Sorted
  <2>2. ASSUME NEW i \in 1..Cardinality(S), NEW x \in S, Cardinality(Below(S, R, x)) + 1 = i
        PROVE  list[i] \in S /\ Cardinality(Below(S, R, list[i])) + 1 = i
    <3>1. list[i] = CHOOSE z \in S : Cardinality({y \in S : y < z}) + 1 = i
      BY DEF Sorted
    <3>2. Cardinality({y \in S : y < x}) + 1 = i
      BY <1>2, <2>2
    <3> HIDE DEF list
    <3>3. list[i] \in S /\ Cardinality({y \in S : y < list[i]}) + 1 = i
      BY <3>1, <3>2
    <3> QED BY <1>2, <3>3
  <2> HIDE DEF list
  <2> QED BY <2>1, <2>2 DEF Ranks
<1> HIDE DEF list
<1>4. /\ Cardinality(S) \in Nat /\ list \in [1..Cardinality(S) -> S]
      /\ ToSet(list) = S /\ IsInjective(list)
  BY <1>1, <1>3, RankedLists
<1> QED BY <1>4 DEF list

-----------------------------------------------------------------------------
(* A draft, with the references and approvals that a review may write.     *)
IsDraft(d) == \E Titles, Approvals, Remains :
  d \in [title : Titles, refs : Seq(Nat), approvals : Seq(Approvals), afk : BOOLEAN, rest : Remains]
DraftsOf(drafts, n) == n \in Nat /\ DOMAIN drafts = 1..n /\ \A i \in 1..n : IsDraft(drafts[i])

(* The id that nothing has been added to.                                  *)
PlainId(title) == [slug |-> Slugify(title), size |-> 0, key |-> {}]

(* An id is of the title; it is a free one, or it has the size that says   *)
(* that there was none.                                                    *)
LEMMA ProvisionalIds ==
  ASSUME NEW title, NEW key, NEW used
  PROVE  LET id == ProvisionalId(title, key, used) IN
         /\ id.slug = Slugify(title) /\ id.key \in {{}, {key}}
         /\ id.size # 99 => id \notin used
         /\ PlainId(title) \notin used => id.size = 0
         /\ (\A u \in used : u.key # {key}) => id.size # 99
<1> DEFINE Sizes == {0, 8, 12, 16, 20, 24, 32}
           of(n) == [slug |-> Slugify(title), size |-> n, key |-> Suffix(key, n)]
           free == {n \in Sizes : of(n) \notin used}
           none == [slug |-> Slugify(title), size |-> 99, key |-> {}]
           id == ProvisionalId(title, key, used)
<1>1. id = IF free = {} THEN none ELSE of(Min(free))
  BY DEF ProvisionalId
<1>2. \A n : of(n).slug = Slugify(title) /\ of(n).size = n /\ of(n).key = Suffix(key, n)
  OBVIOUS
<1>3. none.slug = Slugify(title) /\ none.size = 99 /\ none.key = {}
  OBVIOUS
<1>4. of(0) = PlainId(title)
  BY DEF PlainId, Suffix
<1>5. free # {} => Min(free) \in free /\ \A n \in free : Min(free) <= n
  <2>1. free \in SUBSET Nat
    OBVIOUS
  <2> HIDE DEF free
  <2> QED BY <2>1, F!MinOfSet DEF Min, F!Min
<1>6. \A n : Suffix(key, n) \in {{}, {key}}
  BY DEF Suffix
<1>7. \A n : n \in free <=> n \in Sizes /\ of(n) \notin used
  OBVIOUS
<1>8. 0 \in Sizes /\ 8 \in Sizes /\ 99 \notin Sizes /\ \A n \in Sizes : n \in Nat
  OBVIOUS
<1>9. Suffix(key, 8) = {key}
  BY DEF Suffix
<1> HIDE DEF of, none, id, free, Sizes
<1>10. id.slug = Slugify(title) /\ id.key \in {{}, {key}}
  BY <1>1, <1>2, <1>3, <1>6
<1>11. id.size # 99 => id \notin used
  BY <1>1, <1>3, <1>5, <1>7
<1>12. PlainId(title) \notin used => id.size = 0
  <2> SUFFICES ASSUME PlainId(title) \notin used PROVE id.size = 0
    OBVIOUS
  <2>1. 0 \in free
    BY <1>4, <1>7, <1>8
  <2>2. Min(free) \in Nat /\ Min(free) <= 0
    BY <1>5, <1>7, <1>8, <2>1
  <2>3. Min(free) = 0 /\ id = of(Min(free))
    BY <1>1, <2>1, <2>2
  <2> QED BY <1>2, <2>3
<1>13. (\A u \in used : u.key # {key}) => id.size # 99
  <2> SUFFICES ASSUME \A u \in used : u.key # {key} PROVE id.size # 99
    OBVIOUS
  <2>1. of(8) \notin used
    BY <1>2, <1>9
  <2>2. 8 \in free
    BY <1>7, <1>8, <2>1
  <2>3. id = of(Min(free)) /\ Min(free) \in Sizes
    BY <1>1, <1>5, <1>7, <2>2
  <2> QED BY <1>2, <1>8, <2>3
<1> QED BY <1>10, <1>11, <1>12, <1>13 DEF id

(* The proposals of drafts are made one after the other.                   *)
NextProposal(c, made, d) ==
  Append(made, Proposal(d, ProvisionalId(d.title, Preimage(d), {p.id : p \in ToSet(made)})))
Pb == INSTANCE FoldTheory WITH Op <- NextProposal

(* What a list of proposals is when k drafts have been gone through.       *)
IdsBefore(list, i) == {list[j].id : j \in 1..(i - 1)}
Proposing(drafts, k, list) ==
  /\ DOMAIN list = 1..k
  /\ \A i \in 1..k : list[i] =
       Proposal(drafts[i], ProvisionalId(drafts[i].title, Preimage(drafts[i]), IdsBefore(list, i)))

(* One proposal more.                                                      *)
LEMMA OneProposalMore ==
  ASSUME NEW drafts, NEW k \in Nat, NEW list, IsSeq(list), Proposing(drafts, k, list), NEW c
  PROVE  LET more == NextProposal(c, list, drafts[k + 1]) IN
         IsSeq(more) /\ Proposing(drafts, k + 1, more)
<1> DEFINE d == drafts[k + 1]
           used == {p.id : p \in ToSet(list)}
           new == Proposal(d, ProvisionalId(d.title, Preimage(d), used))
           more == Append(list, new)
<1>1. NextProposal(c, list, drafts[k + 1]) = more
  BY DEF NextProposal
<1>2. IsSeq(more)
  BY OneMore
<1>3. DOMAIN more = 1..(k + 1) /\ more[k + 1] = new /\ \A i \in 1..k : more[i] = list[i]
  <2>1. PICK S : list \in Seq(S)
    BY DEF IsSeq
  <2>2. Len(list) = k
    <3>1. DOMAIN list = 1..k /\ DOMAIN list = 1..Len(list) /\ Len(list) \in Nat
      BY <2>1 DEF Proposing
    <3> QED BY <3>1
  <2> HIDE DEF new
  <2> DEFINE T == S \cup {new}
  <2>3. list \in Seq(T) /\ new \in T
    <3>1. S \subseteq T
      OBVIOUS
    <3> QED BY <2>1, <3>1
  <2> HIDE DEF T
  <2> QED BY <2>2, <2>3, AppendProperties
<1>4. used = IdsBefore(more, k + 1)
  <2>1. (k + 1) - 1 = k
    OBVIOUS
  <2>2. IdsBefore(more, k + 1) = {list[j].id : j \in 1..k}
    BY <1>3, <2>1 DEF IdsBefore
  <2>3. ToSet(list) = {list[j] : j \in 1..k}
    BY DEF ToSet, Proposing
  <2> HIDE DEF more
  <2> QED BY <2>2, <2>3
<1>5. ASSUME NEW i \in 1..k
      PROVE  /\ IdsBefore(more, i) = IdsBefore(list, i)
             /\ more[i] = Proposal(drafts[i],
                  ProvisionalId(drafts[i].title, Preimage(drafts[i]), IdsBefore(list, i)))
  <2>1. \A j \in 1..(i - 1) : j \in 1..k /\ more[j] = list[j]
    BY <1>3
  <2>2. IdsBefore(more, i) = IdsBefore(list, i)
    <3> HIDE DEF more
    <3> QED BY <2>1 DEF IdsBefore
  <2> QED BY <1>3, <2>2 DEF Proposing
<1>6. \A i \in 1..(k + 1) : i \in 1..k \/ i = k + 1
  OBVIOUS
<1>7. more[k + 1] = Proposal(d, ProvisionalId(d.title, Preimage(d), IdsBefore(more, k + 1)))
  BY <1>3, <1>4
<1> HIDE DEF more
<1> QED BY <1>1, <1>2, <1>3, <1>5, <1>6, <1>7 DEF Proposing

(* So is the whole list.                                                   *)
LEMMA ProposalsAreMade ==
  ASSUME NEW drafts, NEW n \in Nat, DOMAIN drafts = 1..n
  PROVE  Proposing(drafts, n, Proposals(drafts))
<1>1. PICK h : Pb!Goes(h, 0, <<>>, drafts, n)
  BY Pb!FoldSteps
<1>2. /\ h[0] = <<>>
      /\ \A k \in 1..n : h[k] = NextProposal(0, h[k - 1], drafts[k])
      /\ Pb!Over(0, <<>>, drafts) = h[n]
  BY <1>1 DEF Pb!Goes
<1>3. Proposals(drafts) = h[n]
  <2>1. Proposals(drafts) = Pb!Over(0, <<>>, drafts)
    BY DEF Proposals, FoldLeft, MapThenFoldSet, Pb!Over, Pb!FoldLeft, Pb!MapThenFoldSet, NextProposal,
           Max, Pb!Max
  <2> QED BY <1>2, <2>1
<1> DEFINE S == {k \in Nat : k <= n => IsSeq(h[k]) /\ Proposing(drafts, k, h[k])}
<1>4. 0 \in S
  <2>1. IsSeq(<<>>) /\ DOMAIN <<>> = 1..0
    <3>1. <<>> \in Seq({}) /\ DOMAIN <<>> = 1..0
      OBVIOUS
    <3> QED BY <3>1 DEF IsSeq
  <2>2. \A i : i \notin 1..0
    OBVIOUS
  <2>3. Proposing(drafts, 0, h[0])
    BY <1>2, <2>1, <2>2 DEF Proposing
  <2> QED BY <1>2, <2>1, <2>3
<1>5. ASSUME NEW k \in S PROVE k + 1 \in S
  <2>1. k \in Nat /\ (k <= n => IsSeq(h[k]) /\ Proposing(drafts, k, h[k]))
    OBVIOUS
  <2> SUFFICES ASSUME k + 1 <= n PROVE IsSeq(h[k + 1]) /\ Proposing(drafts, k + 1, h[k + 1])
    BY <2>1
  <2>2. k + 1 \in 1..n /\ (k + 1) - 1 = k /\ k <= n
    BY <2>1
  <2>3. h[k + 1] = NextProposal(0, h[k], drafts[k + 1])
    BY <1>2, <2>2
  <2> HIDE DEF S
  <2> QED BY <2>1, <2>2, <2>3, OneProposalMore
<1>6. S = Nat
  <2>1. S \in SUBSET Nat
    OBVIOUS
  <2> HIDE DEF S
  <2> QED BY <1>4, <1>5, <2>1, F!SetInduction
<1>7. n \in S
  <2> HIDE DEF S
  <2> QED BY <1>6
<1> QED BY <1>3, <1>7

(* What two drafts are distinguished by, and what no draft may be.         *)
DistinctKeys(drafts) ==
  \A i, j \in DOMAIN drafts : Preimage(drafts[i]) = Preimage(drafts[j]) => i = j
NoneWaits(drafts) == \A i \in DOMAIN drafts : drafts[i].afk => drafts[i].approvals = <<>>

(* Sorted approvals are none only if there are none.                       *)
LEMMA SortedApprovals ==
  ASSUME NEW S, NEW approvals \in Seq(S)
  PROVE  SortApprovals(approvals) = <<>> <=> approvals = <<>>
<1> DEFINE bag == SortApprovals(approvals)
<1>1. DOMAIN bag = {approvals[i] : i \in DOMAIN approvals}
  BY DEF SortApprovals, ToBag, Range
<1>2. bag = [x \in DOMAIN bag |-> bag[x]]
  BY DEF SortApprovals, ToBag
<1>3. approvals = <<>> <=> DOMAIN approvals = {}
  <2>1. Len(approvals) \in Nat /\ DOMAIN approvals = 1..Len(approvals)
    OBVIOUS
  <2>2. approvals = <<>> <=> Len(approvals) = 0
    BY EmptySeq
  <2>3. Len(approvals) = 0 <=> 1..Len(approvals) = {}
    <3>1. Len(approvals) # 0 => 1 \in 1..Len(approvals)
      BY <2>1
    <3>2. Len(approvals) = 0 => 1..Len(approvals) = {}
      OBVIOUS
    <3> QED BY <3>1, <3>2
  <2> QED BY <2>1, <2>2, <2>3
<1>4. bag = <<>> <=> DOMAIN bag = {}
  <2>1. DOMAIN <<>> = {} /\ <<>> = [x \in {} |-> x]
    OBVIOUS
  <2>2. DOMAIN bag = {} => bag = <<>>
    <3> SUFFICES ASSUME DOMAIN bag = {} PROVE bag = <<>>
      OBVIOUS
    <3>1. bag = [x \in {} |-> bag[x]]
      BY <1>2
    <3> HIDE DEF bag
    <3> QED BY <3>1
  <2> HIDE DEF bag
  <2> QED BY <2>1, <2>2
<1> HIDE DEF bag
<1>5. approvals = <<>> <=> bag = <<>>
  BY <1>1, <1>3, <1>4
<1> QED BY <1>5 DEF bag

(* A proposal has what its draft has.                                      *)
LEMMA PartsOfProposal ==
  ASSUME NEW d, NEW id
  PROVE  LET p == Proposal(d, id) IN
         /\ p.id = id /\ p.key = Preimage(d) /\ p.refs = CanonicalList(d.refs)
         /\ p.approvals = SortApprovals(d.approvals) /\ p.afk = d.afk
         /\ \A other : [p EXCEPT !.id = other] = Proposal(d, other)
<1>1. \A other : [Proposal(d, id) EXCEPT !.id = other] = Proposal(d, other)
  BY DEF Proposal
<1> QED BY <1>1 DEF Proposal

(* The id that a draft gets among the others.                              *)
IdOf(drafts, i) ==
  ProvisionalId(drafts[i].title, Preimage(drafts[i]), IdsBefore(Proposals(drafts), i))

(* The proposals of drafts, one by one.                                    *)
LEMMA ProposalsOfDrafts ==
  ASSUME NEW drafts, NEW n, DraftsOf(drafts, n)
  PROVE  /\ DOMAIN Proposals(drafts) = 1..n
         /\ Batch(drafts) = {Proposals(drafts)[i] : i \in 1..n}
         /\ \A i \in 1..n :
              /\ Proposals(drafts)[i] = Proposal(drafts[i], IdOf(drafts, i))
              /\ Proposals(drafts)[i].id = IdOf(drafts, i)
              /\ Proposals(drafts)[i].key = Preimage(drafts[i])
              /\ Waits(Proposals(drafts)[i]) <=> drafts[i].afk /\ drafts[i].approvals # <<>>
<1> DEFINE list == Proposals(drafts)
<1>1. n \in Nat /\ DOMAIN drafts = 1..n
  BY DEF DraftsOf
<1>2. Proposing(drafts, n, list)
  BY <1>1, ProposalsAreMade
<1>3. DOMAIN list = 1..n /\ \A i \in 1..n : list[i] = Proposal(drafts[i], IdOf(drafts, i))
  BY <1>2 DEF Proposing, IdOf
<1> HIDE DEF list
<1>4. ASSUME NEW i \in 1..n
      PROVE  /\ list[i].id = IdOf(drafts, i) /\ list[i].key = Preimage(drafts[i])
             /\ Waits(list[i]) <=> drafts[i].afk /\ drafts[i].approvals # <<>>
  <2>1. PICK Titles, Approvals, Remains :
          drafts[i] \in [title : Titles, refs : Seq(Nat), approvals : Seq(Approvals), afk : BOOLEAN,
                         rest : Remains]
    BY DEF DraftsOf, IsDraft
  <2>2. drafts[i].approvals \in Seq(Approvals)
    BY <2>1
  <2>3. SortApprovals(drafts[i].approvals) = <<>> <=> drafts[i].approvals = <<>>
    BY <2>2, SortedApprovals
  <2>4. /\ list[i].id = IdOf(drafts, i) /\ list[i].key = Preimage(drafts[i])
        /\ list[i].approvals = SortApprovals(drafts[i].approvals) /\ list[i].afk = drafts[i].afk
    BY <1>3, PartsOfProposal
  <2> QED BY <2>3, <2>4 DEF Waits
<1>5. Batch(drafts) = {list[i] : i \in 1..n}
  BY <1>3 DEF Batch, ToSet, list
<1> QED BY <1>3, <1>4, <1>5 DEF list

(* Drafts make a batch unless two have one key or one waits and is afk.    *)
LEMMA WhatIsBuilt ==
  ASSUME NEW drafts, NEW n, DraftsOf(drafts, n)
  PROVE  Built(drafts) <=> DistinctKeys(drafts) /\ NoneWaits(drafts)
<1> DEFINE list == Proposals(drafts)
<1>1. n \in Nat /\ DOMAIN drafts = 1..n /\ DOMAIN list = 1..n
  BY ProposalsOfDrafts DEF DraftsOf
<1>2. \A i \in 1..n :
        /\ list[i].id = IdOf(drafts, i) /\ list[i].key = Preimage(drafts[i])
        /\ Waits(list[i]) <=> drafts[i].afk /\ drafts[i].approvals # <<>>
  BY ProposalsOfDrafts
<1> HIDE DEF list
<1>3. (\A i \in 1..n : ~Waits(list[i])) <=> NoneWaits(drafts)
  BY <1>1, <1>2 DEF NoneWaits
<1>4. IsInjective([i \in DOMAIN list |-> list[i].key]) <=> DistinctKeys(drafts)
  BY <1>1, <1>2 DEF DistinctKeys, IsInjective
<1>5. ASSUME NEW i \in 1..n
      PROVE  /\ IdOf(drafts, i).key \in {{}, {Preimage(drafts[i])}}
             /\ IdOf(drafts, i).size # 99 => IdOf(drafts, i) \notin IdsBefore(list, i)
             /\ (\A u \in IdsBefore(list, i) : u.key # {Preimage(drafts[i])}) => IdOf(drafts, i).size # 99
  BY ProvisionalIds DEF IdOf, list
<1>6. ASSUME DistinctKeys(drafts), NEW i \in 1..n PROVE list[i].id.size # 99
  <2>1. ASSUME NEW j \in 1..(i - 1) PROVE list[j].id.key # {Preimage(drafts[i])}
    <3>1. j \in 1..n /\ j # i
      BY <1>1
    <3>2. list[j].id.key \in {{}, {Preimage(drafts[j])}}
      BY <1>2, <1>5, <3>1
    <3>3. Preimage(drafts[j]) # Preimage(drafts[i])
      BY <1>1, <1>6, <3>1 DEF DistinctKeys
    <3> QED BY <3>2, <3>3
  <2>2. \A u \in IdsBefore(list, i) : u.key # {Preimage(drafts[i])}
    BY <2>1 DEF IdsBefore
  <2> QED BY <1>2, <1>5, <2>2
<1>7. ASSUME \A i \in 1..n : list[i].id.size # 99
      PROVE  IsInjective([i \in DOMAIN list |-> list[i].id])
  <2>1. ASSUME NEW i \in 1..n, NEW j \in 1..n, j < i PROVE list[i].id # list[j].id
    <3>1. j \in 1..(i - 1)
      BY <1>1, <2>1
    <3>2. list[j].id \in IdsBefore(list, i)
      BY <3>1 DEF IdsBefore
    <3> QED BY <1>2, <1>5, <1>7, <3>2
  <2>2. \A i, j \in 1..n : list[i].id = list[j].id => i = j
    <3> SUFFICES ASSUME NEW i \in 1..n, NEW j \in 1..n, list[i].id = list[j].id, i # j PROVE FALSE
      OBVIOUS
    <3>1. i < j \/ j < i
      BY <1>1
    <3> QED BY <2>1, <3>1
  <2> QED BY <1>1, <2>2 DEF IsInjective
<1>8. Consistent(list) <=> /\ \A i \in 1..n : ~Waits(list[i])
                           /\ IsInjective([i \in DOMAIN list |-> list[i].id])
                           /\ IsInjective([i \in DOMAIN list |-> list[i].key])
  BY <1>1 DEF Consistent
<1>9. Built(drafts) <=> (\A i \in 1..n : list[i].id.size # 99) /\ Consistent(list)
  BY <1>1 DEF Built, list
<1> QED BY <1>3, <1>4, <1>6, <1>7, <1>8, <1>9

(* What is proposed, but for the endings of the ids, is what each draft    *)
(* proposes.                                                               *)
LEMMA WhatIsProposed ==
  ASSUME NEW drafts, NEW n, DraftsOf(drafts, n)
  PROVE  Proposed(drafts) = {Proposal(d, Slugify(d.title)) : d \in ToSet(drafts)}
<1> DEFINE list == Proposals(drafts)
<1>1. DOMAIN drafts = 1..n /\ Batch(drafts) = {list[i] : i \in 1..n}
  BY ProposalsOfDrafts DEF DraftsOf
<1>2. ASSUME NEW i \in 1..n
      PROVE  [list[i] EXCEPT !.id = @.slug] = Proposal(drafts[i], Slugify(drafts[i].title))
  <2>1. list[i] = Proposal(drafts[i], IdOf(drafts, i)) /\ list[i].id = IdOf(drafts, i)
    BY ProposalsOfDrafts
  <2>2. IdOf(drafts, i).slug = Slugify(drafts[i].title)
    BY ProvisionalIds DEF IdOf
  <2> HIDE DEF list
  <2>3. [list[i] EXCEPT !.id = @.slug] = [list[i] EXCEPT !.id = list[i].id.slug]
    BY <2>1 DEF Proposal
  <2> QED BY <2>1, <2>2, <2>3, PartsOfProposal
<1>3. ToSet(drafts) = {drafts[i] : i \in 1..n}
  BY <1>1 DEF ToSet
<1> DEFINE Stem(p) == [p EXCEPT !.id = @.slug]
           Unnumbered(d) == Proposal(d, Slugify(d.title))
<1>4. Proposed(drafts) = {Stem(p) : p \in Batch(drafts)}
  BY DEF Proposed
<1>5. \A i \in 1..n : Stem(list[i]) = Unnumbered(drafts[i])
  BY <1>2
<1> HIDE DEF list, Stem, Unnumbered
<1>6. Proposed(drafts) = {Unnumbered(d) : d \in ToSet(drafts)}
  BY <1>1, <1>3, <1>4, <1>5
<1> QED BY <1>6 DEF Unnumbered

(* Of the proposals of one slug, the first has the id without a hash.      *)
LEMMA SlugsArePlain ==
  ASSUME NEW drafts, NEW n, DraftsOf(drafts, n), NEW i \in 1..n
  PROVE  \E j \in 1..n : /\ IdOf(drafts, j).size = 0
                         /\ IdOf(drafts, j).slug = IdOf(drafts, i).slug
<1> DEFINE slug(k) == Slugify(drafts[k].title)
           S == {k \in 1..n : slug(k) = slug(i)}
<1>1. n \in Nat
  BY DEF DraftsOf
<1>2. PICK j \in S : \A k \in S : j <= k
  <2>1. S \in SUBSET Nat /\ S # {}
    BY <1>1
  <2> HIDE DEF S
  <2> QED BY <2>1, F!MinOfSet
<1>3. \A k \in 1..n : IdOf(drafts, k).slug = slug(k)
  BY ProvisionalIds DEF IdOf
<1>4. ASSUME NEW k \in 1..(j - 1) PROVE Proposals(drafts)[k].id.slug # slug(j)
  <2>1. k \in 1..n /\ ~(j <= k) /\ j \in 1..n /\ slug(j) = slug(i)
    BY <1>1, <1>2
  <2>2. k \notin S
    BY <1>2, <2>1
  <2>3. slug(k) # slug(j)
    BY <2>1, <2>2
  <2>4. Proposals(drafts)[k].id = IdOf(drafts, k)
    BY <2>1, ProposalsOfDrafts
  <2> HIDE DEF slug
  <2> QED BY <1>3, <2>1, <2>3, <2>4
<1>5. PlainId(drafts[j].title) \notin IdsBefore(Proposals(drafts), j)
  <2>1. PlainId(drafts[j].title).slug = slug(j)
    BY DEF PlainId
  <2> HIDE DEF slug
  <2> QED BY <1>4, <2>1 DEF IdsBefore
<1>6. IdOf(drafts, j).size = 0
  BY <1>5, ProvisionalIds DEF IdOf
<1>7. j \in 1..n /\ slug(j) = slug(i)
  BY <1>2
<1> HIDE DEF slug
<1> QED BY <1>3, <1>6, <1>7

(* References that are not two spellings of one stay as many.              *)
LEMMA CanonicalReferences ==
  ASSUME NEW refs \in Seq(Nat), refs # <<>>, ~{1, 3} \subseteq ToSet(refs)
  PROVE  CanonicalList(refs) # <<>> /\ IsInjective(CanonicalList(refs))
<1> DEFINE S == ToSet(refs)
           sorted == Sorted(S, <)
           list == CanonicalList(refs)
<1>1. Len(refs) \in Nat /\ DOMAIN refs = 1..Len(refs) /\ Len(refs) # 0
  BY EmptySeq
<1>2. S \in SUBSET Nat
  BY <1>1 DEF ToSet
<1>3. IsFiniteSet(S) /\ S # {}
  <2> DEFINE f == [i \in 1..Len(refs) |-> refs[i]]
  <2>1. S = {refs[i] : i \in 1..Len(refs)}
    BY <1>1 DEF ToSet
  <2>2. f \in Surjection(1..Len(refs), S)
    BY <2>1 DEF Surjection
  <2>3. IsFiniteSet(1..Len(refs))
    BY <1>1, FS_Interval
  <2>4. 1 \in 1..Len(refs)
    BY <1>1
  <2>5. IsFiniteSet(S)
    <3> HIDE DEF f, S
    <3> QED BY <2>2, <2>3, FS_Surjection
  <2> QED BY <2>1, <2>4, <2>5
<1>4. /\ Cardinality(S) \in Nat /\ sorted \in [1..Cardinality(S) -> S]
      /\ ToSet(sorted) = S /\ IsInjective(sorted)
  <2> HIDE DEF S
  <2> QED BY <1>2, <1>3, SortedNumbers
<1>5. Cardinality(S) # 0
  BY <1>3, FS_EmptySet
<1>6. list = [i \in DOMAIN sorted |-> NormalizeRef(sorted[i])]
  BY DEF CanonicalList
<1> HIDE DEF S, sorted, list
<1>7. \A x, y \in S : NormalizeRef(x) = NormalizeRef(y) => x = y
  BY DEF NormalizeRef, S
<1>8. DOMAIN sorted = 1..Cardinality(S) /\ \A i \in 1..Cardinality(S) : sorted[i] \in S
  BY <1>4
<1>9. DOMAIN list = 1..Cardinality(S) /\ \A i \in 1..Cardinality(S) : list[i] = NormalizeRef(sorted[i])
  BY <1>6, <1>8
<1>10. IsInjective(list)
  BY <1>4, <1>7, <1>8, <1>9 DEF IsInjective
<1>11. list # <<>>
  <2>1. 1 \in 1..Cardinality(S) /\ 1 \notin DOMAIN <<>>
    BY <1>4, <1>5
  <2> QED BY <1>9, <2>1
<1> QED BY <1>10, <1>11 DEF list

(* A batch that was built is valid, if its drafts name what they are about.*)
LEMMA BuiltIsValid ==
  ASSUME NEW drafts, NEW n, DraftsOf(drafts, n), Built(drafts),
         \A i \in DOMAIN drafts : drafts[i].refs # <<>> /\ ~{1, 3} \subseteq ToSet(drafts[i].refs)
  PROVE  BatchValid(drafts)
<1>1. DOMAIN drafts = 1..n
  BY DEF DraftsOf
<1>2. Consistent(Proposals(drafts))
  BY DEF Built
<1>3. ASSUME NEW i \in 1..n
      PROVE  /\ Proposals(drafts)[i].refs # <<>>
             /\ IsInjective(Proposals(drafts)[i].refs)
  <2>1. drafts[i].refs \in Seq(Nat)
    BY DEF DraftsOf, IsDraft
  <2>2. drafts[i].refs # <<>> /\ ~{1, 3} \subseteq ToSet(drafts[i].refs)
    BY <1>1
  <2>3. CanonicalList(drafts[i].refs) # <<>> /\ IsInjective(CanonicalList(drafts[i].refs))
    BY <2>1, <2>2, CanonicalReferences
  <2>4. Proposals(drafts)[i] = Proposal(drafts[i], IdOf(drafts, i))
    BY ProposalsOfDrafts
  <2>5. Proposals(drafts)[i].refs = CanonicalList(drafts[i].refs)
    BY <2>4, PartsOfProposal
  <2> QED BY <2>3, <2>5
<1>4. Batch(drafts) = {Proposals(drafts)[i] : i \in 1..n}
  BY ProposalsOfDrafts
<1>5. \A p \in Batch(drafts) : p.refs # <<>> /\ IsInjective(p.refs)
  BY <1>3, <1>4
<1> QED BY <1>2, <1>5 DEF BatchValid

(* A key does not depend on the order of the references.                   *)
LEMMA KeyOfReversed ==
  ASSUME NEW d, IsDraft(d)
  PROVE  Preimage([d EXCEPT !.refs = Reverse(@)]) = Preimage(d)
<1>1. PICK Titles, Approvals, Remains :
        d \in [title : Titles, refs : Seq(Nat), approvals : Seq(Approvals), afk : BOOLEAN, rest : Remains]
  BY DEF IsDraft
<1> DEFINE e == [d EXCEPT !.refs = Reverse(@)]
<1>2. e.refs = Reverse(d.refs) /\ e.title = d.title /\ e.approvals = d.approvals
  BY <1>1
<1>3. d.refs \in Seq(Nat)
  BY <1>1
<1>4. ToSet(Reverse(d.refs)) = ToSet(d.refs)
  BY <1>3, ReverseOfList
<1>5. CanonicalList(e.refs) = CanonicalList(d.refs)
  <2> HIDE DEF e
  <2> QED BY <1>2, <1>4 DEF CanonicalList
<1> HIDE DEF e
<1>6. Preimage(e) = Preimage(d)
  BY <1>2, <1>5 DEF Preimage
<1> QED BY <1>6 DEF e

(* Reversed drafts are the same drafts at other places.                    *)
LEMMA ReversedDrafts ==
  ASSUME NEW drafts, NEW n, DraftsOf(drafts, n)
  PROVE  /\ DraftsOf(Reverse(drafts), n) /\ ToSet(Reverse(drafts)) = ToSet(drafts)
         /\ DistinctKeys(Reverse(drafts)) <=> DistinctKeys(drafts)
         /\ NoneWaits(Reverse(drafts)) <=> NoneWaits(drafts)
<1> DEFINE back == Reverse(drafts)
           place(i) == n - i + 1
<1>1. n \in Nat /\ DOMAIN drafts = 1..n /\ \A i \in 1..n : IsDraft(drafts[i])
  BY DEF DraftsOf
<1>2. Len(drafts) = n
  BY <1>1
<1>3. DOMAIN back = 1..n /\ \A i \in 1..n : back[i] = drafts[place(i)]
  BY <1>2 DEF Reverse
<1>4. \A i \in 1..n : place(i) \in 1..n /\ place(place(i)) = i
  BY <1>1
<1>5. \A i, j \in 1..n : place(i) = place(j) => i = j
  BY <1>1
<1> HIDE DEF back, place
<1>6. \A i \in 1..n : drafts[i] = back[place(i)]
  BY <1>3, <1>4
<1>7. DraftsOf(back, n)
  BY <1>1, <1>3, <1>4 DEF DraftsOf
<1>8. ToSet(back) = ToSet(drafts)
  <2>1. \A x \in ToSet(back) : x \in ToSet(drafts)
    BY <1>1, <1>3, <1>4 DEF ToSet
  <2>2. \A x \in ToSet(drafts) : x \in ToSet(back)
    BY <1>1, <1>3, <1>4, <1>6 DEF ToSet
  <2> QED BY <2>1, <2>2
<1>9. DistinctKeys(back) <=> DistinctKeys(drafts)
  <2>1. ASSUME DistinctKeys(drafts) PROVE DistinctKeys(back)
    BY <1>1, <1>3, <1>4, <1>5, <2>1 DEF DistinctKeys
  <2>2. ASSUME DistinctKeys(back) PROVE DistinctKeys(drafts)
    BY <1>1, <1>3, <1>4, <1>5, <1>6, <2>2 DEF DistinctKeys
  <2> QED BY <2>1, <2>2
<1>10. NoneWaits(back) <=> NoneWaits(drafts)
  BY <1>1, <1>3, <1>4, <1>6 DEF NoneWaits
<1> QED BY <1>7, <1>8, <1>9, <1>10 DEF back

(* The order of any drafts decides neither whether there is a batch nor    *)
(* what it proposes, and one that was built is valid.                      *)
THEOREM BatchesAreOrderless ==
  ASSUME NEW drafts, NEW n, DraftsOf(drafts, n)
  PROVE  /\ Built(drafts) <=> DistinctKeys(drafts) /\ NoneWaits(drafts)
         /\ Built(drafts) = Built(Reverse(drafts)) /\ Proposed(drafts) = Proposed(Reverse(drafts))
         /\ {p.id.slug : p \in {q \in Batch(drafts) : q.id.size = 0}} = {p.id.slug : p \in Batch(drafts)}
         /\ Built(drafts) /\ (\A i \in DOMAIN drafts :
              drafts[i].refs # <<>> /\ ~{1, 3} \subseteq ToSet(drafts[i].refs)) => BatchValid(drafts)
         /\ \A i \in DOMAIN drafts : Preimage([drafts[i] EXCEPT !.refs = Reverse(@)]) = Preimage(drafts[i])
<1>1. /\ DraftsOf(Reverse(drafts), n) /\ ToSet(Reverse(drafts)) = ToSet(drafts)
      /\ DistinctKeys(Reverse(drafts)) <=> DistinctKeys(drafts)
      /\ NoneWaits(Reverse(drafts)) <=> NoneWaits(drafts)
  BY ReversedDrafts
<1>2. Built(drafts) <=> DistinctKeys(drafts) /\ NoneWaits(drafts)
  BY WhatIsBuilt
<1>3. Built(Reverse(drafts)) <=> Built(drafts)
  BY <1>1, <1>2, WhatIsBuilt
<1>4. Built(drafts) = Built(Reverse(drafts))
  <2>1. Built(drafts) \in BOOLEAN /\ Built(Reverse(drafts)) \in BOOLEAN
    BY DEF Built
  <2> QED BY <1>3, <2>1
<1>5. Proposed(drafts) = Proposed(Reverse(drafts))
  BY <1>1, WhatIsProposed
<1>6. ASSUME NEW p \in Batch(drafts)
      PROVE  \E q \in Batch(drafts) : q.id.size = 0 /\ q.id.slug = p.id.slug
  <2>1. PICK i \in 1..n : p = Proposals(drafts)[i] /\ p.id = IdOf(drafts, i)
    BY ProposalsOfDrafts
  <2>2. PICK j \in 1..n : IdOf(drafts, j).size = 0 /\ IdOf(drafts, j).slug = IdOf(drafts, i).slug
    BY SlugsArePlain
  <2>3. Proposals(drafts)[j] \in Batch(drafts) /\ Proposals(drafts)[j].id = IdOf(drafts, j)
    BY ProposalsOfDrafts
  <2> QED BY <2>1, <2>2, <2>3
<1>7. {p.id.slug : p \in {q \in Batch(drafts) : q.id.size = 0}} = {p.id.slug : p \in Batch(drafts)}
  BY <1>6
<1>8. \A i \in DOMAIN drafts : Preimage([drafts[i] EXCEPT !.refs = Reverse(@)]) = Preimage(drafts[i])
  BY KeyOfReversed DEF DraftsOf
<1>9. Built(drafts) /\ (\A i \in DOMAIN drafts :
        drafts[i].refs # <<>> /\ ~{1, 3} \subseteq ToSet(drafts[i].refs)) => BatchValid(drafts)
  BY BuiltIsValid
<1> QED BY <1>2, <1>4, <1>5, <1>7, <1>8, <1>9

(* What the drafts of the questions are made of.                           *)
Titled == {"Fix it", "Fix it!", "Other"}
Wholes == [title : Titled, refs : Seq(Nat), approvals : Seq(Nat), afk : BOOLEAN, rest : {"x", "y"}]

(* The drafts of the questions are drafts.                                 *)
LEMMA DraftsAreWhole ==
  /\ \A d \in Drafts : d \in Wholes
  /\ \A title \in Titled : Draft(title, <<2, 3>>, <<>>, FALSE, "x") \in Wholes
  /\ \A d \in Wholes : IsDraft(d)
<1> DEFINE RefLists == {<<2, 3>>, <<3, 2>>, <<1, 3>>, <<>>}
           ApprovalLists == {<<>>, <<1, 2>>, <<2, 1>>}
           Remains == {"x", "y"}
<1>1. RefLists \in SUBSET Seq(Nat) /\ ApprovalLists \in SUBSET Seq(Nat)
  <2>1. 1 \in Nat /\ 2 \in Nat /\ 3 \in Nat
    OBVIOUS
  <2>2. <<2, 3>> \in Seq(Nat) /\ <<3, 2>> \in Seq(Nat) /\ <<1, 3>> \in Seq(Nat)
    BY <2>1, ShortLists
  <2>3. <<1, 2>> \in Seq(Nat) /\ <<2, 1>> \in Seq(Nat) /\ <<>> \in Seq(Nat)
    BY <2>1, ShortLists
  <2> QED BY <2>2, <2>3, Zenon
<1>2. <<2, 3>> \in RefLists /\ <<>> \in ApprovalLists /\ "x" \in Remains
  BY Zenon
<1>3. Drafts = [title : Titled, refs : RefLists, approvals : ApprovalLists, afk : BOOLEAN,
                rest : Remains]
  BY Zenon DEF Drafts, Titled
<1> HIDE DEF RefLists, ApprovalLists, Remains
<1>4. \A title \in Titled, refs, approvals \in Seq(Nat), afk \in BOOLEAN, rest \in Remains :
        Draft(title, refs, approvals, afk, rest) \in Wholes
  BY DEF Draft, Wholes, Remains
<1>5. \A d \in Drafts : d \in Wholes
  BY <1>1, <1>3 DEF Wholes, Remains
<1>6. \A title \in Titled : Draft(title, <<2, 3>>, <<>>, FALSE, "x") \in Wholes
  <2>1. <<2, 3>> \in Seq(Nat) /\ <<>> \in Seq(Nat) /\ FALSE \in BOOLEAN
    BY <1>1, <1>2, Zenon
  <2> QED BY <1>2, <1>4, <2>1, Zenon
<1>7. \A d \in Wholes : IsDraft(d)
  BY DEF Wholes, IsDraft
<1> QED BY <1>5, <1>6, <1>7

(* The drafts that follow the others in a question.                        *)
LEMMA MoreDrafts ==
  ASSUME NEW more, more = <<>> \/ \E title \in Titled : more = <<title>>
  PROVE  [i \in DOMAIN more |-> Draft(more[i], <<2, 3>>, <<>>, FALSE, "x")] \in Seq(Wholes)
<1> DEFINE of(title) == Draft(title, <<2, 3>>, <<>>, FALSE, "x")
           list == [i \in DOMAIN more |-> of(more[i])]
<1>1. \A title \in Titled : of(title) \in Wholes
  BY DraftsAreWhole
<1> HIDE DEF of
<1>2. CASE more = <<>>
  <2>1. list = <<>>
    BY <1>2
  <2> QED BY <2>1 DEF of
<1>3. ASSUME NEW title \in Titled, more = <<title>> PROVE list \in Seq(Wholes)
  <2>1. list = <<of(title)>>
    BY <1>3
  <2>2. of(title) \in Wholes
    BY <1>1
  <2> HIDE DEF list
  <2> QED BY <2>1, <2>2, ShortLists
<1> QED BY <1>2, <1>3 DEF of

(* The drafts that a question asks about.                                  *)
LEMMA BatchQuestionsAreDrafts ==
  ASSUME AskBatch
  PROVE  \E n : DraftsOf(asked'.drafts, n)
<1> DEFINE Mores == {<<>>, <<"Fix it">>, <<"Fix it!">>}
<1>1. PICK one \in Drafts, two \in Drafts, more \in Mores, n \in {0, 6} :
        asked' = [kind |-> "batch", drafts |-> BatchOf(one, two, more, n)]
  BY DEF AskBatch, Ask
<1> DEFINE rest == [i \in DOMAIN more |-> Draft(more[i], <<2, 3>>, <<>>, FALSE, "x")]
           twos == [i \in 1..(n + 1) |-> two]
           list == BatchOf(one, two, more, n)
<1>2. more = <<>> \/ \E title \in Titled : more = <<title>>
  BY Zenon DEF Titled
<1> HIDE DEF Mores
<1>3. rest \in Seq(Wholes)
  BY <1>2, MoreDrafts
<1>4. one \in Wholes /\ two \in Wholes
  BY DraftsAreWhole
<1>5. list = <<one>> \o twos \o rest
  BY DEF BatchOf
<1> HIDE DEF rest, list
<1>6. <<one>> \in Seq(Wholes) /\ twos \in Seq(Wholes)
  <2>1. n + 1 \in Nat
    OBVIOUS
  <2> QED BY <1>4, <2>1, ShortLists
<1> HIDE DEF twos
<1>7. list \in Seq(Wholes)
  <2>1. <<one>> \o twos \in Seq(Wholes)
    BY <1>6, ConcatProperties
  <2>2. (<<one>> \o twos) \o rest \in Seq(Wholes)
    BY <1>3, <2>1, ConcatProperties
  <2> QED BY <1>5, <2>2
<1>8. /\ Len(list) \in Nat /\ DOMAIN list = 1..Len(list)
      /\ \A i \in 1..Len(list) : list[i] \in Wholes
  BY <1>7
<1>9. DraftsOf(list, Len(list))
  BY <1>8, DraftsAreWhole DEF DraftsOf
<1>10. asked'.drafts = list
  BY <1>1 DEF list
<1> QED BY <1>9, <1>10

(* Neither a graph nor a batch that is asked about depends on the order of *)
(* what it is made of.                                                     *)
THEOREM DecisionsAreOrderless == Spec => []OrderIndependent
<1>1. Init => BatchOrderIndependent
  BY DEF Init, BatchOrderIndependent, Asked
<1>2. BatchOrderIndependent /\ [Next]_asked => BatchOrderIndependent'
  <2> SUFFICES ASSUME BatchOrderIndependent, [Next]_asked PROVE BatchOrderIndependent'
    OBVIOUS
  <2>1. CASE AskBatch
    <3> DEFINE drafts == asked'.drafts
    <3>1. PICK n : DraftsOf(drafts, n)
      BY <2>1, BatchQuestionsAreDrafts
    <3> HIDE DEF drafts
    <3>2. (DistinctKeys(drafts) /\ NoneWaits(drafts)) <=>
             /\ \A i, j \in DOMAIN drafts : Preimage(drafts[i]) = Preimage(drafts[j]) => i = j
             /\ \A i \in DOMAIN drafts : drafts[i].afk => drafts[i].approvals = <<>>
      BY DEF DistinctKeys, NoneWaits
    <3> QED BY <3>1, <3>2, BatchesAreOrderless DEF BatchOrderIndependent, drafts
  <2>2. CASE AnyAsk /\ ~AskBatch
    <3>1. asked'.kind # "batch"
      BY <2>2, KindsOfQuestions DEF AnyAsk
    <3> QED BY <3>1 DEF BatchOrderIndependent, Asked
  <2>3. CASE UNCHANGED asked
    BY <2>3 DEF BatchOrderIndependent, Asked
  <2> QED BY <2>1, <2>2, <2>3, NextAsks
<1>3. Spec => []BatchOrderIndependent
  BY <1>1, <1>2, PTL DEF Spec
<1>4. GraphOrderIndependent /\ BatchOrderIndependent => OrderIndependent
  BY DEF OrderIndependent
<1> QED BY <1>3, <1>4, GraphsAreOrderless, PTL

-----------------------------------------------------------------------------
(* The node of a work item.                                                *)
LEMMA NodeOfItem ==
  ASSUME NEW doc, doc.kind = "work-item", Class(doc) = "projectable"
  PROVE  NodeId(doc) = <<"work-item", Canonical(doc.id)>> /\ NodeId(doc)[1] = "work-item"
<1>1. NodeId(doc) # Absent /\ doc.id # Absent
  BY DEF Class
<1>2. NodeId(doc) = <<"work-item", WorkItemRef(doc.id)>> /\ WorkItemRef(doc.id) # Absent
  BY <1>1 DEF NodeId, Absent
<1> QED BY <1>2 DEF WorkItemRef, Absent

(* A reference that was brought into its form stays as it is.              *)
LEMMA CanonicalTwice ==
  ASSUME NEW ref, Canonical(ref) # Absent
  PROVE  Canonical(Canonical(ref)) = Canonical(ref)
<1>1. CASE ref[1] \in {"wi", "wi-", "work-item"}
  <2>1. Canonical(ref) = <<"wi", ref[2]>>
    BY <1>1 DEF Canonical
  <2>2. Canonical(<<"wi", ref[2]>>) = <<"wi", ref[2]>>
    BY DEF Canonical, Absent
  <2> QED BY <2>1, <2>2
<1>2. CASE ref[1] \notin {"wi", "wi-", "work-item"}
  BY <1>2 DEF Canonical
<1> QED BY <1>1, <1>2

(* The edges that leave the node of a work item, when there are neither    *)
(* claims nor locks: what kind they are of says where they were written,   *)
(* and they lead to documents.                                             *)
LEMMA EdgesOfItem ==
  ASSUME NEW docs, IsList(docs), \A d \in ToSet(docs) : WellWritten(d) /\ WellIdentified(d),
         NEW doc, doc.kind = "work-item", Class(doc) = "projectable",
         NEW e \in ToSet(Project(docs, <<>>, <<>>).edges), e.from = NodeId(doc)
  PROVE  /\ \/ e.type = "references" /\ e.key \notin {"depends_on", "evidence"}
                 /\ \E d \in ToSet(docs) : \E l \in ToSet(d.links) : e.key = l.key
            \/ e.type = "depends_on" /\ e.key = "depends_on"
            \/ e.key \in DOMAIN RelationType /\ e.type = RelationType[e.key]
         /\ \E d \in ToSet(docs) : Class(d) = "projectable" /\ NodeId(d) = e.to
<1> DEFINE a == FoldLeft(AddDocument, Empty, docs)
           b == FoldLeft(AddClaim, a, <<>>)
           s == Ground(docs, <<>>, <<>>)
           g == Project(docs, <<>>, <<>>)
<1>1. PICK n \in Nat : DOMAIN docs = 1..n
  BY DEF IsList
<1>2. \A i \in 1..n : docs[i] \in ToSet(docs) /\ WellWritten(docs[i]) /\ WellIdentified(docs[i])
  <2>1. \A i \in 1..n : docs[i] \in ToSet(docs)
    BY <1>1 DEF ToSet
  <2> QED BY <2>1
<1>3. DOMAIN <<>> = 1..0 /\ 0 \in Nat
  OBVIOUS
<1>4. /\ FirstAdds(docs, n, a)
      /\ PassAdds(Pass("claim", 0, a, <<>>), 0, b)
      /\ PassAdds(Pass("lock", 0, b, <<>>), 0, s)
      /\ PassAdds(Pass("edges", 0, s, docs), n, g)
  BY <1>1, <1>2, <1>3, ProjectIsExact
<1> HIDE DEF a, b, s, g
<1>5. s.alias = a.alias /\ \A f : f \notin ToSet(s.edges)
  <2>1. b.alias = a.alias /\ \A f : f \in ToSet(b.edges) <=> f \in ToSet(a.edges)
    <3>1. Pass("claim", 0, a, <<>>).base = a
      BY DEF Pass
    <3> QED BY <1>4, <3>1 DEF PassAdds
  <2>2. s.alias = b.alias /\ \A f : f \in ToSet(s.edges) <=> f \in ToSet(b.edges)
    <3>1. Pass("lock", 0, b, <<>>).base = b
      BY DEF Pass
    <3> QED BY <1>4, <3>1 DEF PassAdds
  <2>3. a.edges = <<>> /\ ToSet(<<>>) = {}
    BY <1>4 DEF FirstAdds, ToSet
  <2> QED BY <2>1, <2>2, <2>3
<1>6. \A ref : Target(s, ref) # Absent =>
        \E d \in ToSet(docs) : Class(d) = "projectable" /\ NodeId(d) = Target(s, ref)
  <2> SUFFICES ASSUME NEW ref, Target(s, ref) # Absent
               PROVE  \E d \in ToSet(docs) : Class(d) = "projectable" /\ NodeId(d) = Target(s, ref)
    OBVIOUS
  <2>1. Target(s, ref) = Resolve(s, ref)
    BY DEF Target
  <2>2. ref \in DOMAIN s.alias /\ Resolve(s, ref) = s.alias[ref]
    BY <2>1 DEF Resolve
  <2>3. PICK j \in 1..n : Calls(docs[j], ref) /\ a.alias[ref] = NodeId(docs[j])
    BY <1>4, <1>5, <2>2 DEF FirstAdds
  <2> QED BY <1>2, <1>5, <2>1, <2>2, <2>3 DEF Calls
<1>7. PICK j \in 1..n : GivesEdge(Pass("edges", 0, s, docs), docs[j], e)
  <2>1. Pass("edges", 0, s, docs).base = s /\ Pass("edges", 0, s, docs).list = docs
    BY DEF Pass
  <2>2. e \in ToSet(g.edges)
    BY DEF g
  <2> QED BY <1>4, <1>5, <2>1, <2>2 DEF PassAdds
<1> DEFINE d == docs[j]
<1>8. Linkable(s, d) /\ \E pass \in PassesOver(d) : \E y \in Parts(pass, d) : PartEdge(pass, d, s, y, e)
  BY <1>7 DEF GivesEdge, Pass
<1>18. PICK pass \in PassesOver(d) : \E y \in Parts(pass, d) : PartEdge(pass, d, s, y, e)
  BY <1>8
<1>9. PICK y \in Parts(pass, d) : PartEdge(pass, d, s, y, e)
  BY <1>18
<1>10. NodeId(doc)[1] = "work-item"
  BY NodeOfItem
<1>11. d \in ToSet(docs) /\ Class(d) = "projectable"
  BY <1>2, <1>8 DEF Linkable
<1> HIDE DEF d
<1>12. CASE pass = "informal"
  <2> DEFINE to == Target(s, y.ref)
  <2>1. /\ y.key \notin {"depends_on", "evidence"} /\ to # Absent
        /\ e = Edge(NodeId(d), "references", to, d.file, y.key, y.ref)
    BY <1>9, <1>12 DEF PartEdge, Destination, PointEdge
  <2>2. y \in ToSet(d.links)
    BY <1>9, <1>12 DEF Parts
  <2> HIDE DEF to
  <2>3. e.type = "references" /\ e.key = y.key /\ e.to = to
    BY <2>1 DEF Edge
  <2> QED BY <1>6, <1>11, <2>1, <2>2, <2>3 DEF to
<1>13. CASE pass = "evidence"
  <2> DEFINE from == Resolve(s, y.ref)
             to == NodeId(d)
  <2>1. /\ from[1] = "record"
        /\ e = Edge(from, "records", to, d.file, y.key, y.ref)
    BY <1>9, <1>13 DEF PartEdge, Destination, PointEdge
  <2> HIDE DEF from, to
  <2>2. e.from = from
    BY <2>1 DEF Edge
  <2> QED BY <1>10, <2>1, <2>2
<1>14. CASE pass = "dependency"
  <2> DEFINE to == Target(s, y.ref)
  <2>1. /\ y.key = "depends_on" /\ to # Absent
        /\ e = Edge(NodeId(d), "depends_on", to, d.file, y.key, y.ref)
    BY <1>9, <1>14 DEF PartEdge, Destination, PointEdge
  <2> HIDE DEF to
  <2>2. e.type = "depends_on" /\ e.key = y.key /\ e.to = to
    BY <2>1 DEF Edge
  <2> QED BY <1>6, <2>1, <2>2 DEF to
<1>15. CASE pass = "relationship"
  <2> DEFINE to == Target(s, y.ref)
  <2>1. /\ y.key \in DOMAIN RelationType /\ to # Absent
        /\ e = Edge(NodeId(d), RelationType[y.key], to, d.file, y.key, y.ref)
    BY <1>9, <1>15 DEF PartEdge, Destination, PointEdge
  <2> HIDE DEF to
  <2>2. e.type = RelationType[y.key] /\ e.key = y.key /\ e.to = to
    BY <2>1 DEF Edge
  <2> QED BY <1>6, <2>1, <2>2 DEF to
<1>16. CASE pass = "subject"
  <2>1. d.kind = "record"
    BY <1>9, <1>16 DEF PassesOver
  <2>2. NodeId(d)[1] = "record"
    <3>1. NodeId(d) # Absent /\ d.id # Absent
      BY <1>11 DEF Class
    <3> QED BY <2>1, <3>1 DEF NodeId
  <2>3. e = Edge(NodeId(d), "records", Destination(pass, d, s, y), d.file, "subject_reference", y)
    BY <1>9, <1>16 DEF PartEdge, PointEdge
  <2>4. e.from = NodeId(d)
    BY <2>3 DEF Edge
  <2> QED BY <1>10, <2>2, <2>4
<1>17. pass \in {"informal", "evidence", "dependency", "relationship", "subject"}
  BY <1>9 DEF PassesOver
<1> QED BY <1>12, <1>13, <1>14, <1>15, <1>16, <1>17

(* What the status command takes for granted: the name of a record says    *)
(* that it is one, and no link has the name of a relationship for its key. *)
WellKeyed(doc) ==
  /\ doc.kind = "record" /\ doc.id # Absent => doc.id = <<"record", doc.id[2]>>
  /\ \A l \in ToSet(doc.links) : l.key \in DOMAIN RelationType => l.key = "depends_on"

(* A name by which the status command knows a document is one that leads   *)
(* there.                                                                  *)
LEMMA TokensLead ==
  ASSUME NEW docs, IsList(docs), \A d \in ToSet(docs) : WellKeyed(d),
         NEW n, \E d \in ToSet(docs) : Class(d) = "projectable" /\ NodeId(d) = n,
         NEW a, a.ref \in NodeTokens(docs, n)
  PROVE  LeadsTo(docs, a, n)
<1>0. \A i \in DOMAIN docs : docs[i] \in ToSet(docs)
  BY DEF ToSet
<1>1. PICK k \in DOMAIN docs : Class(docs[k]) = "projectable" /\ NodeId(docs[k]) = n
  BY DEF ToSet
<1> DEFINE d == docs[k]
<1>2. d.id # Absent /\ NodeId(d) # Absent
  BY <1>1 DEF Class
<1>3. CASE \E i \in Maker(docs, n) : a.ref \in {docs[i].id, docs[i].file}
  <2>1. PICK i \in Maker(docs, n) : a.ref \in {docs[i].id, docs[i].file}
    BY <1>3
  <2>2. i \in DOMAIN docs /\ (Created(docs[i]) = n \/ NodeId(docs[i]) = n)
    <3> DEFINE makers == {q \in DOMAIN docs : Created(docs[q]) = n}
    <3>1. CASE makers = {}
      BY <2>1, <3>1 DEF Maker
    <3>2. CASE makers # {}
      <4>1. makers \subseteq Nat
        BY DEF IsList
      <4>2. Maker(docs, n) = {Min(makers)}
        BY <3>2 DEF Maker
      <4> HIDE DEF makers
      <4>3. i \in makers
        BY <2>1, <3>2, <4>1, <4>2, LeastOf
      <4> QED BY <4>3 DEF makers
    <3> QED BY <3>1, <3>2
  <2>3. NodeId(docs[i]) = n
    <3>1. CASE docs[i].kind # "scope"
      BY <2>2, <3>1 DEF Created
    <3>2. CASE docs[i].kind = "scope" /\ NodeId(docs[i]) # n
      <4>1. n = <<"scope", docs[i].id>>
        BY <2>2, <3>2 DEF Created
      <4>2. n = <<"scope", Canonical(d.id)>> /\ Canonical(d.id) # Absent
        BY <1>1, <1>2, <4>1 DEF NodeId, Absent
      <4>3. docs[i].id = Canonical(d.id) /\ Canonical(docs[i].id) = docs[i].id
        BY <4>1, <4>2, CanonicalTwice
      <4>4. NodeId(docs[i]) = <<"scope", docs[i].id>>
        BY <3>2, <4>2, <4>3 DEF NodeId
      <4> QED BY <3>2, <4>1, <4>4
    <3> QED BY <3>1, <3>2
  <2>4. a.ref \in Aliases(docs[i])
    BY <2>1 DEF Aliases
  <2> QED BY <2>2, <2>3, <2>4 DEF LeadsTo
<1>4. CASE n[1] = "work-item" /\ a.ref = n[2]
  <2>1. d.kind = "work-item"
    BY <1>1, <1>2, <1>4 DEF NodeId
  <2>2. n[2] = Canonical(d.id) /\ Canonical(d.id) # Absent
    <3>1. n = <<"work-item", WorkItemRef(d.id)>> /\ WorkItemRef(d.id) # Absent
      BY <1>1, <1>2, <2>1 DEF NodeId, Absent
    <3> QED BY <3>1 DEF WorkItemRef
  <2>3. Canonical(a.ref) = Canonical(d.id)
    BY <1>4, <2>2, CanonicalTwice
  <2> QED BY <1>1, <2>3 DEF LeadsTo
<1>5. CASE n[1] = "record" /\ a.ref = n
  <2>1. d.kind = "record"
    BY <1>1, <1>2, <1>5 DEF NodeId
  <2>2. n = <<"record", d.id[2]>>
    BY <1>1, <1>2, <2>1 DEF NodeId
  <2>3. d.id = n
    BY <1>0, <1>2, <2>1, <2>2 DEF WellKeyed
  <2>4. a.ref \in Aliases(d)
    BY <1>5, <2>3 DEF Aliases
  <2> QED BY <1>1, <2>4 DEF LeadsTo
<1> DEFINE named == UNION {{docs[i].id, docs[i].file} : i \in Maker(docs, n)}
           plain == CASE n[1] = "work-item" -> {n[2]} [] n[1] = "record" -> {n} [] OTHER -> {}
<1>6. a.ref \in named \/ a.ref \in plain
  <2>1. NodeTokens(docs, n) = named \cup plain
    BY DEF NodeTokens
  <2> HIDE DEF named, plain
  <2> QED BY <2>1
<1>7. a.ref \in named => \E i \in Maker(docs, n) : a.ref \in {docs[i].id, docs[i].file}
  OBVIOUS
<1>8. a.ref \in plain => \/ n[1] = "work-item" /\ a.ref = n[2]
                         \/ n[1] = "record" /\ a.ref = n
  OBVIOUS
<1> HIDE DEF named, plain
<1> QED BY <1>3, <1>4, <1>5, <1>6, <1>7, <1>8

(* The edges from a document that were written under a key.                *)
OutUnder(g, doc, key) == {e \in {g.edges[i] : i \in Outgoing(g, NodeId(doc))} : e.key = key}
ReportedOf(g, docs, doc) == {d.of : d \in Facts(g, docs, doc).diagnostics}

(* What the status command reports, word by word.                          *)
Scoped(g, doc, scope) == {e \in {g.edges[i] : i \in Outgoing(g, NodeId(doc))} :
  e.type \in (IF scope = "formal" THEN {"belongs_to", "depends_on", "implements"} ELSE {"references"})}

(* What the command finds absent or broken, in these words.                *)
LEMMA FactsInWords ==
  ASSUME NEW g, NEW docs, NEW doc
  PROVE  /\ \A a : a \in ReportedOf(g, docs, doc) <=>
              a \in Authored(doc) /\ \A e \in Scoped(g, doc, a.scope) : ~Matches(docs, doc, a, e)
         /\ \A e \in Scoped(g, doc, "formal") :
              [type |-> e.type, target |-> e.raw] \in Facts(g, docs, doc).relationships
<1> DEFINE out == {g.edges[i] : i \in Outgoing(g, NodeId(doc))}
           formal == {e \in out : e.type \in {"belongs_to", "depends_on", "implements"}}
           informal == {e \in out : e.type = "references"}
           kept == {a \in Authored(doc) :
             \A e \in (IF a.scope = "formal" THEN formal ELSE informal) : ~Matches(docs, doc, a, e)}
           facts == Facts(g, docs, doc)
<1>1. facts.relationships = {[type |-> e.type, target |-> e.raw] : e \in formal}
  BY DEF Facts
<1>2. facts.diagnostics = {[of |-> a, reason |-> Reason(docs, a)] : a \in kept}
  BY DEF Facts
<1>3. \A scope : Scoped(g, doc, scope) = IF scope = "formal" THEN formal ELSE informal
  BY DEF Scoped
<1>4. Scoped(g, doc, "formal") = formal
  BY <1>3
<1>5. \A a : a \in ReportedOf(g, docs, doc) <=> a \in kept
  <2> HIDE DEF kept, facts
  <2> DEFINE told(a) == [of |-> a, reason |-> Reason(docs, a)]
  <2>1. \A a : told(a).of = a
    OBVIOUS
  <2>2. facts.diagnostics = {told(a) : a \in kept}
    BY <1>2
  <2> HIDE DEF told
  <2>3. ReportedOf(g, docs, doc) = {d.of : d \in {told(a) : a \in kept}}
    BY <2>2 DEF ReportedOf, facts
  <2> QED BY <2>1, <2>3
<1> HIDE DEF out, formal, informal, facts
<1>6. \A a : a \in kept <=> a \in Authored(doc) /\ \A e \in Scoped(g, doc, a.scope) : ~Matches(docs, doc, a, e)
  BY <1>3
<1> HIDE DEF kept
<1>7. \A e \in Scoped(g, doc, "formal") : [type |-> e.type, target |-> e.raw] \in facts.relationships
  BY <1>1, <1>4
<1> QED BY <1>5, <1>6, <1>7 DEF facts

(* What was written where the status command reads it.                     *)
Source(doc, a) ==
  \/ /\ a.scope = "formal" /\ a.key = "depends_on"
     /\ \E l \in ToSet(doc.links) : a = Reference("formal", l)
  \/ /\ a.scope = "informational" /\ a.key \notin {"depends_on", "evidence"}
     /\ \E l \in ToSet(doc.links) : a = Reference("informational", l)
  \/ /\ a.scope = "formal" /\ a.key \in DOMAIN RelationType
     /\ \E r \in ToSet(doc.rels) \cup ToSet(doc.deep) : a = Reference("formal", r)

(* Every reference of a document that the command counts is written in one *)
(* of these places.                                                        *)
LEMMA AuthoredHasSource ==
  ASSUME NEW doc, NEW a \in Authored(doc)
  PROVE  Source(doc, a)
<1>0. \A scope, l : LET r == Reference(scope, l) IN
        r.scope = scope /\ r.key = l.key /\ r.ref = l.ref /\ r.form = l.form
  BY DEF Reference
<1>1. \/ \E l \in ToSet(doc.links) : l.key = "depends_on" /\ a = Reference("formal", l)
      \/ \E l \in ToSet(doc.links) : l.key \notin {"depends_on", "evidence"} /\ a = Reference("informational", l)
      \/ \E r \in ToSet(doc.rels) \cup ToSet(doc.deep) : r.key \in DOMAIN RelationType /\ a = Reference("formal", r)
  BY DEF Authored, RelationsRead
<1> QED BY <1>0, <1>1 DEF Source

(* A link or relationship as the status command reads it can be written    *)
(* in any form, but for one in a section on another level.                 *)
StatusReadable(doc) == /\ IsSeq(doc.links) /\ IsSeq(doc.rels)
                       /\ \A r \in ToSet(doc.deep) : r.form = "wiki"

(* What two lists hold together.                                           *)
LEMMA TwoLists ==
  ASSUME NEW s, NEW t, IsSeq(s), IsSeq(t)
  PROVE  ToSet(s \o t) = ToSet(s) \cup ToSet(t)
<1>1. PICK S : s \in Seq(S)
  BY DEF IsSeq
<1>2. PICK T : t \in Seq(T)
  BY DEF IsSeq
<1>3. s \in Seq(S \cup T) /\ t \in Seq(S \cup T)
  BY <1>1, <1>2
<1> DEFINE m == Len(s)
           n == Len(t)
<1>4. /\ m \in Nat /\ n \in Nat /\ DOMAIN s = 1..m /\ DOMAIN t = 1..n /\ DOMAIN (s \o t) = 1..(m + n)
      /\ \A i \in 1..(m + n) : (s \o t)[i] = IF i <= m THEN s[i] ELSE t[i - m]
  BY <1>3
<1> HIDE DEF m, n
<1>5. ASSUME NEW x \in ToSet(s \o t) PROVE x \in ToSet(s) \cup ToSet(t)
  <2>1. PICK i \in 1..(m + n) : x = (s \o t)[i]
    BY <1>4 DEF ToSet
  <2>2. CASE i <= m
    <3>1. i \in 1..m /\ x = s[i]
      BY <1>4, <2>1, <2>2
    <3> QED BY <1>4, <3>1 DEF ToSet
  <2>3. CASE i > m
    <3>1. i - m \in 1..n /\ x = t[i - m]
      BY <1>4, <2>1, <2>3
    <3> QED BY <1>4, <3>1 DEF ToSet
  <2> QED BY <1>4, <2>1, <2>2, <2>3
<1>6. ASSUME NEW x \in ToSet(s) PROVE x \in ToSet(s \o t)
  <2>1. PICK i \in 1..m : x = s[i]
    BY <1>4 DEF ToSet
  <2>2. i \in 1..(m + n) /\ x = (s \o t)[i]
    BY <1>4, <2>1
  <2> QED BY <1>4, <2>2 DEF ToSet
<1>7. ASSUME NEW x \in ToSet(t) PROVE x \in ToSet(s \o t)
  <2>1. PICK i \in 1..n : x = t[i]
    BY <1>4 DEF ToSet
  <2>2. m + i \in 1..(m + n) /\ x = (s \o t)[m + i]
    BY <1>4, <2>1
  <2> QED BY <1>4, <2>2 DEF ToSet
<1> QED BY <1>5, <1>6, <1>7

(* The status command and the graph agree about a work item: a reference   *)
(* it reads is reported or has an edge, by its own words or by those of    *)
(* another reference to the same document; what is reported has no edge,   *)
(* but a wiki link to a document by none of the names the graph knows it   *)
(* by; and every dependency in the graph is shown.                         *)
THEOREM StatusIsHonest ==
  ASSUME NEW docs, IsList(docs), \A d \in ToSet(docs) : WellWritten(d) /\ WellIdentified(d) /\ WellKeyed(d),
         NEW doc \in ToSet(docs), doc.kind = "work-item", Class(doc) = "projectable", StatusReadable(doc)
  PROVE  LET g == Project(docs, <<>>, <<>>) IN
         /\ \A a \in Authored(doc) : \/ a \in ReportedOf(g, docs, doc)
                                     \/ \E e \in OutUnder(g, doc, a.key) : e.raw = a.ref \/ LeadsTo(docs, a, e.to)
         /\ \A a \in ReportedOf(g, docs, doc) : \A e \in OutUnder(g, doc, a.key) : e.raw = a.ref =>
              a.form = "wiki" /\ a.ref \notin NodeTokens(docs, e.to)
         /\ \A e \in OutUnder(g, doc, "depends_on") :
              [type |-> "depends_on", target |-> e.raw] \in Facts(g, docs, doc).relationships
<1> DEFINE g == Project(docs, <<>>, <<>>)
           out == {g.edges[i] : i \in Outgoing(g, NodeId(doc))}
<1>1. \A e \in out :
        /\ \/ e.type = "references" /\ e.key \notin {"depends_on", "evidence"}
                /\ \E d \in ToSet(docs) : \E l \in ToSet(d.links) : e.key = l.key
           \/ e.type = "depends_on" /\ e.key = "depends_on"
           \/ e.key \in DOMAIN RelationType /\ e.type = RelationType[e.key]
        /\ \E d \in ToSet(docs) : Class(d) = "projectable" /\ NodeId(d) = e.to
  <2> SUFFICES ASSUME NEW e \in out PROVE e \in ToSet(g.edges) /\ e.from = NodeId(doc)
    BY EdgesOfItem
  <2> HIDE DEF g
  <2> QED BY DEF Outgoing, ToSet
<1> HIDE DEF g
<1>2. /\ \A key, e : e \in OutUnder(g, doc, key) <=> e \in out /\ e.key = key
      /\ \A scope, e : e \in Scoped(g, doc, scope) <=> e \in out /\
           e.type \in (IF scope = "formal" THEN {"belongs_to", "depends_on", "implements"} ELSE {"references"})
  BY DEF OutUnder, Scoped
<1> HIDE DEF out
<1>3. /\ DOMAIN RelationType = {"part_of", "belongs_to", "implements", "depends_on"}
      /\ \A key \in DOMAIN RelationType : RelationType[key] \in {"belongs_to", "depends_on", "implements"}
      /\ RelationType["depends_on"] = "depends_on"
  BY DEF RelationType
<1>4. ASSUME NEW e \in out
      PROVE  /\ e.type = "references" => e.key \notin DOMAIN RelationType
             /\ e.key \notin DOMAIN RelationType => e.type = "references"
             /\ e.key \in DOMAIN RelationType => e.type \in {"belongs_to", "depends_on", "implements"}
             /\ e.key = "depends_on" => e.type = "depends_on"
  <2>1. e.type = "references" /\ (\E d \in ToSet(docs) : \E l \in ToSet(d.links) : e.key = l.key)
          /\ e.key \notin {"depends_on", "evidence"} => e.key \notin DOMAIN RelationType
    BY DEF WellKeyed
  <2> HIDE DEF RelationType
  <2> QED BY <1>1, <1>3, <2>1
<1>5. ASSUME NEW a \in Authored(doc)
      PROVE  \/ a \in ReportedOf(g, docs, doc)
             \/ \E e \in OutUnder(g, doc, a.key) : e.raw = a.ref \/ LeadsTo(docs, a, e.to)
  <2> SUFFICES ASSUME a \notin ReportedOf(g, docs, doc)
               PROVE  \E e \in OutUnder(g, doc, a.key) : e.raw = a.ref \/ LeadsTo(docs, a, e.to)
    OBVIOUS
  <2>1. PICK e \in Scoped(g, doc, a.scope) : Matches(docs, doc, a, e)
    BY FactsInWords
  <2>2. e \in out /\ e.key = a.key /\ a.ref \in EdgeTokens(docs, doc, e)
    BY <1>2, <2>1 DEF Matches
  <2>3. e \in OutUnder(g, doc, a.key)
    BY <1>2, <2>2
  <2>4. a.ref \in NodeTokens(docs, e.to) \/ a.ref = e.raw
    BY <2>2 DEF EdgeTokens
  <2>5. a.ref \in NodeTokens(docs, e.to) => LeadsTo(docs, a, e.to)
    BY <1>1, <2>2, TokensLead
  <2> QED BY <2>3, <2>4, <2>5
<1>6. ASSUME NEW a \in ReportedOf(g, docs, doc), NEW e \in OutUnder(g, doc, a.key), e.raw = a.ref
      PROVE  a.form = "wiki" /\ a.ref \notin NodeTokens(docs, e.to)
  <2>1. a \in Authored(doc) /\ \A f \in Scoped(g, doc, a.scope) : ~Matches(docs, doc, a, f)
    BY FactsInWords
  <2>2. e \in out /\ e.key = a.key
    BY <1>2
  <2>3. Source(doc, a)
    BY <2>1, AuthoredHasSource
  <2>4. e \in Scoped(g, doc, a.scope)
    <3>1. CASE a.scope = "formal"
      <4>1. a.key \in DOMAIN RelationType
        BY <1>3, <2>3, <3>1 DEF Source
      <4> QED BY <1>2, <1>4, <2>2, <3>1, <4>1
    <3>2. CASE a.scope # "formal"
      <4>1. a.key \notin DOMAIN RelationType
        <5>1. PICK l \in ToSet(doc.links) : a = Reference("informational", l) /\ a.key \notin {"depends_on", "evidence"}
          BY <2>3, <3>2 DEF Source
        <5>2. a.key = l.key
          BY <5>1 DEF Reference
        <5> QED BY <1>3, <5>1, <5>2 DEF WellKeyed
      <4> QED BY <1>2, <1>4, <2>2, <3>2, <4>1
    <3> QED BY <3>1, <3>2
  <2>5. a.ref \notin EdgeTokens(docs, doc, e)
    BY <2>1, <2>2, <2>4 DEF Matches
  <2>6. a.ref \notin NodeTokens(docs, e.to)
    BY <2>5 DEF EdgeTokens
  <2>7. \A l \in ToSet(doc.links) \cup ToSet(doc.rels) : l.key = a.key /\ l.ref = a.ref => l.form = "wiki"
    <3>1. ToSet(doc.links \o doc.rels) = ToSet(doc.links) \cup ToSet(doc.rels)
      BY TwoLists DEF StatusReadable
    <3> QED BY <2>2, <2>5, <3>1, <1>6 DEF EdgeTokens
  <2>8. PICK l \in (ToSet(doc.links) \cup ToSet(doc.rels)) \cup ToSet(doc.deep) :
          \E scope : a = Reference(scope, l)
    BY <2>3 DEF Source
  <2>9. a.key = l.key /\ a.ref = l.ref /\ a.form = l.form
    BY <2>8 DEF Reference
  <2> QED BY <2>6, <2>7, <2>8, <2>9 DEF StatusReadable
<1>7. ASSUME NEW e \in OutUnder(g, doc, "depends_on")
      PROVE  [type |-> "depends_on", target |-> e.raw] \in Facts(g, docs, doc).relationships
  <2>1. e \in Scoped(g, doc, "formal") /\ e.type = "depends_on"
    BY <1>2, <1>4
  <2>2. [type |-> e.type, target |-> e.raw] \in Facts(g, docs, doc).relationships
    BY <2>1, FactsInWords
  <2> QED BY <2>1, <2>2
<1> QED BY <1>5, <1>6, <1>7 DEF g

(* The workspaces of the questions about status.                           *)
LEMMA StatusQuestionsAreReadable ==
  ASSUME AskStatus
  PROVE  LET docs == asked'.docs doc == docs[1] IN
         /\ IsList(docs) /\ doc \in ToSet(docs)
         /\ \A d \in ToSet(docs) : WellWritten(d) /\ WellIdentified(d) /\ WellKeyed(d)
         /\ doc.kind = "work-item" /\ Class(doc) = "projectable" /\ StatusReadable(doc)
         /\ \A l \in ToSet(doc.links) : l.key \in {"depends_on", "related"}
         /\ \A r \in ToSet(doc.rels) \cup ToSet(doc.deep) : r.key \in {"depends_on", "part_of"}
<1>1. PICK one \in Written, two \in Written, rs \in SeqOf(Related, 1), second \in Seconds, deep \in BOOLEAN :
        asked' = [kind |-> "status",
                  docs |-> Workspace(<<one, two>>, IF deep THEN <<>> ELSE rs,
                                     IF deep THEN rs ELSE <<>>, second, <<>>)]
  BY DEF AskStatus, Ask
<1> DEFINE links == <<one, two>>
           rels == IF deep THEN <<>> ELSE rs
           under == IF deep THEN rs ELSE <<>>
           docs == Workspace(links, rels, under, second, <<>>)
           doc == docs[1]
<1>2. asked'.docs = docs
  BY <1>1
<1>3. links \in Seq(Written) /\ ToSet(links) \subseteq Written
  <2>1. links \in Seq(Written)
    OBVIOUS
  <2> HIDE DEF links
  <2> QED BY <2>1 DEF ToSet
<1>4. rs \in Seq(Related) /\ <<>> \in Seq(Related)
  <2>1. PICK m \in 0..1 : rs \in [1..m -> Related]
    BY DEF SeqOf
  <2> QED BY <2>1
<1>5. rels \in Seq(Related) /\ under \in Seq(Related) /\ ToSet(rels) \subseteq Related /\ ToSet(under) \subseteq Related
  <2>1. rels \in Seq(Related) /\ under \in Seq(Related)
    BY <1>4
  <2> HIDE DEF rels, under
  <2> QED BY <2>1 DEF ToSet
<1>6. (\A l \in Written : l.key \in {"depends_on", "related"})
      /\ \A r \in Related : r.key \in {"depends_on", "part_of"} /\ r.form = "wiki"
  <2>1. ASSUME NEW l \in Written PROVE l.key \in {"depends_on", "related"}
    <3>1. PICK k \in {"depends_on", "related"}, r \in Named2, f \in {"text", "wiki", "object"} :
            l = [key |-> k, ref |-> r, form |-> f]
      BY DEF Written
    <3> QED BY <3>1
  <2>2. ASSUME NEW r \in Related PROVE r.key \in {"depends_on", "part_of"} /\ r.form = "wiki"
    <3>1. PICK k \in {"part_of", "depends_on"}, t \in RelatedTo, p \in {"section", "sub"} :
            r = [key |-> k, ref |-> t, form |-> "wiki", place |-> p]
      BY DEF Related
    <3> QED BY <3>1
  <2> QED BY <2>1, <2>2
<1>7. IsSeq(<<>>) /\ IsList(<<>>) /\ ToSet(<<>>) = {} /\ \A s : IsSeq(s) => IsList(s)
  BY DEF IsSeq, IsList, ToSet
<1>8. IsSeq(links) /\ IsSeq(rels)
  BY <1>3, <1>5 DEF IsSeq
<1> HIDE DEF links, rels, under
<1>9. /\ DOMAIN docs = 1..5
      /\ doc.kind = "work-item" /\ doc.id = <<"wi-", "1">>
      /\ doc.links = links /\ doc.rels = rels /\ doc.deep = under /\ doc.subjects = <<>>
      /\ docs[3].kind = "note" /\ docs[4].kind = "record" /\ docs[4].id = <<"record", "r">>
      /\ docs[5].kind = "scope" /\ docs[5].id = <<"project", "p">>
      /\ \A i \in 3..5 : docs[i].links = <<>> /\ docs[i].rels = <<>> /\ docs[i].subjects = <<>>
  <2> DEFINE i1 == <<"wi-", "1">>  f1 == <<"", "a">>
             i3 == <<"note", "n">>  f3 == <<"", "n">>
             i4 == <<"record", "r">>  f4 == <<"", "r">>
             i5 == <<"project", "p">>  f5 == <<"", "p">>
             none == <<>>
  <2>1. /\ DOMAIN docs = 1..5
        /\ docs[1] = Document("work-item", i1, f1, links, rels, under, none)
        /\ docs[3] = Document("note", i3, f3, none, none, none, none)
        /\ docs[4] = Document("record", i4, f4, none, none, none, none)
        /\ docs[5] = Document("scope", i5, f5, none, none, none, none)
    BY DEF Workspace, Named
  <2>2. \A i \in 3..5 : i \in {3, 4, 5}
    OBVIOUS
  <2> HIDE DEF docs, i1, f1, i3, f3, i4, f4, i5, f5, none
  <2>3. /\ docs[1].kind = "work-item" /\ docs[1].id = i1
        /\ docs[1].links = links /\ docs[1].rels = rels /\ docs[1].deep = under /\ docs[1].subjects = none
    BY <2>1 DEF Document
  <2>4. docs[3].kind = "note" /\ docs[3].links = none /\ docs[3].rels = none /\ docs[3].subjects = none
    BY <2>1 DEF Document
  <2>5. /\ docs[4].kind = "record" /\ docs[4].id = i4
        /\ docs[4].links = none /\ docs[4].rels = none /\ docs[4].subjects = none
    BY <2>1 DEF Document
  <2>6. /\ docs[5].kind = "scope" /\ docs[5].id = i5
        /\ docs[5].links = none /\ docs[5].rels = none /\ docs[5].subjects = none
    BY <2>1 DEF Document
  <2> QED BY <2>1, <2>2, <2>3, <2>4, <2>5, <2>6 DEF i1, i4, i5, none
<1>10. docs[2].kind = "work-item" /\ docs[2].links = <<>> /\ docs[2].rels = <<>> /\ docs[2].subjects = <<>>
  <2>1. PICK id, file : second = Named("work-item", id, file)
    BY DEF Seconds
  <2>2. docs[2] = second
    BY DEF Workspace
  <2> HIDE DEF docs
  <2> QED BY <2>1, <2>2 DEF Named, Document
<1> HIDE DEF docs
<1>11. IsList(docs) /\ \A d \in ToSet(docs) : d \in {docs[1], docs[2], docs[3], docs[4], docs[5]}
  <2>1. IsList(docs)
    BY <1>9 DEF IsList
  <2>2. \A i \in 1..5 : i \in {1, 2, 3, 4, 5}
    OBVIOUS
  <2> QED BY <1>9, <2>1, <2>2 DEF ToSet
<1>12. \A d \in ToSet(docs) : WellWritten(d)
  <2>1. WellWritten(docs[1])
    BY <1>7, <1>8, <1>9 DEF WellWritten
  <2>2. \A i \in 3..5 : WellWritten(docs[i])
    BY <1>7, <1>9 DEF WellWritten
  <2>3. WellWritten(docs[2])
    BY <1>7, <1>10 DEF WellWritten
  <2> QED BY <1>11, <2>1, <2>2, <2>3
<1>13. \A d \in ToSet(docs) : WellIdentified(d)
  <2>1. \A d : d.kind # "scope" => WellIdentified(d)
    BY DEF WellIdentified, Created
  <2>2. WellIdentified(docs[5])
    <3>1. Canonical(<<"project", "p">>) = <<"project", "p">> /\ <<"project", "p">> # Absent
      BY DEF Canonical, Absent
    <3> QED BY <1>9, <3>1 DEF WellIdentified, Created, NodeId
  <2> QED BY <1>9, <1>10, <1>11, <2>1, <2>2
<1>14. \A d \in ToSet(docs) : WellKeyed(d)
  <2>1. WellKeyed(docs[1])
    <3>1. \A l \in ToSet(docs[1].links) : l.key \in {"depends_on", "related"}
      BY <1>3, <1>6, <1>9
    <3>2. "related" \notin DOMAIN RelationType
      BY DEF RelationType
    <3> QED BY <1>9, <3>1, <3>2 DEF WellKeyed
  <2>2. WellKeyed(docs[2])
    BY <1>7, <1>10 DEF WellKeyed
  <2>3. WellKeyed(docs[3]) /\ WellKeyed(docs[5])
    BY <1>7, <1>9 DEF WellKeyed
  <2>4. WellKeyed(docs[4])
    BY <1>7, <1>9 DEF WellKeyed
  <2> QED BY <1>11, <2>1, <2>2, <2>3, <2>4
<1>15. Class(doc) = "projectable"
  <2>1. WorkItemRef(<<"wi-", "1">>) = <<"wi", "1">> /\ <<"wi", "1">> # Absent /\ <<"wi-", "1">> # Absent
    BY DEF WorkItemRef, Canonical, Absent
  <2>2. NodeId(doc) = <<"work-item", <<"wi", "1">>>> /\ NodeId(doc) # Absent
    BY <1>9, <2>1 DEF NodeId, Absent
  <2> QED BY <1>9, <2>1, <2>2 DEF Class
<1>16. StatusReadable(doc)
  BY <1>5, <1>6, <1>8, <1>9 DEF StatusReadable
<1>17. /\ \A l \in ToSet(doc.links) : l.key \in {"depends_on", "related"}
       /\ \A r \in ToSet(doc.rels) \cup ToSet(doc.deep) : r.key \in {"depends_on", "part_of"}
  BY <1>3, <1>5, <1>6, <1>9
<1>18. doc \in ToSet(docs)
  BY <1>9 DEF ToSet
<1> HIDE DEF doc
<1> QED BY <1>2, <1>9, <1>11, <1>12, <1>13, <1>14, <1>15, <1>16, <1>17, <1>18 DEF doc

(* What is asked of the status command holds.                              *)
LEMMA StatusAsked ==
  ASSUME AskStatus
  PROVE  StatusHidesNothing'
<1> DEFINE docs == asked'.docs
           doc == docs[1]
           g == Project(docs, <<>>, <<>>)
           facts == Facts(g, docs, doc)
           reported == {d.of : d \in facts.diagnostics}
           out(a) == {e \in {g.edges[i] : i \in Outgoing(g, NodeId(doc))} : e.key = a.key}
<1>1. /\ \A a \in Authored(doc) : \/ a \in ReportedOf(g, docs, doc)
                                  \/ \E e \in OutUnder(g, doc, a.key) : e.raw = a.ref \/ LeadsTo(docs, a, e.to)
      /\ \A a \in ReportedOf(g, docs, doc) : \A e \in OutUnder(g, doc, a.key) : e.raw = a.ref =>
           a.form = "wiki" /\ a.ref \notin NodeTokens(docs, e.to)
      /\ \A e \in OutUnder(g, doc, "depends_on") :
           [type |-> "depends_on", target |-> e.raw] \in Facts(g, docs, doc).relationships
  BY StatusQuestionsAreReadable, StatusIsHonest
<1>2. /\ \A l \in ToSet(doc.links) : l.key \in {"depends_on", "related"}
      /\ \A r \in ToSet(doc.rels) \cup ToSet(doc.deep) : r.key \in {"depends_on", "part_of"}
  BY StatusQuestionsAreReadable
<1> HIDE DEF docs, doc, g
<1>3. reported = ReportedOf(g, docs, doc) /\ \A a : out(a) = OutUnder(g, doc, a.key)
  BY DEF ReportedOf, OutUnder
<1> HIDE DEF reported, out
<1>4. ASSUME NEW l \in {k \in ToSet(doc.links) : k.key # "depends_on" \/ k.form # "object"}
               \cup {r \in ToSet(doc.rels) : r.place # "sub"} \cup ToSet(doc.deep)
      PROVE  \/ \E e \in out(l) : e.raw = l.ref \/ LeadsTo(docs, l, e.to)
             \/ \E a \in reported : a.key = l.key /\ a.ref = l.ref
  <2>1. \E scope : Reference(scope, l) \in Authored(doc)
    <3>1. {"depends_on", "part_of"} \subseteq DOMAIN RelationType
      BY DEF RelationType
    <3>2. CASE l \in ToSet(doc.links) /\ (l.key # "depends_on" \/ l.form # "object")
      <4>1. CASE l.key = "depends_on"
        BY <3>2, <4>1 DEF Authored
      <4>2. CASE l.key # "depends_on"
        <5>1. l.key = "related"
          BY <1>2, <3>2, <4>2
        <5> QED BY <3>2, <5>1 DEF Authored
      <4> QED BY <4>1, <4>2
    <3>3. CASE (l \in ToSet(doc.rels) /\ l.place # "sub") \/ l \in ToSet(doc.deep)
      <4>1. l \in RelationsRead(doc) /\ l.key \in DOMAIN RelationType
        BY <1>2, <3>1, <3>3 DEF RelationsRead
      <4> QED BY <4>1 DEF Authored
    <3> QED BY <3>2, <3>3
  <2>2. PICK scope : Reference(scope, l) \in Authored(doc)
    BY <2>1
  <2> DEFINE a == Reference(scope, l)
  <2>3. a.key = l.key /\ a.ref = l.ref
    BY DEF Reference
  <2> HIDE DEF a
  <2>4. \/ a \in reported
        \/ \E e \in out(l) : e.raw = a.ref \/ LeadsTo(docs, a, e.to)
    BY <1>1, <1>3, <2>2, <2>3 DEF a
  <2>5. \A n : LeadsTo(docs, a, n) => LeadsTo(docs, l, n)
    BY <2>3 DEF LeadsTo
  <2> QED BY <2>3, <2>4, <2>5
<1>5. \A a \in reported : \A e \in out(a) : e.raw = a.ref =>
        a.form = "wiki" /\ a.ref \notin NodeTokens(docs, e.to)
  BY <1>1, <1>3
<1>6. \A e \in out([key |-> "depends_on"]) : [type |-> "depends_on", target |-> e.raw] \in facts.relationships
  <2>1. out([key |-> "depends_on"]) = OutUnder(g, doc, "depends_on")
    BY <1>3
  <2> QED BY <1>1, <2>1
<1> HIDE DEF facts
<1> QED BY <1>4, <1>5, <1>6 DEF StatusHidesNothing, docs, doc, g, facts, reported, out

(* What the graph says is whole, and so is what the status says of it, in  *)
(* every question asked.                                                   *)
THEOREM GraphsShowAll == Spec => []GraphShowsAll
<1>1. Init => StatusHidesNothing
  BY DEF Init, StatusHidesNothing, Asked
<1>2. StatusHidesNothing /\ [Next]_asked => StatusHidesNothing'
  <2> SUFFICES ASSUME StatusHidesNothing, [Next]_asked PROVE StatusHidesNothing'
    OBVIOUS
  <2>1. CASE AskStatus
    BY <2>1, StatusAsked
  <2>2. CASE AnyAsk /\ ~AskStatus
    <3>1. asked'.kind # "status"
      BY <2>2, KindsOfQuestions DEF AnyAsk
    <3> QED BY <3>1 DEF StatusHidesNothing, Asked
  <2>3. CASE UNCHANGED asked
    BY <2>3 DEF StatusHidesNothing, Asked
  <2> QED BY <2>1, <2>2, <2>3, NextAsks
<1>3. StatusHidesNothing /\ GraphClosed => GraphShowsAll
  BY DEF GraphShowsAll
<1> QED BY <1>1, <1>2, <1>3, GraphsAreClosed, PTL DEF Spec

-----------------------------------------------------------------------------
(* The state of a rewrite: its files are a function from their paths.      *)
RewriteState(s) ==
  /\ s = [files |-> s.files, left |-> s.left, names |-> s.names]
  /\ s.left \in Nat /\ s.files = [p \in DOMAIN s.files |-> s.files[p]]

(* What a write makes of the files, if it takes place.                     *)
LEMMA PutIs ==
  ASSUME NEW s, RewriteState(s), NEW dry \in BOOLEAN, NEW p, NEW doc
  PROVE  LET t == PutFile(s, dry, p, doc) IN
         /\ RewriteState(t) /\ t.names = s.names
         /\ dry \/ s.left = 0 => t = s
         /\ ~dry /\ s.left # 0 =>
              /\ t.left = s.left - 1 /\ DOMAIN t.files = DOMAIN s.files \cup {p} /\ t.files[p] = doc
              /\ \A q \in DOMAIN s.files : q # p => t.files[q] = s.files[q]
<1> DEFINE t == PutFile(s, dry, p, doc)
           g == With(s.files, p, doc)
<1>1. CASE dry \/ s.left = 0
  BY <1>1 DEF PutFile
<1>2. CASE ~dry /\ s.left # 0
  <2>1. t = [files |-> g, left |-> s.left - 1, names |-> s.names] /\ s.left - 1 \in Nat
    <3> DEFINE a == s.files
               b == s.left
               c == s.names
    <3>1. t = [[s EXCEPT !.files = g] EXCEPT !.left = b - 1]
      BY <1>2 DEF PutFile
    <3>2. s = [files |-> a, left |-> b, names |-> c] /\ b \in Nat /\ b # 0
      BY <1>2 DEF RewriteState
    <3> HIDE DEF a, b, c, g, t
    <3>3. t = [[[files |-> a, left |-> b, names |-> c] EXCEPT !.files = g] EXCEPT !.left = b - 1]
      BY <3>1, <3>2, Zenon
    <3>4. t = [files |-> g, left |-> b - 1, names |-> c]
      BY <3>3
    <3> QED BY <3>2, <3>4 DEF b, c
  <2>2. /\ g = [q \in DOMAIN g |-> g[q]] /\ DOMAIN g = DOMAIN s.files \cup {p} /\ g[p] = doc
        /\ \A q \in DOMAIN s.files : q # p => g[q] = s.files[q]
    BY DEF With
  <2> HIDE DEF g
  <2> QED BY <1>2, <2>1, <2>2 DEF RewriteState
<1> QED BY <1>1, <1>2

(* What a removal makes of them, if it takes place.                        *)
LEMMA UnlinkIs ==
  ASSUME NEW s, RewriteState(s), NEW dry \in BOOLEAN, NEW p
  PROVE  LET t == Unlink(s, dry, p) IN
         /\ RewriteState(t) /\ t.names = s.names
         /\ dry \/ s.left = 0 => t = s
         /\ ~dry /\ s.left # 0 =>
              /\ t.left = s.left - 1 /\ DOMAIN t.files = DOMAIN s.files \ {p}
              /\ \A q \in DOMAIN s.files : q # p => t.files[q] = s.files[q]
<1> DEFINE t == Unlink(s, dry, p)
           g == Restrict(s.files, DOMAIN s.files \ {p})
<1>1. CASE dry \/ s.left = 0
  BY <1>1 DEF Unlink
<1>2. CASE ~dry /\ s.left # 0
  <2>1. t = [files |-> g, left |-> s.left - 1, names |-> s.names] /\ s.left - 1 \in Nat
    <3> DEFINE a == s.files
               b == s.left
               c == s.names
    <3>1. t = [[s EXCEPT !.files = g] EXCEPT !.left = b - 1]
      BY <1>2 DEF Unlink
    <3>2. s = [files |-> a, left |-> b, names |-> c] /\ b \in Nat /\ b # 0
      BY <1>2 DEF RewriteState
    <3> HIDE DEF a, b, c, g, t
    <3>3. t = [[[files |-> a, left |-> b, names |-> c] EXCEPT !.files = g] EXCEPT !.left = b - 1]
      BY <3>1, <3>2, Zenon
    <3>4. t = [files |-> g, left |-> b - 1, names |-> c]
      BY <3>3
    <3> QED BY <3>2, <3>4 DEF b, c
  <2>2. /\ g = [q \in DOMAIN g |-> g[q]] /\ DOMAIN g = DOMAIN s.files \ {p}
        /\ \A q \in DOMAIN s.files : q # p => g[q] = s.files[q]
    BY DEF Restrict
  <2> HIDE DEF g
  <2> QED BY <1>2, <2>1, <2>2 DEF RewriteState
<1> QED BY <1>1, <1>2

(* Where an item goes when it is migrated, and where its evidence goes.    *)
NewPlace(options, p) == <<IF IsArchived(p) THEN "archive" ELSE options.active, Basename(p[2])>>
Record(p) == RecordFile(p[2])

(* What the migration of one item makes of the files: all others are left  *)
(* as they are, and the item is where it was until it is at its new place. *)
MovedItem(s, t, options, p) ==
  LET doc == s.files[p] target == NewPlace(options, p) record == Record(p) IN
  /\ RewriteState(t) /\ t.names = s.names /\ t.left <= s.left /\ s.left <= t.left + 3
  /\ options.dry => t = s
  /\ DOMAIN t.files \subseteq DOMAIN s.files \cup {target, record}
  /\ \A q \in DOMAIN s.files \ {p, target, record} : q \in DOMAIN t.files /\ t.files[q] = s.files[q]
  /\ p \in DOMAIN t.files => t.files[p] = doc
  /\ p \notin DOMAIN t.files => target \in DOMAIN t.files /\ t.files[target] = Migrated(s.names, p, doc)
  /\ target \in DOMAIN t.files =>
       \/ t.files[target] = Migrated(s.names, p, doc)
       \/ target \in DOMAIN s.files /\ t.files[target] = s.files[target]
  /\ record \in DOMAIN t.files =>
       \/ t.files[record] = RecordOf(p[2])
       \/ record \in DOMAIN s.files /\ t.files[record] = s.files[record]
  /\ DOMAIN s.files \ {p} \subseteq DOMAIN t.files
  /\ s.left > 3 /\ ~options.dry =>
       p \notin DOMAIN t.files /\ (HasResults(p, doc) => record \in DOMAIN t.files)

(* The migration of one item, killed at any of its writes, makes this of   *)
(* the files.                                                              *)
LEMMA ItemMoves ==
  ASSUME NEW s, RewriteState(s), NEW options, options.dry \in BOOLEAN, NEW p \in DOMAIN s.files,
         p # NewPlace(options, p), p # Record(p), NewPlace(options, p) # Record(p)
  PROVE  MovedItem(s, MigrateItem(s, options, p), options, p)
<1> DEFINE doc == s.files[p]
           target == NewPlace(options, p)
           record == Record(p)
           recorded == IF HasResults(p, doc) THEN PutFile(s, options.dry, record, RecordOf(p[2])) ELSE s
           written == PutFile(recorded, options.dry, target, Migrated(s.names, p, doc))
           t == Unlink(written, options.dry, p)
<1>1. MigrateItem(s, options, p) = t
  BY DEF MigrateItem, NewPlace, Record
<1>2. /\ RewriteState(recorded) /\ recorded.names = s.names
      /\ options.dry => recorded = s
      /\ HasResults(p, doc) /\ ~options.dry /\ s.left # 0 =>
           /\ recorded.left = s.left - 1 /\ DOMAIN recorded.files = DOMAIN s.files \cup {record}
           /\ recorded.files[record] = RecordOf(p[2])
           /\ \A q \in DOMAIN s.files : q # record => recorded.files[q] = s.files[q]
      /\ ~HasResults(p, doc) \/ options.dry \/ s.left = 0 => recorded = s
  BY PutIs
<1> HIDE DEF recorded
<1>3. /\ RewriteState(written) /\ written.names = s.names
      /\ options.dry \/ recorded.left = 0 => written = recorded
      /\ ~options.dry /\ recorded.left # 0 =>
           /\ written.left = recorded.left - 1 /\ DOMAIN written.files = DOMAIN recorded.files \cup {target}
           /\ written.files[target] = Migrated(s.names, p, doc)
           /\ \A q \in DOMAIN recorded.files : q # target => written.files[q] = recorded.files[q]
  BY <1>2, PutIs
<1> HIDE DEF written
<1>4. /\ RewriteState(t) /\ t.names = s.names
      /\ options.dry \/ written.left = 0 => t = written
      /\ ~options.dry /\ written.left # 0 =>
           /\ t.left = written.left - 1 /\ DOMAIN t.files = DOMAIN written.files \ {p}
           /\ \A q \in DOMAIN written.files : q # p => t.files[q] = written.files[q]
  BY <1>3, UnlinkIs
<1> HIDE DEF t
<1>5. s.left \in Nat /\ recorded.left \in Nat /\ written.left \in Nat /\ t.left \in Nat
  BY <1>2, <1>3, <1>4 DEF RewriteState
<1> HIDE DEF doc, target, record
<1>6. p # target /\ p # record /\ target # record /\ p \in DOMAIN s.files
  BY DEF target, record
<1>7. /\ t.left <= s.left /\ s.left <= t.left + 3 /\ (options.dry => t = s)
      /\ s.left > 3 => recorded.left # 0 /\ written.left # 0
  BY <1>2, <1>3, <1>4, <1>5
<1>8. /\ DOMAIN recorded.files \subseteq DOMAIN s.files \cup {record} /\ DOMAIN s.files \subseteq DOMAIN recorded.files
      /\ \A q \in DOMAIN s.files : q # record => recorded.files[q] = s.files[q]
      /\ record \in DOMAIN recorded.files =>
           \/ recorded.files[record] = RecordOf(p[2])
           \/ record \in DOMAIN s.files /\ recorded.files[record] = s.files[record]
  BY <1>2
<1>9. /\ DOMAIN written.files \subseteq DOMAIN recorded.files \cup {target}
      /\ DOMAIN recorded.files \subseteq DOMAIN written.files
      /\ \A q \in DOMAIN recorded.files : q # target => written.files[q] = recorded.files[q]
      /\ target \in DOMAIN written.files =>
           \/ written.files[target] = Migrated(s.names, p, doc)
           \/ target \in DOMAIN recorded.files /\ written.files[target] = recorded.files[target]
  BY <1>3
<1>10. /\ DOMAIN t.files \subseteq DOMAIN written.files /\ DOMAIN written.files \ {p} \subseteq DOMAIN t.files
       /\ \A q \in DOMAIN t.files : t.files[q] = written.files[q]
       /\ p \notin DOMAIN t.files => ~options.dry /\ written.left # 0
  <2>1. p \in DOMAIN written.files
    BY <1>6, <1>8, <1>9
  <2> QED BY <1>4, <2>1
<1>11. p \notin DOMAIN t.files => target \in DOMAIN t.files /\ t.files[target] = Migrated(s.names, p, doc)
  <2> SUFFICES ASSUME p \notin DOMAIN t.files
               PROVE  target \in DOMAIN t.files /\ t.files[target] = Migrated(s.names, p, doc)
    OBVIOUS
  <2>1. ~options.dry /\ recorded.left # 0
    BY <1>3, <1>10
  <2> QED BY <1>3, <1>6, <1>10, <2>1
<1>12. s.left > 3 /\ ~options.dry => p \notin DOMAIN t.files /\ (HasResults(p, doc) => record \in DOMAIN t.files)
  BY <1>2, <1>4, <1>5, <1>6, <1>7, <1>9, <1>10
<1>13. MovedItem(s, t, options, p)
  <2>1. /\ DOMAIN t.files \subseteq DOMAIN s.files \cup {target, record}
        /\ \A q \in DOMAIN s.files \ {p, target, record} : q \in DOMAIN t.files /\ t.files[q] = s.files[q]
        /\ p \in DOMAIN t.files => t.files[p] = doc
        /\ DOMAIN s.files \ {p} \subseteq DOMAIN t.files
    <3>1. doc = s.files[p]
      BY DEF doc
    <3> QED BY <1>6, <1>8, <1>9, <1>10, <3>1
  <2>2. target \in DOMAIN t.files =>
          \/ t.files[target] = Migrated(s.names, p, doc)
          \/ target \in DOMAIN s.files /\ t.files[target] = s.files[target]
    BY <1>6, <1>8, <1>9, <1>10
  <2>3. record \in DOMAIN t.files =>
          \/ t.files[record] = RecordOf(p[2])
          \/ record \in DOMAIN s.files /\ t.files[record] = s.files[record]
    BY <1>6, <1>8, <1>9, <1>10
  <2> QED BY <1>4, <1>7, <1>11, <1>12, <2>1, <2>2, <2>3 DEF MovedItem, doc, target, record
<1> QED BY <1>1, <1>13

(* A name is one word or more, and its last tells whose it is.             *)
IsName(name) == IsSeq(name) /\ name # <<>>
Owner(name) == IF Last(name) = "b_" THEN "b" ELSE Last(name)

(* What a new name and the name of a record are made of.                   *)
LEMMA NewNamesAre ==
  ASSUME NEW name, IsName(name)
  PROVE  /\ IsName(Slug(name)) /\ Len(Slug(name)) = Len(name) /\ Last(Slug(name)) = Owner(name)
         /\ IsName(Basename(name)) /\ Len(Basename(name)) = Len(name) + 1 /\ Owner(Basename(name)) = Owner(name)
         /\ LET record == RecordFile(name)[2] IN
            /\ RecordFile(name)[1] = "records" /\ RecordFile(name) = <<"records", record>>
            /\ IsName(record) /\ Len(record) = Len(name) + 2 /\ record[1] = "record" /\ Owner(record) = "evidence"
<1> DEFINE n == Len(name)
           slug == Slug(name)
           base == Basename(name)
           record == RecordFile(name)[2]
<1>10. PICK S : name \in Seq(S)
  BY DEF IsName, IsSeq
<1> DEFINE T == S \cup {"b", "work-item", "record", "evidence"}
<1>1. n \in Nat /\ n # 0 /\ name \in Seq(T)
  <2>1. S \subseteq T
    OBVIOUS
  <2> HIDE DEF T
  <2> QED BY <1>10, <2>1, EmptySeq, LenProperties DEF IsName
<1>11. \A w \in {"b", "work-item", "record", "evidence"} :
        <<w>> \in Seq(T) /\ Len(<<w>>) = 1 /\ <<w>>[1] = w
  OBVIOUS
<1> HIDE DEF T
<1>2. slug \in Seq(T) /\ Len(slug) = n /\ slug[n] = Owner(name)
  <2>1. CASE Last(name) = "b_"
    <3> DEFINE front == SubSeq(name, 1, n - 1)
    <3>1. front \in Seq(T) /\ Len(front) = n - 1
      <4>1. \A i \in 1..(n - 1) : name[i] \in T
        BY <1>1, ElementOfSeq
      <4> HIDE DEF n
      <4>2. 1 \in Int /\ n - 1 \in Int /\ (1 <= n - 1 \/ n - 1 = 0)
        BY <1>1
      <4>3. /\ SubSeq(name, 1, n - 1) \in Seq(T)
            /\ Len(SubSeq(name, 1, n - 1)) = IF 1 <= n - 1 THEN n - 1 - 1 + 1 ELSE 0
        BY <4>1, <4>2, SubSeqProperties
      <4> QED BY <1>1, <4>2, <4>3
    <3>2. slug = front \o <<"b">>
      BY <2>1 DEF Slug, Front
    <3> HIDE DEF front, slug, n
    <3>3. <<"b">> \in Seq(T) /\ Len(<<"b">>) = 1 /\ <<"b">>[1] = "b"
      BY <1>11
    <3>4. slug \in Seq(T) /\ Len(slug) = n
      BY <1>1, <3>1, <3>2, <3>3, ConcatProperties
    <3>5. slug[n] = "b"
      BY <1>1, <3>1, <3>2, <3>3, ConcatProperties
    <3> QED BY <2>1, <3>4, <3>5 DEF Owner
  <2>2. CASE Last(name) # "b_"
    BY <1>1, <2>2 DEF Slug, Owner, Last
  <2> QED BY <2>1, <2>2
<1>3. Owner(name) # "b_"
  BY DEF Owner
<1>4. base \in Seq(T) /\ Len(base) = n + 1 /\ base[n + 1] = Owner(name)
  <2>1. base = <<"work-item">> \o slug
    BY DEF Basename
  <2>2. <<"work-item">> \in Seq(T) /\ Len(<<"work-item">>) = 1
    BY <1>11
  <2> HIDE DEF slug, base, n
  <2> QED BY <1>1, <1>2, <2>1, <2>2, ConcatProperties
<1>5. record \in Seq(T) /\ Len(record) = n + 2 /\ record[1] = "record" /\ record[n + 2] = "evidence"
      /\ RecordFile(name) = <<"records", record>>
  <2> DEFINE head == <<"record">> \o slug
  <2>1. record = head \o <<"evidence">> /\ RecordFile(name) = <<"records", record>>
    BY DEF RecordFile
  <2>2. /\ <<"record">> \in Seq(T) /\ Len(<<"record">>) = 1 /\ <<"record">>[1] = "record"
        /\ <<"evidence">> \in Seq(T) /\ Len(<<"evidence">>) = 1 /\ <<"evidence">>[1] = "evidence"
    BY <1>11
  <2> HIDE DEF slug, record, n
  <2>3. head \in Seq(T) /\ Len(head) = n + 1 /\ head[1] = "record"
    BY <1>1, <1>2, <2>2, ConcatProperties
  <2> HIDE DEF head
  <2> QED BY <1>1, <2>1, <2>2, <2>3, ConcatProperties
<1> HIDE DEF slug, base, record, n
<1>6. \A x \in Seq(T) : IsSeq(x) /\ (Len(x) # 0 => x # <<>>)
  BY EmptySeq DEF IsSeq
<1>7. IsName(slug) /\ IsName(base) /\ IsName(record)
  BY <1>1, <1>2, <1>4, <1>5, <1>6 DEF IsName
<1>8. Last(slug) = Owner(name) /\ Owner(base) = Owner(name) /\ Owner(record) = "evidence"
  BY <1>2, <1>3, <1>4, <1>5 DEF Owner, Last
<1> QED BY <1>2, <1>4, <1>5, <1>7, <1>8 DEF slug, base, record, n

(* So an item, its new place and its record are at three paths.            *)
LEMMA PlacesApart ==
  ASSUME NEW p, IsName(p[2]), NEW options, options.active # "records"
  PROVE  p # NewPlace(options, p) /\ p # Record(p) /\ NewPlace(options, p) # Record(p)
<1>1. /\ NewPlace(options, p)[2] = Basename(p[2]) /\ NewPlace(options, p)[1] # "records"
  BY DEF NewPlace
<1>2. Len(p[2]) \in Nat
  BY LenProperties DEF IsName, IsSeq
<1> QED BY <1>1, <1>2, NewNamesAre DEF Record

(* Every file of one owner is of one item, and there is one.               *)
Kept(files, owner, item) ==
  /\ \E p \in DOMAIN files : Owner(p[2]) = owner
  /\ \A p \in DOMAIN files : Owner(p[2]) = owner => files[p].of = item
NamesWell(files) == \A p \in DOMAIN files : IsName(p[2])
KeepsAll(s, t) ==
  \A owner, item : owner # "evidence" /\ Kept(s.files, owner, item) => Kept(t.files, owner, item)

(* The migration of one item, killed wherever, keeps the files of owners.  *)
LEMMA MoveKeeps ==
  ASSUME NEW s, RewriteState(s), NamesWell(s.files), NEW p \in DOMAIN s.files,
         NEW options, options.dry \in BOOLEAN, options.active # "records"
  PROVE  LET t == MigrateItem(s, options, p) IN
         /\ RewriteState(t) /\ NamesWell(t.files) /\ DOMAIN s.files \ {p} \subseteq DOMAIN t.files
         /\ KeepsAll(s, t)
<1> DEFINE t == MigrateItem(s, options, p)
           target == NewPlace(options, p)
           record == Record(p)
<1>1. IsName(p[2])
  BY DEF NamesWell
<1>2. MovedItem(s, t, options, p)
  BY <1>1, ItemMoves, PlacesApart
<1>3. /\ target[2] = Basename(p[2]) /\ Owner(target[2]) = Owner(p[2]) /\ IsName(target[2])
      /\ Owner(record[2]) = "evidence" /\ IsName(record[2])
  BY <1>1, NewNamesAre DEF NewPlace, Record
<1>4. Migrated(s.names, p, s.files[p]).of = s.files[p].of
  BY DEF Migrated
<1> HIDE DEF t
<1>5. /\ RewriteState(t) /\ DOMAIN s.files \ {p} \subseteq DOMAIN t.files
      /\ DOMAIN t.files \subseteq DOMAIN s.files \cup {target, record}
      /\ \A q \in DOMAIN s.files \ {p, target, record} : q \in DOMAIN t.files /\ t.files[q] = s.files[q]
      /\ p \in DOMAIN t.files => t.files[p] = s.files[p]
      /\ p \notin DOMAIN t.files => target \in DOMAIN t.files
      /\ target \in DOMAIN t.files =>
           \/ t.files[target].of = s.files[p].of
           \/ target \in DOMAIN s.files /\ t.files[target] = s.files[target]
  BY <1>2, <1>4 DEF MovedItem
<1> HIDE DEF target, record
<1>6. NamesWell(t.files)
  BY <1>3, <1>5 DEF NamesWell
<1>7. ASSUME NEW owner, NEW item, owner # "evidence", Kept(s.files, owner, item)
      PROVE  Kept(t.files, owner, item)
  <2>1. \E q \in DOMAIN t.files : Owner(q[2]) = owner
    <3>1. PICK q \in DOMAIN s.files : Owner(q[2]) = owner
      BY <1>7 DEF Kept
    <3>2. CASE q # p
      BY <1>5, <3>1, <3>2
    <3>3. CASE q = p
      BY <1>3, <1>5, <3>1, <3>3
    <3> QED BY <3>2, <3>3
  <2>2. ASSUME NEW q \in DOMAIN t.files, Owner(q[2]) = owner
        PROVE  t.files[q].of = item
    <3>1. q # record
      BY <1>3, <1>7, <2>2
    <3>2. CASE q = target
      <4>1. Owner(p[2]) = owner
        BY <1>3, <2>2, <3>2
      <4> QED BY <1>5, <1>7, <2>2, <3>2, <4>1 DEF Kept
    <3>3. CASE q # target
      <4>1. q \in DOMAIN s.files /\ t.files[q] = s.files[q]
        BY <1>5, <3>1, <3>3
      <4> QED BY <1>7, <2>2, <4>1 DEF Kept
    <3> QED BY <3>2, <3>3
  <2> QED BY <2>1, <2>2 DEF Kept
<1>8. KeepsAll(s, t)
  BY <1>7 DEF KeepsAll
<1> QED BY <1>5, <1>6, <1>8 DEF t

-----------------------------------------------------------------------------
(* A migration moves the items one by one, in the order they are listed.   *)
Migrate(c, t, p) == IF p \in c.skipped THEN t ELSE MigrateItem(t, c.options, p)
Mg == INSTANCE FoldTheory WITH Op <- Migrate

(* A list of the elements of a set, each once.                             *)
ListsEach(list, S, n) == n \in Nat /\ list \in [1..n -> S] /\ ToSet(list) = S /\ IsInjective(list)

(* What the steps of a migration make, from the first to the last.         *)
Migrates(h, s, options, n) == LET list == LegacyFiles(s.files) given == NewNames(list) IN
  /\ h[0] = [s EXCEPT !.names = given.names] /\ h[n] = MigrateBacklog(s, options)
  /\ \A k \in 1..n : h[k] = IF list[k] \in given.skipped THEN h[k - 1]
                             ELSE MigrateItem(h[k - 1], options, list[k])

(* A migration is a sequence of such steps.                                *)
LEMMA MigrationSteps ==
  ASSUME NEW s, NEW options, NEW n \in Nat, DOMAIN LegacyFiles(s.files) = 1..n
  PROVE  \E h : Migrates(h, s, options, n)
<1> DEFINE list == LegacyFiles(s.files)
           given == NewNames(list)
           c == [skipped |-> given.skipped, options |-> options]
           base == [s EXCEPT !.names = given.names]
<1>1. MigrateBacklog(s, options) = Mg!Over(c, base, list)
  BY DEF MigrateBacklog, FoldLeft, MapThenFoldSet, Mg!Over, Mg!FoldLeft, Mg!MapThenFoldSet, Migrate, Max, Mg!Max
<1>2. c.skipped = given.skipped /\ c.options = options
  OBVIOUS
<1> HIDE DEF c, base, list, given
<1>3. PICK h : Mg!Goes(h, c, base, list, n)
  <2>1. DOMAIN list = 1..n
    BY DEF list
  <2> QED BY <2>1, Mg!FoldSteps
<1>4. /\ h[0] = base /\ h[n] = MigrateBacklog(s, options)
      /\ \A k \in 1..n : h[k] = Migrate(c, h[k - 1], list[k])
  BY <1>1, <1>3 DEF Mg!Goes
<1>5. \A k \in 1..n : h[k] = IF list[k] \in given.skipped THEN h[k - 1]
                             ELSE MigrateItem(h[k - 1], options, list[k])
  BY <1>2, <1>4 DEF Migrate
<1>6. Migrates(h, s, options, n)
  BY <1>4, <1>5 DEF Migrates, base, given, list
<1> QED BY <1>6

(* The names are noted before the first item is moved.                     *)
LEMMA NotedNames ==
  ASSUME NEW s, RewriteState(s), NEW names
  PROVE  LET t == [s EXCEPT !.names = names] IN
         RewriteState(t) /\ t.files = s.files /\ t.left = s.left /\ t.names = names
<1> DEFINE a == s.files
           b == s.left
           c == s.names
           t == [s EXCEPT !.names = names]
<1>1. s = [files |-> a, left |-> b, names |-> c] /\ b \in Nat /\ a = [p \in DOMAIN a |-> a[p]]
  BY DEF RewriteState
<1> HIDE DEF a, b, c
<1>2. t = [[files |-> a, left |-> b, names |-> c] EXCEPT !.names = names]
  BY <1>1, Zenon
<1>3. t = [files |-> a, left |-> b, names |-> names]
  BY <1>2
<1>4. t = [files |-> t.files, left |-> t.left, names |-> t.names] /\ t.files = a /\ t.left = b /\ t.names = names
  BY <1>3
<1> HIDE DEF t
<1>5. RewriteState(t)
  BY <1>1, <1>4 DEF RewriteState
<1> QED BY <1>4, <1>5 DEF t, a, b, c

(* A migration, killed wherever, keeps the files of every owner.           *)
THEOREM MigrationKeeps ==
  ASSUME NEW s, RewriteState(s), NamesWell(s.files), NEW n, ListsEach(LegacyFiles(s.files), DOMAIN s.files, n),
         NEW options, options.dry \in BOOLEAN, options.active # "records"
  PROVE  KeepsAll(s, MigrateBacklog(s, options))
<1> DEFINE list == LegacyFiles(s.files)
           given == NewNames(list)
<1>1. n \in Nat /\ DOMAIN list = 1..n /\ \A i \in 1..n : list[i] \in DOMAIN s.files
  BY DEF ListsEach
<1>2. \A i, j \in 1..n : list[i] = list[j] => i = j
  BY <1>1 DEF ListsEach, IsInjective
<1>12. PICK h : Migrates(h, s, options, n)
  BY <1>1, MigrationSteps
<1>3. /\ h[0] = [s EXCEPT !.names = given.names] /\ h[n] = MigrateBacklog(s, options)
      /\ \A k \in 1..n : h[k] = IF list[k] \in given.skipped THEN h[k - 1]
                               ELSE MigrateItem(h[k - 1], options, list[k])
  BY <1>12 DEF Migrates
<1> HIDE DEF list, given
<1> DEFINE Good(k) == /\ RewriteState(h[k]) /\ NamesWell(h[k].files)
                      /\ \A i \in 1..n : i > k => list[i] \in DOMAIN h[k].files
                      /\ KeepsAll(s, h[k])
           S == {k \in Nat : k <= n => Good(k)}
<1>4. 0 \in S
  <2>1. RewriteState(h[0]) /\ h[0].files = s.files
    BY <1>3, NotedNames
  <2>2. Good(0)
    BY <1>1, <2>1 DEF KeepsAll
  <2> QED BY <2>2
<1>5. ASSUME NEW k \in S PROVE k + 1 \in S
  <2> SUFFICES ASSUME k + 1 <= n PROVE Good(k + 1)
    OBVIOUS
  <2>1. k \in Nat /\ n \in Nat
    BY <1>1
  <2>2. Good(k)
    BY <2>1
  <2>3. k + 1 \in 1..n /\ (k + 1) - 1 = k /\ k + 1 > k
    BY <2>1
  <2>4. h[k + 1] = IF list[k + 1] \in given.skipped THEN h[k] ELSE MigrateItem(h[k], options, list[k + 1])
    BY <1>3, <2>3
  <2>5. list[k + 1] \in DOMAIN h[k].files
    BY <2>2, <2>3
  <2>6. \A i \in 1..n : i > k + 1 => i > k /\ list[i] # list[k + 1]
    BY <1>2, <2>1, <2>3
  <2>7. CASE list[k + 1] \in given.skipped
    BY <2>2, <2>4, <2>6, <2>7
  <2>8. CASE list[k + 1] \notin given.skipped
    <3> DEFINE t == h[k + 1]
               u == h[k]
               p == list[k + 1]
    <3>1. t = MigrateItem(u, options, p) /\ RewriteState(u) /\ NamesWell(u.files) /\ p \in DOMAIN u.files
      BY <2>2, <2>4, <2>5, <2>8
    <3> HIDE DEF t, u, p
    <3>2. /\ RewriteState(t) /\ NamesWell(t.files) /\ DOMAIN u.files \ {p} \subseteq DOMAIN t.files
          /\ KeepsAll(u, t)
      BY <3>1, MoveKeeps
    <3>3. \A i \in 1..n : i > k + 1 => list[i] \in DOMAIN t.files
      BY <2>2, <2>6, <3>2 DEF u, p
    <3>4. KeepsAll(s, t)
      <4>1. KeepsAll(s, u)
        BY <2>2 DEF u
      <4> QED BY <3>2, <4>1 DEF KeepsAll
    <3> QED BY <3>2, <3>3, <3>4 DEF t
  <2> QED BY <2>7, <2>8
<1>6. n \in S
  <2> HIDE DEF S
  <2>1. S \in SUBSET Nat
    BY DEF S
  <2>2. S = Nat
    BY <1>4, <1>5, <2>1, F!SetInduction
  <2> QED BY <1>1, <2>2
<1>7. Good(n)
  <2>1. n <= n
    BY <1>1
  <2> QED BY <1>6, <2>1
<1> QED BY <1>3, <1>7

-----------------------------------------------------------------------------
(* Names are given one by one.                                             *)
NameGiven(c, s, p) ==
  IF Basename(p[2]) \in Range(s.names) THEN [s EXCEPT !.skipped = @ \cup {p}]
  ELSE [s EXCEPT !.names = With(@, p[2], Basename(p[2]))]
Nm == INSTANCE FoldTheory WITH Op <- NameGiven

(* The names of two items: the second is skipped if it would get the name  *)
(* of the first.                                                           *)
LEMMA NamesOfTwo ==
  ASSUME NEW paths, DOMAIN paths = 1..2
  PROVE  LET given == NewNames(paths) x == paths[1][2] y == paths[2][2] IN
         /\ given.skipped = IF Basename(x) = Basename(y) THEN {paths[2]} ELSE {}
         /\ DOMAIN given.names = IF Basename(x) = Basename(y) THEN {x} ELSE {x, y}
         /\ \A z \in DOMAIN given.names : given.names[z] = Basename(z)
<1> DEFINE given == NewNames(paths)
           x == paths[1][2]
           y == paths[2][2]
           first == [names |-> With(<<>>, x, Basename(x)), skipped |-> {}]
<1>1. given = Nm!Over({}, [names |-> <<>>, skipped |-> {}], paths)
  BY DEF NewNames, FoldLeft, MapThenFoldSet, Nm!Over, Nm!FoldLeft, Nm!MapThenFoldSet, NameGiven, Max, Nm!Max
<1>2. PICK h : Nm!Goes(h, {}, [names |-> <<>>, skipped |-> {}], paths, 2)
  <2>1. 2 \in Nat
    OBVIOUS
  <2> QED BY <2>1, Nm!FoldSteps
<1>3. /\ h[0] = [names |-> <<>>, skipped |-> {}] /\ h[2] = given
      /\ \A k \in 1..2 : h[k] = NameGiven({}, h[k - 1], paths[k])
  BY <1>1, <1>2 DEF Nm!Goes
<1>4. h[1] = NameGiven({}, h[0], paths[1]) /\ h[2] = NameGiven({}, h[1], paths[2])
  <2>1. 1 \in 1..2 /\ 2 \in 1..2 /\ 1 - 1 = 0 /\ 2 - 1 = 1
    OBVIOUS
  <2> QED BY <1>3, <2>1
<1> HIDE DEF given
<1>5. h[1] = first
  <2> DEFINE none == <<>>
             base == [names |-> none, skipped |-> {}]
             w == With(<<>>, x, Basename(x))
  <2>1. Basename(x) \notin Range(<<>>)
    BY DEF Range
  <2>2. base.names = <<>>
    OBVIOUS
  <2>3. NameGiven({}, base, paths[1]) = [base EXCEPT !.names = w]
    BY <2>1, <2>2 DEF NameGiven
  <2> HIDE DEF w, none
  <2>4. [base EXCEPT !.names = w] = [names |-> w, skipped |-> {}]
    OBVIOUS
  <2>5. h[1] = NameGiven({}, base, paths[1])
    BY <1>3, <1>4 DEF none
  <2> HIDE DEF base
  <2> QED BY <2>3, <2>4, <2>5 DEF w
<1>6. /\ DOMAIN first.names = {x} /\ first.names[x] = Basename(x) /\ Range(first.names) = {Basename(x)}
  <2>1. first.names = With(<<>>, x, Basename(x))
    OBVIOUS
  <2>2. DOMAIN With(<<>>, x, Basename(x)) = {x} /\ With(<<>>, x, Basename(x))[x] = Basename(x)
    BY DEF With
  <2> HIDE DEF first
  <2> QED BY <2>1, <2>2 DEF Range
<1>7. CASE Basename(x) = Basename(y)
  <2>1. given = [first EXCEPT !.skipped = @ \cup {paths[2]}]
    BY <1>3, <1>4, <1>5, <1>6, <1>7 DEF NameGiven
  <2>2. given.skipped = {paths[2]} /\ given.names = first.names
    BY <2>1
  <2> HIDE DEF first
  <2> QED BY <1>6, <1>7, <2>2 DEF given
<1>8. CASE Basename(x) # Basename(y)
  <2> DEFINE w == With(first.names, y, Basename(y))
  <2>1. given = [first EXCEPT !.names = w]
    <3> HIDE DEF first
    <3>1. given = NameGiven({}, first, paths[2]) /\ Basename(y) \notin Range(first.names)
      BY <1>3, <1>4, <1>5, <1>6, <1>8
    <3> QED BY <3>1 DEF NameGiven
  <2>2. given.skipped = {} /\ given.names = With(first.names, y, Basename(y))
    <3> HIDE DEF w
    <3>1. given.skipped = {} /\ given.names = w
      BY <2>1
    <3> QED BY <3>1 DEF w
  <2> HIDE DEF first
  <2>3. DOMAIN given.names = {x, y} /\ \A z \in DOMAIN given.names : given.names[z] = Basename(z)
    BY <1>6, <2>2 DEF With
  <2> QED BY <1>8, <2>2, <2>3 DEF given
<1> QED BY <1>7, <1>8

-----------------------------------------------------------------------------
(* Two items with names, none of which the other is given.                 *)
Fits(files, x, y) ==
  /\ x # y /\ DOMAIN files = {x, y} /\ Untaken(files)
  /\ \A p \in {x, y} : /\ IsName(p[2]) /\ p[1] # "records" /\ files[p].evidence = {}
                       /\ files[p].of[1] # "record"
  /\ files[x].of # files[y].of

(* The migration of two items, first the one and then the other.           *)
Halfway(s, b, t, u, options, x, y) ==
  /\ RewriteState(b) /\ b.files = s.files /\ b.left = s.left /\ MovedItem(b, t, options, x)
  /\ DOMAIN b.names = IF Basename(x[2]) = Basename(y[2]) THEN {x[2]} ELSE {x[2], y[2]}
  /\ \A z \in DOMAIN b.names : b.names[z] = Basename(z)
  /\ IF Basename(x[2]) = Basename(y[2]) THEN u = t ELSE MovedItem(t, u, options, y)

(* A migration of two items goes through such a state.                     *)
LEMMA TwoMigrated ==
  ASSUME NEW s, RewriteState(s), NEW x, NEW y, Fits(s.files, x, y),
         DOMAIN LegacyFiles(s.files) = 1..2, LegacyFiles(s.files)[1] = x, LegacyFiles(s.files)[2] = y,
         NEW options, options.dry \in BOOLEAN, options.active # "records"
  PROVE  \E b, t : Halfway(s, b, t, MigrateBacklog(s, options), options, x, y)
<1> DEFINE list == LegacyFiles(s.files)
           given == NewNames(list)
           b == [s EXCEPT !.names = given.names]
           t == MigrateItem(b, options, x)
           u == MigrateBacklog(s, options)
<1>1. /\ given.skipped = IF Basename(x[2]) = Basename(y[2]) THEN {y} ELSE {}
      /\ DOMAIN given.names = IF Basename(x[2]) = Basename(y[2]) THEN {x[2]} ELSE {x[2], y[2]}
      /\ \A z \in DOMAIN given.names : given.names[z] = Basename(z)
  BY NamesOfTwo
<1>10. PICK h : Migrates(h, s, options, 2)
  <2>1. 2 \in Nat
    OBVIOUS
  <2> QED BY <2>1, MigrationSteps
<1>2. /\ h[0] = b /\ h[2] = u
      /\ \A k \in 1..2 : h[k] = IF list[k] \in given.skipped THEN h[k - 1]
                               ELSE MigrateItem(h[k - 1], options, list[k])
  BY <1>10 DEF Migrates
<1>3. RewriteState(b) /\ b.files = s.files /\ b.left = s.left /\ b.names = given.names
  BY NotedNames
<1>4. list[1] = x /\ list[2] = y /\ x \in DOMAIN s.files /\ y \in DOMAIN s.files /\ x # y
      /\ IsName(x[2]) /\ IsName(y[2])
  BY DEF Fits
<1> HIDE DEF list, b, u, given
<1>5. h[1] = t /\ u = IF y \in given.skipped THEN t ELSE MigrateItem(t, options, y)
  <2>1. 1 \in 1..2 /\ 2 \in 1..2 /\ 1 - 1 = 0 /\ 2 - 1 = 1
    OBVIOUS
  <2>2. x \notin given.skipped
    BY <1>1, <1>4
  <2>3. h[1] = IF x \in given.skipped THEN h[0] ELSE MigrateItem(h[0], options, x)
    BY <1>2, <1>4, <2>1
  <2>4. h[2] = IF y \in given.skipped THEN h[1] ELSE MigrateItem(h[1], options, y)
    BY <1>2, <1>4, <2>1
  <2>5. h[1] = t
    BY <1>2, <2>2, <2>3
  <2> QED BY <1>2, <2>4, <2>5
<1>6. MovedItem(b, t, options, x)
  BY <1>3, <1>4, ItemMoves, PlacesApart
<1> HIDE DEF t
<1>7. y \in DOMAIN t.files /\ RewriteState(t)
  BY <1>3, <1>4, <1>6 DEF MovedItem
<1>8. Basename(x[2]) # Basename(y[2]) => MovedItem(t, u, options, y)
  <2>1. MovedItem(t, MigrateItem(t, options, y), options, y)
    BY <1>4, <1>7, ItemMoves, PlacesApart
  <2> QED BY <1>1, <1>5, <2>1
<1>9. Halfway(s, b, t, u, options, x, y)
  BY <1>1, <1>3, <1>5, <1>6, <1>8 DEF Halfway
<1> QED BY <1>9 DEF u

(* Where the two items can be, and that none of these places is another.   *)
LEMMA TwoApart ==
  ASSUME NEW files, NEW x, NEW y, Fits(files, x, y), NEW options, options.active # "records"
  PROVE  LET tx == NewPlace(options, x) ty == NewPlace(options, y) IN
         /\ {x, y, tx, ty} \cap {Record(x), Record(y)} = {}
         /\ {x, y} \cap {tx, ty} = {}
         /\ Basename(x[2]) # Basename(y[2]) => tx # ty
<1>1. \A p \in {x, y} : /\ NewPlace(options, p)[1] # "records" /\ NewPlace(options, p)[2] = Basename(p[2])
                        /\ Record(p)[1] = "records" /\ p[1] # "records"
  BY NewNamesAre DEF Fits, NewPlace, Record
<1>2. \A p, q \in {x, y} : Basename(p[2]) # q[2]
  BY DEF Fits, Untaken
<1> QED BY <1>1, <1>2

(* A migration of two items, killed wherever, keeps both.                  *)
LEMMA TwoSurvive ==
  ASSUME NEW s, NEW b, NEW t, NEW u, NEW x, NEW y, Fits(s.files, x, y),
         NEW options, options.active # "records", Halfway(s, b, t, u, options, x, y)
  PROVE  /\ Items(s.files) \subseteq Items(u.files) /\ RewriteState(u)
         /\ options.dry => u.files = s.files
         /\ DOMAIN u.files \subseteq {x, y, NewPlace(options, x), NewPlace(options, y), Record(x), Record(y)}
<1> DEFINE tx == NewPlace(options, x)
           ty == NewPlace(options, y)
<1>1. /\ {x, y, tx, ty} \cap {Record(x), Record(y)} = {} /\ {x, y} \cap {tx, ty} = {}
      /\ Basename(x[2]) # Basename(y[2]) => tx # ty
  BY TwoApart
<1>2. /\ b.files = s.files /\ DOMAIN s.files = {x, y} /\ x # y /\ MovedItem(b, t, options, x)
      /\ IF Basename(x[2]) = Basename(y[2]) THEN u = t ELSE MovedItem(t, u, options, y)
  BY DEF Halfway, Fits
<1>3. /\ RewriteState(t) /\ (options.dry => t = b) /\ DOMAIN t.files \subseteq {x, y, tx, Record(x)}
      /\ y \in DOMAIN t.files /\ t.files[y] = s.files[y]
      /\ x \in DOMAIN t.files => t.files[x].of = s.files[x].of
      /\ x \notin DOMAIN t.files => tx \in DOMAIN t.files /\ t.files[tx].of = s.files[x].of
  <2>1. Migrated(b.names, x, b.files[x]).of = b.files[x].of
    BY DEF Migrated
  <2> HIDE DEF tx, ty
  <2> QED BY <1>1, <1>2, <2>1 DEF MovedItem, tx
<1> HIDE DEF tx, ty
<1>4. CASE Basename(x[2]) = Basename(y[2])
  BY <1>2, <1>3, <1>4 DEF Items, tx
<1>5. CASE Basename(x[2]) # Basename(y[2])
  <2>1. Migrated(t.names, y, t.files[y]).of = t.files[y].of
    BY DEF Migrated
  <2>2. /\ RewriteState(u) /\ (options.dry => u = t) /\ DOMAIN u.files \subseteq DOMAIN t.files \cup {ty, Record(y)}
        /\ \A q \in DOMAIN t.files \ {y, ty, Record(y)} : q \in DOMAIN u.files /\ u.files[q] = t.files[q]
        /\ y \in DOMAIN u.files => u.files[y] = t.files[y]
        /\ y \notin DOMAIN u.files => ty \in DOMAIN u.files /\ u.files[ty].of = t.files[y].of
    BY <1>2, <1>5, <2>1 DEF MovedItem, ty
  <2>3. \E q \in DOMAIN u.files : u.files[q].of = s.files[x].of
    <3>1. x \notin {y, ty, Record(y)} /\ tx \notin {y, ty, Record(y)}
      BY <1>1, <1>2, <1>5
    <3> QED BY <1>3, <2>2, <3>1
  <2>4. \E q \in DOMAIN u.files : u.files[q].of = s.files[y].of
    BY <1>3, <2>2
  <2>5. Items(s.files) \subseteq Items(u.files)
    BY <1>2, <2>3, <2>4 DEF Items
  <2> QED BY <1>2, <1>3, <2>2, <2>5 DEF tx, ty
<1> QED BY <1>4, <1>5

(* An item has come to one place, with what it says of others.             *)
ItemArrives(old, new, p) ==
  \E q \in Places(new, old[p].of) :
    /\ Places(new, old[p].of) = {q}
    /\ p[1] = "archive" => q[1] = "archive"
    /\ new[q].evidence \subseteq DOMAIN new
    /\ p # q => \A t \in DOMAIN old : t[2] \in old[p].points \cup old[p].depends
         /\ (\A v \in DOMAIN old : v[2] = t[2] => v = t) =>
           \E w \in Places(new, old[t].of) : w[2] \in new[q].points \cup new[q].depends

(* Where an item is at the end: the second is not moved to the name of the *)
(* first.                                                                  *)
EndsAt(options, x, y, p) ==
  IF p = y /\ Basename(x[2]) = Basename(y[2]) THEN p ELSE NewPlace(options, p)

(* It is there, with what it says of others as the migration left it.      *)
Ended(new, names, old, options, x, y, p) == LET q == EndsAt(options, x, y, p) IN
  /\ q \in DOMAIN new
  /\ q = p => new[q] = old[p]
  /\ q # p => new[q] = Migrated(names, p, old[p]) /\ (HasResults(p, old[p]) => Record(p) \in DOMAIN new)

(* A whole migration of two items brings each there, and nothing else is   *)
(* left but records.                                                       *)
LEMMA TwoEnd ==
  ASSUME NEW s, NEW b, NEW t, NEW u, NEW x, NEW y, Fits(s.files, x, y), s.left > 6,
         NEW options, options.active # "records", ~options.dry, Halfway(s, b, t, u, options, x, y)
  PROVE  /\ \A p \in {x, y} : Ended(u.files, b.names, s.files, options, x, y, p)
         /\ \A q \in DOMAIN u.files : \/ q \in {EndsAt(options, x, y, x), EndsAt(options, x, y, y)}
                                      \/ u.files[q].of[1] = "record"
<1> DEFINE tx == NewPlace(options, x)
           ty == NewPlace(options, y)
           rx == Record(x)
           ry == Record(y)
           old == s.files
<1>1. /\ {x, y, tx, ty} \cap {rx, ry} = {} /\ {x, y} \cap {tx, ty} = {}
      /\ Basename(x[2]) # Basename(y[2]) => tx # ty
  BY TwoApart
<1>2. /\ b.files = old /\ b.left = s.left /\ DOMAIN old = {x, y} /\ x # y /\ MovedItem(b, t, options, x)
      /\ IF Basename(x[2]) = Basename(y[2]) THEN u = t ELSE MovedItem(t, u, options, y)
      /\ RewriteState(b)
  BY DEF Halfway, Fits
<1>3. \A p \in {x, y} : RecordOf(p[2]).of[1] = "record"
  BY NewNamesAre DEF RecordOf, Fits
<1>4. /\ RewriteState(t) /\ b.left <= t.left + 3 /\ t.names = b.names /\ DOMAIN t.files \subseteq {x, y, tx, rx}
      /\ y \in DOMAIN t.files /\ t.files[y] = old[y] /\ x \notin DOMAIN t.files
      /\ tx \in DOMAIN t.files /\ t.files[tx] = Migrated(b.names, x, old[x])
      /\ HasResults(x, old[x]) => rx \in DOMAIN t.files
      /\ rx \in DOMAIN t.files => t.files[rx].of[1] = "record"
  <2>1. b.left > 3
    BY <1>2 DEF RewriteState
  <2> HIDE DEF tx, ty, rx, ry, old
  <2>3. MovedItem(b, t, options, x)
    BY <1>2
  <2>7. b.files = old /\ DOMAIN old = {x, y} /\ x # y
    BY <1>2
  <2>8. y # rx /\ y # tx /\ x # rx
    BY <1>1
  <2>2.
      /\ RewriteState(t) /\ b.left <= t.left + 3 /\ t.names = b.names
      /\ DOMAIN t.files \subseteq DOMAIN b.files \cup {tx, rx}
      /\ \A q \in DOMAIN b.files \ {x, tx, rx} : q \in DOMAIN t.files /\ t.files[q] = b.files[q]
      /\ x \notin DOMAIN t.files => tx \in DOMAIN t.files /\ t.files[tx] = Migrated(b.names, x, b.files[x])
      /\ rx \in DOMAIN t.files => t.files[rx] = RecordOf(x[2]) \/ rx \in DOMAIN b.files
      /\ x \notin DOMAIN t.files /\ (HasResults(x, b.files[x]) => rx \in DOMAIN t.files)
    BY <2>1, <2>3 DEF MovedItem, tx, rx
  <2>4. DOMAIN t.files \subseteq {x, y, tx, rx} /\ y \in DOMAIN t.files /\ t.files[y] = old[y]
    BY <2>2, <2>7, <2>8
  <2>5. rx \in DOMAIN t.files => t.files[rx].of[1] = "record"
    BY <1>3, <2>2, <2>7, <2>8
  <2>6. /\ x \notin DOMAIN t.files /\ tx \in DOMAIN t.files /\ t.files[tx] = Migrated(b.names, x, old[x])
        /\ HasResults(x, old[x]) => rx \in DOMAIN t.files
    BY <2>2, <2>7
  <2> QED BY <2>2, <2>4, <2>5, <2>6
<1>5. CASE Basename(x[2]) = Basename(y[2])
  <2>1. EndsAt(options, x, y, x) = tx /\ EndsAt(options, x, y, y) = y
    BY <1>2, <1>5 DEF EndsAt
  <2>2. tx # x
    BY <1>1
  <2>3. Ended(u.files, b.names, old, options, x, y, x)
    BY <1>2, <1>4, <1>5, <2>1, <2>2 DEF Ended
  <2>4. Ended(u.files, b.names, old, options, x, y, y)
    BY <1>2, <1>4, <1>5, <2>1 DEF Ended
  <2>5. \A q \in DOMAIN u.files : q \in {tx, y} \/ u.files[q].of[1] = "record"
    BY <1>2, <1>4, <1>5
  <2> QED BY <2>1, <2>3, <2>4, <2>5
<1>6. CASE Basename(x[2]) # Basename(y[2])
  <2>1. EndsAt(options, x, y, x) = tx /\ EndsAt(options, x, y, y) = ty
    BY <1>6 DEF EndsAt
  <2>2. tx # x /\ ty # y /\ tx # ty /\ y # rx /\ y # tx
    BY <1>1, <1>6
  <2>3. t.left > 3
    <3>1. t.left \in Nat /\ b.left \in Nat
      BY <1>2, <1>4 DEF RewriteState
    <3> QED BY <1>2, <1>4, <3>1
  <2>4. /\ DOMAIN u.files \subseteq DOMAIN t.files \cup {ty, ry}
        /\ \A q \in DOMAIN t.files \ {y, ty, ry} : q \in DOMAIN u.files /\ u.files[q] = t.files[q]
        /\ y \notin DOMAIN u.files /\ ty \in DOMAIN u.files /\ u.files[ty] = Migrated(t.names, y, t.files[y])
        /\ ry \in DOMAIN u.files => u.files[ry] = RecordOf(y[2]) \/ (ry \in DOMAIN t.files /\ u.files[ry] = t.files[ry])
        /\ HasResults(y, t.files[y]) => ry \in DOMAIN u.files
        /\ DOMAIN t.files \ {y} \subseteq DOMAIN u.files
    <3>1. MovedItem(t, u, options, y)
      BY <1>2, <1>6
    <3> HIDE DEF tx, rx, old
    <3> QED BY <2>3, <3>1 DEF MovedItem, ty, ry
  <2> HIDE DEF tx, ty, rx, ry, old
  <2>5. /\ tx \in DOMAIN u.files /\ u.files[tx] = Migrated(b.names, x, old[x])
        /\ HasResults(x, old[x]) => rx \in DOMAIN u.files
    BY <1>1, <1>4, <2>2, <2>4
  <2>6. /\ ty \in DOMAIN u.files /\ u.files[ty] = Migrated(b.names, y, old[y])
        /\ HasResults(y, old[y]) => ry \in DOMAIN u.files
    BY <1>4, <2>4
  <2>7. Ended(u.files, b.names, old, options, x, y, x)
    BY <2>1, <2>2, <2>5 DEF Ended, rx
  <2>8. Ended(u.files, b.names, old, options, x, y, y)
    BY <2>1, <2>2, <2>6 DEF Ended, ry
  <2>9. \A q \in DOMAIN u.files : q \in {tx, ty} \/ u.files[q].of[1] = "record"
    <3> SUFFICES ASSUME NEW q \in DOMAIN u.files, q # tx, q # ty PROVE u.files[q].of[1] = "record"
      OBVIOUS
    <3>1. q \in {rx, ry}
      BY <1>4, <2>4
    <3>2. ry \in DOMAIN t.files => ry = rx
      BY <1>1, <1>4
    <3>3. CASE q = ry
      BY <1>3, <1>4, <2>4, <3>2, <3>3
    <3>4. CASE q = rx /\ q # ry
      BY <1>1, <1>4, <2>4, <3>4
    <3> QED BY <3>1, <3>3, <3>4
  <2> QED BY <2>1, <2>7, <2>8, <2>9 DEF old
<1> QED BY <1>5, <1>6

(* A whole migration of two items brings both to one place each, with      *)
(* their evidence, and what had a name of its own is still linked.         *)
LEMMA TwoArrive ==
  ASSUME NEW s, NEW b, NEW t, NEW u, NEW x, NEW y, Fits(s.files, x, y), s.left > 6,
         NEW options, options.active # "records", ~options.dry, Halfway(s, b, t, u, options, x, y)
  PROVE  \A p \in DOMAIN s.files : ItemArrives(s.files, u.files, p)
<1> DEFINE old == s.files
           new == u.files
           Ends(p) == EndsAt(options, x, y, p)
           names == b.names
<1>1. /\ \A p \in {x, y} : Ended(new, names, old, options, x, y, p)
      /\ \A q \in DOMAIN new : q \in {Ends(x), Ends(y)} \/ new[q].of[1] = "record"
  BY TwoEnd
<1>2. /\ DOMAIN old = {x, y} /\ x # y /\ old[x].of # old[y].of
      /\ \A p \in {x, y} : old[p].of[1] # "record" /\ old[p].evidence = {}
      /\ DOMAIN names = IF Basename(x[2]) = Basename(y[2]) THEN {x[2]} ELSE {x[2], y[2]}
      /\ \A z \in DOMAIN names : names[z] = Basename(z)
  BY DEF Fits, Halfway
<1>3. \A p \in {x, y} : Ends(p) \in DOMAIN new /\ new[Ends(p)].of = old[p].of
  BY <1>1 DEF Ended, Migrated
<1>4. ASSUME NEW p \in {x, y} PROVE Places(new, old[p].of) = {Ends(p)}
  <2> HIDE DEF Ends, new, old
  <2>1. \A q \in DOMAIN new : new[q].of = old[p].of => q = Ends(p)
    BY <1>1, <1>2, <1>3
  <2> QED BY <1>3, <2>1 DEF Places
<1>5. ASSUME NEW p \in {x, y}, \A v \in DOMAIN old : v[2] = p[2] => v = p
      PROVE  Ends(p)[2] = Renamed(names, p[2])
  <2>1. CASE p = y /\ Basename(x[2]) = Basename(y[2])
    <3>1. x[2] # y[2]
      BY <1>2, <1>5, <2>1
    <3>2. p[2] \notin DOMAIN names
      BY <1>2, <2>1, <3>1
    <3> QED BY <2>1, <3>2 DEF EndsAt, Renamed
  <2>2. CASE ~(p = y /\ Basename(x[2]) = Basename(y[2]))
    <3>1. p[2] \in DOMAIN names
      BY <1>2, <2>2
    <3> QED BY <1>2, <2>2, <3>1 DEF EndsAt, Renamed, NewPlace
  <2> QED BY <2>1, <2>2
<1>6. ASSUME NEW p \in {x, y}
      PROVE  ItemArrives(old, new, p)
  <2> DEFINE q == Ends(p)
  <2>1. q \in Places(new, old[p].of) /\ Places(new, old[p].of) = {q}
    BY <1>4
  <2>2. p[1] = "archive" => q[1] = "archive"
    BY DEF EndsAt, NewPlace, IsArchived
  <2> HIDE DEF new, old, names
  <2>3. /\ q = p => new[q] = old[p]
        /\ q # p => new[q] = Migrated(names, p, old[p]) /\ (HasResults(p, old[p]) => Record(p) \in DOMAIN new)
    BY <1>1 DEF Ended
  <2> HIDE DEF q, Ends
  <2>4. new[q].evidence \subseteq DOMAIN new
    <3>1. CASE q = p
      BY <1>2, <2>3, <3>1
    <3>2. CASE q # p
      <4>0. Migrated(names, p, old[p]).evidence = IF HasResults(p, old[p]) THEN {Record(p)} ELSE {}
        BY DEF Migrated, Record
      <4>1. new[q].evidence = IF HasResults(p, old[p]) THEN {Record(p)} ELSE {}
        BY <2>3, <3>2, <4>0
      <4> QED BY <2>3, <3>2, <4>1
    <3> QED BY <3>1, <3>2
  <2>5. ASSUME p # q, NEW z \in DOMAIN old, z[2] \in old[p].points \cup old[p].depends,
               \A v \in DOMAIN old : v[2] = z[2] => v = z
        PROVE  \E w \in Places(new, old[z].of) : w[2] \in new[q].points \cup new[q].depends
    <3>1. z \in {x, y}
      BY <1>2
    <3>2. Ends(z) \in Places(new, old[z].of)
      BY <1>4, <3>1
    <3>3. Ends(z)[2] = Renamed(names, z[2])
      BY <1>5, <2>5, <3>1
    <3>4. new[q].points = {Renamed(names, r) : r \in old[p].points \cup old[p].depends}
      BY <2>3, <2>5 DEF Migrated
    <3> QED BY <2>5, <3>2, <3>3, <3>4
  <2> QED BY <2>1, <2>2, <2>4, <2>5 DEF ItemArrives
<1> QED BY <1>2, <1>6 DEF old, new

-----------------------------------------------------------------------------
(* The paths of a small backlog, and of what its migration leaves.         *)
Shelves == {"backlog", "active", "archive", "archive-notes", "records"}
Titles == {<<"b">>, <<"b_">>, <<"c">>, <<"work-item", "b">>, <<"work-item", "c">>,
           <<"record", "b", "evidence">>, <<"record", "c", "evidence">>}
LegacyPaths == Shelves \X Titles

(* Every word of them has a rank of its own.                               *)
LEMMA RanksDiffer ==
  \A v, w \in ToSet(Words) : Rank(v) \in Nat /\ (Rank(v) = Rank(w) => v = w)
<1>1. DOMAIN Words = 1..10 /\ Len(Words) = 10
  BY DEF Words
<1>2. ASSUME NEW w \in ToSet(Words) PROVE Rank(w) \in 1..10 /\ Words[Rank(w)] = w
  <2> DEFINE I == {i \in 1..Len(Words) : Words[i] = w}
  <2>1. I \in SUBSET Nat /\ I # {}
    BY <1>1 DEF ToSet
  <2>2. Rank(w) = Min(I)
    BY <2>1 DEF Rank, SelectInSeq
  <2> HIDE DEF I
  <2>3. Min(I) \in I
    BY <2>1, F!MinOfSet DEF Min, F!Min
  <2> QED BY <1>1, <2>2, <2>3 DEF I
<1>3. \A w \in ToSet(Words) : Rank(w) \in Nat /\ Words[Rank(w)] = w
  BY <1>2
<1> QED BY <1>3

(* How many words a name has that begins with this one, and how many a key *)
(* has: no key is the beginning of another.                                *)
Span(w) == IF w = "work-item" THEN 2 ELSE IF w = "record" THEN 3 ELSE 1
KeyLength(k) == IF k[1] \in Shelves THEN 1 + Span(k[2]) ELSE Span(k[1])

(* A name has as many words as its first one tells.                        *)
LEMMA TitlesAre ==
  \A n \in Titles : n \in Seq(ToSet(Words)) /\ Len(n) = Span(n[1]) /\ n[1] \notin Shelves /\ IsName(n)
<1>2. {"b", "b_", "c", "work-item", "record", "evidence"} \subseteq ToSet(Words)
  <2>1. DOMAIN Words = 1..10 /\ Words[4] = "b" /\ Words[5] = "b_" /\ Words[6] = "c" /\ Words[7] = "evidence"
        /\ Words[8] = "record" /\ Words[10] = "work-item"
    BY DEF Words
  <2> HIDE DEF Words
  <2> QED BY <2>1 DEF ToSet
<1> DEFINE T == ToSet(Words)
<1>3. /\ "b" \in T /\ "b_" \in T /\ "c" \in T /\ "work-item" \in T /\ "record" \in T /\ "evidence" \in T
  BY <1>2
<1> HIDE DEF T
<1> DEFINE Good(n) == n \in Seq(T) /\ n # <<>> /\ Len(n) = Span(n[1]) /\ n[1] \notin Shelves
<1>4. /\ Good(<<"b">>) /\ Good(<<"b_">>) /\ Good(<<"c">>)
  BY <1>3 DEF Span, Shelves
<1>5. /\ Good(<<"work-item", "b">>) /\ Good(<<"work-item", "c">>)
  BY <1>3 DEF Span, Shelves
<1>6. /\ Good(<<"record", "b", "evidence">>) /\ Good(<<"record", "c", "evidence">>)
  BY <1>3 DEF Span, Shelves
<1> HIDE DEF Good
<1>7. \A n \in Titles : Good(n)
  BY <1>4, <1>5, <1>6 DEF Titles
<1> QED BY <1>7 DEF Good, T, IsName, IsSeq

(* A key has as many words as its first ones tell.                         *)
LEMMA KeysAre ==
  ASSUME NEW p \in LegacyPaths
  PROVE  LET k == Key(p) IN
         /\ k \in Seq(ToSet(Words)) /\ Len(k) = KeyLength(k) /\ Len(k) \in Nat /\ Len(k) # 0
         /\ DOMAIN k = 1..Len(k) /\ (k[1] \in Shelves => Len(k) > 1)
         /\ k[1] \in Shelves <=> p[1] # "backlog"
         /\ k[1] \in Shelves => /\ p[1] = k[1] /\ Len(p[2]) = Len(k) - 1 /\ p[2] \in Seq(ToSet(Words))
                                /\ \A i \in 1..Len(p[2]) : p[2][i] = k[i + 1]
         /\ k[1] \notin Shelves => p[2] = k
<1> DEFINE k == Key(p)
           n == p[2]
           d == p[1]
           T == ToSet(Words)
<1>1. d \in Shelves /\ n \in Titles
  BY DEF LegacyPaths
<1>2. n \in Seq(T) /\ Len(n) = Span(n[1]) /\ n[1] \notin Shelves /\ Len(n) \in 1..3 /\ DOMAIN n = 1..Len(n)
  <2>1. n \in Seq(T) /\ Len(n) = Span(n[1]) /\ n[1] \notin Shelves
    BY <1>1, TitlesAre
  <2> HIDE DEF n, T
  <2>2. DOMAIN n = 1..Len(n)
    BY <2>1, LenProperties
  <2> QED BY <2>1, <2>2 DEF Span
<1>3. CASE d = "backlog"
  <2>1. k = n
    BY <1>3 DEF Key
  <2> HIDE DEF k, n, T
  <2>2. Len(k) = KeyLength(k) /\ k \in Seq(T) /\ k[1] \notin Shelves /\ DOMAIN k = 1..Len(k) /\ Len(k) \in 1..3
    BY <1>2, <2>1 DEF KeyLength
  <2>3. Len(k) \in Nat /\ Len(k) # 0
    BY <2>2
  <2> QED BY <1>3, <2>1, <2>2, <2>3 DEF n, k, T
<1>4. CASE d # "backlog"
  <2>1. k = <<d>> \o n
    BY <1>4 DEF Key
  <2>2. d \in T
    <3>1. {"active", "archive", "archive-notes", "records"} \subseteq ToSet(Words)
      <4>1. DOMAIN Words = 1..10 /\ Words[1] = "active" /\ Words[2] = "archive" /\ Words[3] = "archive-notes"
            /\ Words[9] = "records"
        BY DEF Words
      <4> HIDE DEF Words
      <4> QED BY <4>1 DEF ToSet
    <3> QED BY <1>1, <1>4, <3>1 DEF Shelves
  <2> HIDE DEF k, n, d, T
  <2>3. <<d>> \in Seq(T) /\ Len(<<d>>) = 1 /\ <<d>>[1] = d
    BY <2>2
  <2>4. /\ k \in Seq(T) /\ Len(k) = 1 + Len(n)
        /\ \A i \in 1..(1 + Len(n)) : k[i] = IF i <= 1 THEN <<d>>[i] ELSE n[i - 1]
    BY <1>2, <2>1, <2>3, ConcatProperties
  <2>5. k[1] = d /\ k[2] = n[1] /\ \A i \in 1..Len(n) : n[i] = k[i + 1]
    <3>1. 1 \in 1..(1 + Len(n)) /\ 2 \in 1..(1 + Len(n)) /\ 2 - 1 = 1 /\ ~(2 <= 1)
          /\ \A i \in 1..Len(n) : i + 1 \in 1..(1 + Len(n)) /\ (i + 1) - 1 = i /\ ~(i + 1 <= 1)
      BY <1>2
    <3> QED BY <2>3, <2>4, <3>1
  <2>6. Len(k) = KeyLength(k) /\ Len(k) \in Nat /\ Len(k) > 1 /\ Len(n) = Len(k) - 1 /\ Len(k) # 0
    BY <1>1, <1>2, <2>4, <2>5 DEF KeyLength
  <2>7. DOMAIN k = 1..Len(k)
    BY <2>4, LenProperties
  <2> QED BY <1>1, <1>2, <1>4, <2>4, <2>5, <2>6, <2>7 DEF n, k, T, d
<1> QED BY <1>3, <1>4

(* A path that is not another comes before or after it.                    *)
LEMMA PathsInOrder ==
  ASSUME NEW S \in SUBSET LegacyPaths
  PROVE  Orders({r \in S \X S : Precedes(r[1], r[2])}, S)
<1> DEFINE R == {r \in S \X S : Precedes(r[1], r[2])}
           T == ToSet(Words)
           Differ(k, l, i) == Rank(k[i]) < Rank(l[i]) /\ \A j \in 1..(i - 1) : k[j] = l[j]
<1>1. \A p, q \in S : <<p, q>> \in R <=>
        \E i \in DOMAIN Key(p) \cap DOMAIN Key(q) : Differ(Key(p), Key(q), i)
  BY DEF Precedes
<1>2. \A p \in S : /\ Key(p) \in Seq(T) /\ DOMAIN Key(p) = 1..Len(Key(p)) /\ Len(Key(p)) \in Nat
                   /\ \A i \in DOMAIN Key(p) : Key(p)[i] \in T
  <2> SUFFICES ASSUME NEW p \in S
               PROVE  /\ Key(p) \in Seq(T) /\ DOMAIN Key(p) = 1..Len(Key(p)) /\ Len(Key(p)) \in Nat
                      /\ \A i \in DOMAIN Key(p) : Key(p)[i] \in T
    OBVIOUS
  <2>1. Key(p) \in Seq(T) /\ DOMAIN Key(p) = 1..Len(Key(p)) /\ Len(Key(p)) \in Nat
    BY KeysAre
  <2> HIDE DEF T
  <2> QED BY <2>1, ElementOfSeq
<1>3. \A v, w \in T : Rank(v) \in Nat /\ (Rank(v) = Rank(w) => v = w)
  BY RanksDiffer
<1> HIDE DEF R, T
<1>4. ASSUME NEW p \in S PROVE <<p, p>> \notin R
  BY <1>1, <1>2, <1>3
<1>5. ASSUME NEW p \in S, NEW q \in S, p # q PROVE <<p, q>> \in R \/ <<q, p>> \in R
  <2> DEFINE k == Key(p)
             l == Key(q)
             D == {i \in Nat : i \in DOMAIN k \cap DOMAIN l /\ k[i] # l[i]}
  <2>1. /\ DOMAIN k = 1..Len(k) /\ DOMAIN l = 1..Len(l) /\ Len(k) \in Nat /\ Len(l) \in Nat
        /\ \A i \in DOMAIN k : k[i] \in T
        /\ \A i \in DOMAIN l : l[i] \in T
    BY <1>2
  <2>2. D # {}
    <3> SUFFICES ASSUME D = {} PROVE FALSE
      OBVIOUS
    <3>1. p \in LegacyPaths /\ q \in LegacyPaths /\ p = <<p[1], p[2]>> /\ q = <<q[1], q[2]>>
      BY DEF LegacyPaths
    <3>2. /\ Len(k) = KeyLength(k) /\ Len(k) # 0 /\ (k[1] \in Shelves => Len(k) > 1)
          /\ k[1] \in Shelves <=> p[1] # "backlog"
          /\ k[1] \in Shelves => /\ p[1] = k[1] /\ Len(p[2]) = Len(k) - 1 /\ p[2] \in Seq(T)
                                 /\ \A i \in 1..Len(p[2]) : p[2][i] = k[i + 1]
          /\ k[1] \notin Shelves => p[2] = k
      BY <3>1, KeysAre DEF T
    <3>3. /\ Len(l) = KeyLength(l) /\ Len(l) # 0 /\ (l[1] \in Shelves => Len(l) > 1)
          /\ l[1] \in Shelves <=> q[1] # "backlog"
          /\ l[1] \in Shelves => /\ q[1] = l[1] /\ Len(q[2]) = Len(l) - 1 /\ q[2] \in Seq(T)
                                 /\ \A i \in 1..Len(q[2]) : q[2][i] = l[i + 1]
          /\ l[1] \notin Shelves => q[2] = l
      BY <3>1, KeysAre DEF T
    <3>4. k \in Seq(T) /\ l \in Seq(T)
      BY <1>2
    <3>5. \A i \in Nat : i \in DOMAIN k /\ i \in DOMAIN l => k[i] = l[i]
      OBVIOUS
    <3> HIDE DEF k, l, D
    <3>6. k[1] = l[1]
      BY <2>1, <3>2, <3>3, <3>5
    <3>7. Len(k) = Len(l)
      <4>1. CASE k[1] \in Shelves
        <5>1. k[2] = l[2]
          BY <2>1, <3>2, <3>3, <3>5, <3>6, <4>1
        <5> QED BY <3>2, <3>3, <3>6, <5>1 DEF KeyLength
      <4>2. CASE k[1] \notin Shelves
        BY <3>2, <3>3, <3>6, <4>2 DEF KeyLength
      <4> QED BY <4>1, <4>2
    <3>8. \A i \in 1..Len(k) : k[i] = l[i]
      BY <2>1, <3>5, <3>7
    <3>9. p[1] = q[1]
      BY <3>2, <3>3, <3>6 DEF LegacyPaths
    <3>10. p[2] = q[2]
      <4>1. CASE k[1] \in Shelves
        <5>1. Len(p[2]) = Len(q[2]) /\ p[2] \in Seq(T) /\ q[2] \in Seq(T)
          BY <3>2, <3>3, <3>6, <3>7, <4>1
        <5>2. \A i \in 1..Len(p[2]) : p[2][i] = q[2][i]
          <6>1. \A i \in 1..Len(p[2]) : i + 1 \in 1..Len(k)
            BY <2>1, <3>2, <4>1
          <6> QED BY <3>2, <3>3, <3>6, <3>8, <4>1, <5>1, <6>1
        <5> QED BY <5>1, <5>2, SeqEqual
      <4>2. CASE k[1] \notin Shelves
        <5>1. k = l
          BY <3>4, <3>7, <3>8, SeqEqual
        <5> QED BY <3>2, <3>3, <3>6, <4>2, <5>1
      <4> QED BY <4>1, <4>2
    <3> QED BY <1>5, <3>1, <3>9, <3>10
  <2> DEFINE m == Min(D)
  <2>3. m \in D /\ \A i \in D : m <= i
    BY <2>2, F!MinOfSet DEF Min, F!Min
  <2>4. m \in Nat /\ m \in DOMAIN k /\ m \in DOMAIN l /\ k[m] # l[m]
    BY <2>3
  <2>5. \A j \in 1..(m - 1) : k[j] = l[j]
    <3> SUFFICES ASSUME NEW j \in 1..(m - 1), k[j] # l[j] PROVE FALSE
      OBVIOUS
    <3> HIDE DEF m
    <3>1. j \in Nat /\ ~(m <= j) /\ j \in DOMAIN k /\ j \in DOMAIN l
      <4> HIDE DEF k, l, D
      <4> QED BY <2>1, <2>4
    <3> QED BY <2>3, <3>1
  <2> HIDE DEF m, k, l, D
  <2>6. Rank(k[m]) < Rank(l[m]) \/ Rank(l[m]) < Rank(k[m])
    <3>1. /\ Rank(k[m]) \in Nat /\ Rank(l[m]) \in Nat /\ Rank(k[m]) # Rank(l[m])
      BY <1>3, <2>1, <2>4
    <3> QED BY <3>1
  <2>7. Differ(k, l, m) \/ Differ(l, k, m)
    BY <2>5, <2>6
  <2> QED BY <1>1, <2>4, <2>7 DEF k, l
<1>6. ASSUME NEW p \in S, NEW q \in S, NEW r \in S, <<p, q>> \in R, <<q, r>> \in R PROVE <<p, r>> \in R
  <2> DEFINE k == Key(p)
             l == Key(q)
             m == Key(r)
  <2>1. PICK i \in DOMAIN k \cap DOMAIN l : Differ(k, l, i)
    BY <1>1, <1>6
  <2>2. PICK j \in DOMAIN l \cap DOMAIN m : Differ(l, m, j)
    BY <1>1, <1>6
  <2>3. /\ DOMAIN k = 1..Len(k) /\ DOMAIN l = 1..Len(l) /\ DOMAIN m = 1..Len(m)
        /\ Len(k) \in Nat /\ Len(l) \in Nat /\ Len(m) \in Nat
        /\ \A n \in DOMAIN k : k[n] \in T
        /\ \A n \in DOMAIN l : l[n] \in T
        /\ \A n \in DOMAIN m : m[n] \in T
    BY <1>2
  <2> HIDE DEF k, l, m
  <2>4. /\ i \in Nat /\ j \in Nat /\ Rank(k[i]) \in Nat /\ Rank(l[i]) \in Nat /\ Rank(l[j]) \in Nat
        /\ Rank(m[j]) \in Nat
    BY <1>3, <2>3
  <2>5. \E n \in DOMAIN k \cap DOMAIN m : Differ(k, m, n)
    <3>1. CASE i < j
      <4>1. i \in DOMAIN k \cap DOMAIN m /\ l[i] = m[i]
        BY <2>2, <2>3, <2>4, <3>1
      <4>2. \A n \in 1..(i - 1) : k[n] = m[n]
        BY <2>1, <2>2, <2>4, <3>1
      <4> QED BY <2>1, <4>1, <4>2
    <3>2. CASE j < i
      <4>1. j \in DOMAIN k \cap DOMAIN m /\ k[j] = l[j]
        BY <2>1, <2>3, <2>4, <3>2
      <4>2. \A n \in 1..(j - 1) : k[n] = m[n]
        BY <2>1, <2>2, <2>4, <3>2
      <4> QED BY <2>2, <4>1, <4>2
    <3>3. CASE i = j
      <4>1. i \in DOMAIN k \cap DOMAIN m /\ Rank(k[i]) < Rank(m[i])
        <5>1. Rank(k[i]) < Rank(l[i]) /\ Rank(l[i]) < Rank(m[i]) /\ Rank(m[i]) \in Nat
          BY <2>1, <2>2, <2>4, <3>3
        <5> QED BY <2>4, <3>3, <5>1
      <4>2. \A n \in 1..(i - 1) : k[n] = m[n]
        BY <2>1, <2>2, <2>4, <3>3
      <4> QED BY <4>1, <4>2
    <3> QED BY <2>4, <3>1, <3>2, <3>3
  <2> QED BY <1>1, <2>5 DEF k, m
<1>7. Orders(R, S)
  <2> HIDE DEF Differ
  <2> QED BY <1>4, <1>5, <1>6 DEF Orders
<1> QED BY <1>7 DEF R

(* So a part of the paths is listed in their order.                        *)
LEMMA SortedPaths ==
  ASSUME NEW S \in SUBSET LegacyPaths, IsFiniteSet(S)
  PROVE  ListsEach(Sorted(S, Precedes), S, Cardinality(S))
<1> DEFINE R == {r \in S \X S : Precedes(r[1], r[2])}
           list == Sorted(S, Precedes)
<1>1. Orders(R, S)
  BY PathsInOrder
<1>2. \A x \in S : Below(S, R, x) = {y \in S : Precedes(y, x)}
  BY DEF Below
<1> HIDE DEF R
<1>3. Ranks(list, S, R)
  <2>1. list = [i \in 1..Cardinality(S) |-> list[i]]
    BY DEF Sorted
  <2>2. ASSUME NEW i \in 1..Cardinality(S), NEW x \in S, Cardinality(Below(S, R, x)) + 1 = i
        PROVE  list[i] \in S /\ Cardinality(Below(S, R, list[i])) + 1 = i
    <3>1. list[i] = CHOOSE z \in S : Cardinality({y \in S : Precedes(y, z)}) + 1 = i
      BY DEF Sorted
    <3>2. Cardinality({y \in S : Precedes(y, x)}) + 1 = i
      BY <1>2, <2>2
    <3> HIDE DEF list
    <3>3. list[i] \in S /\ Cardinality({y \in S : Precedes(y, list[i])}) + 1 = i
      BY <3>1, <3>2
    <3> QED BY <1>2, <3>3
  <2> HIDE DEF list
  <2> QED BY <2>1, <2>2 DEF Ranks
<1> HIDE DEF list
<1>4. ListsEach(list, S, Cardinality(S))
  BY <1>1, <1>3, RankedLists DEF ListsEach
<1> QED BY <1>4 DEF list

(* A list of one part and then one of the rest are a list of all.          *)
LEMMA ListsJoined ==
  ASSUME NEW v, NEW w, NEW S, NEW T, NEW m, NEW n, ListsEach(v, S, m), ListsEach(w, T, n), S \cap T = {}
  PROVE  ListsEach(v \o w, S \cup T, m + n)
<1> DEFINE U == S \cup T
           z == v \o w
<1>1. /\ m \in Nat /\ n \in Nat /\ v \in Seq(U) /\ w \in Seq(U) /\ Len(v) = m /\ Len(w) = n
      /\ v \in [1..m -> S] /\ w \in [1..n -> T] /\ ToSet(v) = S /\ ToSet(w) = T
      /\ IsInjective(v) /\ IsInjective(w)
  <2>1. v \in [1..m -> U] /\ w \in [1..n -> U] /\ m \in Nat /\ n \in Nat
    BY DEF ListsEach
  <2> HIDE DEF U
  <2>2. v \in Seq(U) /\ w \in Seq(U) /\ DOMAIN v = 1..m /\ DOMAIN w = 1..n
    BY <2>1, SeqDef
  <2>3. Len(v) = m /\ Len(w) = n
    BY <2>1, <2>2, LenProperties
  <2> QED BY <2>1, <2>2, <2>3 DEF ListsEach
<1>2. /\ z \in Seq(U) /\ Len(z) = m + n
      /\ \A i \in 1..(m + n) : z[i] = IF i <= m THEN v[i] ELSE w[i - m]
  <2> HIDE DEF U
  <2>1. v \in Seq(U) /\ w \in Seq(U) /\ Len(v) = m /\ Len(w) = n
    BY <1>1
  <2>2. /\ z \in Seq(U) /\ Len(z) = Len(v) + Len(w)
        /\ \A i \in 1..(Len(v) + Len(w)) : z[i] = IF i <= Len(v) THEN v[i] ELSE w[i - Len(v)]
    BY <2>1, ConcatProperties, Zenon
  <2> HIDE DEF z
  <2> QED BY <2>1, <2>2
<1>3. DOMAIN z = 1..(m + n) /\ m + n \in Nat /\ z \in [1..(m + n) -> U]
  <2> HIDE DEF U, z
  <2>1. m + n \in Nat
    BY <1>1
  <2>2. DOMAIN z = 1..(m + n)
    BY <1>2, LenProperties
  <2>3. \A i \in 1..(m + n) : z[i] \in U
    BY <1>2, ElementOfSeq
  <2>4. z = [i \in DOMAIN z |-> z[i]]
    <3>1. z \in [1..Len(z) -> U]
      BY <1>2, LenProperties
    <3> QED BY <3>1
  <2> QED BY <2>1, <2>2, <2>3, <2>4
<1> HIDE DEF z
<1>4. /\ \A i \in 1..m : i \in 1..(m + n) /\ z[i] = v[i]
      /\ \A i \in 1..n : i + m \in 1..(m + n) /\ z[i + m] = w[i]
      /\ \A i \in 1..(m + n) : i \in 1..m \/ i - m \in 1..n
  <2> SUFFICES /\ \A i \in 1..m : i \in 1..(m + n) /\ i <= m
               /\ \A i \in 1..n : i + m \in 1..(m + n) /\ ~(i + m <= m) /\ (i + m) - m = i
               /\ \A i \in 1..(m + n) : i \in 1..m \/ i - m \in 1..n
    <3>1. \A i \in 1..m : i \in 1..(m + n) /\ i <= m => z[i] = v[i]
      BY <1>2
    <3>2. \A i \in 1..n : i + m \in 1..(m + n) /\ ~(i + m <= m) /\ (i + m) - m = i => z[i + m] = w[i]
      BY <1>2
    <3> QED BY <3>1, <3>2
  <2> QED BY <1>1
<1>5. ToSet(z) = U
  <2>1. \A x \in S : \E i \in 1..m : v[i] = x
    BY <1>1 DEF ToSet
  <2>2. \A x \in T : \E i \in 1..n : w[i] = x
    BY <1>1 DEF ToSet
  <2>3. U \subseteq ToSet(z)
    BY <1>3, <1>4, <2>1, <2>2 DEF ToSet
  <2>4. ToSet(z) \subseteq U
    BY <1>3 DEF ToSet
  <2> QED BY <2>3, <2>4
<1>6. IsInjective(z)
  <2> SUFFICES ASSUME NEW i \in 1..(m + n), NEW j \in 1..(m + n), z[i] = z[j] PROVE i = j
    BY <1>3 DEF IsInjective
  <2>1. /\ z[i] = IF i <= m THEN v[i] ELSE w[i - m]
        /\ z[j] = IF j <= m THEN v[j] ELSE w[j - m]
    BY <1>2
  <2>2. CASE i <= m /\ j <= m
    <3>1. i \in 1..m /\ j \in 1..m
      BY <1>1, <2>2
    <3> QED BY <1>1, <2>1, <2>2, <3>1 DEF IsInjective
  <2>3. CASE i > m /\ j > m
    <3>1. i - m \in 1..n /\ j - m \in 1..n /\ ~(i <= m) /\ ~(j <= m)
      BY <1>1, <2>3
    <3>2. i - m = j - m
      BY <1>1, <2>1, <3>1 DEF IsInjective
    <3> QED BY <1>1, <3>2
  <2>4. CASE (i <= m /\ j > m) \/ (i > m /\ j <= m)
    <3>1. \/ i \in 1..m /\ j - m \in 1..n /\ i <= m /\ ~(j <= m)
          \/ j \in 1..m /\ i - m \in 1..n /\ j <= m /\ ~(i <= m)
      BY <1>1, <2>4
    <3> QED BY <1>1, <2>1, <3>1
  <2>5. i \in Int /\ j \in Int /\ m \in Int
    BY <1>1
  <2> QED BY <2>2, <2>3, <2>4, <2>5
<1> QED BY <1>3, <1>5, <1>6 DEF ListsEach, z

(* The files of a small backlog are listed one after the other, what is in *)
(* the archive last.                                                       *)
LEMMA LegacyFilesAre ==
  ASSUME NEW files, DOMAIN files \in SUBSET LegacyPaths, IsFiniteSet(DOMAIN files)
  PROVE  \E n : ListsEach(LegacyFiles(files), DOMAIN files, n)
<1> DEFINE S == {p \in DOMAIN files : p[1] # "archive"}
           T == {p \in DOMAIN files : p[1] = "archive"}
<1>1. S \in SUBSET LegacyPaths /\ T \in SUBSET LegacyPaths /\ S \cap T = {} /\ S \cup T = DOMAIN files
  OBVIOUS
<1>2. IsFiniteSet(S) /\ IsFiniteSet(T)
  <2>1. S \in SUBSET DOMAIN files /\ T \in SUBSET DOMAIN files
    OBVIOUS
  <2> HIDE DEF S, T
  <2> QED BY <2>1, FS_Subset
<1>3. LegacyFiles(files) = Sorted(S, Precedes) \o Sorted(T, Precedes)
  BY DEF LegacyFiles
<1> HIDE DEF S, T
<1>4. ListsEach(Sorted(S, Precedes), S, Cardinality(S)) /\ ListsEach(Sorted(T, Precedes), T, Cardinality(T))
  BY <1>1, <1>2, SortedPaths
<1>5. ListsEach(LegacyFiles(files), S \cup T, Cardinality(S) + Cardinality(T))
  BY <1>1, <1>3, <1>4, ListsJoined
<1> QED BY <1>1, <1>5

(* Two files are listed in one order or the other.                         *)
LEMMA TwoListed ==
  ASSUME NEW files, NEW x, NEW y, x # y, DOMAIN files = {x, y}, {x, y} \subseteq LegacyPaths
  PROVE  LET list == LegacyFiles(files) IN
         /\ DOMAIN list = 1..2 /\ ListsEach(list, {x, y}, 2)
         /\ (list[1] = x /\ list[2] = y) \/ (list[1] = y /\ list[2] = x)
<1> DEFINE list == LegacyFiles(files)
<1>1. IsFiniteSet({x, y}) /\ Cardinality({x, y}) = 2
  <2>1. IsFiniteSet({x}) /\ Cardinality({x}) = 1
    BY FS_Singleton
  <2>2. {x, y} = {x} \cup {y} /\ y \notin {x}
    OBVIOUS
  <2>3. IsFiniteSet({x} \cup {y}) /\ Cardinality({x} \cup {y}) = 1 + 1
    BY <2>1, <2>2, FS_AddElement
  <2> QED BY <2>2, <2>3
<1>2. PICK n : ListsEach(list, {x, y}, n)
  BY <1>1, LegacyFilesAre
<1> HIDE DEF list
<1>3. n = 2
  <2>1. list \in Bijection(1..n, {x, y}) /\ n \in Nat
    <3>1. \A z \in {x, y} : \E i \in 1..n : list[i] = z
      BY <1>2 DEF ListsEach, ToSet
    <3> QED BY <1>2, <3>1 DEF ListsEach, Bijection, Injection, Surjection, IsInjective
  <2>2. IsFiniteSet(1..n) /\ Cardinality(1..n) = n
    BY <2>1, FS_Interval
  <2>3. Cardinality(1..n) = Cardinality({x, y})
    <3>1. ExistsBijection(1..n, {x, y})
      BY <2>1 DEF ExistsBijection
    <3> QED BY <1>1, <2>2, <3>1, FS_Bijection
  <2> QED BY <1>1, <2>2, <2>3
<1>4. /\ list \in [1..2 -> {x, y}] /\ list[1] # list[2]
  <2>1. 1 \in 1..2 /\ 2 \in 1..2 /\ 1 # 2
    OBVIOUS
  <2> QED BY <1>2, <1>3, <2>1 DEF ListsEach, IsInjective
<1>5. list[1] \in {x, y} /\ list[2] \in {x, y} /\ DOMAIN list = 1..2
  BY <1>4
<1> QED BY <1>2, <1>3, <1>4, <1>5 DEF list

-----------------------------------------------------------------------------
(* The questions about a migration: an item and another.                   *)
MigrationAsked(q) ==
  /\ q.kind = "migration" /\ q.left \in Nat /\ q.options.dry \in BOOLEAN /\ q.options.active \in {"backlog", "active"}
  /\ \E other \in Others : DOMAIN q.files = {One, other}
       /\ q.files = [p \in DOMAIN q.files |-> q.files[p]]
       /\ q.files[One].of = <<"one">> /\ q.files[One].evidence = {}
       /\ q.files[other].of = <<"other">> /\ q.files[other].evidence = {}

(* They are all of this kind.                                              *)
LEMMA MigrationsAsked ==
  ASSUME AskMigration
  PROVE  MigrationAsked(asked')
<1>1. PICK other \in Others, s \in {"ready", "closed"}, t \in {"ready", "closed"}, r \in BOOLEAN, u \in BOOLEAN,
           active \in {"backlog", "active"}, dry \in BOOLEAN, left \in 0..7 :
        \E points, depends \in SUBSET {other[2]}, back \in SUBSET {<<"b">>} :
          /\ dry => left = 7
          /\ Ask([kind |-> "migration", left |-> left, options |-> [active |-> active, dry |-> dry],
                  files |-> LegacyBacklog(other, Legacy(<<"one">>, s, r, points, depends),
                                          Legacy(<<"other">>, t, u, back, {}))])
  BY DEF AskMigration
<1>2. PICK points \in SUBSET {other[2]}, depends \in SUBSET {other[2]}, back \in SUBSET {<<"b">>} :
        asked' = [kind |-> "migration", left |-> left, options |-> [active |-> active, dry |-> dry],
                  files |-> LegacyBacklog(other, Legacy(<<"one">>, s, r, points, depends),
                                          Legacy(<<"other">>, t, u, back, {}))]
  BY <1>1 DEF Ask
<1> DEFINE one == Legacy(<<"one">>, s, r, points, depends)
           second == Legacy(<<"other">>, t, u, back, {})
           files == LegacyBacklog(other, one, second)
           q == asked'
<1>3. one.of = <<"one">> /\ one.evidence = {} /\ second.of = <<"other">> /\ second.evidence = {}
  BY DEF Legacy
<1>4. One # other
  <2>1. "b" # "b_" /\ "b" # "c" /\ "backlog" # "archive" /\ "backlog" # "archive-notes"
    OBVIOUS
  <2>2. Len(<<"b">>) # Len(<<"work-item", "b">>) /\ <<"b">>[1] = "b" /\ <<"b_">>[1] = "b_" /\ <<"c">>[1] = "c"
    OBVIOUS
  <2>3. <<"b">> # <<"b_">> /\ <<"b">> # <<"c">> /\ <<"b">> # <<"work-item", "b">>
    BY <2>1, <2>2
  <2> QED BY <2>1, <2>3 DEF One, Others
<1> HIDE DEF one, second
<1>5. /\ DOMAIN files = {One, other} /\ files = [p \in DOMAIN files |-> files[p]]
      /\ files[One] = one /\ files[other] = second
  BY <1>4 DEF LegacyBacklog
<1> HIDE DEF files
<1>6. q = [kind |-> "migration", left |-> left, options |-> [active |-> active, dry |-> dry], files |-> files]
  BY <1>2 DEF one, second, files
<1>7. /\ q.kind = "migration" /\ q.left = left /\ q.options.dry = dry /\ q.options.active = active
      /\ q.files = files
  BY <1>6
<1>8. left \in Nat
  OBVIOUS
<1> HIDE DEF q
<1>9. MigrationAsked(q)
  BY <1>3, <1>5, <1>7, <1>8 DEF MigrationAsked
<1> QED BY <1>9 DEF q

(* The names of the other item: unless it has the name that the first is   *)
(* given, both are given one name or each has an owner of its own.         *)
LEMMA NamesOfOthers ==
  ASSUME NEW other \in Others
  PROVE  /\ One \in LegacyPaths /\ other \in LegacyPaths /\ One # other
         /\ One[2] = <<"b">> /\ One[1] # "records" /\ other[1] # "records" /\ Owner(One[2]) = "b"
         /\ \/ Basename(One[2]) = other[2]
            \/ Basename(One[2]) = Basename(other[2])
            \/ other[2] = <<"c">> /\ Owner(other[2]) = "c"
<1>1. /\ One \in LegacyPaths /\ other \in LegacyPaths /\ One[2] = <<"b">> /\ One[1] # "records" /\ other[1] # "records"
      /\ other[2] \in {<<"b">>, <<"b_">>, <<"c">>, <<"work-item", "b">>}
      /\ other[2] = <<"b">> => other[1] # "backlog"
      /\ One[1] = "backlog"
  BY DEF One, Others, LegacyPaths, Shelves, Titles
<1>2. Slug(<<"b">>) = <<"b">>
  BY DEF Slug, Last
<1>3. Slug(<<"b_">>) = <<"b">>
  <2>1. Last(<<"b_">>) = "b_"
    BY DEF Last
  <2>2. Front(<<"b_">>) = <<>>
    BY DEF Front
  <2>3. Slug(<<"b_">>) = <<>> \o <<"b">>
    BY <2>1, <2>2 DEF Slug
  <2> QED BY <2>3
<1>4. Basename(<<"b">>) = <<"work-item", "b">> /\ Basename(<<"b_">>) = Basename(<<"b">>)
  <2>1. Basename(<<"b">>) = <<"work-item">> \o <<"b">>
    BY <1>2 DEF Basename
  <2>2. Basename(<<"b_">>) = <<"work-item">> \o <<"b">>
    BY <1>3 DEF Basename
  <2> QED BY <2>1, <2>2
<1>5. Owner(<<"b">>) = "b" /\ Owner(<<"c">>) = "c"
  BY DEF Owner, Last
<1>6. One # other
  <2>1. <<"b">>[1] = "b" /\ <<"c">>[1] = "c" /\ <<"b_">>[1] = "b_" /\ <<"work-item", "b">>[1] = "work-item"
    OBVIOUS
  <2> QED BY <1>1, <2>1
<1> QED BY <1>1, <1>4, <1>5, <1>6

(* Where a migration can put the items that have owners of their own.      *)
LEMMA PlacesOfTwo ==
  ASSUME NEW options, options.active \in {"backlog", "active"},
         NEW p \in LegacyPaths, p[2] \in {<<"b">>, <<"c">>}
  PROVE  {p, NewPlace(options, p), Record(p)} \subseteq LegacyPaths
<1>1. Slug(<<"b">>) = <<"b">> /\ Slug(<<"c">>) = <<"c">>
  BY DEF Slug, Last
<1>2. Basename(<<"b">>) = <<"work-item", "b">> /\ Basename(<<"c">>) = <<"work-item", "c">>
  <2>1. Basename(<<"b">>) = <<"work-item">> \o <<"b">> /\ Basename(<<"c">>) = <<"work-item">> \o <<"c">>
    BY <1>1 DEF Basename
  <2> QED BY <2>1
<1>3. /\ RecordFile(<<"b">>) = <<"records", <<"record", "b", "evidence">>>>
      /\ RecordFile(<<"c">>) = <<"records", <<"record", "c", "evidence">>>>
  <2>1. /\ RecordFile(<<"b">>) = <<"records", <<"record">> \o <<"b">> \o <<"evidence">>>>
        /\ RecordFile(<<"c">>) = <<"records", <<"record">> \o <<"c">> \o <<"evidence">>>>
    BY <1>1 DEF RecordFile
  <2> QED BY <2>1
<1>4. NewPlace(options, p) \in LegacyPaths
  <2>1. Basename(p[2]) \in Titles
    BY <1>2 DEF Titles
  <2> QED BY <2>1 DEF NewPlace, LegacyPaths, Shelves
<1>5. Record(p) \in LegacyPaths
  BY <1>3 DEF Record, LegacyPaths, Shelves, Titles
<1> QED BY <1>4, <1>5

(* A rewrite that is about to begin.                                       *)
LEMMA RewriteBegins ==
  ASSUME NEW files, files = [p \in DOMAIN files |-> files[p]], NEW left \in Nat
  PROVE  LET s == Rewriting(files, left) IN RewriteState(s) /\ s.files = files /\ s.left = left /\ s.names = <<>>
<1> DEFINE s == Rewriting(files, left)
           none == <<>>
<1>1. s = [files |-> files, left |-> left, names |-> none]
  BY DEF Rewriting
<1> HIDE DEF none
<1>2. s.files = files /\ s.left = left /\ s.names = none
  BY <1>1
<1>3. s = [files |-> s.files, left |-> s.left, names |-> s.names]
  BY <1>1, <1>2
<1> HIDE DEF s
<1> QED BY <1>2, <1>3 DEF RewriteState, s, none

(* The items of a question, in the order in which they are listed.         *)
InTurn(q, x, y) ==
  /\ Fits(q.files, x, y) /\ {x, y} \subseteq LegacyPaths
  /\ DOMAIN LegacyFiles(q.files) = 1..2 /\ LegacyFiles(q.files)[1] = x /\ LegacyFiles(q.files)[2] = y
  /\ \/ Basename(x[2]) = Basename(y[2])
     \/ {x[2], y[2]} \subseteq {<<"b">>, <<"c">>} /\ Owner(x[2]) # Owner(y[2])
        /\ Owner(x[2]) # "evidence" /\ Owner(y[2]) # "evidence"

(* They come in one order or the other.                                    *)
LEMMA QuestionsInTurn ==
  ASSUME NEW q, MigrationAsked(q), Untaken(q.files)
  PROVE  \E x, y : InTurn(q, x, y)
<1>1. PICK other \in Others :
        /\ DOMAIN q.files = {One, other}
        /\ q.files[One].of = <<"one">> /\ q.files[One].evidence = {}
        /\ q.files[other].of = <<"other">> /\ q.files[other].evidence = {}
  BY DEF MigrationAsked
<1>2. /\ One \in LegacyPaths /\ other \in LegacyPaths /\ One # other
      /\ One[2] = <<"b">> /\ One[1] # "records" /\ other[1] # "records" /\ Owner(One[2]) = "b"
      /\ \/ Basename(One[2]) = other[2]
         \/ Basename(One[2]) = Basename(other[2])
         \/ other[2] = <<"c">> /\ Owner(other[2]) = "c"
  BY NamesOfOthers
<1>3. Basename(One[2]) # other[2]
  BY <1>1 DEF Untaken
<1>4. IsName(One[2]) /\ IsName(other[2])
  BY <1>2, TitlesAre DEF LegacyPaths
<1>5. <<"one">>[1] # "record" /\ <<"other">>[1] # "record" /\ <<"one">> # <<"other">>
  <2>1. <<"one">>[1] = "one" /\ <<"other">>[1] = "other"
    OBVIOUS
  <2> QED BY <2>1
<1>6. Fits(q.files, One, other) /\ Fits(q.files, other, One)
  BY <1>1, <1>2, <1>4, <1>5 DEF Fits
<1>7. LET list == LegacyFiles(q.files) IN
      DOMAIN list = 1..2 /\ ((list[1] = One /\ list[2] = other) \/ (list[1] = other /\ list[2] = One))
  BY <1>1, <1>2, TwoListed
<1>8. \/ Basename(One[2]) = Basename(other[2])
      \/ {One[2], other[2]} \subseteq {<<"b">>, <<"c">>} /\ Owner(One[2]) # Owner(other[2])
         /\ Owner(One[2]) # "evidence" /\ Owner(other[2]) # "evidence"
  BY <1>2, <1>3
<1>9. InTurn(q, One, other) \/ InTurn(q, other, One)
  BY <1>2, <1>6, <1>7, <1>8 DEF InTurn
<1> QED BY <1>9

(* Killed and made again: each item is still in the files of its owner.    *)
LEMMA MadeAgain ==
  ASSUME NEW q, MigrationAsked(q), NEW x, NEW y, InTurn(q, x, y), Basename(x[2]) # Basename(y[2])
  PROVE  LET killed == MigrateBacklog(Rewriting(q.files, q.left), q.options)
             again == MigrateBacklog(Rewriting(killed.files, 99), q.options) IN
         Items(q.files) \subseteq Items(again.files)
<1> DEFINE old == q.files
           o == q.options
           s == Rewriting(old, q.left)
           killed == MigrateBacklog(s, o)
           r == Rewriting(killed.files, 99)
           again == MigrateBacklog(r, o)
<1>1. /\ Fits(old, x, y) /\ x \in LegacyPaths /\ y \in LegacyPaths
      /\ x[2] \in {<<"b">>, <<"c">>} /\ y[2] \in {<<"b">>, <<"c">>} /\ Owner(x[2]) # Owner(y[2])
      /\ Owner(x[2]) # "evidence" /\ Owner(y[2]) # "evidence"
      /\ DOMAIN LegacyFiles(old) = 1..2 /\ LegacyFiles(old)[1] = x /\ LegacyFiles(old)[2] = y
  BY DEF InTurn
<1>2. /\ q.left \in Nat /\ o.dry \in BOOLEAN /\ o.active \in {"backlog", "active"} /\ o.active # "records"
      /\ old = [p \in DOMAIN old |-> old[p]] /\ DOMAIN old = {x, y} /\ x # y
  BY <1>1 DEF MigrationAsked, Fits
<1>3. RewriteState(s) /\ s.files = old
  BY <1>2, RewriteBegins
<1> HIDE DEF s
<1>4. NamesWell(old)
  BY <1>1, <1>2 DEF Fits, NamesWell
<1>5. \E n : ListsEach(LegacyFiles(old), DOMAIN old, n)
  BY <1>1, <1>2, TwoListed
<1>6. KeepsAll(s, killed)
  BY <1>2, <1>3, <1>4, <1>5, MigrationKeeps
<1>7. \E b, t : Halfway(s, b, t, killed, o, x, y)
  <2>1. /\ Fits(s.files, x, y) /\ DOMAIN LegacyFiles(s.files) = 1..2
        /\ LegacyFiles(s.files)[1] = x /\ LegacyFiles(s.files)[2] = y
    BY <1>1, <1>3
  <2> HIDE DEF o
  <2> QED BY <1>2, <1>3, <2>1, TwoMigrated
<1> HIDE DEF killed, o
<1>8. /\ RewriteState(killed)
      /\ DOMAIN killed.files \subseteq {x, y, NewPlace(o, x), NewPlace(o, y), Record(x), Record(y)}
  <2>1. PICK b, t : Halfway(s, b, t, killed, o, x, y)
    BY <1>7
  <2>2. Fits(s.files, x, y)
    BY <1>1, <1>3
  <2> QED BY <1>2, <2>1, <2>2, TwoSurvive
<1>9. DOMAIN killed.files \in SUBSET LegacyPaths
  BY <1>1, <1>2, <1>8, PlacesOfTwo
<1>10. IsFiniteSet(DOMAIN killed.files)
  <2> DEFINE S == {x, y, NewPlace(o, x), NewPlace(o, y), Record(x), Record(y)}
  <2>1. IsFiniteSet(S)
    <3>1. \A T, z : IsFiniteSet(T) => IsFiniteSet(T \cup {z})
      BY FS_AddElement
    <3>2. IsFiniteSet({})
      BY FS_EmptySet
    <3>3. S = (((((({} \cup {x}) \cup {y}) \cup {NewPlace(o, x)}) \cup {NewPlace(o, y)})
                \cup {Record(x)}) \cup {Record(y)})
      OBVIOUS
    <3> HIDE DEF S
    <3> QED BY <3>1, <3>2, <3>3
  <2>2. DOMAIN killed.files \in SUBSET S
    BY <1>8
  <2> HIDE DEF S
  <2> QED BY <2>1, <2>2, FS_Subset
<1>11. NamesWell(killed.files)
  BY <1>9, TitlesAre DEF NamesWell, LegacyPaths
<1>12. RewriteState(r) /\ r.files = killed.files
  BY <1>8, RewriteBegins DEF RewriteState
<1> HIDE DEF r
<1>13. \E n : ListsEach(LegacyFiles(r.files), DOMAIN r.files, n)
  BY <1>9, <1>10, <1>12, LegacyFilesAre
<1>14. KeepsAll(r, again)
  BY <1>2, <1>11, <1>12, <1>13, MigrationKeeps
<1> HIDE DEF again
<1>15. ASSUME NEW p \in {x, y} PROVE old[p].of \in Items(again.files)
  <2>1. Owner(p[2]) # "evidence"
    BY <1>1
  <2>2. Kept(old, Owner(p[2]), old[p].of)
    BY <1>1, <1>2 DEF Kept
  <2>3. Kept(killed.files, Owner(p[2]), old[p].of)
    BY <1>3, <1>6, <2>1, <2>2 DEF KeepsAll
  <2>4. Kept(again.files, Owner(p[2]), old[p].of)
    BY <1>12, <1>14, <2>1, <2>3 DEF KeepsAll
  <2> QED BY <2>4 DEF Kept, Items
<1>16. Items(old) \subseteq Items(again.files)
  BY <1>2, <1>15 DEF Items
<1> QED BY <1>16 DEF again, r, killed, s, o

(* A migration that is asked about keeps the items and the ways to them.   *)
LEMMA MigrationsKeep ==
  ASSUME NEW q, MigrationAsked(q), Untaken(q.files)
  PROVE  MigrationKept(q)
<1> DEFINE old == q.files
           o == q.options
           s == Rewriting(old, q.left)
           w == Rewriting(old, 99)
           killed == MigrateBacklog(s, o)
           again == MigrateBacklog(Rewriting(killed.files, 99), o)
           whole == MigrateBacklog(w, o)
           new == whole.files
<1>1. PICK x, y : InTurn(q, x, y)
  BY QuestionsInTurn
<1>2. /\ Fits(old, x, y) /\ DOMAIN old = {x, y} /\ x # y /\ old[x].of # old[y].of
      /\ old[x].evidence = {} /\ old[y].evidence = {}
      /\ DOMAIN LegacyFiles(old) = 1..2 /\ LegacyFiles(old)[1] = x /\ LegacyFiles(old)[2] = y
  BY <1>1 DEF InTurn, Fits
<1>3. /\ q.left \in Nat /\ o.dry \in BOOLEAN /\ o.active # "records" /\ old = [p \in DOMAIN old |-> old[p]]
  BY DEF MigrationAsked
<1>4. RewriteState(s) /\ s.files = old /\ RewriteState(w) /\ w.files = old /\ w.left = 99
  BY <1>3, RewriteBegins
<1>5. NewNames(LegacyFiles(old)).skipped = {} => Items(old) \subseteq Items(again.files)
  <2> SUFFICES ASSUME NewNames(LegacyFiles(old)).skipped = {} PROVE Items(old) \subseteq Items(again.files)
    OBVIOUS
  <2>1. Basename(x[2]) # Basename(y[2])
    <3>1. NewNames(LegacyFiles(old)).skipped = IF Basename(x[2]) = Basename(y[2]) THEN {y} ELSE {}
      BY <1>2, NamesOfTwo
    <3> QED BY <3>1
  <2> QED BY <1>1, <2>1, MadeAgain
<1> HIDE DEF s, w, again
<1>6. PICK b, t : Halfway(s, b, t, killed, o, x, y)
  BY <1>2, <1>3, <1>4, TwoMigrated
<1>7. PICK c, d : Halfway(w, c, d, whole, o, x, y)
  BY <1>2, <1>3, <1>4, TwoMigrated
<1> HIDE DEF killed, whole
<1>8. Fits(s.files, x, y) /\ Fits(w.files, x, y)
  BY <1>2, <1>4
<1>9. Items(old) \subseteq Items(killed.files)
  <2> HIDE DEF old, o
  <2>1. Items(s.files) \subseteq Items(killed.files)
    BY <1>3, <1>6, <1>8, TwoSurvive
  <2> QED BY <1>4, <2>1
<1>10. o.dry => new = old
  <2> HIDE DEF old, o
  <2>1. Items(w.files) \subseteq Items(whole.files) /\ (o.dry => whole.files = w.files)
    BY <1>3, <1>7, <1>8, TwoSurvive
  <2>2. w.files = old
    BY <1>4
  <2> QED BY <2>1, <2>2 DEF new
<1>11. ASSUME NEW p \in DOMAIN old PROVE ItemArrives(old, new, p)
  <2>1. CASE ~o.dry
    <3>1. w.left > 6
      BY <1>4
    <3> QED BY <1>2, <1>3, <1>4, <1>7, <2>1, <3>1, TwoArrive
  <2>2. CASE o.dry
    <3> HIDE DEF new, old
    <3>1. p \in Places(old, old[p].of) /\ Places(old, old[p].of) = {p} /\ old[p].evidence = {}
      BY <1>2 DEF Places
    <3>2. new = old
      BY <1>10, <2>2
    <3> QED BY <3>1, <3>2 DEF ItemArrives
  <2> QED BY <1>3, <2>1, <2>2
<1> HIDE DEF new, old, o
<1>12. \A p \in DOMAIN old : \E g \in Places(new, old[p].of) :
         /\ Places(new, old[p].of) = {g}
         /\ p[1] = "archive" => g[1] = "archive"
         /\ new[g].evidence \subseteq DOMAIN new
         /\ p # g => \A z \in DOMAIN old : z[2] \in old[p].points \cup old[p].depends
              /\ (\A v \in DOMAIN old : v[2] = z[2] => v = z) =>
                \E u \in Places(new, old[z].of) : u[2] \in new[g].points \cup new[g].depends
  BY <1>11 DEF ItemArrives
<1> QED BY <1>5, <1>9, <1>10, <1>12, Zenon DEF MigrationKept, new, old, o, killed, again, whole, s, w

-----------------------------------------------------------------------------
(* The names of numbered files.                                            *)
NumberedNames == Nat \X ToSet(Rests)
Spot(rest) == SelectInSeq(Rests, LAMBDA r : r = rest)

(* What follows the number has a place of its own.                         *)
LEMMA SpotsDiffer ==
  \A v, w \in ToSet(Rests) : Spot(v) \in Nat /\ (Spot(v) = Spot(w) => v = w)
<1>1. DOMAIN Rests = 1..3 /\ Len(Rests) = 3
  BY DEF Rests
<1>2. ASSUME NEW w \in ToSet(Rests) PROVE Spot(w) \in 1..3 /\ Rests[Spot(w)] = w
  <2> DEFINE I == {i \in 1..Len(Rests) : Rests[i] = w}
  <2>1. I \in SUBSET Nat /\ I # {}
    BY <1>1 DEF ToSet
  <2>2. Spot(w) = Min(I)
    BY <2>1 DEF Spot, SelectInSeq
  <2> HIDE DEF I
  <2>3. Min(I) \in I
    BY <2>1, F!MinOfSet DEF Min, F!Min
  <2> QED BY <1>1, <2>2, <2>3 DEF I
<1>3. \A w \in ToSet(Rests) : Spot(w) \in Nat /\ Rests[Spot(w)] = w
  BY <1>2
<1> QED BY <1>3

(* The names of numbered files are in one order.                           *)
LEMMA NumbersInOrder ==
  ASSUME NEW S \in SUBSET NumberedNames
  PROVE  Orders({r \in S \X S : NameBefore(r[1], r[2])}, S)
<1> DEFINE R == {r \in S \X S : NameBefore(r[1], r[2])}
<1>1. \A f, g \in S : <<f, g>> \in R <=>
        IF f[1] = g[1] THEN Spot(f[2]) < Spot(g[2]) ELSE f[1] < g[1]
  <2> SUFFICES ASSUME NEW f \in S, NEW g \in S
               PROVE  <<f, g>> \in R <=> IF f[1] = g[1] THEN Spot(f[2]) < Spot(g[2]) ELSE f[1] < g[1]
    OBVIOUS
  <2>1. <<f, g>> \in R <=> NameBefore(f, g)
    OBVIOUS
  <2>2. NameBefore(f, g) <=> IF f[1] = g[1] THEN Spot(f[2]) < Spot(g[2]) ELSE f[1] < g[1]
    BY DEF NameBefore, Spot
  <2> HIDE DEF R
  <2> QED BY <2>1, <2>2
<1>2. \A f \in S : f[1] \in Nat /\ f[2] \in ToSet(Rests) /\ f = <<f[1], f[2]>>
  BY DEF NumberedNames
<1>3. \A f \in S : Spot(f[2]) \in Nat
  BY <1>2, SpotsDiffer
<1>4. \A f, g \in S : f[1] = g[1] /\ Spot(f[2]) = Spot(g[2]) => f = g
  BY <1>2, SpotsDiffer
<1> HIDE DEF R
<1>5. \A f \in S : <<f, f>> \notin R
  BY <1>1, <1>3
<1>6. \A f, g \in S : f = g \/ <<f, g>> \in R \/ <<g, f>> \in R
  <2> SUFFICES ASSUME NEW f \in S, NEW g \in S, f # g PROVE <<f, g>> \in R \/ <<g, f>> \in R
    OBVIOUS
  <2>1. f[1] \in Nat /\ g[1] \in Nat /\ Spot(f[2]) \in Nat /\ Spot(g[2]) \in Nat
    BY <1>2, <1>3
  <2>2. f[1] # g[1] \/ Spot(f[2]) # Spot(g[2])
    BY <1>4
  <2>3. \/ IF f[1] = g[1] THEN Spot(f[2]) < Spot(g[2]) ELSE f[1] < g[1]
        \/ IF g[1] = f[1] THEN Spot(g[2]) < Spot(f[2]) ELSE g[1] < f[1]
    BY <2>1, <2>2
  <2> QED BY <1>1, <2>3
<1>7. ASSUME NEW f \in S, NEW g \in S, NEW h \in S, <<f, g>> \in R, <<g, h>> \in R PROVE <<f, h>> \in R
  <2>1. /\ f[1] \in Nat /\ g[1] \in Nat /\ h[1] \in Nat
        /\ Spot(f[2]) \in Nat /\ Spot(g[2]) \in Nat /\ Spot(h[2]) \in Nat
    BY <1>2, <1>3
  <2>2. /\ IF f[1] = g[1] THEN Spot(f[2]) < Spot(g[2]) ELSE f[1] < g[1]
        /\ IF g[1] = h[1] THEN Spot(g[2]) < Spot(h[2]) ELSE g[1] < h[1]
    BY <1>1, <1>7
  <2>3. IF f[1] = h[1] THEN Spot(f[2]) < Spot(h[2]) ELSE f[1] < h[1]
    BY <2>1, <2>2
  <2> QED BY <1>1, <2>3
<1> QED BY <1>5, <1>6, <1>7 DEF Orders, R

(* So they are listed in it.                                               *)
LEMMA SortedNames ==
  ASSUME NEW S \in SUBSET NumberedNames, IsFiniteSet(S)
  PROVE  ListsEach(InOrder(S), S, Cardinality(S))
<1> DEFINE R == {r \in S \X S : NameBefore(r[1], r[2])}
           list == InOrder(S)
<1>1. Orders(R, S)
  BY NumbersInOrder
<1>2. \A f \in S : Below(S, R, f) = {g \in S : NameBefore(g, f)}
  BY DEF Below
<1> HIDE DEF R
<1>3. Ranks(list, S, R)
  <2>1. list = [i \in 1..Cardinality(S) |-> list[i]]
    BY DEF InOrder, Sorted
  <2>2. ASSUME NEW i \in 1..Cardinality(S), NEW f \in S, Cardinality(Below(S, R, f)) + 1 = i
        PROVE  list[i] \in S /\ Cardinality(Below(S, R, list[i])) + 1 = i
    <3>1. list[i] = CHOOSE z \in S : Cardinality({g \in S : NameBefore(g, z)}) + 1 = i
      BY DEF InOrder, Sorted
    <3>2. Cardinality({g \in S : NameBefore(g, f)}) + 1 = i
      BY <1>2, <2>2
    <3> HIDE DEF list
    <3>3. list[i] \in S /\ Cardinality({g \in S : NameBefore(g, list[i])}) + 1 = i
      BY <3>1, <3>2
    <3> QED BY <1>2, <3>3
  <2> HIDE DEF list
  <2> QED BY <2>1, <2>2 DEF Ranks
<1> HIDE DEF list
<1>4. ListsEach(list, S, Cardinality(S))
  BY <1>1, <1>3, RankedLists DEF ListsEach
<1> QED BY <1>4 DEF list

(* Who is surplus, and that of two files with one number one is.           *)
SurplusOf(files) == {f \in DOMAIN files : \E g \in DOMAIN files : g[1] = f[1] /\ NameBefore(g, f)}

(* The surplus files are listed, each once.                                *)
LEMMA SurplusIs ==
  ASSUME NEW files, DOMAIN files \in SUBSET NumberedNames, IsFiniteSet(DOMAIN files)
  PROVE  /\ SurplusOf(files) \in SUBSET DOMAIN files
         /\ ListsEach(Surplus(files), SurplusOf(files), Cardinality(SurplusOf(files)))
         /\ Cardinality(SurplusOf(files)) <= Cardinality(DOMAIN files)
         /\ Cardinality(SurplusOf(files)) \in Nat /\ Cardinality(DOMAIN files) \in Nat
         /\ \A f, g \in DOMAIN files : f[1] = g[1] /\ f # g => f \in SurplusOf(files) \/ g \in SurplusOf(files)
<1> DEFINE S == SurplusOf(files)
           D == DOMAIN files
<1>1. S \in SUBSET D
  BY DEF SurplusOf
<1>2. IsFiniteSet(S) /\ Cardinality(S) <= Cardinality(D) /\ S \in SUBSET NumberedNames
  <2> HIDE DEF S
  <2> QED BY <1>1, FS_Subset
<1>3. Cardinality(S) \in Nat /\ Cardinality(D) \in Nat
  BY <1>2, FS_CardinalityType
<1>4. Surplus(files) = InOrder(S)
  BY DEF Surplus, SurplusOf
<1>5. \A f, g \in D : f[1] = g[1] /\ f # g => f \in S \/ g \in S
  <2> SUFFICES ASSUME NEW f \in D, NEW g \in D, f[1] = g[1], f # g PROVE f \in S \/ g \in S
    OBVIOUS
  <2>1. Orders({r \in D \X D : NameBefore(r[1], r[2])}, D)
    BY NumbersInOrder
  <2>2. NameBefore(f, g) \/ NameBefore(g, f)
    BY <2>1 DEF Orders
  <2> QED BY <2>2 DEF SurplusOf
<1> HIDE DEF S
<1>6. ListsEach(Surplus(files), S, Cardinality(S))
  BY <1>2, <1>4, SortedNames
<1> QED BY <1>1, <1>2, <1>3, <1>5, <1>6 DEF S

-----------------------------------------------------------------------------
(* Files with numbers: each has a name, and its id, if it has one, is the  *)
(* number of its name.                                                     *)
NumberedDoc(f, d) == d = [of |-> d.of, id |-> d.id, links |-> d.links] /\ d.id \in {0, f[1]}
NumberedFiles(files) ==
  /\ files = [f \in DOMAIN files |-> files[f]]
  /\ DOMAIN files \in SUBSET NumberedNames /\ IsFiniteSet(DOMAIN files)
  /\ \E m \in Nat : \A f \in DOMAIN files : f[1] <= m
  /\ \A f \in DOMAIN files : NumberedDoc(f, files[f])

(* The next number is greater than every number there is.                  *)
LEMMA NextIsGreater ==
  ASSUME NEW files, NumberedFiles(files)
  PROVE  LET n == NextAvailableId(files) IN n \in Nat /\ \A f \in DOMAIN files : f[1] \in Nat /\ f[1] < n
<1> DEFINE I == {f[1] : f \in DOMAIN files}
           n == NextAvailableId(files)
<1>1. \A f \in DOMAIN files : f[1] \in Nat
  BY DEF NumberedFiles, NumberedNames
<1>2. CASE DOMAIN files = {}
  BY <1>2 DEF NextAvailableId
<1>3. CASE DOMAIN files # {}
  <2>1. PICK m \in Nat : \A f \in DOMAIN files : f[1] <= m
    BY DEF NumberedFiles
  <2>2. I \in SUBSET (0..m) /\ I # {}
    BY <1>1, <1>3, <2>1
  <2>3. n = Max(I) + 1
    BY <1>3 DEF NextAvailableId
  <2>4. \A f \in DOMAIN files : f[1] \in I
    OBVIOUS
  <2>7. \A x \in I : x \in Nat
    BY <1>1
  <2> HIDE DEF I
  <2>5. Max(I) \in I /\ \A x \in I : Max(I) >= x
    BY <2>2, F!MaxOfSet DEF Max, F!Max
  <2>6. Max(I) \in Nat
    BY <2>5, <2>7
  <2> HIDE DEF n
  <2>8. n \in Nat /\ \A f \in DOMAIN files : f[1] \in Nat /\ f[1] < n
    BY <1>1, <2>3, <2>4, <2>5, <2>6
  <2> QED BY <2>8 DEF n
<1> QED BY <1>2, <1>3

(* What a file becomes when it gets a new number.                          *)
WithNumber(d, new) == [d EXCEPT !.id = IF @ = 0 THEN 0 ELSE new[1]]

(* What giving a file a new number makes of the files.                     *)
Renumbered(s, t, old, new) ==
  /\ RewriteState(t) /\ t.names = Append(s.names, <<old, new>>)
  /\ new \in NumberedNames /\ new[2] = old[2] /\ \A f \in DOMAIN s.files : f[1] < new[1]
  /\ DOMAIN t.files \subseteq DOMAIN s.files \cup {new} /\ DOMAIN s.files \ {old} \subseteq DOMAIN t.files
  /\ \A f \in DOMAIN t.files : f # new => t.files[f] = s.files[f]
  /\ new \in DOMAIN t.files => t.files[new] = WithNumber(s.files[old], new)
  /\ old \notin DOMAIN t.files => new \in DOMAIN t.files
  /\ s.left > 1 => t.left = s.left - 2 /\ DOMAIN t.files = (DOMAIN s.files \ {old}) \cup {new}

(* That it does so, wherever it is killed.                                 *)
LEMMA RenumberIs ==
  ASSUME NEW s, RewriteState(s), NumberedFiles(s.files), NEW old \in DOMAIN s.files
  PROVE  Renumbered(s, Renumber(s, old), old, <<NextAvailableId(s.files), old[2]>>)
<1> DEFINE n == NextAvailableId(s.files)
           new == <<n, old[2]>>
           doc == s.files[old]
           moved == WithNumber(doc, new)
           written == PutFile(s, FALSE, new, moved)
           cleared == Unlink(written, FALSE, old)
           names == Append(cleared.names, <<old, new>>)
           t == [cleared EXCEPT !.names = names]
<1>1. Renumber(s, old) = t
  BY DEF Renumber, WithNumber
<1>2. n \in Nat /\ \A f \in DOMAIN s.files : f[1] \in Nat /\ f[1] < n
  BY NextIsGreater
<1>3. new \in NumberedNames /\ new[1] = n /\ new[2] = old[2]
  <2>1. old[2] \in ToSet(Rests)
    BY DEF NumberedFiles, NumberedNames
  <2> HIDE DEF n
  <2> QED BY <1>2, <2>1 DEF NumberedNames
<1>4. new \notin DOMAIN s.files /\ old # new
  <2> HIDE DEF new
  <2> QED BY <1>2, <1>3
<1> HIDE DEF moved, new
<1>5. /\ RewriteState(written) /\ written.names = s.names
      /\ s.left = 0 => written = s
      /\ s.left # 0 =>
           /\ written.left = s.left - 1 /\ DOMAIN written.files = DOMAIN s.files \cup {new}
           /\ written.files[new] = moved
           /\ \A f \in DOMAIN s.files : f # new => written.files[f] = s.files[f]
  <2>1. ASSUME NEW dry \in BOOLEAN, ~dry
        PROVE  LET w == PutFile(s, dry, new, moved) IN
               /\ RewriteState(w) /\ w.names = s.names
               /\ s.left = 0 => w = s
               /\ s.left # 0 =>
                    /\ w.left = s.left - 1 /\ DOMAIN w.files = DOMAIN s.files \cup {new} /\ w.files[new] = moved
                    /\ \A f \in DOMAIN s.files : f # new => w.files[f] = s.files[f]
    BY <2>1, PutIs
  <2>2. FALSE \in BOOLEAN /\ ~FALSE
    OBVIOUS
  <2> QED BY <2>1, <2>2, Zenon
<1> HIDE DEF written
<1>6. /\ RewriteState(cleared) /\ cleared.names = written.names
      /\ written.left = 0 => cleared = written
      /\ written.left # 0 =>
           /\ cleared.left = written.left - 1 /\ DOMAIN cleared.files = DOMAIN written.files \ {old}
           /\ \A f \in DOMAIN written.files : f # old => cleared.files[f] = written.files[f]
  BY <1>5, UnlinkIs
<1> HIDE DEF cleared, names
<1>7. RewriteState(t) /\ t.files = cleared.files /\ t.left = cleared.left /\ t.names = names
  BY <1>6, NotedNames
<1>8. names = Append(s.names, <<old, new>>)
  BY <1>5, <1>6 DEF names
<1> HIDE DEF t
<1>9. s.left \in Nat /\ written.left \in Nat /\ cleared.left \in Nat
  BY <1>5, <1>6 DEF RewriteState
<1>10. /\ DOMAIN written.files \subseteq DOMAIN s.files \cup {new} /\ DOMAIN s.files \subseteq DOMAIN written.files
       /\ \A f \in DOMAIN written.files : f # new => written.files[f] = s.files[f]
       /\ new \in DOMAIN written.files => written.files[new] = moved
       /\ s.left > 1 => written.left = s.left - 1 /\ DOMAIN written.files = DOMAIN s.files \cup {new}
       /\ written.left # 0 => new \in DOMAIN written.files
  <2>1. CASE s.left = 0
    BY <1>4, <1>5, <2>1
  <2>2. CASE s.left # 0
    BY <1>4, <1>5, <1>9, <2>2
  <2> QED BY <2>1, <2>2
<1>11. /\ DOMAIN cleared.files \subseteq DOMAIN written.files
       /\ DOMAIN written.files \ {old} \subseteq DOMAIN cleared.files
       /\ \A f \in DOMAIN cleared.files : cleared.files[f] = written.files[f]
       /\ old \notin DOMAIN cleared.files => new \in DOMAIN cleared.files
       /\ s.left > 1 => cleared.left = s.left - 2 /\ DOMAIN cleared.files = (DOMAIN s.files \ {old}) \cup {new}
  <2>1. CASE written.left = 0
    <3>1. ~(s.left > 1)
      BY <1>9, <1>10, <2>1
    <3> QED BY <1>6, <1>10, <2>1, <3>1
  <2>2. CASE written.left # 0
    <3>1. s.left > 1 => written.left - 1 = s.left - 2
      BY <1>9, <1>10
    <3> QED BY <1>4, <1>6, <1>10, <2>2, <3>1
  <2> QED BY <2>1, <2>2
<1>12. \A f \in DOMAIN s.files : f[1] < new[1]
  BY <1>2, <1>3
<1>13. Renumbered(s, t, old, new)
  BY <1>3, <1>4, <1>7, <1>8, <1>10, <1>11, <1>12 DEF Renumbered, moved
<1> QED BY <1>1, <1>13 DEF new, n

(* The items stay, and the files stay files with numbers.                  *)
LEMMA RenumberKeeps ==
  ASSUME NEW s, RewriteState(s), NumberedFiles(s.files), NEW old \in DOMAIN s.files, NEW t, NEW new,
         Renumbered(s, t, old, new)
  PROVE  NumberedFiles(t.files) /\ Items(t.files) = Items(s.files)
         /\ Cardinality(DOMAIN t.files) <= Cardinality(DOMAIN s.files) + 1
<1>1. /\ t.files = [f \in DOMAIN t.files |-> t.files[f]]
      /\ new \in NumberedNames /\ \A f \in DOMAIN s.files : f[1] < new[1]
      /\ DOMAIN t.files \subseteq DOMAIN s.files \cup {new} /\ DOMAIN s.files \ {old} \subseteq DOMAIN t.files
      /\ \A f \in DOMAIN t.files : f # new => t.files[f] = s.files[f]
      /\ new \in DOMAIN t.files => t.files[new] = WithNumber(s.files[old], new)
      /\ old \notin DOMAIN t.files => new \in DOMAIN t.files
  BY DEF Renumbered, RewriteState
<1>2. /\ DOMAIN s.files \in SUBSET NumberedNames /\ IsFiniteSet(DOMAIN s.files)
      /\ \A f \in DOMAIN s.files : NumberedDoc(f, s.files[f])
      /\ new[1] \in Nat /\ \A f \in DOMAIN s.files : f[1] \in Nat
  BY <1>1 DEF NumberedFiles, NumberedNames
<1>3. LET d == WithNumber(s.files[old], new) IN NumberedDoc(new, d) /\ d.of = s.files[old].of
  <2> DEFINE d == s.files[old]
             a == d.of
             b == d.id
             c == d.links
             e == WithNumber(d, new)
  <2>1. d = [of |-> a, id |-> b, links |-> c] /\ b \in {0, old[1]}
    BY <1>2 DEF NumberedDoc
  <2> HIDE DEF a, b, c
  <2>2. e = [[of |-> a, id |-> b, links |-> c] EXCEPT !.id = IF b = 0 THEN 0 ELSE new[1]]
    BY <2>1 DEF WithNumber
  <2>3. e = [of |-> a, id |-> IF b = 0 THEN 0 ELSE new[1], links |-> c]
    BY <2>2
  <2> HIDE DEF e
  <2> QED BY <2>3 DEF NumberedDoc, a, e
<1>4. DOMAIN t.files \in SUBSET NumberedNames
  BY <1>1, <1>2
<1>5. IsFiniteSet(DOMAIN t.files) /\ Cardinality(DOMAIN t.files) <= Cardinality(DOMAIN s.files) + 1
  <2> DEFINE D == DOMAIN s.files
             E == DOMAIN t.files
             DD == D \cup {new}
  <2>1. IsFiniteSet(D) /\ E \in SUBSET DD /\ Cardinality(D) \in Nat
    BY <1>1, <1>2, FS_CardinalityType
  <2> HIDE DEF D, E
  <2>2. IsFiniteSet(DD) /\ Cardinality(DD) \in {Cardinality(D), Cardinality(D) + 1}
    BY <2>1, FS_AddElement
  <2>3. IsFiniteSet(E) /\ Cardinality(E) <= Cardinality(DD) /\ Cardinality(E) \in Nat
    <3> HIDE DEF DD
    <3> QED BY <2>1, <2>2, FS_Subset, FS_CardinalityType
  <2> QED BY <2>1, <2>2, <2>3 DEF D, E
<1>6. \E m \in Nat : \A f \in DOMAIN t.files : f[1] <= m
  <2>1. \A f \in DOMAIN t.files : f[1] <= new[1]
    BY <1>1, <1>2
  <2> QED BY <1>2, <2>1
<1>7. \A f \in DOMAIN t.files : NumberedDoc(f, t.files[f])
  BY <1>1, <1>2, <1>3
<1>8. Items(t.files) = Items(s.files)
  <2>1. \A f \in DOMAIN t.files : \E g \in DOMAIN s.files : s.files[g].of = t.files[f].of
    BY <1>1, <1>3
  <2>2. \A g \in DOMAIN s.files : \E f \in DOMAIN t.files : t.files[f].of = s.files[g].of
    <3> SUFFICES ASSUME NEW g \in DOMAIN s.files PROVE \E f \in DOMAIN t.files : t.files[f].of = s.files[g].of
      OBVIOUS
    <3>1. new # g
      BY <1>1, <1>2
    <3>2. CASE g \in DOMAIN t.files
      BY <1>1, <3>1, <3>2
    <3>3. CASE g \notin DOMAIN t.files
      BY <1>1, <1>3, <3>3
    <3> QED BY <3>2, <3>3
  <2> QED BY <2>1, <2>2 DEF Items
<1> QED BY <1>1, <1>4, <1>5, <1>6, <1>7, <1>8 DEF NumberedFiles

-----------------------------------------------------------------------------
(* Who is surplus gets new numbers one by one.                             *)
NumberedAnew(c, t, f) == Renumber(t, f)
Rn == INSTANCE FoldTheory WITH Op <- NumberedAnew
RenamedAll(s) == FoldLeft(Renumber, s, Surplus(s.files))

Renames(h, s, n) ==
  /\ h[0] = s /\ h[n] = RenamedAll(s)
  /\ \A k \in 1..n : h[k] = Renumber(h[k - 1], Surplus(s.files)[k])

(* They are the steps of a fold.                                           *)
LEMMA RenamingSteps ==
  ASSUME NEW s, NEW n \in Nat, DOMAIN Surplus(s.files) = 1..n
  PROVE  \E h : Renames(h, s, n)
<1> DEFINE list == Surplus(s.files)
<1>1. RenamedAll(s) = Rn!Over({}, s, list)
  BY DEF RenamedAll, FoldLeft, MapThenFoldSet, Rn!Over, Rn!FoldLeft, Rn!MapThenFoldSet, NumberedAnew, Max, Rn!Max
<1> HIDE DEF list
<1>2. PICK h : Rn!Goes(h, {}, s, list, n)
  <2>1. DOMAIN list = 1..n
    BY DEF list
  <2> QED BY <2>1, Rn!FoldSteps
<1>3. /\ h[0] = s /\ h[n] = RenamedAll(s)
      /\ \A k \in 1..n : h[k] = Renumber(h[k - 1], list[k])
  BY <1>1, <1>2 DEF Rn!Goes, NumberedAnew
<1>4. Renames(h, s, n)
  BY <1>3 DEF Renames, list
<1> QED BY <1>4

(* The items stay when the surplus files are renamed, wherever that is     *)
(* killed.                                                                 *)
LEMMA RenamingKeeps ==
  ASSUME NEW s, RewriteState(s), NumberedFiles(s.files)
  PROVE  LET r == RenamedAll(s) IN
         /\ RewriteState(r) /\ NumberedFiles(r.files) /\ Items(r.files) = Items(s.files)
         /\ Cardinality(DOMAIN r.files) <= Cardinality(DOMAIN s.files) + Cardinality(SurplusOf(s.files))
<1> DEFINE list == Surplus(s.files)
           n == Cardinality(SurplusOf(s.files))
           c == Cardinality(DOMAIN s.files)
<1>1. /\ n \in Nat /\ c \in Nat /\ DOMAIN list = 1..n /\ \A i \in 1..n : list[i] \in DOMAIN s.files
      /\ \A i, j \in 1..n : list[i] = list[j] => i = j
  <2>1. ListsEach(list, SurplusOf(s.files), n) /\ SurplusOf(s.files) \in SUBSET DOMAIN s.files /\ c \in Nat
    BY SurplusIs DEF NumberedFiles
  <2> HIDE DEF list, n, c
  <2> QED BY <2>1 DEF ListsEach, IsInjective
<1>2. PICK h : Renames(h, s, n)
  BY <1>1, RenamingSteps
<1>3. /\ h[0] = s /\ h[n] = RenamedAll(s) /\ \A k \in 1..n : h[k] = Renumber(h[k - 1], list[k])
  BY <1>2 DEF Renames
<1> HIDE DEF list, n, c
<1> DEFINE Good(k) == /\ RewriteState(h[k]) /\ NumberedFiles(h[k].files) /\ Items(h[k].files) = Items(s.files)
                      /\ \A i \in 1..n : i > k => list[i] \in DOMAIN h[k].files
                      /\ Cardinality(DOMAIN h[k].files) <= c + k
           S == {k \in Nat : k <= n => Good(k)}
<1>4. 0 \in S
  <2>1. Cardinality(DOMAIN s.files) <= c + 0
    BY <1>1 DEF c
  <2>2. Good(0)
    BY <1>1, <1>3, <2>1
  <2> QED BY <2>2
<1>5. ASSUME NEW k \in S PROVE k + 1 \in S
  <2> SUFFICES ASSUME k + 1 <= n PROVE Good(k + 1)
    OBVIOUS
  <2>1. k \in Nat /\ n \in Nat
    BY <1>1
  <2>2. Good(k)
    BY <2>1
  <2>3. k + 1 \in 1..n /\ (k + 1) - 1 = k /\ k + 1 > k
    BY <2>1
  <2> DEFINE u == h[k]
             t == h[k + 1]
             f == list[k + 1]
             new == <<NextAvailableId(u.files), f[2]>>
  <2>4. t = Renumber(u, f)
    BY <1>3, <2>3
  <2>5. /\ RewriteState(u) /\ NumberedFiles(u.files) /\ Items(u.files) = Items(s.files) /\ f \in DOMAIN u.files
        /\ Cardinality(DOMAIN u.files) <= c + k
    BY <2>2, <2>3
  <2>6. \A i \in 1..n : i > k + 1 => list[i] # f /\ list[i] \in DOMAIN u.files
    BY <1>1, <2>1, <2>2, <2>3
  <2> HIDE DEF t, u, f
  <2>7. Renumbered(u, t, f, new)
    BY <2>4, <2>5, RenumberIs
  <2> HIDE DEF new
  <2>8. NumberedFiles(t.files) /\ Items(t.files) = Items(u.files)
        /\ Cardinality(DOMAIN t.files) <= Cardinality(DOMAIN u.files) + 1
    BY <2>5, <2>7, RenumberKeeps
  <2>9. RewriteState(t) /\ DOMAIN u.files \ {f} \subseteq DOMAIN t.files
    BY <2>7 DEF Renumbered
  <2>10. Cardinality(DOMAIN t.files) \in Nat /\ Cardinality(DOMAIN u.files) \in Nat
    BY <2>5, <2>8, FS_CardinalityType DEF NumberedFiles
  <2>11. Cardinality(DOMAIN t.files) <= c + (k + 1)
    BY <1>1, <2>1, <2>5, <2>8, <2>10
  <2>12. \A i \in 1..n : i > k + 1 => list[i] \in DOMAIN t.files
    BY <2>6, <2>9
  <2>13. Items(t.files) = Items(s.files)
    BY <2>5, <2>8
  <2> QED BY <2>8, <2>9, <2>11, <2>12, <2>13 DEF t
<1>6. n \in S
  <2> HIDE DEF S
  <2>1. S \in SUBSET Nat
    BY DEF S
  <2>2. S = Nat
    BY <1>4, <1>5, <2>1, F!SetInduction
  <2> QED BY <1>1, <2>2
<1>7. Good(n)
  <2>1. n <= n
    BY <1>1
  <2> QED BY <1>6, <2>1
<1> QED BY <1>3, <1>7 DEF n, c

-----------------------------------------------------------------------------
(* A renaming that is not killed: where each file is after so many of the  *)
(* list were renamed, and what is noted of it.  No two files have one      *)
(* number unless neither was renamed.                                      *)
Placed(old, t, P, list, k) ==
  /\ P = [f \in DOMAIN old |-> P[f]] /\ DOMAIN t.files = {P[f] : f \in DOMAIN old}
  /\ \A f \in DOMAIN old : /\ t.files[P[f]] = WithNumber(old[f], P[f])
                           /\ P[f] \in NumberedNames /\ P[f][2] = f[2]
                           /\ \/ P[f] = f /\ \A i \in 1..k : list[i] # f
                              \/ (\E i \in 1..k : list[i] = f) /\ \A g \in DOMAIN old : g[1] < P[f][1]
  /\ \A f, g \in DOMAIN old : f # g /\ P[f][1] = P[g][1] => P[f] = f /\ P[g] = g
  /\ IsSeq(t.names) /\ Len(t.names) = k
  /\ \A i \in 1..k : t.names[i] = <<list[i], P[list[i]]>>

(* The next of the list gets a place that no other file has.               *)
LEMMA PlaceOne ==
  ASSUME NEW old, NumberedFiles(old), NEW t, RewriteState(t), NEW u, NEW P, NEW list, NEW k \in Nat,
         Placed(old, t, P, list, k), t.left > 1,
         \A i \in 1..(k + 1) : list[i] \in DOMAIN old, \A i \in 1..k : list[i] # list[k + 1],
         NEW new, Renumbered(t, u, list[k + 1], new)
  PROVE  Placed(old, u, [P EXCEPT ![list[k + 1]] = new], list, k + 1)
<1> DEFINE D == DOMAIN old
           f == list[k + 1]
           Q == [P EXCEPT ![f] = new]
<1>1. /\ f \in D /\ \A i \in 1..k : list[i] # f
      /\ k + 1 \in 1..(k + 1) /\ \A i \in 1..(k + 1) : i \in 1..k \/ i = k + 1
  OBVIOUS
<1>2. /\ P = [g \in D |-> P[g]] /\ DOMAIN t.files = {P[g] : g \in D}
      /\ \A g \in D : /\ t.files[P[g]] = WithNumber(old[g], P[g])
                      /\ P[g] \in NumberedNames /\ P[g][2] = g[2]
                      /\ \/ P[g] = g /\ \A i \in 1..k : list[i] # g
                         \/ (\E i \in 1..k : list[i] = g) /\ \A x \in D : x[1] < P[g][1]
      /\ \A g, x \in D : g # x /\ P[g][1] = P[x][1] => P[g] = g /\ P[x] = x
      /\ IsSeq(t.names) /\ Len(t.names) = k
      /\ \A i \in 1..k : t.names[i] = <<list[i], P[list[i]]>>
  BY DEF Placed
<1>3. /\ RewriteState(u) /\ u.names = Append(t.names, <<f, new>>)
      /\ new \in NumberedNames /\ new[2] = f[2] /\ \A g \in DOMAIN t.files : g[1] < new[1]
      /\ \A g \in DOMAIN u.files : g # new => u.files[g] = t.files[g]
      /\ u.files[new] = WithNumber(t.files[f], new)
      /\ DOMAIN u.files = (DOMAIN t.files \ {f}) \cup {new}
  BY DEF Renumbered
<1>13. \A i \in 1..(k + 1) : list[i] \in D
  OBVIOUS
<1> HIDE DEF f
<1>4. Q \in [D -> UNION {{P[g] : g \in D}, {new}}] /\ DOMAIN Q = D /\ Q[f] = new /\ \A g \in D : g # f => Q[g] = P[g]
  BY <1>1, <1>2
<1> HIDE DEF Q, D
<1>5. P[f] = f
  BY <1>1, <1>2
<1>6. \A g \in D : g[1] \in Nat /\ P[g][1] \in Nat /\ P[g][1] < new[1]
  <2>1. \A g \in D : P[g] \in DOMAIN t.files /\ g \in NumberedNames
    BY <1>2 DEF NumberedFiles, D
  <2> QED BY <1>2, <1>3, <2>1 DEF NumberedNames
<1>7. \A g \in D : g[1] < new[1]
  <2> SUFFICES ASSUME NEW g \in D PROVE g[1] < new[1]
    OBVIOUS
  <2>1. g[1] <= P[g][1]
    BY <1>2, <1>6
  <2>2. g[1] \in Nat /\ P[g][1] \in Nat /\ P[g][1] < new[1] /\ new[1] \in Nat
    BY <1>3, <1>6 DEF NumberedNames
  <2> QED BY <2>1, <2>2
<1>8. \A g \in D : g # f => P[g] # f
  BY <1>1, <1>2, <1>5
<1>9. DOMAIN u.files = {Q[g] : g \in D}
  <2>1. ASSUME NEW x \in DOMAIN u.files PROVE \E g \in D : x = Q[g]
    <3>1. CASE x = new
      BY <1>1, <1>4, <3>1
    <3>2. CASE x # new
      <4>1. PICK g \in D : x = P[g] /\ x # f
        BY <1>2, <1>3, <3>2
      <4> QED BY <1>4, <1>5, <4>1
    <3> QED BY <3>1, <3>2
  <2>2. ASSUME NEW g \in D PROVE Q[g] \in DOMAIN u.files
    <3>1. CASE g = f
      BY <1>3, <1>4, <3>1
    <3>2. CASE g # f
      BY <1>2, <1>3, <1>4, <1>8, <3>2
    <3> QED BY <3>1, <3>2
  <2> QED BY <2>1, <2>2
<1>10. ASSUME NEW g \in D
       PROVE  /\ u.files[Q[g]] = WithNumber(old[g], Q[g])
              /\ Q[g] \in NumberedNames /\ Q[g][2] = g[2]
              /\ \/ Q[g] = g /\ \A i \in 1..(k + 1) : list[i] # g
                 \/ (\E i \in 1..(k + 1) : list[i] = g) /\ \A x \in D : x[1] < Q[g][1]
  <2>1. CASE g = f
    <3>1. t.files[f] = WithNumber(old[f], f)
      BY <1>1, <1>2, <1>5
    <3>2. WithNumber(WithNumber(old[f], f), new) = WithNumber(old[f], new)
      <4> DEFINE d == old[f]
                 a == d.of
                 b == d.id
                 c == d.links
                 e == WithNumber(d, f)
                 m == IF b = 0 THEN 0 ELSE f[1]
                 n == IF b = 0 THEN 0 ELSE new[1]
      <4>1. d = [of |-> a, id |-> b, links |-> c] /\ (b = f[1] \/ b = 0)
        BY <1>1 DEF NumberedFiles, NumberedDoc, D
      <4>9. m = b
        BY <4>1
      <4> HIDE DEF a, b, c
      <4>2. e = [[of |-> a, id |-> b, links |-> c] EXCEPT !.id = m]
        BY <4>1 DEF WithNumber
      <4> HIDE DEF m
      <4>3. e = [of |-> a, id |-> m, links |-> c]
        BY <4>2
      <4> HIDE DEF e
      <4>4. WithNumber(e, new) = [[of |-> a, id |-> m, links |-> c] EXCEPT !.id = IF m = 0 THEN 0 ELSE new[1]]
        BY <4>3 DEF WithNumber
      <4>5. (IF m = 0 THEN 0 ELSE new[1]) = n
        BY <4>9
      <4> HIDE DEF n
      <4>6. WithNumber(e, new) = [of |-> a, id |-> n, links |-> c]
        BY <4>4, <4>5
      <4>7. WithNumber(d, new) = [[of |-> a, id |-> b, links |-> c] EXCEPT !.id = n]
        BY <4>1 DEF WithNumber, n
      <4>8. WithNumber(d, new) = [of |-> a, id |-> n, links |-> c]
        BY <4>7
      <4> QED BY <4>6, <4>8 DEF e
    <3>3. u.files[Q[g]] = WithNumber(old[g], Q[g])
      BY <1>3, <1>4, <2>1, <3>1, <3>2
    <3>4. (\E i \in 1..(k + 1) : list[i] = g) /\ \A x \in D : x[1] < Q[g][1]
      BY <1>1, <1>4, <1>7, <2>1 DEF f
    <3> QED BY <1>3, <1>4, <2>1, <3>3, <3>4
  <2>2. CASE g # f
    <3>1. Q[g] = P[g] /\ P[g] \in DOMAIN t.files /\ P[g] # f /\ P[g] # new
      BY <1>2, <1>4, <1>6, <1>8, <2>2
    <3>2. u.files[Q[g]] = WithNumber(old[g], Q[g])
      BY <1>2, <1>3, <3>1
    <3>3. \A i \in 1..(k + 1) : list[i] = g => i \in 1..k
      BY <1>1, <2>2 DEF f
    <3>4. \A i \in 1..k : i \in 1..(k + 1)
      OBVIOUS
    <3> QED BY <1>2, <3>1, <3>2, <3>3, <3>4
  <2> QED BY <2>1, <2>2
<1>11. ASSUME NEW g \in D, NEW x \in D, g # x, Q[g][1] = Q[x][1] PROVE Q[g] = g /\ Q[x] = x
  <2>1. g # f /\ x # f
    BY <1>4, <1>6, <1>11
  <2> QED BY <1>2, <1>4, <1>11, <2>1
<1>12. /\ IsSeq(u.names) /\ Len(u.names) = k + 1
       /\ \A i \in 1..(k + 1) : u.names[i] = <<list[i], Q[list[i]]>>
  <2> DEFINE pair == <<f, new>>
             v == t.names
             w == u.names
  <2>1. PICK T : v \in Seq(T)
    BY <1>2 DEF IsSeq
  <2> DEFINE V == T \cup {pair}
  <2>2. v \in Seq(V) /\ pair \in V
    <3>1. T \subseteq V
      OBVIOUS
    <3> QED BY <2>1, <3>1
  <2>3. w = Append(v, pair) /\ Len(v) = k /\ \A i \in 1..k : v[i] = <<list[i], P[list[i]]>>
    BY <1>2, <1>3
  <2> HIDE DEF v, w, pair, V
  <2>4. /\ w \in Seq(V) /\ Len(w) = k + 1 /\ w[k + 1] = pair
        /\ \A i \in 1..k : w[i] = v[i]
    BY <2>2, <2>3, AppendProperties
  <2>5. \A i \in 1..k : Q[list[i]] = P[list[i]]
    BY <1>1, <1>4, <1>13
  <2>6. ASSUME NEW i \in 1..(k + 1) PROVE w[i] = <<list[i], Q[list[i]]>>
    <3>1. CASE i = k + 1
      BY <1>4, <2>4, <3>1 DEF pair, f
    <3>2. CASE i \in 1..k
      BY <2>3, <2>4, <2>5, <3>2
    <3> QED BY <1>1, <3>1, <3>2
  <2> QED BY <2>4, <2>6 DEF IsSeq, w
<1>14. Q = [g \in D |-> Q[g]]
  BY <1>4
<1> QED BY <1>9, <1>10, <1>11, <1>12, <1>14 DEF Placed, Q, D, f

(* Every surplus file gets such a place, when there are writes enough.     *)
LEMMA RenamingPlaces ==
  ASSUME NEW s, RewriteState(s), NumberedFiles(s.files), s.names = <<>>,
         s.left > 2 * Cardinality(SurplusOf(s.files))
  PROVE  LET r == RenamedAll(s) n == Cardinality(SurplusOf(s.files)) IN
         /\ r.left = s.left - 2 * n
         /\ \E P : Placed(s.files, r, P, Surplus(s.files), n)
<1> DEFINE list == Surplus(s.files)
           n == Cardinality(SurplusOf(s.files))
           old == s.files
<1>1. /\ n \in Nat /\ DOMAIN list = 1..n /\ \A i \in 1..n : list[i] \in DOMAIN old
      /\ \A i, j \in 1..n : list[i] = list[j] => i = j
  <2>1. ListsEach(list, SurplusOf(s.files), n) /\ SurplusOf(s.files) \in SUBSET DOMAIN s.files
    BY SurplusIs DEF NumberedFiles
  <2> HIDE DEF list, n
  <2> QED BY <2>1 DEF ListsEach, IsInjective
<1>2. PICK h : Renames(h, s, n)
  BY <1>1, RenamingSteps
<1>3. /\ h[0] = s /\ h[n] = RenamedAll(s) /\ \A k \in 1..n : h[k] = Renumber(h[k - 1], list[k])
  BY <1>2 DEF Renames
<1>8. s.left \in Nat /\ s.left > 2 * n
  BY DEF RewriteState
<1> HIDE DEF list, n
<1> DEFINE Good(k) == /\ RewriteState(h[k]) /\ NumberedFiles(h[k].files) /\ h[k].left = s.left - 2 * k
                      /\ \A i \in 1..n : i > k => list[i] \in DOMAIN h[k].files
                      /\ \E P : Placed(old, h[k], P, list, k)
           S == {k \in Nat : k <= n => Good(k)}
<1>4. 0 \in S
  <2> DEFINE P == [f \in DOMAIN old |-> f]
  <2>1. ASSUME NEW f \in DOMAIN old PROVE old[f] = WithNumber(old[f], f) /\ f \in NumberedNames
    <3> DEFINE d == old[f]
               a == d.of
               b == d.id
               c == d.links
               m == IF b = 0 THEN 0 ELSE f[1]
    <3>1. d = [of |-> a, id |-> b, links |-> c] /\ (b = f[1] \/ b = 0) /\ f \in NumberedNames
      BY DEF NumberedFiles, NumberedDoc
    <3>2. m = b
      BY <3>1
    <3> HIDE DEF a, b, c
    <3>3. WithNumber(d, f) = [[of |-> a, id |-> b, links |-> c] EXCEPT !.id = m]
      BY <3>1 DEF WithNumber
    <3> HIDE DEF m
    <3>4. WithNumber(d, f) = [of |-> a, id |-> m, links |-> c]
      BY <3>3
    <3> QED BY <3>1, <3>2, <3>4
  <2>2. \A i \in 1..0 : FALSE
    OBVIOUS
  <2>3. IsSeq(s.names) /\ Len(s.names) = 0
    <3>1. <<>> \in Seq({}) /\ Len(<<>>) = 0
      BY EmptySeq
    <3> QED BY <3>1 DEF IsSeq
  <2>4. P = [f \in DOMAIN old |-> P[f]] /\ DOMAIN old = {P[f] : f \in DOMAIN old} /\ \A f \in DOMAIN old : P[f] = f
    OBVIOUS
  <2> HIDE DEF P, old
  <2>5. s.files = old
    BY DEF old
  <2>6. Placed(old, s, P, list, 0)
    BY <2>1, <2>2, <2>3, <2>4, <2>5 DEF Placed
  <2>7. s.left = s.left - 2 * 0
    BY <1>8
  <2>8. Good(0)
    BY <1>1, <1>3, <2>5, <2>6, <2>7
  <2> QED BY <2>8
<1>5. ASSUME NEW k \in S PROVE k + 1 \in S
  <2> SUFFICES ASSUME k + 1 <= n PROVE Good(k + 1)
    OBVIOUS
  <2>1. k \in Nat /\ n \in Nat
    BY <1>1
  <2>2. Good(k)
    BY <2>1
  <2>3. k + 1 \in 1..n /\ (k + 1) - 1 = k /\ k + 1 > k
    BY <2>1
  <2> DEFINE u == h[k]
             t == h[k + 1]
             f == list[k + 1]
             new == <<NextAvailableId(u.files), f[2]>>
  <2>4. t = Renumber(u, f)
    BY <1>3, <2>3
  <2>5. /\ RewriteState(u) /\ NumberedFiles(u.files) /\ u.left = s.left - 2 * k /\ f \in DOMAIN u.files
        /\ \E P : Placed(old, u, P, list, k)
    BY <2>2, <2>3
  <2>6. /\ \A i \in 1..n : i > k + 1 => list[i] # f /\ list[i] \in DOMAIN u.files
        /\ \A i \in 1..(k + 1) : list[i] \in DOMAIN old
        /\ \A i \in 1..k : list[i] # f
    <3>1. /\ \A i \in 1..n : i > k + 1 => i > k /\ i # k + 1
          /\ \A i \in 1..(k + 1) : i \in 1..n
          /\ \A i \in 1..k : i \in 1..n /\ i # k + 1
      BY <2>1
    <3> QED BY <1>1, <2>2, <2>3, <3>1
  <2> HIDE DEF t, u
  <2>7. Renumbered(u, t, f, new)
    <3> HIDE DEF f
    <3> QED BY <2>4, <2>5, RenumberIs
  <2> HIDE DEF new
  <2>8. NumberedFiles(t.files)
    <3> HIDE DEF f
    <3> QED BY <2>5, <2>7, RenumberKeeps
  <2>9. u.left > 1 /\ u.left - 2 = s.left - 2 * (k + 1)
    BY <1>8, <2>1, <2>5
  <2>10. RewriteState(t) /\ DOMAIN u.files \ {f} \subseteq DOMAIN t.files /\ t.left = s.left - 2 * (k + 1)
    BY <2>7, <2>9 DEF Renumbered
  <2>11. PICK P : Placed(old, u, P, list, k)
    BY <2>5
  <2>12. Placed(old, t, [P EXCEPT ![f] = new], list, k + 1)
    BY <2>1, <2>5, <2>6, <2>7, <2>9, <2>11, PlaceOne
  <2>13. \A i \in 1..n : i > k + 1 => list[i] \in DOMAIN t.files
    BY <2>6, <2>10
  <2> QED BY <2>8, <2>10, <2>12, <2>13 DEF t
<1>6. n \in S
  <2> HIDE DEF S
  <2>1. S \in SUBSET Nat
    BY DEF S
  <2>2. S = Nat
    BY <1>4, <1>5, <2>1, F!SetInduction
  <2> QED BY <1>1, <2>2
<1>7. Good(n)
  <2>1. n <= n
    BY <1>1
  <2> QED BY <1>6, <2>1
<1> QED BY <1>3, <1>7 DEF n, list

(* Then no two files share a number.                                       *)
LEMMA PlacedApart ==
  ASSUME NEW old, NumberedFiles(old), NEW t, NEW P,
         Placed(old, t, P, Surplus(old), Cardinality(SurplusOf(old)))
  PROVE  \A f, g \in DOMAIN t.files : f[1] = g[1] => f = g
<1> DEFINE list == Surplus(old)
           n == Cardinality(SurplusOf(old))
<1>1. /\ \A f \in SurplusOf(old) : \E i \in 1..n : list[i] = f
      /\ \A f, g \in DOMAIN old : f[1] = g[1] /\ f # g => f \in SurplusOf(old) \/ g \in SurplusOf(old)
  BY SurplusIs DEF NumberedFiles, ListsEach, ToSet
<1> HIDE DEF list, n
<1>2. /\ DOMAIN t.files = {P[f] : f \in DOMAIN old}
      /\ \A f \in DOMAIN old : \/ P[f] = f /\ \A i \in 1..n : list[i] # f
                               \/ \A g \in DOMAIN old : g[1] < P[f][1]
      /\ \A f, g \in DOMAIN old : f # g /\ P[f][1] = P[g][1] => P[f] = f /\ P[g] = g
  BY DEF Placed, list, n
<1>3. ASSUME NEW f \in DOMAIN old, P[f] = f PROVE f \notin SurplusOf(old)
  <2>1. f[1] \in Nat
    BY DEF NumberedFiles, NumberedNames
  <2>2. ~(f[1] < f[1])
    BY <2>1
  <2> QED BY <1>1, <1>2, <1>3, <2>2
<1>4. ASSUME NEW f \in DOMAIN old, NEW g \in DOMAIN old, P[f][1] = P[g][1] PROVE f = g
  <2> SUFFICES ASSUME f # g PROVE FALSE
    OBVIOUS
  <2>1. P[f] = f /\ P[g] = g
    BY <1>2, <1>4
  <2> QED BY <1>1, <1>3, <1>4, <2>1
<1> QED BY <1>2, <1>4

-----------------------------------------------------------------------------
(* A file whose first link is looked at.                                   *)
FirstFollowed(names, d) == IF d.links = <<>> THEN d ELSE [d EXCEPT !.links[1] = Follow(names, @)]
LinkFollowed(names, d, e) ==
  /\ e.of = d.of /\ e.id = d.id
  /\ 1 \in DOMAIN d.links => e.links[1] = Follow(names, d.links[1])
  /\ \A i \in DOMAIN d.links : i # 1 => e.links[i] = d.links[i]

(* Only its links are other than they were.                                *)
LEMMA FirstFollowedIs ==
  ASSUME NEW names, NEW f, NEW d, NumberedDoc(f, d)
  PROVE  NumberedDoc(f, FirstFollowed(names, d)) /\ LinkFollowed(names, d, FirstFollowed(names, d))
<1> DEFINE a == d.of
           b == d.id
           c == d.links
           m == [c EXCEPT ![1] = Follow(names, c[1])]
           e == FirstFollowed(names, d)
<1>1. d = [of |-> a, id |-> b, links |-> c] /\ b \in {0, f[1]}
  BY DEF NumberedDoc
<1>2. /\ 1 \in DOMAIN c => m[1] = Follow(names, c[1])
      /\ \A i \in DOMAIN c : i # 1 => m[i] = c[i]
  OBVIOUS
<1>3. c # <<>> => e = [d EXCEPT !.links = m]
  BY <1>1 DEF FirstFollowed
<1>4. c = <<>> => e = d
  BY DEF FirstFollowed
<1> HIDE DEF a, b, c, m, e
<1>5. [[of |-> a, id |-> b, links |-> c] EXCEPT !.links = m] = [of |-> a, id |-> b, links |-> m]
  OBVIOUS
<1>6. c # <<>> => e = [of |-> a, id |-> b, links |-> m]
  BY <1>1, <1>3, <1>5
<1>7. NumberedDoc(f, e) /\ e.of = a /\ e.id = b /\ (c # <<>> => e.links = m)
      /\ (c = <<>> => e.links = c)
  BY <1>1, <1>4, <1>6 DEF NumberedDoc
<1>9. c = <<>> => DOMAIN c = {}
  OBVIOUS
<1>8. LinkFollowed(names, d, e)
  <2>1. e.of = a /\ e.id = b
    BY <1>7
  <2>2. CASE c # <<>>
    BY <1>2, <1>7, <2>1, <2>2 DEF LinkFollowed, a, b, c
  <2>3. CASE c = <<>>
    <3>1. DOMAIN d.links = {}
      BY <1>9, <2>3 DEF c
    <3> QED BY <2>1, <3>1 DEF LinkFollowed, a, b
  <2> QED BY <2>2, <2>3
<1> QED BY <1>7, <1>8 DEF e

(* The first links of all files are looked at, one after the other.        *)
LinksUpdated(c, t, f) == UpdateLinks(t, f)
Up == INSTANCE FoldTheory WITH Op <- LinksUpdated
AllLinked(r) == FoldLeft(UpdateLinks, r, InOrder(DOMAIN r.files))
Updates(h, r, n) ==
  /\ h[0] = r /\ h[n] = AllLinked(r)
  /\ \A k \in 1..n : h[k] = UpdateLinks(h[k - 1], InOrder(DOMAIN r.files)[k])

(* They are the steps of a fold.                                           *)
LEMMA UpdateSteps ==
  ASSUME NEW r, NEW n \in Nat, DOMAIN InOrder(DOMAIN r.files) = 1..n
  PROVE  \E h : Updates(h, r, n)
<1> DEFINE list == InOrder(DOMAIN r.files)
<1>1. AllLinked(r) = Up!Over({}, r, list)
  BY DEF AllLinked, FoldLeft, MapThenFoldSet, Up!Over, Up!FoldLeft, Up!MapThenFoldSet, LinksUpdated, Max, Up!Max
<1> HIDE DEF list
<1>2. PICK h : Up!Goes(h, {}, r, list, n)
  <2>1. DOMAIN list = 1..n
    BY DEF list
  <2> QED BY <2>1, Up!FoldSteps
<1>3. /\ h[0] = r /\ h[n] = AllLinked(r)
      /\ \A k \in 1..n : h[k] = UpdateLinks(h[k - 1], list[k])
  BY <1>1, <1>2 DEF Up!Goes, LinksUpdated
<1>4. Updates(h, r, n)
  BY <1>3 DEF Updates, list
<1> QED BY <1>4

(* What looking at the links of one file makes of the files.               *)
LEMMA UpdateIs ==
  ASSUME NEW u, RewriteState(u), NEW f \in DOMAIN u.files
  PROVE  LET t == UpdateLinks(u, f) IN
         /\ RewriteState(t) /\ t.names = u.names /\ DOMAIN t.files = DOMAIN u.files
         /\ \A g \in DOMAIN u.files : g # f => t.files[g] = u.files[g]
         /\ t.files[f] = u.files[f] \/ t.files[f] = FirstFollowed(u.names, u.files[f])
         /\ u.left # 0 => t.left = u.left - 1 /\ t.files[f] = FirstFollowed(u.names, u.files[f])
<1> DEFINE doc == FirstFollowed(u.names, u.files[f])
           t == UpdateLinks(u, f)
<1>1. t = PutFile(u, FALSE, f, doc)
  BY DEF UpdateLinks, FirstFollowed
<1> HIDE DEF doc
<1>2. ASSUME NEW dry \in BOOLEAN, ~dry
      PROVE  LET w == PutFile(u, dry, f, doc) IN
             /\ RewriteState(w) /\ w.names = u.names
             /\ u.left = 0 => w = u
             /\ u.left # 0 =>
                  /\ w.left = u.left - 1 /\ DOMAIN w.files = DOMAIN u.files \cup {f} /\ w.files[f] = doc
                  /\ \A g \in DOMAIN u.files : g # f => w.files[g] = u.files[g]
  BY <1>2, PutIs
<1>3. FALSE \in BOOLEAN /\ ~FALSE
  OBVIOUS
<1>4. LET w == PutFile(u, FALSE, f, doc) IN
             /\ RewriteState(w) /\ w.names = u.names
             /\ u.left = 0 => w = u
             /\ u.left # 0 =>
                  /\ w.left = u.left - 1 /\ DOMAIN w.files = DOMAIN u.files \cup {f} /\ w.files[f] = doc
                  /\ \A g \in DOMAIN u.files : g # f => w.files[g] = u.files[g]
  BY <1>2, <1>3, Zenon
<1> HIDE DEF t
<1>5. /\ RewriteState(t) /\ t.names = u.names
      /\ u.left = 0 => t = u
      /\ u.left # 0 =>
           /\ t.left = u.left - 1 /\ DOMAIN t.files = DOMAIN u.files \cup {f} /\ t.files[f] = doc
           /\ \A g \in DOMAIN u.files : g # f => t.files[g] = u.files[g]
  BY <1>1, <1>4
<1>6. DOMAIN u.files \cup {f} = DOMAIN u.files
  OBVIOUS
<1> QED BY <1>5, <1>6 DEF t, doc

(* Looking at the links, killed wherever, leaves every file where it is    *)
(* and its item in it; with writes enough, the first link of each is       *)
(* followed.                                                               *)
LEMMA AllLinkedIs ==
  ASSUME NEW r, RewriteState(r), NumberedFiles(r.files)
  PROVE  LET w == AllLinked(r) IN
         /\ RewriteState(w) /\ DOMAIN w.files = DOMAIN r.files
         /\ \A f \in DOMAIN r.files : w.files[f] = r.files[f] \/ w.files[f] = FirstFollowed(r.names, r.files[f])
         /\ r.left >= Cardinality(DOMAIN r.files) =>
              \A f \in DOMAIN r.files : w.files[f] = FirstFollowed(r.names, r.files[f])
<1> DEFINE D == DOMAIN r.files
           list == InOrder(D)
           n == Cardinality(D)
           Is(f, d) == d = r.files[f] \/ d = FirstFollowed(r.names, r.files[f])
<1>1. /\ n \in Nat /\ DOMAIN list = 1..n /\ \A i \in 1..n : list[i] \in D
      /\ \A i, j \in 1..n : list[i] = list[j] => i = j
      /\ \A f \in D : \E i \in 1..n : list[i] = f
  <2>1. ListsEach(list, D, n)
    BY SortedNames DEF NumberedFiles
  <2> HIDE DEF list, D, n
  <2> QED BY <2>1 DEF ListsEach, IsInjective, ToSet
<1>2. PICK h : Updates(h, r, n)
  BY <1>1, UpdateSteps
<1>3. /\ h[0] = r /\ h[n] = AllLinked(r) /\ \A k \in 1..n : h[k] = UpdateLinks(h[k - 1], list[k])
  BY <1>2 DEF Updates
<1>8. r.left \in Nat
  BY DEF RewriteState
<1> HIDE DEF list, n
<1> DEFINE Good(k) == /\ RewriteState(h[k]) /\ h[k].names = r.names /\ DOMAIN h[k].files = D
                      /\ \A i \in 1..n : /\ i > k => h[k].files[list[i]] = r.files[list[i]]
                                         /\ Is(list[i], h[k].files[list[i]])
                      /\ r.left >= n => /\ h[k].left = r.left - k
                                        /\ \A i \in 1..k : h[k].files[list[i]] = FirstFollowed(r.names, r.files[list[i]])
           S == {k \in Nat : k <= n => Good(k)}
<1>4. 0 \in S
  <2>1. \A i \in 1..0 : FALSE
    OBVIOUS
  <2>2. r.left - 0 = r.left
    BY <1>8
  <2>3. Good(0)
    BY <1>3, <2>1, <2>2
  <2> QED BY <2>3
<1>5. ASSUME NEW k \in S PROVE k + 1 \in S
  <2> SUFFICES ASSUME k + 1 <= n PROVE Good(k + 1)
    OBVIOUS
  <2>1. k \in Nat /\ n \in Nat
    BY <1>1
  <2>2. Good(k)
    BY <2>1
  <2>3. /\ k + 1 \in 1..n /\ (k + 1) - 1 = k /\ k + 1 > k
        /\ \A i \in 1..(k + 1) : i \in 1..n /\ (i \in 1..k \/ i = k + 1)
        /\ \A i \in 1..n : i > k + 1 => i > k /\ i # k + 1
        /\ \A i \in 1..k : i \in 1..n /\ i # k + 1
    BY <2>1
  <2> DEFINE u == h[k]
             t == h[k + 1]
             f == list[k + 1]
  <2>4. t = UpdateLinks(u, f)
    BY <1>3, <2>3
  <2>5. /\ RewriteState(u) /\ u.names = r.names /\ DOMAIN u.files = D /\ f \in D
        /\ u.files[f] = r.files[f]
        /\ \A i \in 1..n : /\ i > k => u.files[list[i]] = r.files[list[i]]
                           /\ Is(list[i], u.files[list[i]])
        /\ r.left >= n => /\ u.left = r.left - k
                          /\ \A i \in 1..k : u.files[list[i]] = FirstFollowed(r.names, r.files[list[i]])
    BY <1>1, <2>2, <2>3
  <2> HIDE DEF t, u, f
  <2>6. /\ RewriteState(t) /\ t.names = u.names /\ DOMAIN t.files = DOMAIN u.files
        /\ \A g \in DOMAIN u.files : g # f => t.files[g] = u.files[g]
        /\ t.files[f] = u.files[f] \/ t.files[f] = FirstFollowed(u.names, u.files[f])
        /\ u.left # 0 => t.left = u.left - 1 /\ t.files[f] = FirstFollowed(u.names, u.files[f])
    BY <2>4, <2>5, UpdateIs
  <2>7. \A i \in 1..n : i # k + 1 => list[i] # f /\ list[i] \in D
    BY <1>1, <2>3 DEF f
  <2>8. ASSUME NEW i \in 1..n
        PROVE  /\ i > k + 1 => t.files[list[i]] = r.files[list[i]]
               /\ Is(list[i], t.files[list[i]])
    <3>1. CASE i = k + 1
      <4>1. ~(i > k + 1) /\ list[i] = f
        BY <2>1, <3>1 DEF f
      <4> QED BY <2>5, <2>6, <4>1
    <3>2. CASE i # k + 1
      <4>1. t.files[list[i]] = u.files[list[i]]
        BY <2>5, <2>6, <2>7, <3>2
      <4> QED BY <2>3, <2>5, <3>2, <4>1
    <3> QED BY <3>1, <3>2
  <2>9. ASSUME r.left >= n
        PROVE  /\ t.left = r.left - (k + 1)
               /\ \A i \in 1..(k + 1) : t.files[list[i]] = FirstFollowed(r.names, r.files[list[i]])
    <3>1. u.left # 0 /\ u.left - 1 = r.left - (k + 1)
      BY <1>8, <2>1, <2>5, <2>9
    <3>2. t.files[f] = FirstFollowed(r.names, r.files[f])
      BY <2>5, <2>6, <3>1
    <3>3. ASSUME NEW i \in 1..(k + 1) PROVE t.files[list[i]] = FirstFollowed(r.names, r.files[list[i]])
      <4>1. CASE i = k + 1
        BY <3>2, <4>1 DEF f
      <4>2. CASE i \in 1..k
        <5>1. i \in 1..n /\ i # k + 1
          BY <2>3, <4>2
        <5>2. t.files[list[i]] = u.files[list[i]]
          BY <2>5, <2>6, <2>7, <5>1
        <5> QED BY <2>5, <2>9, <4>2, <5>2
      <4> QED BY <2>3, <4>1, <4>2
    <3> QED BY <2>6, <3>1, <3>3
  <2> QED BY <2>5, <2>6, <2>8, <2>9 DEF t
<1>6. n \in S
  <2> HIDE DEF S
  <2>1. S \in SUBSET Nat
    BY DEF S
  <2>2. S = Nat
    BY <1>4, <1>5, <2>1, F!SetInduction
  <2> QED BY <1>1, <2>2
<1>7. Good(n)
  <2>1. n <= n
    BY <1>1
  <2> QED BY <1>6, <2>1
<1>9. RewriteState(h[n]) /\ DOMAIN h[n].files = D
  BY <1>7
<1>10. \A f \in D : Is(f, h[n].files[f])
  BY <1>1, <1>7
<1>11. r.left >= n => \A f \in D : h[n].files[f] = FirstFollowed(r.names, r.files[f])
  BY <1>1, <1>7
<1> QED BY <1>3, <1>9, <1>10, <1>11 DEF n

-----------------------------------------------------------------------------
(* A name is followed through the notes of what was renamed.               *)
FollowOne(c, l, n) == IF l[1] = n[1][1] /\ l[2] \in Found(n[1][2]) THEN <<n[2][1], l[2]>> ELSE l
Fw == INSTANCE FoldTheory WITH Op <- FollowOne

(* It comes to where its file is, unless a name is the beginning of        *)
(* another.                                                                *)
LEMMA FollowLeads ==
  ASSUME NEW old, NumberedFiles(old), Distinct(old), NEW t, NEW P, NEW list, NEW n \in Nat,
         Placed(old, t, P, list, n), \A i \in 1..n : list[i] \in DOMAIN old, NEW l \in DOMAIN old
  PROVE  NewName(t.names, l) = P[l]
<1> DEFINE names == t.names
           Here(k) == IF \E i \in 1..k : list[i] = l THEN P[l] ELSE l
<1>1. /\ DOMAIN names = 1..n /\ \A i \in 1..n : names[i] = <<list[i], P[list[i]]>>
      /\ P[l] \in NumberedNames /\ P[l][2] = l[2]
      /\ \/ P[l] = l /\ \A i \in 1..n : list[i] # l
         \/ (\E i \in 1..n : list[i] = l) /\ \A g \in DOMAIN old : g[1] < P[l][1]
  <2>1. IsSeq(names) /\ Len(names) = n
    BY DEF Placed
  <2>2. DOMAIN names = 1..n
    BY <2>1, LenProperties DEF IsSeq
  <2> QED BY <2>2 DEF Placed
<1>2. NewName(names, l) = Fw!Over({}, l, names)
  BY DEF NewName, FoldLeft, MapThenFoldSet, Fw!Over, Fw!FoldLeft, Fw!MapThenFoldSet, FollowOne, Max, Fw!Max
<1> HIDE DEF names
<1>3. PICK g : Fw!Goes(g, {}, l, names, n)
  BY <1>1, Fw!FoldSteps
<1>4. g[0] = l /\ g[n] = NewName(names, l) /\ \A k \in 1..n : g[k] = FollowOne({}, g[k - 1], names[k])
  BY <1>2, <1>3 DEF Fw!Goes
<1>5. /\ \A f \in DOMAIN old : f \in NumberedNames
      /\ l[1] \in Nat /\ l = <<l[1], l[2]>> /\ P[l] = <<P[l][1], P[l][2]>> /\ P[l][1] \in Nat
  BY <1>1 DEF NumberedFiles, NumberedNames
<1>6. \A rest : rest \in Found(rest)
  BY DEF Found
<1>7. \A f \in DOMAIN old : f[1] = l[1] /\ l[2] \in Found(f[2]) => f = l
  BY DEF Distinct
<1> DEFINE S == {k \in Nat : k <= n => g[k] = Here(k)}
<1>8. 0 \in S
  <2>1. \A i \in 1..0 : FALSE
    OBVIOUS
  <2> QED BY <1>4, <2>1
<1>9. ASSUME NEW k \in S PROVE k + 1 \in S
  <2> SUFFICES ASSUME k + 1 <= n PROVE g[k + 1] = Here(k + 1)
    OBVIOUS
  <2>1. /\ k \in Nat /\ k <= n /\ k + 1 \in 1..n /\ (k + 1) - 1 = k
        /\ \A i \in 1..k : i \in 1..(k + 1) /\ i \in 1..n
        /\ \A i \in 1..(k + 1) : i \in 1..k \/ i = k + 1
        /\ k + 1 \in 1..(k + 1)
    OBVIOUS
  <2> DEFINE f == list[k + 1]
  <2>2. g[k] = Here(k) /\ f \in DOMAIN old
    BY <2>1
  <2>3. g[k + 1] = FollowOne({}, g[k], <<f, P[f]>>)
    BY <1>1, <1>4, <2>1
  <2>4. g[k + 1] = IF g[k][1] = f[1] /\ g[k][2] \in Found(f[2]) THEN <<P[f][1], g[k][2]>> ELSE g[k]
    BY <2>3 DEF FollowOne
  <2>5. CASE \E i \in 1..k : list[i] = l
    <3>1. g[k] = P[l] /\ Here(k + 1) = P[l]
      BY <2>1, <2>2, <2>5
    <3>2. f[1] < P[l][1] /\ f[1] \in Nat
      BY <1>1, <1>5, <2>1, <2>2, <2>5 DEF NumberedNames
    <3>3. P[l][1] # f[1]
      BY <1>5, <3>2
    <3> QED BY <2>4, <3>1, <3>3
  <2>6. CASE ~\E i \in 1..k : list[i] = l
    <3>1. g[k] = l
      BY <2>2, <2>6
    <3>2. CASE f = l
      <4>1. Here(k + 1) = P[l]
        BY <2>1, <3>2
      <4>2. g[k + 1] = <<P[l][1], l[2]>>
        BY <1>6, <2>4, <3>1, <3>2
      <4> QED BY <1>1, <1>5, <4>1, <4>2
    <3>3. CASE f # l
      <4>1. Here(k + 1) = l
        BY <2>1, <2>6, <3>3
      <4>2. ~(l[1] = f[1] /\ l[2] \in Found(f[2]))
        BY <1>7, <2>2, <3>3
      <4> QED BY <2>4, <3>1, <4>1, <4>2
    <3> QED BY <3>2, <3>3
  <2> QED BY <2>5, <2>6
<1>10. n \in S
  <2> HIDE DEF S
  <2>1. S \in SUBSET Nat
    BY DEF S
  <2>2. S = Nat
    BY <1>8, <1>9, <2>1, F!SetInduction
  <2> QED BY <2>2
<1>11. g[n] = Here(n)
  <2>1. n <= n
    OBVIOUS
  <2> QED BY <1>10, <2>1
<1> QED BY <1>1, <1>4, <1>11 DEF names

-----------------------------------------------------------------------------
(* A renumbering that is about to begin, or to begin again.                *)
ToRenumber(s) == RewriteState(s) /\ NumberedFiles(s.files) /\ s.names = <<>>

(* Killed wherever, it keeps the items; with writes enough, it leaves no   *)
(* two files with one number.                                              *)
THEOREM RenumberItemsKeeps ==
  ASSUME NEW s, ToRenumber(s)
  PROVE  LET w == RenumberItems(s) c == Cardinality(DOMAIN s.files) IN
         /\ RewriteState(w) /\ NumberedFiles(w.files) /\ Items(w.files) = Items(s.files)
         /\ Cardinality(DOMAIN w.files) <= 2 * c
         /\ s.left > 2 * c => \A f, g \in DOMAIN w.files : f[1] = g[1] => f = g
<1> DEFINE w == RenumberItems(s)
           c == Cardinality(DOMAIN s.files)
           n == Cardinality(SurplusOf(s.files))
           list == Surplus(s.files)
           r == RenamedAll(s)
           Apart(files) == \A f, g \in DOMAIN files : f[1] = g[1] => f = g
<1>1. RewriteState(s) /\ NumberedFiles(s.files) /\ s.names = <<>> /\ s.left \in Nat
  BY DEF ToRenumber, RewriteState
<1>2. /\ n \in Nat /\ c \in Nat /\ n <= c /\ DOMAIN list = 1..n
      /\ \A f \in SurplusOf(s.files) : \E i \in 1..n : list[i] = f
      /\ \A f, g \in DOMAIN s.files : f[1] = g[1] /\ f # g => f \in SurplusOf(s.files) \/ g \in SurplusOf(s.files)
  <2>1. /\ ListsEach(list, SurplusOf(s.files), n) /\ n \in Nat /\ c \in Nat /\ n <= c
        /\ \A f, g \in DOMAIN s.files : f[1] = g[1] /\ f # g => f \in SurplusOf(s.files) \/ g \in SurplusOf(s.files)
    BY <1>1, SurplusIs DEF NumberedFiles
  <2> HIDE DEF list, n, c
  <2> QED BY <2>1 DEF ListsEach, ToSet
<1>3. w = IF list = <<>> THEN s ELSE AllLinked(r)
  BY DEF RenumberItems, AllLinked, RenamedAll
<1>4. CASE list = <<>>
  <2>1. DOMAIN list = {}
    BY <1>4
  <2>2. \A i \in 1..n : FALSE
    BY <1>2, <2>1
  <2>3. Apart(s.files)
    BY <1>2, <2>2
  <2>4. w = s
    BY <1>3, <1>4
  <2> HIDE DEF c, w
  <2>5. c <= 2 * c
    BY <1>2
  <2> QED BY <1>1, <2>3, <2>4, <2>5 DEF w, c
<1>5. CASE list # <<>>
  <2>1. /\ RewriteState(r) /\ NumberedFiles(r.files) /\ Items(r.files) = Items(s.files)
        /\ Cardinality(DOMAIN r.files) <= c + n
    BY <1>1, RenamingKeeps
  <2>2. s.left > 2 * n => Apart(r.files)
    <3> SUFFICES ASSUME s.left > 2 * n PROVE Apart(r.files)
      OBVIOUS
    <3> HIDE DEF r
    <3>1. PICK P : Placed(s.files, r, P, list, n)
      BY <1>1, RenamingPlaces DEF r
    <3> QED BY <1>1, <3>1, PlacedApart
  <2>3. w = AllLinked(r)
    BY <1>3, <1>5
  <2> HIDE DEF c, n, r, w
  <2>4. /\ RewriteState(w) /\ DOMAIN w.files = DOMAIN r.files
        /\ \A f \in DOMAIN r.files : w.files[f] = r.files[f] \/ w.files[f] = FirstFollowed(r.names, r.files[f])
    BY <2>1, <2>3, AllLinkedIs
  <2>5. \A f \in DOMAIN r.files : NumberedDoc(f, w.files[f]) /\ w.files[f].of = r.files[f].of
    <3> SUFFICES ASSUME NEW f \in DOMAIN r.files
                 PROVE  NumberedDoc(f, w.files[f]) /\ w.files[f].of = r.files[f].of
      OBVIOUS
    <3> DEFINE d == r.files[f]
               e == FirstFollowed(r.names, d)
    <3>1. NumberedDoc(f, d)
      BY <2>1 DEF NumberedFiles
    <3>2. w.files[f] = d \/ w.files[f] = e
      BY <2>4
    <3> HIDE DEF d
    <3>3. NumberedDoc(f, e) /\ e.of = d.of
      BY <3>1, FirstFollowedIs DEF LinkFollowed
    <3> HIDE DEF e
    <3>4. NumberedDoc(f, w.files[f]) /\ w.files[f].of = d.of
      BY <3>1, <3>2, <3>3
    <3> QED BY <3>4 DEF d
  <2>6. NumberedFiles(w.files)
    BY <2>1, <2>4, <2>5 DEF NumberedFiles, RewriteState
  <2>7. Items(w.files) = Items(r.files)
    BY <2>4, <2>5 DEF Items
  <2>8. Cardinality(DOMAIN w.files) <= 2 * c
    <3>1. Cardinality(DOMAIN r.files) \in Nat
      BY <2>1, FS_CardinalityType DEF NumberedFiles
    <3>2. Cardinality(DOMAIN r.files) <= 2 * c
      BY <1>2, <2>1, <3>1
    <3> QED BY <2>4, <3>2
  <2>9. s.left > 2 * c => Apart(w.files)
    <3>1. s.left > 2 * c => s.left > 2 * n
      BY <1>1, <1>2
    <3> QED BY <2>2, <2>4, <3>1
  <2> QED BY <2>1, <2>4, <2>6, <2>7, <2>8, <2>9 DEF w, c
<1> QED BY <1>4, <1>5

(* An item has come to one place, its id is the number of that, and its    *)
(* links lead where they led or nowhere, the first, if bare, to its own.   *)
FileArrives(old, new, f) ==
  \E g \in Places(new, f) :
    /\ Places(new, f) = {g} /\ (new[g].id # 0 => new[g].id = g[1])
    /\ Distinct(old) => \A i \in DOMAIN old[f].links : LinkKept(new, i, old[f].links[i], new[g].links[i])

(* Links that lead to files.                                               *)
LinksInto(old, links) ==
  /\ links # <<>> => 1 \in DOMAIN links
  /\ \A i \in DOMAIN links : links[i] \in [to : DOMAIN old, bare : BOOLEAN]

(* What becomes of one link, if the files are where they have come to.     *)
LEMMA LinkIsKept ==
  ASSUME NEW old, NEW new, NEW P, NEW names, NEW l \in [to : DOMAIN old, bare : BOOLEAN], NEW i,
         DOMAIN new = {P[f] : f \in DOMAIN old}, \A f \in DOMAIN old : new[P[f]].of = f,
         \A f \in DOMAIN old : f[1] \in Nat /\ (P[f] = f \/ \A g \in DOMAIN old : g[1] < P[f][1]),
         NewName(names, l.to) = P[l.to]
  PROVE  LinkKept(new, i, l, IF i = 1 THEN Follow(names, l) ELSE l)
<1> DEFINE e == IF i = 1 THEN Follow(names, l) ELSE l
<1>1. l.to \in DOMAIN old /\ l.bare \in BOOLEAN
  OBVIOUS
<1>2. CASE i = 1 /\ l.bare
  <2>1. e.to = P[l.to]
    BY <1>1, <1>2 DEF Follow
  <2> HIDE DEF e
  <2> QED BY <1>1, <2>1 DEF LinkKept, e
<1>3. CASE i # 1 \/ ~l.bare
  <2>1. e = l
    BY <1>3 DEF Follow
  <2> HIDE DEF e
  <2>2. ASSUME l.to \in DOMAIN new PROVE new[l.to].of = l.to
    <3>1. PICK f \in DOMAIN old : P[f] = l.to
      BY <2>2
    <3>2. P[f] = f
      BY <1>1, <3>1
    <3> QED BY <3>1, <3>2
  <2> QED BY <1>3, <2>1, <2>2 DEF LinkKept, e
<1> QED BY <1>1, <1>2, <1>3

(* So it is after a renumbering that is not killed.                        *)
THEOREM RenumberItemsArrive ==
  ASSUME NEW s, ToRenumber(s), s.left > 4 * Cardinality(DOMAIN s.files),
         \A f \in DOMAIN s.files : s.files[f].of = f,
         \A f \in DOMAIN s.files : LinksInto(s.files, s.files[f].links)
  PROVE  \A f \in DOMAIN s.files : FileArrives(s.files, RenumberItems(s).files, f)
<1> DEFINE old == s.files
           w == RenumberItems(s)
           new == w.files
           c == Cardinality(DOMAIN s.files)
           n == Cardinality(SurplusOf(s.files))
           list == Surplus(s.files)
           r == RenamedAll(s)
<1>1. /\ RewriteState(s) /\ NumberedFiles(old) /\ s.names = <<>> /\ s.left \in Nat
      /\ \A f \in DOMAIN old : NumberedDoc(f, old[f]) /\ f \in NumberedNames
  BY DEF ToRenumber, RewriteState, NumberedFiles
<1>2. /\ n \in Nat /\ c \in Nat /\ n <= c /\ \A i \in 1..n : list[i] \in DOMAIN old
  <2>1. /\ ListsEach(list, SurplusOf(s.files), n) /\ n \in Nat /\ c \in Nat /\ n <= c
        /\ SurplusOf(s.files) \in SUBSET DOMAIN s.files
    BY <1>1, SurplusIs DEF NumberedFiles
  <2> HIDE DEF list, n, c
  <2> QED BY <2>1 DEF ListsEach
<1>3. w = IF list = <<>> THEN s ELSE AllLinked(r)
  BY DEF RenumberItems, AllLinked, RenamedAll
<1>4. \A f \in DOMAIN new : NumberedDoc(f, new[f])
  BY RenumberItemsKeeps DEF NumberedFiles
<1>5. \A f \in DOMAIN old : old[f].of = f
  OBVIOUS
<1>6. \A f \in DOMAIN old : LinksInto(old, old[f].links)
  OBVIOUS
<1>15. s.left > 4 * c
  OBVIOUS
<1>7. CASE list = <<>>
  <2>1. new = old
    BY <1>3, <1>7
  <2> HIDE DEF new, old, list
  <2>2. ASSUME NEW f \in DOMAIN old PROVE FileArrives(old, old, f)
    <3>1. f \in Places(old, f) /\ Places(old, f) = {f}
      BY <1>5 DEF Places
    <3>2. old[f].id # 0 => old[f].id = f[1]
      BY <1>1 DEF NumberedDoc
    <3>3. \A i \in DOMAIN old[f].links : LinkKept(old, i, old[f].links[i], old[f].links[i])
      BY <1>5, <1>6 DEF LinksInto, LinkKept
    <3> QED BY <3>1, <3>2, <3>3 DEF FileArrives
  <2> QED BY <2>1, <2>2 DEF old, new
<1>8. CASE list # <<>>
  <2>1. w = AllLinked(r)
    BY <1>3, <1>8
  <2>2. RewriteState(r) /\ NumberedFiles(r.files) /\ Cardinality(DOMAIN r.files) <= c + n
    BY <1>1, RenamingKeeps
  <2>3. s.left > 2 * n
    <3> HIDE DEF n, c
    <3> QED BY <1>1, <1>2, <1>15
  <2>4. r.left = s.left - 2 * n /\ \E P : Placed(old, r, P, list, n)
    BY <1>1, <2>3, RenamingPlaces
  <2> HIDE DEF c, n, r, w, list
  <2>5. r.left >= Cardinality(DOMAIN r.files)
    <3>1. Cardinality(DOMAIN r.files) \in Nat
      BY <2>2, FS_CardinalityType DEF NumberedFiles
    <3> QED BY <1>1, <1>2, <1>15, <2>2, <2>4, <3>1
  <2>6. DOMAIN new = DOMAIN r.files /\ \A f \in DOMAIN r.files : new[f] = FirstFollowed(r.names, r.files[f])
    BY <2>1, <2>2, <2>5, AllLinkedIs
  <2>7. PICK P : Placed(old, r, P, list, n)
    BY <2>4
  <2> HIDE DEF old, new
  <2>8. /\ DOMAIN r.files = {P[f] : f \in DOMAIN old}
        /\ \A f \in DOMAIN old : P[f] \in DOMAIN r.files /\ r.files[P[f]] = WithNumber(old[f], P[f])
    BY <2>7 DEF Placed
  <2>9. ASSUME NEW f \in DOMAIN old
        PROVE  /\ new[P[f]].of = f
               /\ \A i \in DOMAIN old[f].links : new[P[f]].links[i] =
                    IF i = 1 THEN Follow(r.names, old[f].links[1]) ELSE old[f].links[i]
    <3> DEFINE d == old[f]
               a == d.of
               b == d.id
               l == d.links
               m == IF b = 0 THEN 0 ELSE P[f][1]
               e == r.files[P[f]]
    <3>1. d = [of |-> a, id |-> b, links |-> l]
      BY <1>1 DEF NumberedDoc
    <3>2. NumberedDoc(P[f], e)
      BY <2>2, <2>8 DEF NumberedFiles
    <3>3. e = WithNumber(d, P[f])
      BY <2>8
    <3>4. a = f
      BY <1>5
    <3>5. new[P[f]] = FirstFollowed(r.names, e)
      BY <2>6, <2>8
    <3> HIDE DEF a, b, l, e
    <3>6. e = [[of |-> a, id |-> b, links |-> l] EXCEPT !.id = m]
      BY <3>1, <3>3 DEF WithNumber, b
    <3> HIDE DEF d, m
    <3>7. e = [of |-> a, id |-> m, links |-> l]
      BY <3>6
    <3>8. e.of = f /\ e.links = l
      BY <3>4, <3>7
    <3>9. LinkFollowed(r.names, e, FirstFollowed(r.names, e))
      BY <3>2, FirstFollowedIs
    <3>10. /\ new[P[f]].of = f
           /\ \A i \in DOMAIN l : new[P[f]].links[i] = IF i = 1 THEN Follow(r.names, l[1]) ELSE l[i]
      BY <3>4, <3>5, <3>8, <3>9 DEF LinkFollowed
    <3> QED BY <3>10 DEF l, d
  <2>10. ASSUME NEW f \in DOMAIN old PROVE FileArrives(old, new, f)
    <3>1. P[f] \in Places(new, f)
      BY <2>6, <2>8, <2>9 DEF Places
    <3>2. Places(new, f) = {P[f]}
      <4>1. \A g \in DOMAIN new : new[g].of = f => g = P[f]
        BY <2>6, <2>8, <2>9
      <4> QED BY <3>1, <4>1 DEF Places
    <3>3. new[P[f]].id # 0 => new[P[f]].id = P[f][1]
      BY <1>4, <2>6, <2>8 DEF NumberedDoc
    <3>4. ASSUME Distinct(old), NEW i \in DOMAIN old[f].links
          PROVE  LinkKept(new, i, old[f].links[i], new[P[f]].links[i])
      <4> DEFINE l == old[f].links[i]
      <4>1. l \in [to : DOMAIN old, bare : BOOLEAN]
        BY <1>6 DEF LinksInto
      <4>2. new[P[f]].links[i] = IF i = 1 THEN Follow(r.names, l) ELSE l
        BY <2>9
      <4> HIDE DEF l
      <4>3. l.to \in DOMAIN old
        BY <4>1
      <4>4. NewName(r.names, l.to) = P[l.to]
        BY <1>1, <1>2, <2>7, <3>4, <4>3, FollowLeads
      <4>5. \A h \in DOMAIN old : h[1] \in Nat /\ (P[h] = h \/ \A g \in DOMAIN old : g[1] < P[h][1])
        BY <1>1, <2>7 DEF Placed, NumberedNames
      <4>6. DOMAIN new = {P[h] : h \in DOMAIN old} /\ \A h \in DOMAIN old : new[P[h]].of = h
        BY <2>6, <2>8, <2>9
      <4>7. LinkKept(new, i, l, IF i = 1 THEN Follow(r.names, l) ELSE l)
        BY <4>1, <4>4, <4>5, <4>6, LinkIsKept
      <4> QED BY <4>2, <4>7 DEF l
    <3> QED BY <3>1, <3>2, <3>3, <3>4 DEF FileArrives
  <2> QED BY <2>10 DEF old, new, w
<1> QED BY <1>7, <1>8

-----------------------------------------------------------------------------
(* The questions about a renumbering: a few files, and the links of one.   *)
RenumberingAsked(q) ==
  /\ q.kind = "renumbering" /\ q.left \in Nat /\ NumberedFiles(q.files) /\ Cardinality(DOMAIN q.files) <= 5
  /\ \A f \in DOMAIN q.files : q.files[f].of = f
  /\ \A f \in DOMAIN q.files : LinksInto(q.files, q.files[f].links)

(* There are no more than five.                                            *)
LEMMA FewNumbered ==
  ASSUME NEW names \in SUBSET Numbered
  PROVE  /\ IsFiniteSet(names) /\ Cardinality(names) <= 5
         /\ \A f \in names : f \in NumberedNames /\ f[1] <= 2
<1> DEFINE N == {<<1, "x">>, <<1, "x-y">>, <<2, "x">>, <<2, "x-y">>, <<2, "z">>}
<1>1. Numbered = N
  BY DEF Numbered
<1>2. IsFiniteSet(N) /\ Cardinality(N) <= 5
  <2> DEFINE Few(T, m) == IsFiniteSet(T) /\ Cardinality(T) <= m
  <2>1. ASSUME NEW T, NEW m \in Nat, Few(T, m), NEW x
        PROVE  \A k \in Nat : k = m + 1 => Few(T \cup {x}, k)
    <3>1. /\ IsFiniteSet(T \cup {x}) /\ Cardinality(T) \in Nat
          /\ Cardinality(T \cup {x}) \in {Cardinality(T), Cardinality(T) + 1}
      BY <2>1, FS_AddElement, FS_CardinalityType
    <3> QED BY <2>1, <3>1
  <2> DEFINE a == {} \cup {<<1, "x">>}
             b == a \cup {<<1, "x-y">>}
             c == b \cup {<<2, "x">>}
             d == c \cup {<<2, "x-y">>}
             e == d \cup {<<2, "z">>}
  <2>2. N = e
    OBVIOUS
  <2>3. Few({}, 0)
    BY FS_EmptySet
  <2> HIDE DEF N, Few
  <2>4. Few(a, 1)
    <3>1. 0 \in Nat /\ 1 \in Nat /\ 1 = 0 + 1
      OBVIOUS
    <3> QED BY <2>1, <2>3, <3>1
  <2> HIDE DEF a
  <2>5. Few(b, 2)
    <3>1. 1 \in Nat /\ 2 \in Nat /\ 2 = 1 + 1
      OBVIOUS
    <3> QED BY <2>1, <2>4, <3>1
  <2> HIDE DEF b
  <2>6. Few(c, 3)
    <3>1. 2 \in Nat /\ 3 \in Nat /\ 3 = 2 + 1
      OBVIOUS
    <3> QED BY <2>1, <2>5, <3>1
  <2> HIDE DEF c
  <2>7. Few(d, 4)
    <3>1. 3 \in Nat /\ 4 \in Nat /\ 4 = 3 + 1
      OBVIOUS
    <3> QED BY <2>1, <2>6, <3>1
  <2> HIDE DEF d
  <2>8. Few(e, 5)
    <3>1. 4 \in Nat /\ 5 \in Nat /\ 5 = 4 + 1
      OBVIOUS
    <3> QED BY <2>1, <2>7, <3>1
  <2> HIDE DEF e
  <2> QED BY <2>2, <2>8 DEF Few
<1>3. IsFiniteSet(names) /\ Cardinality(names) <= 5
  <2> HIDE DEF N
  <2>1. names \in SUBSET N
    BY <1>1
  <2>2. /\ IsFiniteSet(names) /\ Cardinality(names) <= Cardinality(N)
    BY <1>2, <2>1, FS_Subset
  <2>3. Cardinality(names) \in Nat /\ Cardinality(N) \in Nat
    BY <1>2, <2>2, FS_CardinalityType
  <2> QED BY <1>2, <2>2, <2>3
<1>4. \A f \in Numbered : f \in NumberedNames /\ f[1] <= 2
  <2>1. {"x", "x-y", "z"} \subseteq ToSet(Rests)
    <3>1. DOMAIN Rests = 1..3 /\ Rests[1] = "x-y" /\ Rests[2] = "x" /\ Rests[3] = "z"
      BY DEF Rests
    <3> HIDE DEF Rests
    <3> QED BY <3>1 DEF ToSet
  <2> QED BY <2>1 DEF Numbered, NumberedNames
<1> QED BY <1>3, <1>4

(* The questions are all of this kind.                                     *)
LEMMA RenumberingsAsked ==
  ASSUME AskRenumbering
  PROVE  RenumberingAsked(asked')
<1>1. PICK names \in SUBSET Numbered, left \in 0..6 : \E from \in names :
        \E links \in SeqOf([to : names, bare : BOOLEAN], 2), ids \in BOOLEAN :
          Ask([kind |-> "renumbering", left |-> left,
               files |-> [f \in names |-> [of |-> f, id |-> IF ids THEN f[1] ELSE 0,
                                           links |-> IF f = from THEN links ELSE <<>>]]])
  BY DEF AskRenumbering
<1>2. PICK from \in names : \E links \in SeqOf([to : names, bare : BOOLEAN], 2), ids \in BOOLEAN :
          Ask([kind |-> "renumbering", left |-> left,
               files |-> [f \in names |-> [of |-> f, id |-> IF ids THEN f[1] ELSE 0,
                                           links |-> IF f = from THEN links ELSE <<>>]]])
  BY <1>1
<1>3. PICK links \in SeqOf([to : names, bare : BOOLEAN], 2), ids \in BOOLEAN :
        asked' = [kind |-> "renumbering", left |-> left,
                  files |-> [f \in names |-> [of |-> f, id |-> IF ids THEN f[1] ELSE 0,
                                              links |-> IF f = from THEN links ELSE <<>>]]]
  BY <1>2 DEF Ask
<1> DEFINE none == <<>>
           linksOf(f) == IF f = from THEN links ELSE none
           idOf(f) == IF ids THEN f[1] ELSE 0
           files == [f \in names |-> [of |-> f, id |-> idOf(f), links |-> linksOf(f)]]
           q == asked'
<1>4. q = [kind |-> "renumbering", left |-> left, files |-> files]
  BY <1>3
<1> DEFINE L == [to : names, bare : BOOLEAN]
<1>5. /\ links # <<>> => 1 \in DOMAIN links
      /\ \A i \in DOMAIN links : links[i] \in L
  <2>1. PICK m \in 0..2 : links \in [1..m -> L]
    BY DEF SeqOf
  <2> HIDE DEF L
  <2>2. links \in Seq(L) /\ DOMAIN links = 1..m /\ m \in Nat
    BY <2>1, SeqDef
  <2>3. links # <<>> => Len(links) # 0
    BY <2>2, EmptySeq
  <2>4. Len(links) = m
    BY <2>2, LenProperties
  <2> QED BY <2>1, <2>2, <2>3, <2>4
<1>6. \A f \in names : /\ linksOf(f) # <<>> => 1 \in DOMAIN linksOf(f)
                       /\ \A i \in DOMAIN linksOf(f) : linksOf(f)[i] \in L
                       /\ idOf(f) \in {0, f[1]}
  <2>1. none = <<>> /\ DOMAIN none = {}
    OBVIOUS
  <2> HIDE DEF none, L
  <2> QED BY <1>5, <2>1
<1> HIDE DEF linksOf, idOf
<1>7. /\ files = [f \in DOMAIN files |-> files[f]] /\ DOMAIN files = names
      /\ \A f \in names : files[f] = [of |-> f, id |-> idOf(f), links |-> linksOf(f)]
  OBVIOUS
<1> HIDE DEF files
<1>8. \A f \in names : files[f].of = f /\ files[f].id = idOf(f) /\ files[f].links = linksOf(f)
  BY <1>7
<1>9. \A f \in names : NumberedDoc(f, files[f])
  BY <1>6, <1>7, <1>8 DEF NumberedDoc
<1>10. IsFiniteSet(names) /\ Cardinality(names) <= 5 /\ \A f \in names : f \in NumberedNames /\ f[1] <= 2
  BY FewNumbered
<1>11. NumberedFiles(files)
  <2>1. 2 \in Nat
    OBVIOUS
  <2> QED BY <1>7, <1>9, <1>10, <2>1 DEF NumberedFiles
<1>12. q.kind = "renumbering" /\ q.left = left /\ q.files = files /\ left \in Nat
  BY <1>4
<1> HIDE DEF q
<1>13. \A f \in names : LinksInto(files, files[f].links)
  BY <1>6, <1>7, <1>8 DEF LinksInto
<1>14. RenumberingAsked(q)
  BY <1>7, <1>8, <1>10, <1>11, <1>12, <1>13 DEF RenumberingAsked
<1> QED BY <1>14 DEF q

(* A renumbering that is asked about keeps the items and the ways to them. *)
LEMMA RenumberingsKeep ==
  ASSUME NEW q, RenumberingAsked(q)
  PROVE  RenumberingKept(q)
<1> DEFINE old == q.files
           s == Rewriting(old, q.left)
           w == Rewriting(old, 99)
           killed == RenumberItems(s)
           v == Rewriting(killed.files, 99)
           again == RenumberItems(v).files
           new == RenumberItems(w).files
           c == Cardinality(DOMAIN old)
<1>1. /\ NumberedFiles(old) /\ c <= 5 /\ q.left \in Nat /\ old = [f \in DOMAIN old |-> old[f]]
      /\ \A f \in DOMAIN old : old[f].of = f
      /\ \A f \in DOMAIN old : LinksInto(old, old[f].links)
  BY DEF RenumberingAsked, NumberedFiles
<1>2. c \in Nat
  BY <1>1, FS_CardinalityType DEF NumberedFiles
<1>3. ToRenumber(s) /\ s.files = old /\ ToRenumber(w) /\ w.files = old /\ w.left = 99
  BY <1>1, RewriteBegins DEF ToRenumber
<1> HIDE DEF s, w, old
<1>4. /\ RewriteState(killed) /\ NumberedFiles(killed.files) /\ Items(killed.files) = Items(old)
      /\ Cardinality(DOMAIN killed.files) <= 2 * c
  BY <1>3, RenumberItemsKeeps DEF c
<1> HIDE DEF killed, c
<1>5. Cardinality(DOMAIN killed.files) \in Nat
  BY <1>4, FS_CardinalityType DEF NumberedFiles
<1>6. ToRenumber(v) /\ v.files = killed.files /\ v.left = 99
  BY <1>4, RewriteBegins DEF ToRenumber, RewriteState
<1> HIDE DEF v
<1>7. v.left > 2 * Cardinality(DOMAIN v.files)
  BY <1>1, <1>2, <1>4, <1>5, <1>6
<1>8. Items(again) = Items(killed.files) /\ \A f, g \in DOMAIN again : f[1] = g[1] => f = g
  BY <1>6, <1>7, RenumberItemsKeeps
<1>9. w.left > 4 * Cardinality(DOMAIN w.files)
  BY <1>1, <1>2, <1>3 DEF c
<1>10. \A f \in DOMAIN w.files : FileArrives(w.files, RenumberItems(w).files, f)
  BY <1>1, <1>3, <1>9, RenumberItemsArrive
<1>11. \A f \in DOMAIN old : FileArrives(old, new, f)
  BY <1>3, <1>10
<1> HIDE DEF new, again
<1>12. \A f \in DOMAIN old : \E g \in Places(new, f) :
         /\ Places(new, f) = {g} /\ (new[g].id # 0 => new[g].id = g[1])
         /\ Distinct(old) => \A i \in DOMAIN old[f].links : LinkKept(new, i, old[f].links[i], new[g].links[i])
  BY <1>11 DEF FileArrives
<1>13. Items(old) = Items(again)
  BY <1>4, <1>8
<1> QED BY <1>8, <1>12, <1>13 DEF RenumberingKept, old, again, new, v, killed, s, w

(* Neither rewrite that is asked about, killed wherever, loses an item or  *)
(* a way to one.                                                           *)
THEOREM RewritesAlwaysKeep == Spec => []RewritesKeepItems
<1>1. Init => RewritesKeepItems
  BY DEF Init, RewritesKeepItems, MigrationKeepsItems, RenumberingKeepsItems, Asked
<1>2. RewritesKeepItems /\ [Next]_asked => RewritesKeepItems'
  <2> SUFFICES ASSUME RewritesKeepItems, [Next]_asked PROVE RewritesKeepItems'
    OBVIOUS
  <2>1. CASE AskMigration
    <3>1. MigrationKeepsItems'
      <4>1. MigrationAsked(asked')
        BY <2>1, MigrationsAsked
      <4> QED BY <4>1, MigrationsKeep DEF MigrationKeepsItems
    <3>2. RenumberingKeepsItems'
      BY <2>1, KindsOfQuestions DEF RenumberingKeepsItems, Asked
    <3> QED BY <3>1, <3>2 DEF RewritesKeepItems
  <2>2. CASE AskRenumbering
    <3>1. RenumberingKeepsItems'
      <4>1. RenumberingAsked(asked')
        BY <2>2, RenumberingsAsked
      <4> QED BY <4>1, RenumberingsKeep DEF RenumberingKeepsItems
    <3>2. MigrationKeepsItems'
      BY <2>2, KindsOfQuestions DEF MigrationKeepsItems, Asked
    <3> QED BY <3>1, <3>2 DEF RewritesKeepItems
  <2>3. CASE AnyAsk /\ ~(AskMigration \/ AskRenumbering)
    <3>1. asked'.kind # "migration" /\ asked'.kind # "renumbering"
      BY <2>3, KindsOfQuestions DEF AnyAsk
    <3> QED BY <3>1 DEF RewritesKeepItems, MigrationKeepsItems, RenumberingKeepsItems, Asked
  <2>4. CASE UNCHANGED asked
    BY <2>4 DEF RewritesKeepItems, MigrationKeepsItems, RenumberingKeepsItems, Asked
  <2> QED BY <2>1, <2>2, <2>3, <2>4, NextAsks
<1> QED BY <1>1, <1>2, PTL DEF Spec
=============================================================================
