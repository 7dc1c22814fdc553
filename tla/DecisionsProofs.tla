-------------------------- MODULE DecisionsProofs ---------------------------
(***************************************************************************)
(* What the judgements of one task or file keep to for every input, and    *)
(* hence for every question that the runs ask: profile, recovery, lint,    *)
(* the audit of a backlog and gates; and what a scan makes of the files    *)
(* it judges.                                                              *)
(***************************************************************************)
EXTENDS BacklogProofs

(* A document that governance holds nothing against is an active, ready    *)
(* one for an agent, with its dependencies satisfied.                      *)
LEMMA GovernedTask ==
  ASSUME NEW doc, NEW deps, GovernanceReasons(doc, deps) = {}
  PROVE /\ doc.lifecycle = "active" /\ doc.status = "ready"
        /\ "afk" \in doc.tags /\ "hitl" \notin doc.tags
        /\ DependencyReasons(deps) = {}
<1>1. LifecycleReasons(doc) = {} /\ ClassificationReasons(doc) = {} /\ DependencyReasons(deps) = {}
  BY DEF GovernanceReasons
<1>2. "not_active" \notin LifecycleReasons(doc) /\ "not_ready" \notin LifecycleReasons(doc)
  BY <1>1
<1>3. doc.lifecycle = "active" /\ doc.status = "ready"
  BY <1>2 DEF LifecycleReasons, Holding
<1>4. "hitl" \notin ClassificationReasons(doc) /\ "missing_classification" \notin ClassificationReasons(doc)
  BY <1>1
<1>5. "hitl" \notin doc.tags /\ doc.tags \cap {"hitl", "afk"} # {}
  BY <1>4 DEF ClassificationReasons, Holding
<1> QED BY <1>1, <1>3, <1>5

(* What the status command says of the recovery of a ready task is what    *)
(* the recovery command does, whatever the task, the log and the checkout. *)
THEOREM RecoveryIsAsReported ==
  ASSUME NEW doc, NEW deps, NEW log, NEW git, NEW scope, doc.status = "ready"
  PROVE  RecoveredAsReported(TaskView(doc, deps, log), git, scope)
<1> DEFINE task == TaskView(doc, deps, log)
           plain == Recoverable(task, git, FALSE)
           uncertain == Recoverable(task, git, TRUE)
           A(force) == RecoveryAnswer(task, git, force, scope)
<1>1. task.status = "ready" /\ task.runtime.log = log
  BY DEF TaskView, Runtime
<1>2. ASSUME uncertain PROVE RecoverySafe(task) /\ ~task.runtime.ready /\ log # NoLog
  <2>1. task.runtime.markdownReady /\ ~task.runtime.executionReady /\ task.runtime.log # NoLog
    BY <1>2 DEF Recoverable
  <2>2. GovernanceReasons(doc, deps) = {}
    BY <2>1 DEF TaskView, Runtime
  <2>3. task.active /\ task.afk /\ ~task.hitl /\ task.satisfied
    BY <2>2, GovernedTask DEF TaskView
  <2>4. ~task.runtime.ready
    BY <2>1 DEF TaskView, Runtime
  <2> QED BY <1>1, <2>1, <2>3, <2>4 DEF RecoverySafe
<1>3. plain => uncertain
  BY DEF Recoverable
<1>4. RecoveryState(task, git) = "recoverable" <=> plain
  BY <1>1, <1>2, <1>3 DEF RecoveryState
<1>5. RecoveryState(task, git) = "force-required" <=> uncertain /\ ~plain
  BY <1>1, <1>2, <1>3 DEF RecoveryState
<1>6. A(FALSE) = "goes on" <=> plain
  BY <1>1, <1>2, <1>3 DEF RecoveryAnswer
<1>7. A(FALSE) = "TASK_RECOVERY_FORCE_REQUIRED" <=> uncertain /\ ~plain
  BY <1>1, <1>2, <1>3 DEF RecoveryAnswer
<1>8. uncertain => A(TRUE) \in {"goes on", "TASK_RECOVERY_UNRELATED_DIRTY_PATHS"}
  BY <1>1, <1>2, <1>3 DEF RecoveryAnswer
<1> QED BY <1>4, <1>5, <1>6, <1>7, <1>8 DEF RecoveredAsReported

(* The status report of a ready task that was interrupted keeps its word.  *)
THEOREM RecoveryStatusIsTrue == Spec => []RecoverableMeansRecovers
<1>1. Init => RecoverableMeansRecovers
  BY DEF Init, RecoverableMeansRecovers, Asked
<1>2. RecoverableMeansRecovers /\ [Next]_asked => RecoverableMeansRecovers'
  <2> SUFFICES ASSUME RecoverableMeansRecovers, [Next]_asked, asked'.kind = "recovery",
                      asked'.task.status = "ready"
               PROVE  RecoveredAsReported(asked'.task, asked'.git, asked'.scope)
    BY DEF RecoverableMeansRecovers, Asked
  <2>1. CASE AskRecovery
    <3>0. PICK expected \in Branches : \E task \in InterruptedTasks(expected) : \E git, scope :
            asked' = [kind |-> "recovery", scope |-> scope, task |-> task, git |-> git]
      BY <2>1 DEF AskRecovery, Ask
    <3>1. PICK task \in InterruptedTasks(expected) : \E git, scope :
            asked' = [kind |-> "recovery", scope |-> scope, task |-> task, git |-> git]
      BY <3>0
    <3>2. asked'.task = task
      BY <3>1
    <3>3. PICK s, tags, deps, log : asked'.task = Interrupted(s, tags, deps, log)
      BY <3>2 DEF InterruptedTasks
    <3> DEFINE doc == [Task EXCEPT !.status = s, !.tags = tags]
    <3>4. asked'.task = TaskView(doc, deps, log)
      BY <3>3 DEF Interrupted
    <3>5. doc.status = "ready"
      <4> HIDE DEF doc
      <4> QED BY <3>4 DEF TaskView
    <3> HIDE DEF doc
    <3> QED BY <3>4, <3>5, RecoveryIsAsReported
  <2>2. CASE AnyAsk /\ ~AskRecovery
    BY <2>2, KindsOfQuestions DEF AnyAsk
  <2>3. CASE UNCHANGED asked
    BY <2>3 DEF RecoverableMeansRecovers, Asked
  <2> QED BY <2>1, <2>2, <2>3, NextAsks
<1> QED BY <1>1, <1>2, PTL DEF Spec

-----------------------------------------------------------------------------

(* A table that passes as total has a value for every document that        *)
(* resolves, whatever the profile: such a document is one of the           *)
(* combinations that the compiler has looked at.                           *)
LEMMA TotalTables ==
  ASSUME NEW p, Compiles(p), ~p.allowUnknown,
         p.table.from = <<"status", "reason">>, p.table.total,
         NEW S, NEW R, NEW d \in [status : S, reason : R],
         d.status # Null, d.reason # Null, Resolves(p, d)
  PROVE  LookUp(p.table, d) # Null
<1> DEFINE known == [x \in {p.table.from[i] : i \in 1..1} |-> d[x]]
<1>1. CasesComplete(p) /\ TotalCovered(p)
  BY DEF Compiles
<1>2. d.status \in p.status
  BY DEF Resolves
<1>3. DOMAIN d = {"status", "reason"} /\ d = [x \in {"status", "reason"} |-> d[x]]
  OBVIOUS
<1>4. d.reason \in p.cases[d.status] \cup p.extension /\ d.status \in DOMAIN p.cases
  BY <1>1, <1>2 DEF Resolves, CasesComplete
<1>5. d.reason \in DomainOf(p, "reason", <<>>)
  BY <1>4 DEF DomainOf
<1>6. DomainOf(p, "status", [x \in {p.table.from[i] : i \in 1..0} |-> d[x]]) = p.status
  BY DEF DomainOf
<1>7. d.reason \in DomainOf(p, "reason", known)
  <2>1. "status" \in DOMAIN known /\ known["status"] = d.status
    OBVIOUS
  <2> HIDE DEF known
  <2> QED BY <1>4, <2>1 DEF DomainOf
<1>8. \A k \in DOMAIN p.table.from : d[p.table.from[k]] \in
        DomainOf(p, p.table.from[k], [x \in {p.table.from[i] : i \in 1..(k - 1)} |-> d[x]])
  <2>1. DOMAIN p.table.from = {1, 2} /\ p.table.from[1] = "status" /\ p.table.from[2] = "reason"
    OBVIOUS
  <2>2. 1 - 1 = 0 /\ 2 - 1 = 1
    OBVIOUS
  <2> QED BY <1>2, <1>6, <1>7, <2>1, <2>2
<1>9. d \in Combinations(p)
  <2>1. d \in [{"status", "reason"} -> p.status \cup DomainOf(p, "reason", <<>>)]
    BY <1>2, <1>3, <1>5
  <2> QED BY <1>8, <2>1 DEF Combinations
<1> QED BY <1>1, <1>9 DEF TotalCovered

(* The schema generated from any profile that compiles and the resolution  *)
(* of its states accept the same documents, but for a missing status or a  *)
(* missing required reason.                                                *)
LEMMA SchemasAgree ==
  ASSUME NEW t, NEW c, NEW x, NEW q, NEW u, NEW d, Compiles(Profile(t, c, x, q, u))
  PROVE  LET p == Profile(t, c, x, q, u) IN
         /\ SchemaAccepts(p, d) => Resolves(p, d)
         /\ Resolves([p EXCEPT !.allowUnknown = FALSE], d) /\ d.status # Null
              => (SchemaAccepts(p, d) <=> ~(d.status \in p.required /\ d.reason = Null))
<1> DEFINE p == Profile(t, c, x, q, u)
           strict == [p EXCEPT !.allowUnknown = FALSE]
<1>1. DOMAIN p.cases = p.status /\ p.required \subseteq DOMAIN p.cases
  BY DEF Compiles, CasesComplete, RequiredKnown
<1>2. /\ strict.status = p.status /\ strict.cases = p.cases /\ strict.extension = p.extension
      /\ strict.allowUnknown = FALSE
  BY DEF Profile
<1>3. SchemaAccepts(p, d) => Resolves(p, d)
  <2> HIDE DEF p
  <2> QED BY <1>1 DEF SchemaAccepts, Resolves
<1>4. Resolves(strict, d) /\ d.status # Null
        => (SchemaAccepts(p, d) <=> ~(d.status \in p.required /\ d.reason = Null))
  <2> HIDE DEF p, strict
  <2> QED BY <1>1, <1>2 DEF SchemaAccepts, Resolves
<1> QED BY <1>3, <1>4

(* A profile that compiles may be trusted, whatever the statuses, reasons  *)
(* and extensions of the profiles.                                         *)
THEOREM CompiledProfilesAreTrue == Spec => []CompiledIsTrusted
<1>1. Init => CompiledIsTrusted
  BY DEF Init, CompiledIsTrusted, TotalMeansTotal, SchemaAgrees, Asked
<1>2. CompiledIsTrusted /\ [Next]_asked => CompiledIsTrusted'
  <2> SUFFICES ASSUME CompiledIsTrusted, [Next]_asked PROVE CompiledIsTrusted'
    OBVIOUS
  <2>1. CASE AskTable
    <3>1. PICK t \in Tables, c \in Cases, x \in SUBSET Extra :
            asked' = [kind |-> "table", profile |-> Profile(t, c, x, {}, FALSE)]
      BY <2>1 DEF AskTable, Ask
    <3> DEFINE p == Profile(t, c, x, {}, FALSE)
    <3>2. p.table.from = <<"status", "reason">> /\ p.table.total /\ ~p.allowUnknown
      BY DEF Tables, Profile
    <3>3. asked'.profile = p /\ asked'.kind = "table"
      BY <3>1
    <3> HIDE DEF p
    <3>4. ASSUME NEW d \in Docs, Compiles(p), d.status # Null, d.reason # Null, Resolves(p, d)
          PROVE  LookUp(p.table, d) # Null
      BY <3>2, <3>4, TotalTables DEF Docs
    <3> QED BY <3>3, <3>4 DEF CompiledIsTrusted, TotalMeansTotal, SchemaAgrees, Asked
  <2>2. CASE AskSchema
    <3>1. PICK t, c, x, q, u : asked' = [kind |-> "schema", profile |-> Profile(t, c, x, q, u)]
      BY <2>2 DEF AskSchema, Ask
    <3>2. asked'.profile = Profile(t, c, x, q, u) /\ asked'.kind = "schema"
      BY <3>1
    <3> QED BY <3>2, SchemasAgree DEF CompiledIsTrusted, TotalMeansTotal, SchemaAgrees, Asked
  <2>3. CASE AnyAsk /\ ~AskTable /\ ~AskSchema
    <3>1. asked'.kind \notin {"table", "schema"}
      BY <2>3, KindsOfQuestions DEF AnyAsk
    <3> QED BY <3>1 DEF CompiledIsTrusted, TotalMeansTotal, SchemaAgrees, Asked
  <2>4. CASE UNCHANGED asked
    BY <2>4 DEF CompiledIsTrusted, TotalMeansTotal, SchemaAgrees, Asked
  <2> QED BY <2>1, <2>2, <2>3, <2>4, NextAsks
<1> QED BY <1>1, <1>2, PTL DEF Spec

-----------------------------------------------------------------------------

(* Sequences of one and of two.                                            *)
LEMMA PairsOfTwo ==
  ASSUME NEW x, NEW y
  PROVE  /\ Append(<<x>>, y) = <<x, y>>
         /\ SubSeq(<<x, y>>, 1, 1) = <<x>> /\ SubSeq(<<x, y>>, 1, 2) = <<x, y>>
         /\ Len(<<x>>) = 1 /\ Len(<<x, y>>) = 2
<1> DEFINE q == SubSeq(<<x, y>>, 1, 2)
           a == Append(<<x>>, y)
           p == SubSeq(<<x, y>>, 1, 1)
<1>1. <<x, y>> \in Seq({x, y}) /\ <<x>> \in Seq({x, y}) /\ Len(<<x, y>>) = 2 /\ Len(<<x>>) = 1
  OBVIOUS
<1>2. q \in Seq({x, y}) /\ Len(q) = 2 /\ q[1] = x /\ q[2] = y
  BY <1>1, SubSeqProperties
<1>3. a \in Seq({x, y}) /\ Len(a) = 2 /\ a[1] = x /\ a[2] = y
  BY <1>1, AppendProperties
<1>4. p \in Seq({x, y}) /\ Len(p) = 1 /\ p[1] = x
  BY <1>1, SubSeqProperties
<1>5. <<x, y>>[1] = x /\ <<x, y>>[2] = y /\ <<x>>[1] = x
  OBVIOUS
<1> HIDE DEF q, a, p
<1>6. (\A i \in 1..2 : i = 1 \/ i = 2) /\ \A i \in 1..1 : i = 1
  OBVIOUS
<1>7. q = <<x, y>>
  BY <1>1, <1>2, <1>5, <1>6, SeqEqual
<1>8. a = <<x, y>>
  BY <1>1, <1>3, <1>5, <1>6, SeqEqual
<1>9. p = <<x>>
  BY <1>1, <1>4, <1>5, <1>6, SeqEqual
<1> QED BY <1>1, <1>7, <1>8, <1>9 DEF q, a, p

(* The walk through a lookup table of two levels, step by step.            *)
Step1(table, st) ==
  IF st[table.from[1]] # Null /\ Leads(table.map, <<st[table.from[1]]>>) THEN st[table.from[1]] ELSE Star
(* The second step.                                                        *)
Step2(table, st) == LET v == st[table.from[2]] IN
  IF v # Null /\ Leads(table.map, <<Step1(table, st), v>>) THEN v ELSE Star

(* A table over two dimensions is looked up under the two steps.           *)
LEMMA WalkOfTwo ==
  ASSUME NEW table, NEW st, Len(table.from) = 2
  PROVE  Walk(table, st) = <<Step1(table, st), Step2(table, st)>>
<1> DEFINE a == Step1(table, st)
           b == Step2(table, st)
           next(here, k) == Append(here,
             IF st[table.from[k]] # Null /\ Leads(table.map, Append(here, st[table.from[k]]))
             THEN st[table.from[k]] ELSE Star)
           Is(w) == w = [k \in 0..2 |-> IF k = 0 THEN <<>> ELSE next(w[k - 1], k)]
           g == [k \in 0..2 |-> IF k = 0 THEN <<>> ELSE IF k = 1 THEN <<a>> ELSE <<a, b>>]
<1>1. next(<<>>, 1) = <<a>>
  BY DEF Step1
<1>2. next(<<a>>, 2) = <<a, b>>
  BY PairsOfTwo DEF Step2
<1>3. Is(g)
  <2> HIDE DEF a, b, next
  <2>1. \A k \in 0..2 : g[k] = IF k = 0 THEN <<>> ELSE next(g[k - 1], k)
    BY <1>1, <1>2
  <2> QED BY <2>1
<1>4. ASSUME NEW w, Is(w) PROVE w[2] = <<a, b>>
  <2> HIDE DEF a, b, next
  <2>1. \A k \in 0..2 : w[k] = IF k = 0 THEN <<>> ELSE next(w[k - 1], k)
    BY <1>4
  <2>2. w[0] = <<>> /\ w[1] = next(w[0], 1) /\ w[2] = next(w[1], 2)
    BY <2>1
  <2> QED BY <1>1, <1>2, <2>2
<1>5. Is(CHOOSE w : Is(w))
  <2> HIDE DEF Is, g
  <2> QED BY <1>3
<1>6. Walk(table, st) = (CHOOSE w : Is(w))[2]
  BY DEF Walk
<1> HIDE DEF Is
<1> QED BY <1>4, <1>5, <1>6

(* A state of the default profile has the category of its row.             *)
LEMMA CategoryOfPair ==
  ASSUME NEW s, NEW r, <<s, r>> \in Pairs
  PROVE  Vector(s, r).category = CategoryOf(s, r)
<1> DEFINE st == [status |-> s, reason |-> r]
<1>1. /\ Len(Categories.from) = 2 /\ Categories.from[1] = "status" /\ Categories.from[2] = "reason"
      /\ DOMAIN Categories.map = Pairs
  BY DEF Categories
<1>2. s # Null /\ r # Null
  BY DEF Pairs, WorkStatus, Reasons, Null
<1>3. Leads(Categories.map, <<s>>) /\ Leads(Categories.map, <<s, r>>)
  <2>1. <<s, r>> \in DOMAIN Categories.map
    BY <1>1
  <2> DEFINE q == <<s, r>>
             p == <<s>>
  <2>2. Len(p) = 1 /\ Len(q) = 2 /\ SubSeq(q, 1, 1) = p /\ SubSeq(q, 1, 2) = q
    BY PairsOfTwo
  <2>3. q \in DOMAIN Categories.map
    BY <2>1
  <2> HIDE DEF p, q
  <2>4. Leads(Categories.map, p) /\ Leads(Categories.map, q)
    BY <2>2, <2>3 DEF Leads
  <2> QED BY <2>4 DEF p, q
<1>4. Step1(Categories, st) = s
  BY <1>1, <1>2, <1>3 DEF Step1
<1>5. Step2(Categories, st) = r
  BY <1>1, <1>2, <1>3, <1>4 DEF Step2
<1>6. Walk(Categories, st) = <<s, r>>
  BY <1>1, <1>4, <1>5, WalkOfTwo
<1>7. LookUp(Categories, st) = Categories.map[<<s, r>>]
  BY <1>1, <1>6 DEF LookUp
<1>8. Categories.map[<<s, r>>] = CategoryOf(s, r)
  BY DEF Categories
<1> QED BY <1>7, <1>8 DEF Vector

(* No rule of the default profile leads out of what is done.               *)
LEMMA NoRuleLeadsOut ==
  ASSUME NEW s, NEW r, <<s, r>> \in Pairs, Vector(s, r).category \in {"completed", "decision"}, NEW to
  PROVE  Matching(Rules, Vector(s, r), to) = {}
<1> DEFINE v == Vector(s, r)
<1>1. s \in WorkStatus /\ CategoryOf(s, r) \in {"completed", "decision"}
  BY CategoryOfPair DEF Pairs
<1>2. s \notin Open
  BY <1>1 DEF CategoryOf, Open
<1>3. v.status \notin Open /\ v.status = s
  BY <1>2 DEF Vector
<1>4. v.category \in {"completed", "decision"}
  OBVIOUS
<1>5. \A c \in {"intake", "planning", "execution", "review"} : \A S : 
        ~SelectorMatches(Category(c), v) /\ ~SelectorMatches(Both(S, c), v)
  <2> HIDE DEF v
  <2> QED BY <1>4 DEF SelectorMatches, Star, Category, Both
<1>6. ~SelectorMatches([status |-> Open], v)
  <2> HIDE DEF v
  <2> QED BY <1>3 DEF SelectorMatches, Star, Open
<1>7. ASSUME NEW i \in DOMAIN Rules PROVE ~SelectorMatches(Rules[i].from, v)
  <2> HIDE DEF v
  <2>1. \A from, till : Rule(from, till).from = from
    BY DEF Rule
  <2>2. \/ Rules[i].from = [status |-> Open]
        \/ \E c \in {"intake", "planning", "execution", "review"} : \E S : 
             Rules[i].from = Category(c) \/ Rules[i].from = Both(S, c)
    <3>1. DOMAIN Rules = 1..14
      BY DEF Rules
    <3> QED BY <2>1, <3>1 DEF Rules
  <2> QED BY <1>5, <1>6, <2>2
<1> QED BY <1>7 DEF Matching

(* Whatever files are linted and whatever the configuration says, an item  *)
(* that was done at the base and is in another state now fails the lint.   *)
THEOREM ReopeningNeverPasses ==
  ASSUME NEW files, NEW f \in ToSet(files), NEW paths, f.path \in paths, NEW base,
         NEW changed, NEW strict, NEW severity, NEW was, was = base[f.path],
         f.kind = "work-item", f.default, was # Nowhere, ~Skipped(f, severity),
         <<was.status, was.reason>> \in Pairs,
         Vector(was.status, was.reason).category \in {"completed", "decision"},
         <<f.status, f.reason>> # <<was.status, was.reason>>
  PROVE  ~LintPasses(files, paths, base, changed, strict, severity)
<1> DEFINE v == Vector(was.status, was.reason)
           w == Vector(f.status, f.reason)
<1>1. v # w
  <2>1. v.status = was.status /\ v.reason = was.reason /\ w.status = f.status /\ w.reason = f.reason
    BY DEF Vector
  <2> HIDE DEF v, w
  <2> QED BY <2>1
<1>2. ~Allowed(v, w)
  <2>1. Matching(Contract.rules, v, w) = {}
    BY NoRuleLeadsOut DEF Contract
  <2> HIDE DEF v, w
  <2> QED BY <1>1, <2>1 DEF Allowed, Evaluate
<1>3. PICK c \in {"status-transition-state-invalid", "status-transition-invalid"} :
        c \in TransitionCodes(f, was)
  BY <1>2 DEF TransitionCodes
<1>4. c \in Codes(files, f, was, changed)
  BY <1>3 DEF Codes
<1>5. Severity(Diagnostic(c), strict, severity) = "error"
  BY <1>3 DEF Severity, Diagnostic
<1>6. FileFails(files, f, was, changed, strict, severity)
  BY <1>4, <1>5 DEF FileFails
<1> QED BY <1>6 DEF LintPasses

(* What is done stays as it is, or the lint fails.                         *)
THEOREM ReopeningFails == Spec => []ReopeningFailsLint
<1>1. Init => ReopeningFailsLint
  BY DEF Init, ReopeningFailsLint, Asked
<1>2. ReopeningFailsLint /\ [Next]_asked => ReopeningFailsLint'
  <2> SUFFICES ASSUME ReopeningFailsLint, [Next]_asked PROVE ReopeningFailsLint'
    OBVIOUS
  <2>1. CASE AskLint
    <3>0. PICK was \in ItemStates, is \in ItemStates, place \in {"active", "archive"},
               severity \in Severities, strict \in BOOLEAN :
            Ask([kind |-> "lint", files |-> <<Linted(place, "1", is)>>,
                 base |-> [p \in {<<place, "1">>} |-> Linted(place, "1", was)],
                 changed |-> IF was = is THEN {} ELSE {<<place, "1">>},
                 severity |-> severity, strict |-> strict])
      BY <2>1 DEF AskLint
    <3> DEFINE changed == IF was = is THEN {} ELSE {<<place, "1">>}
    <3>1. asked' = [kind |-> "lint", files |-> <<Linted(place, "1", is)>>,
                    base |-> [p \in {<<place, "1">>} |-> Linted(place, "1", was)],
                    changed |-> changed, severity |-> severity, strict |-> strict]
      BY <3>0 DEF Ask
    <3>a. place # "flat"
      BY <3>0
    <3> HIDE DEF changed
    <3> DEFINE f == Linted(place, "1", is)
               g == Linted(place, "1", was)
               base == [p \in {<<place, "1">>} |-> g]
    <3>b. f.path = <<place, "1">> /\ f.kind = "work-item" /\ f.default
      BY <3>a DEF Linted, LintedItem, LintedPath
    <3>2. f.path = <<place, "1">> /\ base[f.path] = g /\ f.kind = "work-item" /\ f.default
      <4> HIDE DEF f, g
      <4> QED BY <3>b
    <3>3. g # Nowhere
      BY DEF Linted, LintedItem, Nowhere
    <3>4. /\ asked'.kind = "lint" /\ asked'.files = <<f>> /\ asked'.base = base
          /\ asked'.changed = changed /\ asked'.severity = severity /\ asked'.strict = strict
      BY <3>1
    <3>5. <<f>>[1] = f /\ f \in ToSet(<<f>>)
      BY DEF ToSet
    <3> HIDE DEF f, g, base
    <3>6. ASSUME <<g.status, g.reason>> \in Pairs, ~Skipped(f, severity),
                 Vector(g.status, g.reason).category \in {"completed", "decision"},
                 <<f.status, f.reason>> # <<g.status, g.reason>>
          PROVE  ~LintPasses(<<f>>, {f.path}, base, changed, strict, severity)
      BY <3>2, <3>3, <3>5, <3>6, ReopeningNeverPasses
    <3> QED BY <3>2, <3>4, <3>5, <3>6 DEF ReopeningFailsLint, Asked
  <2>2. CASE AnyAsk /\ ~AskLint
    <3>1. asked'.kind # "lint"
      BY <2>2, KindsOfQuestions DEF AnyAsk
    <3> QED BY <3>1 DEF ReopeningFailsLint, Asked
  <2>3. CASE UNCHANGED asked
    BY <2>3 DEF ReopeningFailsLint, Asked
  <2> QED BY <2>1, <2>2, <2>3, NextAsks
<1> QED BY <1>1, <1>2, PTL DEF Spec

-----------------------------------------------------------------------------
(* What a reference of a linted backlog means: the last item of that path  *)
(* or id if there is one, else the first of that leaf.                     *)
LEMMA WhatIsMeant ==
  ASSUME NEW S, NEW files \in Seq(S), NEW ref, Meant(files, ref) # Nowhere
  PROVE  \E k \in DOMAIN files :
         /\ Meant(files, ref) = files[k] /\ IsItem(files[k]) /\ Means(files[k], ref)
         /\ \A j \in DOMAIN files : k < j /\ IsItem(files[j]) =>
              ~ByPath(files[j], ref) /\ ~ByIdOf(files[j], ref)
<1> DEFINE n == Len(files)
           IsNamed(d) == IsItem(d) /\ (ByPath(d, ref) \/ ByIdOf(d, ref))
           I == {i \in 1..n : IsNamed(files[i])}
           J == {i \in 1..n : IsItem(files[i]) /\ ByLeaf(files[i], ref)}
           last == IF I # {} THEN Max(I) ELSE 0
           leaf == IF J # {} THEN Min(J) ELSE 0
           m == Meant(files, ref)
<1>1. m = IF last # 0 THEN files[last] ELSE IF leaf # 0 THEN files[leaf] ELSE Nowhere
  BY DEF Meant, SelectLastInSeq, SelectInSeq
<1>2. n \in Nat /\ DOMAIN files = 1..n /\ ToSet(files) = {files[i] : i \in 1..n}
  BY DEF ToSet
<1>3. I \in SUBSET (0..n) /\ J \in SUBSET Nat
  BY <1>2
<1>4. I # {} => last \in I
  <2> HIDE DEF I
  <2> QED BY <1>2, <1>3, F!MaxOfSet DEF Max, F!Max
<1>5. J # {} => leaf \in J
  <2> HIDE DEF J
  <2> QED BY <1>3, F!MinOfSet DEF Min, F!Min
<1>6. last # 0 => last \in 1..n /\ IsNamed(files[last])
  BY <1>4
<1>7. leaf # 0 => leaf \in 1..n /\ IsItem(files[leaf]) /\ ByLeaf(files[leaf], ref)
  BY <1>5
<1>8. last \in 0..n
  BY <1>4, <1>3
<1>9. \A j \in I : j <= last
  <2> HIDE DEF I
  <2> QED BY <1>2, <1>3, F!MaxOfSet DEF Max, F!Max
<1>10. ASSUME NEW j \in 1..n, last < j PROVE ~IsNamed(files[j])
  <2> SUFFICES ASSUME IsNamed(files[j]) PROVE FALSE
    OBVIOUS
  <2>1. j <= last
    BY <1>9
  <2> HIDE DEF last
  <2> QED BY <1>2, <1>8, <1>10, <2>1
<1> HIDE DEF last, leaf, m, I, J
<1>11. CASE last # 0
  <2>1. \A j \in DOMAIN files : last < j /\ IsItem(files[j]) => ~ByPath(files[j], ref) /\ ~ByIdOf(files[j], ref)
    BY <1>2, <1>10
  <2>2. last \in DOMAIN files /\ Meant(files, ref) = files[last]
    BY <1>1, <1>2, <1>6, <1>11 DEF m
  <2> QED BY <1>6, <1>11, <2>1, <2>2 DEF Means
<1>12. CASE last = 0
  <2>1. leaf # 0 /\ m = files[leaf]
    BY <1>1, <1>12 DEF m
  <2>2. \A j \in DOMAIN files : IsItem(files[j]) => ~ByPath(files[j], ref) /\ ~ByIdOf(files[j], ref)
    BY <1>2, <1>10, <1>12
  <2>3. leaf \in DOMAIN files /\ Meant(files, ref) = files[leaf]
    BY <1>2, <1>7, <2>1 DEF m
  <2> QED BY <1>7, <2>1, <2>2, <2>3 DEF Means
<1> QED BY <1>11, <1>12

(* Files that references can tell apart: no two have a path, no item's id  *)
(* is the name of a file, and two items with one id are files of one name. *)
Distinguishable(files) ==
  /\ \A i, j \in DOMAIN files : files[i].path = files[j].path => i = j
  /\ \A f, g \in ToSet(files) :
       /\ (\E dir, name : f.path = <<dir, name>>) \/ (\E name : f.path = <<name>>)
       /\ f.id # LeafOf(g) /\ (f.id = g.id => LeafOf(f) = LeafOf(g))

(* The path of a flat file is its leaf, and that of no other is one part.  *)
LEMMA PathsAndLeaves ==
  ASSUME NEW f, (\E dir, name : f.path = <<dir, name>>) \/ (\E name : f.path = <<name>>)
  PROVE  /\ \A x : f.path = <<x>> => x = LeafOf(f)
         /\ IsFlat(f) => f.path = <<LeafOf(f)>>
<1>1. CASE \E dir, name : f.path = <<dir, name>>
  <2>1. PICK dir, name : f.path = <<dir, name>>
    BY <1>1
  <2>2. Len(f.path) = 2
    BY <2>1
  <2>3. \A x : Len(<<x>>) = 1
    OBVIOUS
  <2>4. \A x : f.path # <<x>>
    BY <2>2, <2>3
  <2> QED BY <2>2, <2>4 DEF IsFlat
<1>2. CASE \E name : f.path = <<name>>
  <2>1. PICK name : f.path = <<name>>
    BY <1>2
  <2>2. LeafOf(f) = name
    BY <2>1 DEF LeafOf, Last
  <2> QED BY <2>1, <2>2
<1> QED BY <1>1, <1>2

(* Two files that one reference may mean have one leaf.                    *)
LEMMA OneLeaf ==
  ASSUME NEW files, Distinguishable(files), NEW d \in ToSet(files), NEW m \in ToSet(files),
         NEW ref, Means(d, ref), Means(m, ref)
  PROVE  LeafOf(d) = LeafOf(m)
<1>1. /\ d.id # LeafOf(m) /\ m.id # LeafOf(d) /\ (d.id = m.id => LeafOf(d) = LeafOf(m))
      /\ d.id # LeafOf(d) /\ m.id # LeafOf(m)
      /\ (\E dir, name : d.path = <<dir, name>>) \/ (\E name : d.path = <<name>>)
      /\ (\E dir, name : m.path = <<dir, name>>) \/ (\E name : m.path = <<name>>)
  BY DEF Distinguishable
<1>2. \A x, y : <<x>> = <<y>> => x = y
  OBVIOUS
<1>3. /\ \A x : d.path = <<x>> => x = LeafOf(d)
      /\ \A x : m.path = <<x>> => x = LeafOf(m)
  BY <1>1, PathsAndLeaves
<1>4. CASE ByPath(d, ref) /\ ByPath(m, ref)
  BY <1>4 DEF ByPath, LeafOf
<1>5. CASE ByPath(d, ref) /\ ~ByPath(m, ref)
  BY <1>1, <1>3, <1>5 DEF Means, ByPath, ByLeaf, ByIdOf
<1>6. CASE ByPath(m, ref) /\ ~ByPath(d, ref)
  BY <1>1, <1>3, <1>6 DEF Means, ByPath, ByLeaf, ByIdOf
<1>7. CASE ~ByPath(m, ref) /\ ~ByPath(d, ref)
  BY <1>1, <1>2, <1>7 DEF Means, ByLeaf, ByIdOf
<1> QED BY <1>4, <1>5, <1>6, <1>7

(* An item that is read after another of its leaf, and against which the   *)
(* lint has no word, is flat.                                              *)
LEMMA LaterIsFlat ==
  ASSUME NEW S, NEW files \in Seq(S), ~SameLeaf(files), NEW i \in DOMAIN files, NEW k \in DOMAIN files,
         i < k, IsItem(files[i]), IsItem(files[k]), LeafOf(files[i]) = LeafOf(files[k])
  PROVE  IsFlat(files[k])
<1>1. i \in 1..(k - 1)
  OBVIOUS
<1>2. ByLeaf(files[i], <<LeafOf(files[k])>>)
  BY DEF ByLeaf
<1>3. Taken(files, k, <<LeafOf(files[k])>>)
  BY <1>1, <1>2 DEF Taken
<1> QED BY <1>3 DEF SameLeaf

(* Of the files that a reference may mean all are hidden but the one that  *)
(* it does mean.                                                           *)
LEMMA OneIsNotHidden ==
  ASSUME NEW S, NEW files \in Seq(S), Distinguishable(files), ~SameLeaf(files),
         \A g \in ToSet(files) : IsItem(g), NEW ref, Meant(files, ref) # Nowhere
  PROVE  LET m == Meant(files, ref) IN
         /\ m \in ToSet(files) /\ Means(m, ref) /\ ~Hidden(files, m, ref)
         /\ \A d \in ToSet(files) : Means(d, ref) /\ ~Hidden(files, d, ref) => d = m
<1> DEFINE m == Meant(files, ref)
<1>1. PICK k \in DOMAIN files :
        /\ m = files[k] /\ IsItem(files[k]) /\ Means(files[k], ref)
        /\ \A j \in DOMAIN files : k < j /\ IsItem(files[j]) => ~ByPath(files[j], ref) /\ ~ByIdOf(files[j], ref)
  BY WhatIsMeant
<1> HIDE DEF m
<1>2. DOMAIN files \subseteq Nat /\ ToSet(files) = {files[x] : x \in DOMAIN files}
  BY DEF ToSet
<1>3. \A x \in DOMAIN files : files[x] \in ToSet(files) /\ IsItem(files[x])
  BY <1>2
<1>4. ASSUME NEW j \in DOMAIN files, k < j, IsFlat(files[j]), Means(files[j], ref) PROVE FALSE
  <2>1. ~ByPath(files[j], ref) /\ ~ByIdOf(files[j], ref)
    BY <1>1, <1>3, <1>4
  <2>2. files[j].path = <<LeafOf(files[j])>>
    <3>1. (\E dir, name : files[j].path = <<dir, name>>) \/ (\E name : files[j].path = <<name>>)
      BY <1>3 DEF Distinguishable
    <3> QED BY <1>4, <3>1, PathsAndLeaves
  <2> QED BY <1>4, <2>1, <2>2 DEF Means, ByPath, ByLeaf
<1>5. ~Hidden(files, m, ref)
  <2> SUFFICES ASSUME NEW i \in DOMAIN files, NEW j \in DOMAIN files, i < j, files[i] = m,
                      IsFlat(files[j]), Means(files[j], ref)
               PROVE  FALSE
    BY DEF Hidden
  <2>1. i = k
    BY <1>1 DEF Distinguishable
  <2> QED BY <1>4, <2>1
<1>6. ASSUME NEW d \in ToSet(files), Means(d, ref), ~Hidden(files, d, ref) PROVE d = m
  <2>1. PICK i \in DOMAIN files : d = files[i]
    BY <1>2
  <2>2. LeafOf(files[i]) = LeafOf(files[k])
    BY <1>1, <1>3, <1>6, <2>1, OneLeaf
  <2>3. CASE i < k
    <3>1. IsFlat(files[k])
      BY <1>3, <2>2, <2>3, LaterIsFlat
    <3>2. Hidden(files, d, ref)
      BY <1>1, <2>1, <2>3, <3>1 DEF Hidden
    <3> QED BY <1>6, <3>2
  <2>4. CASE k < i
    <3>1. IsFlat(files[i])
      BY <1>3, <2>2, <2>4, LaterIsFlat
    <3> QED BY <1>4, <1>6, <2>1, <2>4, <3>1
  <2>5. CASE i = k
    BY <1>1, <2>1, <2>5
  <2> QED BY <1>2, <2>3, <2>4, <2>5
<1> QED BY <1>1, <1>3, <1>5, <1>6 DEF m

(* When a backlog passes the lint as a whole, every file that a completed  *)
(* item's dependency may mean, and that no flat file read later hides, is  *)
(* that of a terminal item, and there is one, however many files there are *)
(* and whatever the configuration says.                                    *)
THEOREM LintedIsSettled ==
  ASSUME NEW S, NEW files \in Seq(S), NEW paths, NEW base, NEW changed, NEW strict, NEW severity,
         \A g \in ToSet(files) : g.path \in paths,
         \A g \in ToSet(files) : IsItem(g) \/ (g.kind = "broken" /\ ~Skipped(g, severity)),
         Distinguishable(files), LintPasses(files, paths, base, changed, strict, severity),
         NEW f \in ToSet(files), f.status = "completed", ~Skipped(f, severity), NEW ref \in f.deps
  PROVE  /\ \E d \in ToSet(files) : Means(d, ref) /\ ~Hidden(files, d, ref)
         /\ \A d \in ToSet(files) : Means(d, ref) /\ ~Hidden(files, d, ref) => d.status \in Terminal
<1> DEFINE m == Meant(files, ref)
<1>1. /\ ~SameLeaf(files)
      /\ \A g \in ToSet(files) : ~Skipped(g, severity) =>
           ~FileFails(files, g, base[g.path], changed, strict, severity)
  BY DEF LintPasses
<1>2. \A g \in ToSet(files) : IsItem(g)
  BY <1>1 DEF FileFails
<1>3. \A c \in Codes(files, f, base[f.path], changed) :
        Severity(Diagnostic(c), strict, severity) # "error"
  BY <1>1 DEF FileFails
<1>4. "depends-on-not-found" \notin Codes(files, f, base[f.path], changed)
      /\ "depends-on-completed-required" \notin Codes(files, f, base[f.path], changed)
  BY <1>3 DEF Severity, Diagnostic
<1>5. "depends-on-not-found" \notin DependencyCodes(files, f)
      /\ "depends-on-completed-required" \notin CompletedCodes(files, f)
  BY <1>2, <1>4 DEF Codes, IsItem
<1>6. m # Nowhere
  BY <1>5 DEF DependencyCodes
<1>7. m.status \in Terminal
  BY <1>5, <1>6 DEF CompletedCodes
<1>8. /\ m \in ToSet(files) /\ Means(m, ref) /\ ~Hidden(files, m, ref)
      /\ \A d \in ToSet(files) : Means(d, ref) /\ ~Hidden(files, d, ref) => d = m
  BY <1>1, <1>2, <1>6, OneIsNotHidden
<1> QED BY <1>7, <1>8

(* One of the files that the lint is asked about.                          *)
OfBacklog(f) == \E place \in Places2, n \in {"1", "2", "3"}, st \in States,
                   deps \in Referring, default \in BOOLEAN, kind \in {"work-item", "broken"} :
  /\ f = LintedItem(place, n, st, deps, default, kind)
  /\ kind = "broken" => place = "active"

(* Such files can be told apart, and none that is broken is exempt.        *)
LEMMA FilesOfBacklog ==
  ASSUME NEW files, \A f \in ToSet(files) : OfBacklog(f), NEW severity,
         \A i, j \in DOMAIN files : files[i].path = files[j].path => i = j
  PROVE  /\ Distinguishable(files)
         /\ \A g \in ToSet(files) : IsItem(g) \/ (g.kind = "broken" /\ ~Skipped(g, severity))
<1>1. ASSUME NEW f \in ToSet(files)
      PROVE  \E n \in {"1", "2", "3"} : LeafOf(f) = n /\ f.id = LintedIds[n]
               /\ ((\E dir, name : f.path = <<dir, name>>) \/ (\E name : f.path = <<name>>))
  <2>1. PICK place \in Places2, n \in {"1", "2", "3"} : f.path = LintedPath(place, n) /\ f.id = LintedIds[n]
    BY DEF OfBacklog, LintedItem
  <2>2. LeafOf(f) = n
    BY <2>1 DEF LeafOf, Last, LintedPath
  <2>3. (\E dir, name : f.path = <<dir, name>>) \/ (\E name : f.path = <<name>>)
    BY <2>1 DEF LintedPath
  <2> QED BY <2>1, <2>2, <2>3
<1>2. \A n, k \in {"1", "2", "3"} : LintedIds[n] # k /\ (LintedIds[n] = LintedIds[k] => n = k)
  BY DEF LintedIds
<1>3. Distinguishable(files)
  BY <1>1, <1>2 DEF Distinguishable
<1>4. ASSUME NEW g \in ToSet(files) PROVE IsItem(g) \/ (g.kind = "broken" /\ ~Skipped(g, severity))
  <2>1. OfBacklog(g)
    OBVIOUS
  <2>2. g.kind \in {"work-item", "broken"} /\ (g.kind = "broken" => g.path[1] = "active")
    BY <2>1 DEF OfBacklog, LintedItem, LintedPath
  <2> QED BY <2>2 DEF IsItem, Skipped, InArchive
<1> QED BY <1>3, <1>4

(* The files of a linted backlog are such files, in a sequence.            *)
LEMMA BacklogIsOfFiles ==
  ASSUME NEW a, NEW b, NEW other, OfBacklog(a), OfBacklog(b),
         other = <<>> \/ \E c : OfBacklog(c) /\ other = <<c>>, NEW first \in BOOLEAN
  PROVE  LET files == IF first THEN other \o <<a, b>> ELSE <<a, b>> \o other IN
         /\ (\E S : files \in Seq(S)) /\ \A f \in ToSet(files) : OfBacklog(f)
         /\ Len(files) = Len(other) + 2 /\ Len(other) \in {0, 1}
<1> DEFINE files == IF first THEN other \o <<a, b>> ELSE <<a, b>> \o other
<1>1. PICK S : a \in S /\ b \in S /\ other \in Seq(S) /\ \A f \in S : OfBacklog(f)
  <2>1. CASE other = <<>>
    <3> WITNESS {a, b}
    <3> QED BY <2>1
  <2>2. ASSUME NEW c, OfBacklog(c), other = <<c>>
        PROVE  \E S : a \in S /\ b \in S /\ other \in Seq(S) /\ \A f \in S : OfBacklog(f)
    <3> WITNESS {a, b, c}
    <3> QED BY <2>2
  <2> QED BY <2>1, <2>2
<1>2. <<a, b>> \in Seq(S) /\ Len(<<a, b>>) = 2
  BY <1>1
<1>3. files \in Seq(S) /\ Len(files) = Len(other) + 2
  <2>1. other \o <<a, b>> \in Seq(S) /\ Len(other \o <<a, b>>) = Len(other) + 2
    BY <1>1, <1>2, ConcatProperties
  <2>2. <<a, b>> \o other \in Seq(S) /\ Len(<<a, b>> \o other) = 2 + Len(other)
    BY <1>1, <1>2, ConcatProperties
  <2>3. Len(other) \in Nat
    BY <1>1
  <2> QED BY <2>1, <2>2, <2>3
<1>4. \A f \in ToSet(files) : f \in S
  <2> HIDE DEF files
  <2> QED BY <1>3 DEF ToSet
<1>5. Len(other) \in {0, 1}
  OBVIOUS
<1> QED BY <1>1, <1>3, <1>4, <1>5

(* A third file is none or one.                                            *)
LEMMA OthersAreOfBacklog ==
  ASSUME NEW other \in Others2 PROVE other = <<>> \/ \E c : OfBacklog(c) /\ other = <<c>>
<1>1. CASE other = <<>>
  BY <1>1
<1>2. CASE other \in {<<Linted(place, n, st)>> : place \in Places2, n \in {"2", "3"}, st \in States}
  <2>1. PICK place \in Places2, n \in {"2", "3"}, st \in States : other = <<Linted(place, n, st)>>
    BY <1>2
  <2>2. {} \in Referring
    BY DEF Referring
  <2>3. OfBacklog(Linted(place, n, st))
    BY <2>2 DEF OfBacklog, Linted
  <2> QED BY <2>1, <2>3
<1> QED BY <1>1, <1>2 DEF Others2

(* A sequence with as many paths as files has no path twice.               *)
LEMMA PathsAreDifferent ==
  ASSUME NEW S, NEW files \in Seq(S), Cardinality(PathsOf(files)) = Len(files)
  PROVE  \A i, j \in DOMAIN files : files[i].path = files[j].path => i = j
<1> DEFINE n == Len(files)
           D == 1..n
           T == PathsOf(files)
           h == [i \in D |-> files[i].path]
<1>0. n \in Nat /\ DOMAIN files = D
  OBVIOUS
<1>1. IsFiniteSet(D) /\ Cardinality(D) = n
  <2> HIDE DEF n
  <2>1. 1 \in Int /\ n \in Int
    BY <1>0
  <2>2. IsFiniteSet(D) /\ Cardinality(D) = IF 1 > n THEN 0 ELSE n - 1 + 1
    BY <2>1, FS_Interval
  <2> HIDE DEF D
  <2> QED BY <1>0, <2>2
<1>2. h \in Surjection(D, T)
  <2>1. h \in [D -> T]
    BY DEF ToSet, PathsOf
  <2>2. \A t \in T : \E i \in D : h[i] = t
    BY DEF ToSet, PathsOf
  <2> HIDE DEF h, T, D
  <2> QED BY <2>1, <2>2 DEF Surjection
<1>3. h \in Injection(D, T)
  <2>1. Cardinality(D) = Cardinality(T)
    BY <1>1
  <2> HIDE DEF h, T, D
  <2> QED BY <1>1, <1>2, <2>1, FS_SurjSameCardinalityImpliesInj
<1>4. \A i, j \in D : h[i] = h[j] => i = j
  <2> HIDE DEF h, T, D
  <2> QED BY <1>3 DEF Injection, IsInjective
<1> QED BY <1>0, <1>4

(* What is asked of the lint as a whole.                                   *)
LEMMA LintedQuestions ==
  ASSUME AskBacklog
  PROVE  LET q == asked' IN
         /\ q.kind = "backlog"
         /\ (\E S : q.files \in Seq(S)) /\ \A f \in ToSet(q.files) : OfBacklog(f)
         /\ \A i, j \in DOMAIN q.files : q.files[i].path = q.files[j].path => i = j
         /\ DOMAIN q.base = {f.path : f \in ToSet(q.files)}
<1>1. PICK st, st2 \in States, deps \in Referring, other \in Others2, default \in BOOLEAN,
           broken \in BOOLEAN, first \in BOOLEAN, severity \in {x \in Severities : x["semantic"] = "warn"} :
        LET files == BacklogFiles(st, st2, deps, other, default, broken, first) IN
        /\ Cardinality(PathsOf(files)) = Len(files)
        /\ first => \E f \in ToSet(other) : IsFlat(f)
        /\ Ask([kind |-> "backlog", files |-> files, base |-> [p \in PathsOf(files) |-> Nowhere], changed |-> {},
                severity |-> severity, strict |-> FALSE])
  BY DEF AskBacklog
<1> DEFINE a == LintedItem("active", "1", st, deps, default, "work-item")
           b == LintedItem("active", "2", st2, {}, TRUE, IF broken THEN "broken" ELSE "work-item")
           files == BacklogFiles(st, st2, deps, other, default, broken, first)
           paths == PathsOf(files)
<1>2. {} \in Referring /\ "active" \in Places2
  BY DEF Referring, Places2
<1>3. OfBacklog(a) /\ OfBacklog(b)
  BY <1>2 DEF OfBacklog
<1>4. (\E S : files \in Seq(S)) /\ \A f \in ToSet(files) : OfBacklog(f)
  <2>1. files = IF first THEN other \o <<a, b>> ELSE <<a, b>> \o other
    BY DEF BacklogFiles
  <2> HIDE DEF a, b, files
  <2> QED BY <1>3, <2>1, OthersAreOfBacklog, BacklogIsOfFiles
<1> HIDE DEF files
<1>5. /\ Cardinality(paths) = Len(files)
      /\ asked' = [kind |-> "backlog", files |-> files, base |-> [p \in paths |-> Nowhere], changed |-> {},
                   severity |-> severity, strict |-> FALSE]
  BY <1>1 DEF Ask, files
<1>6. \A i, j \in DOMAIN files : files[i].path = files[j].path => i = j
  BY <1>4, <1>5, PathsAreDifferent
<1> QED BY <1>4, <1>5, <1>6 DEF PathsOf

(* No answer of the lint lets a completed item rest on one that is not.    *)
THEOREM LintedBacklogsAreSettled == Spec => []LintedMeansSettled
<1>1. Init => LintedMeansSettled
  BY DEF Init, LintedMeansSettled, Asked
<1>2. LintedMeansSettled /\ [Next]_asked => LintedMeansSettled'
  <2> SUFFICES ASSUME LintedMeansSettled, [Next]_asked PROVE LintedMeansSettled'
    OBVIOUS
  <2>1. CASE AskBacklog
    <3> DEFINE q == asked'
    <3>1. /\ (\E S : q.files \in Seq(S)) /\ \A f \in ToSet(q.files) : OfBacklog(f)
          /\ \A i, j \in DOMAIN q.files : q.files[i].path = q.files[j].path => i = j
          /\ DOMAIN q.base = {f.path : f \in ToSet(q.files)}
      BY <2>1, LintedQuestions
    <3> SUFFICES ASSUME LintPasses(q.files, DOMAIN q.base, q.base, q.changed, q.strict, q.severity),
                        NEW f \in ToSet(q.files), f.status = "completed", ~Skipped(f, q.severity),
                        NEW ref \in f.deps
                 PROVE  /\ \E d \in ToSet(q.files) : Means(d, ref) /\ ~Hidden(q.files, d, ref)
                        /\ \A d \in ToSet(q.files) :
                             Means(d, ref) /\ ~Hidden(q.files, d, ref) => d.status \in Terminal
      BY DEF LintedMeansSettled, Asked, LintPasses, Skipped, FileFails, SameLeaf, IsItem, Codes
    <3> HIDE DEF q
    <3>2. /\ Distinguishable(q.files)
          /\ \A g \in ToSet(q.files) : IsItem(g) \/ (g.kind = "broken" /\ ~Skipped(g, q.severity))
      BY <3>1, FilesOfBacklog
    <3>3. \A g \in ToSet(q.files) : g.path \in DOMAIN q.base
      BY <3>1
    <3> QED BY <3>1, <3>2, <3>3, LintedIsSettled
  <2>2. CASE AnyAsk /\ ~AskBacklog
    <3>1. asked'.kind # "backlog"
      BY <2>2, KindsOfQuestions DEF AnyAsk
    <3> QED BY <3>1 DEF LintedMeansSettled, Asked
  <2>3. CASE UNCHANGED asked
    BY <2>3 DEF LintedMeansSettled, Asked
  <2> QED BY <2>1, <2>2, <2>3, NextAsks
<1> QED BY <1>1, <1>2, PTL DEF Spec

-----------------------------------------------------------------------------
(* A file of the backlog as it is read: its directories are a sequence,    *)
(* its id has a front and a back.                                          *)
WellNamed(f) == (\E S : f.dir \in Seq(S)) /\ f.id = <<f.id[1], f.id[2]>>

(* Of directories that are not nested, the lookup and the audit skip the   *)
(* same ones, records apart.                                               *)
LEMMA ReadIsAudited ==
  ASSUME NEW files, NEW f \in ToSet(files), WellNamed(f), Len(f.dir) <= 1, ~ShouldIgnore(f)
  PROVE  f \in Markdown(files, TRUE)
<1>1. PICK S : f.dir \in Seq(S)
  BY DEF WellNamed
<1>2. ASSUME Under(f, "audit") PROVE FALSE
  <2>1. PICK i \in 1..Len(f.dir) : f.dir[i] = "audit"
    BY <1>1, <1>2 DEF Under, ToSet
  <2>2. i = 1 /\ f.dir # <<>>
    BY <1>1, <2>1
  <2> QED BY <2>1, <2>2 DEF ShouldIgnore
<1> QED BY <1>2 DEF Markdown

(* An id that is not a number to YAML.                                     *)
NotNumber(id) == ~(id[1] = "" /\ id[2] \in Digits)

(* Two ids that one token finds are one id, but for the case.              *)
LEMMA SharedNumber ==
  ASSUME NEW p, NEW q, p = <<p[1], p[2]>>, q = <<q[1], q[2]>>, NotNumber(p), NotNumber(q),
         NEW t \in NumericToken(q), t = LowerCase(p) \/ t \in NumericToken(p)
  PROVE  LowerCase(p) = LowerCase(q)
<1>1. LowerCase(p)[1] = (IF p[1] = "WI-" THEN "wi-" ELSE p[1])
      /\ LowerCase(q)[1] = (IF q[1] = "WI-" THEN "wi-" ELSE q[1])
  BY PartsOfPair DEF LowerCase
<1>2. q[2] \in Digits /\ q[1] \in {"WI-", "wi-"} /\ t = <<"", q[2]>>
  BY <1>1 DEF NumericToken, NotNumber
<1>3. t[1] = "" /\ t[2] = q[2]
  BY <1>2, PartsOfPair
<1>4. t # LowerCase(p)
  <2>1. ASSUME t = LowerCase(p) PROVE FALSE
    <3>1. p[1] = "" /\ LowerCase(p) = p
      BY <1>1, <1>3, <2>1 DEF LowerCase
    <3>2. p[2] = q[2]
      BY <1>3, <2>1, <3>1
    <3> QED BY <1>2, <3>1, <3>2 DEF NotNumber
  <2> QED BY <2>1
<1>5. p[2] \in Digits /\ p[1] \in {"", "WI-", "wi-"} /\ t = <<"", p[2]>>
  BY <1>1, <1>4 DEF NumericToken
<1>6. p[1] \in {"WI-", "wi-"} /\ p[2] = q[2]
  BY <1>3, <1>5, PartsOfPair DEF NotNumber
<1>7. LowerCase(p) = <<"wi-", p[2]>>
  BY <1>6 DEF LowerCase
<1>8. LowerCase(q) = <<"wi-", q[2]>>
  BY <1>2 DEF LowerCase
<1> QED BY <1>6, <1>7, <1>8

(* Whatever finds another file by an id is known to be of that file.       *)
LEMMA FoundIsKnown ==
  ASSUME NEW f, NEW g, WellNamed(f), WellNamed(g), TextId(f) # {}, MatchesTaskId(g, f.id)
  PROVE  Known(g) \cap IdTokens(f.id) # {}
<1>3. NotNumber(f.id)
  BY DEF TextId, NotNumber
<1>4. TextId(g) \subseteq {g.id} /\ (TextId(g) # {} => NotNumber(g.id))
  BY DEF TextId, NotNumber
<1>5. PICK t \in CandidateTokens(g) : t = LowerCase(f.id) \/ t \in NumericToken(f.id)
  BY DEF MatchesTaskId, IdTokens
<1>6. CASE \E id \in TextId(g) : t = LowerCase(id)
  BY <1>4, <1>5, <1>6 DEF Known, IdTokens
<1>7. CASE \E id \in TextId(g) : t \in NumericToken(id)
  <2>1. TextId(g) # {} /\ t \in NumericToken(g.id)
    BY <1>4, <1>7
  <2>2. LowerCase(f.id) = LowerCase(g.id)
    BY <1>3, <1>4, <1>5, <2>1, SharedNumber DEF WellNamed
  <2> QED BY <1>5, <2>2 DEF Known, IdTokens
<1>8. CASE t = LowerCase(g.name) \/ t \in FileNumber(g)
  BY <1>5, <1>8 DEF Known, IdTokens
<1>9. \/ \E id \in TextId(g) : t = LowerCase(id)
      \/ \E id \in TextId(g) : t \in NumericToken(id)
      \/ t = LowerCase(g.name) \/ t \in FileNumber(g)
  BY <1>5 DEF CandidateTokens, IdTokens
<1> QED BY <1>6, <1>7, <1>8, <1>9

(* After a strict audit of a tidy backlog, every active item is found by   *)
(* its id and alone, however many files there are and however they link.   *)
THEOREM AuditedIsFound ==
  ASSUME NEW files, \A g \in ToSet(files) : WellNamed(g),
         AuditPasses(files, Whole("warning")), Tidy(files),
         NEW f \in ToSet(files), ~ShouldIgnore(f), ~BelowArchive(f), TextId(f) # {}, f.type = "work-item"
  PROVE  LoadTask(files, f.id) = Loaded("loaded", {f})
<1> DEFINE read == {g \in ToSet(files) : ~ShouldIgnore(g)}
           matches == {g \in read : MatchesTaskId(g, f.id)}
           active == {g \in matches : ~BelowArchive(g)}
<1>1. \A g \in read : g \in Markdown(files, TRUE)
  BY ReadIsAudited DEF Tidy
<1>2. AuditErrors(files, Whole("warning")) = {} /\ AuditWarnings(files, Whole("warning")) = {}
      /\ Whole("warning").archive = TRUE
  BY DEF AuditPasses, Whole
<1>3. ~\E g \in read : g.broken
  BY <1>1, <1>2 DEF AuditErrors
<1>4. f.id # Unidentified /\ f.id \in TextId(f)
  BY DEF TextId
<1>5. f \in active
  BY <1>4 DEF MatchesTaskId, CandidateTokens, IdTokens
<1>6. ASSUME NEW g \in active, g # f PROVE FALSE
  <2>1. g.id # f.id
    BY <1>1, <1>2, <1>4, <1>6 DEF AuditWarnings
  <2>2. Known(g) \cap IdTokens(f.id) = {}
    BY <1>4, <2>1 DEF Tidy
  <2> QED BY <2>2, FoundIsKnown
<1>7. active = {f} /\ matches # {}
  BY <1>5, <1>6
<1>8. Cardinality(active) = 1
  BY <1>7, FS_Singleton
<1>9. LoadTask(files, f.id) =
        IF \E g \in read : g.broken THEN Loaded("unreadable", {})
        ELSE IF matches = {} THEN Loaded("not-found", {})
        ELSE IF active = {} THEN Loaded("archived", {})
        ELSE IF Cardinality(active) > 1 THEN Loaded("ambiguous", {})
        ELSE IF \E g \in active : TextId(g) = {} \/ g.type # "work-item" THEN Loaded("invalid", {})
        ELSE Loaded("loaded", active)
  BY DEF LoadTask
<1> HIDE DEF read, matches, active
<1> QED BY <1>3, <1>7, <1>8, <1>9

(* What passes an audit with the archive passes one without.               *)
LEMMA ArchiveOnlyAdds ==
  ASSUME NEW files, AuditPasses(files, Whole("error"))
  PROVE  AuditPasses(files, Active("error"))
<1> DEFINE part == [archive |-> FALSE, failOn |-> "error"]
<1>1. Active("error") = part
  BY DEF Active
<1>2. Markdown(files, FALSE) \subseteq Markdown(files, TRUE)
  BY DEF Markdown
<1>3. AuditErrors(files, Whole("error")) = {} /\ Whole("error").archive = TRUE
  BY DEF AuditPasses, Whole
<1>4. AuditErrors(files, part) = {}
  BY <1>2, <1>3 DEF AuditErrors
<1>5. part.failOn = "error"
  OBVIOUS
<1> HIDE DEF part
<1> QED BY <1>1, <1>4, <1>5 DEF AuditPasses

(* Two files and perhaps a third, and these only.                          *)
LEMMA TwoAndThird ==
  ASSUME NEW a, NEW b, NEW T, NEW third \in Seq(T)
  PROVE  \A f \in ToSet(<<a, b>> \o third) : f = a \/ f = b \/ f \in T
<1> DEFINE files == <<a, b>> \o third
           S == {a, b} \cup T
<1>1. <<a, b>> \in Seq(S) /\ third \in Seq(S)
  OBVIOUS
<1> HIDE DEF S
<1>2. files \in Seq(S)
  BY <1>1, ConcatProperties
<1> HIDE DEF files
<1>3. \A f \in ToSet(files) : f \in S
  BY <1>2 DEF ToSet
<1> QED BY <1>3 DEF files, S

(* The ids and the directories that the questions name.                    *)
LEMMA PlainIds == \A x \in FileIds \cup FileIds3 \cup {<<"wi-", "1">>, Unidentified} : x = <<x[1], x[2]>>
<1> SUFFICES ASSUME NEW x \in FileIds \cup FileIds3 \cup {<<"wi-", "1">>, Unidentified}
             PROVE  x = <<x[1], x[2]>>
  OBVIOUS
<1>1. \E p, q : x = <<p, q>>
  BY DEF FileIds, FileIds3, Unidentified
<1> QED BY <1>1, PartsOfPair

(* No directory of the questions is below another.                         *)
LEMMA PlainDirectories == \A d \in Directories \cup Directories3 \cup {<<>>} : \E S : d \in Seq(S)
<1> DEFINE S == {"archive", "records", "audit", "old"}
<1>1. \A d \in Directories \cup Directories3 \cup {<<>>} :
        d = <<>> \/ (\E x \in S : d = <<x>>) \/ \E x, y \in S : d = <<x, y>>
  BY Zenon DEF Directories, Directories3
<1> HIDE DEF S
<1>2. <<>> \in Seq(S) /\ (\A x \in S : <<x>> \in Seq(S)) /\ \A x, y \in S : <<x, y>> \in Seq(S)
  OBVIOUS
<1> QED BY <1>1, <1>2

(* The files of every question about the audit are well named.             *)
LEMMA FirstAndSecond ==
  /\ \A back : WellNamed(FirstFile(back))
  /\ \A dir \in Directories, id \in FileIds : \A links, schema : WellNamed(SecondFile(dir, id, links, schema))
<1>1. ASSUME NEW back PROVE WellNamed(FirstFile(back))
  <2>1. FirstFile(back).dir = <<>> /\ FirstFile(back).id = <<"wi-", "1">>
    BY DEF FirstFile, Linking, Filed
  <2> QED BY <2>1, PlainIds, PlainDirectories DEF WellNamed
<1>2. ASSUME NEW dir \in Directories, NEW id \in FileIds, NEW links, NEW schema
      PROVE  WellNamed(SecondFile(dir, id, links, schema))
  <2>1. SecondFile(dir, id, links, schema).dir = dir /\ SecondFile(dir, id, links, schema).id = id
    BY DEF SecondFile, Linking, Filed
  <2> QED BY <2>1, PlainIds, PlainDirectories DEF WellNamed
<1> QED BY <1>1, <1>2

(* A third file is none or a well named one.                               *)
LEMMA AnyThird == \A third \in ThirdFiles : \E T : third \in Seq(T) /\ \A c \in T : WellNamed(c)
<1>1. ASSUME NEW g \in Readable3 PROVE WellNamed(g) /\ WellNamed(Broken(g))
  <2>1. PICK d \in Directories3, name \in Names3, x \in FileIds3 : g = ThirdFile(d, name, x)
    BY DEF Readable3
  <2>2. g.dir = d /\ g.id = x /\ Broken(g).dir = d /\ Broken(g).id = Unidentified
    BY <2>1 DEF ThirdFile, Linking, Filed, Broken
  <2> QED BY <2>2, PlainIds, PlainDirectories DEF WellNamed
<1> DEFINE T == Readable3 \cup {Broken(g) : g \in Readable3}
<1>2. \A c \in T : WellNamed(c)
  BY <1>1
<1>3. ASSUME NEW third \in ThirdFiles PROVE third \in Seq(T)
  <2>1. third = <<>> \/ \E c \in T : third = <<c>>
    BY DEF ThirdFiles
  <2> HIDE DEF T
  <2>2. \A c \in T : <<c>> \in Seq(T)
    OBVIOUS
  <2>3. <<>> \in Seq(T)
    OBVIOUS
  <2> QED BY <2>1, <2>2, <2>3
<1> QED BY <1>2, <1>3

(* What is asked of the audit: well named files, in a sequence.            *)
LEMMA AuditedQuestions ==
  ASSUME AskAudited PROVE \A f \in ToSet(asked'.files) : WellNamed(f)
<1>1. PICK id \in FileIds, dir \in Directories, links \in FileLinks, back \in FileLinks, third \in ThirdFiles,
           schema \in {"fits", "violates", "lost"} :
        LET files == <<FirstFile(back), SecondFile(dir, id, links, schema)>> \o third IN
        /\ Cardinality(back) # 1 /\ (schema = "fits" \/ third = <<>>)
        /\ \A i, j \in DOMAIN files : files[i].dir = files[j].dir /\ files[i].name = files[j].name => i = j
        /\ Ask([kind |-> "audited", files |-> files])
  BY DEF AskAudited
<1> DEFINE a == FirstFile(back)
           b == SecondFile(dir, id, links, schema)
<1>2. WellNamed(a) /\ WellNamed(b)
  BY FirstAndSecond
<1>3. asked'.files = <<a, b>> \o third
  BY <1>1 DEF Ask
<1> HIDE DEF a, b
<1>4. PICK T : third \in Seq(T) /\ \A c \in T : WellNamed(c)
  BY AnyThird
<1> QED BY <1>2, <1>3, <1>4, TwoAndThird

(* No answer of the audit hides an active item from the lookup.            *)
THEOREM AuditedBacklogsAreFound == Spec => []AuditedMeansFound
<1>1. Init => AuditedMeansFound
  BY DEF Init, AuditedMeansFound, Asked
<1>2. AuditedMeansFound /\ [Next]_asked => AuditedMeansFound'
  <2> SUFFICES ASSUME AuditedMeansFound, [Next]_asked PROVE AuditedMeansFound'
    OBVIOUS
  <2>1. CASE AskAudited
    <3> DEFINE files == asked'.files
    <3>1. \A f \in ToSet(files) : WellNamed(f)
      BY <2>1, AuditedQuestions
    <3> HIDE DEF files
    <3>2. ASSUME AuditPasses(files, Whole("warning")), Tidy(files),
                 NEW f \in ToSet(files), ~ShouldIgnore(f), ~BelowArchive(f), TextId(f) # {}, f.type = "work-item"
          PROVE  LoadTask(files, f.id) = Loaded("loaded", {f})
      BY <3>1, <3>2, AuditedIsFound
    <3>3. AuditPasses(files, Whole("error")) => AuditPasses(files, Active("error"))
      BY ArchiveOnlyAdds
    <3> QED BY <3>2, <3>3 DEF AuditedMeansFound, Asked, files
  <2>2. CASE AnyAsk /\ ~AskAudited
    <3>1. asked'.kind # "audited"
      BY <2>2, KindsOfQuestions DEF AnyAsk
    <3> QED BY <3>1 DEF AuditedMeansFound, Asked
  <2>3. CASE UNCHANGED asked
    BY <2>3 DEF AuditedMeansFound, Asked
  <2> QED BY <2>1, <2>2, <2>3, NextAsks
<1> QED BY <1>1, <1>2, PTL DEF Spec

(* Whatever a passing check of a whole backlog is said to be worth, it is. *)
THEOREM PassedBacklogsAreSettled == Spec => []PassedMeansSettled
<1>1. LintedMeansSettled /\ AuditedMeansFound => PassedMeansSettled
  BY DEF PassedMeansSettled
<1> QED BY <1>1, LintedBacklogsAreSettled, AuditedBacklogsAreFound, PTL

-----------------------------------------------------------------------------
(* A body whose checklists are done has no item that the other reader of   *)
(* bodies finds open, if both find the same headings.                      *)
LEMMA ChecklistsAgree ==
  ASSUME NEW S, NEW lines \in Seq(S), ChecklistDone(lines), BothRead(lines)
  PROVE  NoUnchecked(lines)
<1> SUFFICES ASSUME NEW list \in Checklists PROVE "open" \notin ToSet(FirstSection(lines, list))
  BY DEF NoUnchecked
<1> DEFINE n == Len(lines)
           I == {k \in 1..n : lines[k] \in {list, Longer[list]}}
           i == IF I # {} THEN Min(I) ELSE 0
           H == {k \in (i + 2)..n : lines[k] \in Headings}
           end == IF H # {} THEN Min(H) ELSE 0
           last == IF end = 0 THEN n ELSE end - 1
<1>1. n \in Nat /\ DOMAIN lines = 1..n
  OBVIOUS
<1>2. FirstSection(lines, list) = IF i = 0 THEN <<>> ELSE SubSeq(lines, i + 1, last)
  BY DEF FirstSection, SelectInSeq, SelectInSubSeq
<1>3. CASE I = {}
  <2>1. i = 0
    BY <1>3
  <2> HIDE DEF i
  <2>2. FirstSection(lines, list) = <<>>
    BY <1>2, <2>1
  <2> QED BY <2>2 DEF ToSet
<1> HIDE DEF n
<1>4. CASE I # {}
  <2>1. i \in I
    <3>1. I \subseteq Nat
      BY <1>1
    <3> HIDE DEF I
    <3> QED BY <1>4, <3>1, LeastOf
  <2>2. \A k \in 1..n : lines[k] \notin {"code", "tasks later", "criteria later"}
    BY <1>1 DEF BothRead, ToSet
  <2>3. i \in 1..n /\ lines[i] = list
    <3> HIDE DEF i
    <3>1. i \in 1..n /\ lines[i] \in {list, Longer[list]} /\ lines[i] \notin {"tasks later", "criteria later"}
      BY <2>1, <2>2
    <3>2. Longer[list] \in {"tasks later", "criteria later"}
      <4>1. CASE list = "tasks"
        BY <4>1 DEF Longer
      <4>2. CASE list = "criteria"
        BY <4>2 DEF Longer
      <4> QED BY <4>1, <4>2 DEF Checklists
    <3> QED BY <3>1, <3>2
  <2>4. Counts(lines) = 1..n
    <3>1. ASSUME NEW k \in 1..n PROVE {j \in 1..k : lines[j] = "code"} = {}
      <4>1. \A j \in 1..k : j \in 1..n
        BY <1>1
      <4> QED BY <2>2, <4>1
    <3>2. Cardinality({}) = 0
      BY FS_EmptySet
    <3>3. ASSUME NEW k \in 1..n PROVE Cardinality({j \in 1..k : lines[j] = "code"}) % 2 = 0
      <4>1. Cardinality({j \in 1..k : lines[j] = "code"}) = 0
        BY <3>1, <3>2
      <4> QED BY <4>1
    <3> QED BY <1>1, <2>2, <3>3 DEF Counts
  <2>5. PICK start \in Starts(lines, list) :
           /\ Starts(lines, list) = {start}
           /\ SectionBody(lines, start) \cap ({"ticked"} \cup Unticked) # {}
           /\ SectionBody(lines, start) \cap Unticked = {}
    BY DEF ChecklistDone
  <2>6. start = i
    BY <2>3, <2>4, <2>5 DEF Starts
  <2> HIDE DEF i
  <2>7. SectionBody(lines, i) =
          {lines[k] : k \in {j \in 1..n : j > i /\ \A m \in (i + 1)..j : m \in 1..n => lines[m] \notin Headings}}
    BY <2>4 DEF SectionBody
  <2>8. PICK j \in 1..n : j > i /\ \A m \in (i + 1)..j : m \in 1..n => lines[m] \notin Headings
    BY <2>5, <2>6, <2>7
  <2>9. i + 1 \in 1..n /\ lines[i + 1] \notin Headings
    BY <1>1, <2>3, <2>8
  <2>10. last \in Nat /\ last <= n /\ \A m \in (i + 2)..last : lines[m] \notin Headings
    <3>1. CASE H = {}
      BY <1>1, <2>3, <3>1
    <3>2. CASE H # {}
      <4>1. H \subseteq Nat
        BY <1>1, <2>3
      <4>2. Min(H) \in H /\ \A m \in H : Min(H) <= m
        <5> HIDE DEF H
        <5> QED BY <3>2, <4>1, LeastOf
      <4>3. end = Min(H) /\ end \in (i + 2)..n /\ last = end - 1
        BY <1>1, <2>3, <3>2, <4>2
      <4>4. \A m \in (i + 2)..last : m \notin H /\ m \in (i + 2)..n
        BY <1>1, <2>3, <4>2, <4>3
      <4>5. last \in Nat /\ last <= n
        BY <1>1, <2>3, <4>3
      <4> QED BY <4>4, <4>5
    <3> QED BY <3>1, <3>2
  <2> HIDE DEF last
  <2>11. \A m \in (i + 1)..last : lines[m] \in SectionBody(lines, i)
    <3> SUFFICES ASSUME NEW m \in (i + 1)..last
                 PROVE  m \in 1..n /\ m > i /\ \A q \in (i + 1)..m : q \in 1..n => lines[q] \notin Headings
      BY <2>7
    <3>1. m \in 1..n /\ m > i
      BY <1>1, <2>3, <2>10
    <3>2. \A q \in (i + 1)..m : q = i + 1 \/ q \in (i + 2)..last
      BY <1>1, <2>3, <2>10
    <3> QED BY <2>9, <2>10, <3>1, <3>2
  <2>12. \A x \in ToSet(SubSeq(lines, i + 1, last)) : \E m \in (i + 1)..last : x = lines[m]
    <3> DEFINE part == SubSeq(lines, i + 1, last)
    <3>1. \A k \in DOMAIN part : k \in 1..((last - (i + 1)) + 1) /\ part[k] = lines[(i + 1) + k - 1]
      BY <1>1, <2>3, <2>10
    <3>2. \A k \in DOMAIN part : (i + 1) + k - 1 \in (i + 1)..last
      BY <1>1, <2>3, <2>10, <3>1
    <3> HIDE DEF part
    <3> QED BY <3>1, <3>2 DEF ToSet, part
  <2>13. "open" \in Unticked /\ i # 0
    BY <2>3 DEF Unticked
  <2>14. FirstSection(lines, list) = SubSeq(lines, i + 1, last)
    BY <1>2, <2>13 DEF last, i, n
  <2> QED BY <2>5, <2>6, <2>11, <2>12, <2>13, <2>14
<1> QED BY <1>3, <1>4

(* A finite set with elements is listed by a sequence that is not empty.   *)
LEMMA ListOfSome ==
  ASSUME NEW S, IsFiniteSet(S), S # {}
  PROVE  SetToSeq(S) # <<>>
<1> DEFINE n == Cardinality(S)
<1>1. n \in Nat /\ n # 0
  BY FS_CardinalityType, FS_EmptySet
<1>2. PICK f : f \in Bijection(1..n, S)
  BY FS_CardinalityType DEF ExistsBijection
<1>3. f \in [1..n -> S] /\ IsInjective(f)
  BY <1>2 DEF Bijection, Injection, IsInjective
<1>4. SetToSeq(S) \in [1..n -> S]
  BY <1>3 DEF SetToSeq
<1>5. 1 \in DOMAIN SetToSeq(S)
  BY <1>1, <1>4
<1>6. DOMAIN <<>> = {}
  OBVIOUS
<1> QED BY <1>5, <1>6

(* A change to the source of the program, and no other.                    *)
SourceChange == {[area |-> "source", how |-> "changed"]}

(* The merge gate lets it through for an item that is linked to the pull   *)
(* request alone and is done.                                              *)
LEMMA GateLetsThrough ==
  ASSUME NEW items, NEW pull, MergeGate(items, SourceChange, pull)
  PROVE  \E i \in DOMAIN items :
           /\ items[i].life = "active" /\ pull \in Sound(items[i], items[i].prs)
           /\ CompletedAsRequired(items[i]) /\ ChecklistDone(items[i].body)
<1>1. "source" \in {c.area : c \in SourceChange}
  BY DEF SourceChange
<1>2. ~({c.area : c \in SourceChange} \subseteq Documentation)
  BY <1>1 DEF Documentation
<1> QED BY <1>2 DEF MergeGate, LinkedTo

(* What the merge gate lets through, the scan has nothing to say against,  *)
(* and finalizes as soon as its pull requests are merged.                  *)
THEOREM MergedIsFinalizable ==
  ASSUME NEW items, NEW pull, MergeGate(items, SourceChange, pull),
         \A i \in DOMAIN items : IsFiniteSet(items[i].evidence) /\ \E S : items[i].body \in Seq(S)
  PROVE  \E i \in DOMAIN items : LET item == items[i] d == AsScanned(item) IN
           /\ pull \in item.prs
           /\ item.estimated = "number" /\ BothRead(item.body) =>
                Issues(d) = {} /\ Finalizable(d, [known |-> TRUE, merged |-> item.prs, covered |-> TRUE])
<1>1. PICK i \in DOMAIN items :
         /\ items[i].life = "active" /\ pull \in Sound(items[i], items[i].prs)
         /\ CompletedAsRequired(items[i]) /\ ChecklistDone(items[i].body)
  BY GateLetsThrough
<1> DEFINE item == items[i]
           d == AsScanned(item)
           forge == [known |-> TRUE, merged |-> item.prs, covered |-> TRUE]
<1>2. item.shape = "object" /\ pull \in item.prs
  BY <1>1 DEF Sound
<1>3. ASSUME item.estimated = "number", BothRead(item.body)
      PROVE  Issues(d) = {} /\ Finalizable(d, forge)
  <2>1. NoUnchecked(item.body)
    BY <1>1, <1>3, ChecklistsAgree
  <2>2. item.status = "completed" /\ item.reason /\ item.date # "" /\ item.actual /\ item.evidence # {}
    BY <1>1, <1>3 DEF CompletedAsRequired, Sound
  <2>3. SetToSeq(item.evidence) # <<>>
    BY <2>2, ListOfSome
  <2>4. /\ d.status = item.status /\ d.life = item.life /\ d.shape = item.shape /\ d.prs = item.prs
        /\ d.evidence = SetToSeq(item.evidence)
        /\ d.has = {"note"} \cup (IF NoUnchecked(item.body) THEN {"ticked"} ELSE {})
             \cup (IF item.actual THEN {"actual"} ELSE {}) \cup (IF item.reason THEN {"reason"} ELSE {})
             \cup (IF item.date # "" THEN {"date"} ELSE {})
    BY DEF AsScanned
  <2>5. {"note", "ticked", "actual", "reason", "date"} \subseteq d.has
    <3> HIDE DEF d, item
    <3> QED BY <2>1, <2>2, <2>4
  <2> HIDE DEF d
  <2>6. Issues(d) = {}
    BY <1>2, <2>3, <2>4, <2>5 DEF Issues, ScanPulls, Evidence
  <2>7. Finalizable(d, forge)
    BY <1>1, <1>2, <2>2, <2>3, <2>4, <2>5 DEF Finalizable, Pulls, Evidence
  <2> QED BY <2>6, <2>7
<1> QED BY <1>2, <1>3

(* A value is given.                                                       *)
Present(value) == value # ""

(* Of two values the first that is given counts.                           *)
LEMMA FirstOfTwo ==
  ASSUME NEW a, NEW b, Present(b)
  PROVE  FirstGiven(<<a, b>>) = IF Present(a) THEN a ELSE b
<1> DEFINE values == <<a, b>>
           I == {i \in 1..Len(values) : Present(values[i])}
           n == IF I # {} THEN Min(I) ELSE 0
<1>1. Len(values) = 2 /\ values[1] = a /\ values[2] = b
  OBVIOUS
<1>2. FirstGiven(values) = IF n = 0 THEN "" ELSE values[n]
  BY DEF FirstGiven, SelectInSeq, Present
<1> HIDE DEF values
<1>3. I = {i \in {1, 2} : Present(values[i])}
  <2>1. 1..Len(values) = {1, 2}
    BY <1>1
  <2> QED BY <2>1
<1>4. I \subseteq {1, 2} /\ 2 \in I
  BY <1>1, <1>3
<1>5. (1 \in I <=> Present(a))
  BY <1>1, <1>3
<1> HIDE DEF I
<1>6. n = Min(I) /\ n \in I /\ \A i \in I : n <= i
  <2>1. I \subseteq Nat /\ I # {}
    BY <1>4
  <2> QED BY <2>1, LeastOf
<1> HIDE DEF n
<1>0. n \in {1, 2}
  BY <1>4, <1>6
<1>7. FirstGiven(values) = values[n]
  <2>1. n # 0
    BY <1>0
  <2> QED BY <1>2, <2>1
<1>8. CASE Present(a)
  <2>1. n = 1
    <3>1. 1 \in I
      BY <1>5, <1>8
    <3>2. n <= 1
      BY <1>6, <3>1
    <3> QED BY <1>0, <3>2
  <2> QED BY <1>1, <1>7, <1>8, <2>1 DEF values
<1>9. CASE ~Present(a)
  <2>1. n = 2
    <3>1. 1 \notin I
      BY <1>5, <1>9
    <3>2. n # 1
      BY <1>6, <3>1
    <3> QED BY <1>0, <3>2
  <2> QED BY <1>1, <1>7, <1>9, <2>1 DEF values
<1> QED BY <1>8, <1>9

(* So it does of three.                                                    *)
LEMMA FirstOfThree ==
  ASSUME NEW a, NEW b, NEW c, Present(c)
  PROVE  FirstGiven(<<a, b, c>>) = IF Present(a) THEN a ELSE IF Present(b) THEN b ELSE c
<1> DEFINE values == <<a, b, c>>
           I == {i \in 1..Len(values) : Present(values[i])}
           n == IF I # {} THEN Min(I) ELSE 0
<1>1. Len(values) = 3 /\ values[1] = a /\ values[2] = b /\ values[3] = c
  OBVIOUS
<1>2. FirstGiven(values) = IF n = 0 THEN "" ELSE values[n]
  BY DEF FirstGiven, SelectInSeq, Present
<1> HIDE DEF values
<1>3. I = {i \in {1, 2, 3} : Present(values[i])}
  <2>1. 1..Len(values) = {1, 2, 3}
    BY <1>1
  <2> QED BY <2>1
<1>4. I \subseteq {1, 2, 3} /\ 3 \in I
  BY <1>1, <1>3
<1>5. (1 \in I <=> Present(a)) /\ (2 \in I <=> Present(b))
  BY <1>1, <1>3
<1> HIDE DEF I
<1>6. n = Min(I) /\ n \in I /\ \A i \in I : n <= i
  <2>1. I \subseteq Nat /\ I # {}
    BY <1>4
  <2> QED BY <2>1, LeastOf
<1> HIDE DEF n
<1>0. n \in {1, 2, 3}
  BY <1>4, <1>6
<1>7. FirstGiven(values) = values[n]
  <2>1. n # 0
    BY <1>0
  <2> QED BY <1>2, <2>1
<1>8. CASE Present(a)
  <2>1. n = 1
    <3>1. 1 \in I
      BY <1>5, <1>8
    <3>2. n <= 1
      BY <1>6, <3>1
    <3> QED BY <1>0, <3>2
  <2> QED BY <1>1, <1>7, <1>8, <2>1 DEF values
<1>9. CASE ~Present(a) /\ Present(b)
  <2>1. n = 2
    <3>1. 2 \in I
      BY <1>5, <1>9
    <3>2. n <= 2
      BY <1>6, <3>1
    <3>3. 1 \notin I
      BY <1>5, <1>9
    <3>4. n # 1
      BY <1>6, <3>3
    <3> QED BY <1>0, <3>2, <3>4
  <2> QED BY <1>1, <1>7, <1>9, <2>1 DEF values
<1>10. CASE ~Present(a) /\ ~Present(b)
  <2>1. n = 3
    <3>1. 1 \notin I
      BY <1>5, <1>10
    <3>2. n # 1
      BY <1>6, <3>1
    <3>3. 2 \notin I
      BY <1>5, <1>10
    <3>4. n # 2
      BY <1>6, <3>3
    <3> QED BY <1>0, <3>2, <3>4
  <2> QED BY <1>1, <1>7, <1>10, <2>1 DEF values
<1> QED BY <1>8, <1>9, <1>10

(* None may be given.                                                      *)
LEMMA FirstOfNone == FirstGiven(<<"", "">>) = ""
<1> DEFINE values == <<"", "">>
           I == {i \in 1..Len(values) : values[i] # ""}
<1>1. Len(values) = 2 /\ values[1] = "" /\ values[2] = ""
  OBVIOUS
<1>2. FirstGiven(values) = IF (IF I # {} THEN Min(I) ELSE 0) = 0 THEN "" ELSE values[IF I # {} THEN Min(I) ELSE 0]
  BY DEF FirstGiven, SelectInSeq
<1> HIDE DEF values
<1>3. I = {}
  <2>1. Len(values) = 2
    BY <1>1
  <2>2. 1..Len(values) = {1, 2}
    BY <2>1
  <2> QED BY <1>1, <2>2
<1> HIDE DEF I
<1> QED BY <1>2, <1>3 DEF values

(* An item as the validations read it.                                     *)
ItemToGate(item) == /\ item = [f \in DOMAIN item |-> item[f]]
                /\ {"archived", "life", "valid", "declared", "status", "deps", "body"} \subseteq DOMAIN item

(* In the archive it is the same, but for its being archived.              *)
LEMMA ArchivedItem ==
  ASSUME NEW item, ItemToGate(item)
  PROVE  /\ Archived(item).archived = TRUE /\ Archived(item).valid = item.valid
         /\ Archived(item).declared = item.declared
BY DEF ItemToGate, Archived

(* An item that was pushed without an error, and that names no schema but  *)
(* the one which both validations use, is accepted in the archive, if it   *)
(* need not name one.                                                      *)
THEOREM PushedStaysAccepted ==
  ASSUME NEW config, NEW item, NEW failOn, ItemToGate(item), item.pushed, ~item.archived,
         PushSchema(config, "baseline") = "work-item", PushSeverity(config, "baseline") = "error",
         PushCheck(<<item>>, config, TRUE), ArchiveReads(config),
         ArchiveOptions(config).schema = "work-item", item.declared \in {"", "work-item"},
         item.declared = "" => /\ ArchiveOptions(config).missing # "error"
                               /\ ArchiveOptions(config).missing = "warn" => failOn = "error"
  PROVE  Accepted(item, config, failOn)
<1> DEFINE options == ArchiveOptions(config)
           done == Archived(item)
<1>1. "work-item" \in item.valid
  <2>1. 1 \in PushedItems(<<item>>, TRUE) /\ <<item>>[1] = item
    BY ListOfOne DEF PushedItems
  <2>2. "error" \notin SchemaIssues(item, config)
    BY <2>1 DEF PushCheck
  <2>3. "work-item" \notin item.valid => PushSeverity(config, "baseline") \in SchemaIssues(item, config)
    BY DEF SchemaIssues
  <2> QED BY <2>2, <2>3
<1>2. done.archived = TRUE /\ done.valid = item.valid /\ done.declared = item.declared
  BY ArchivedItem
<1> HIDE DEF done, options
<1>3. FirstGiven(<<done.declared, options.schema>>) = "work-item"
  <2>1. FirstGiven(<<done.declared, "work-item">>)
          = IF done.declared # "" THEN done.declared ELSE "work-item"
    <3> DEFINE usual == "work-item"
    <3>1. Present(usual)
      BY DEF Present
    <3> HIDE DEF usual
    <3>2. FirstGiven(<<done.declared, usual>>) = IF Present(done.declared) THEN done.declared ELSE usual
      BY <3>1, FirstOfTwo
    <3> QED BY <3>2 DEF usual, Present
  <2>2. options.schema = "work-item" /\ done.declared \in {"", "work-item"}
    BY <1>2 DEF options
  <2> QED BY <2>1, <2>2
<1>4. ArchiveFindings(done, options) = IF item.declared = "" THEN {options.missing} \ {"none"} ELSE {}
  BY <1>1, <1>2, <1>3 DEF ArchiveFindings
<1>5. ArchiveFindings(done, options) \cap (IF failOn = "warning" THEN {"warn", "error"} ELSE {"error"}) = {}
  BY <1>4 DEF options
<1>6. "work-item" \notin Remote
  BY DEF Remote
<1>7. \A i \in DOMAIN <<done>> : <<done>>[i] = done
  BY ListOfOne
<1>8. ArchivePasses(<<done>>, config, failOn)
  BY <1>3, <1>5, <1>6, <1>7 DEF ArchivePasses, options
<1> QED BY <1>8 DEF Accepted, done

(* Where the validation of the archive goes by the section of the pre-push *)
(* check, and has none of its own, the two agree on what fits its schema.  *)
THEOREM ValidationsAgree ==
  ASSUME NEW config, NEW item, ItemToGate(item),
         ArchiveReads(config), ~ArchiveFile(config).own.given, config.env.schema["archive"] = "",
         PushSection(config) = LegacySection(config),
         item.declared \in {"", PushSchema(config, "archive")}
  PROVE  /\ Accepted(item, config, "error") => SchemaIssues(Archived(item), config) = {}
         /\ "error" \in SchemaIssues(Archived(item), config) => ~Accepted(item, config, "error")
<1> DEFINE options == ArchiveOptions(config)
           done == Archived(item)
           schema == PushSchema(config, "archive")
<1>1. schema = FirstGiven(<<"", PushSection(config).schema["archive"], "work-item">>)
  BY DEF PushSchema
<1>2. options.schema = FirstGiven(<<PushSection(config).schema["archive"], "work-item">>)
  BY DEF ArchiveOptions
<1>3. schema = options.schema /\ schema # ""
  <2> DEFINE given == PushSection(config).schema["archive"]
  <2>1. FirstGiven(<<"", given, "work-item">>) = IF given # "" THEN given ELSE "work-item"
    <3> DEFINE usual == "work-item"
    <3>1. Present(usual)
      BY DEF Present
    <3> DEFINE none == ""
    <3>2. ~Present(none)
      BY DEF Present
    <3> HIDE DEF given, usual, none
    <3>3. FirstGiven(<<none, given, usual>>) = IF Present(given) THEN given ELSE usual
      BY <3>1, <3>2, FirstOfThree
    <3> QED BY <3>3 DEF usual, none, Present
  <2>2. FirstGiven(<<given, "work-item">>) = IF given # "" THEN given ELSE "work-item"
    <3> DEFINE usual == "work-item"
    <3>1. Present(usual)
      BY DEF Present
    <3> HIDE DEF given, usual
    <3>2. FirstGiven(<<given, usual>>) = IF Present(given) THEN given ELSE usual
      BY <3>1, FirstOfTwo
    <3> QED BY <3>2 DEF usual, Present
  <2> HIDE DEF given
  <2>3. (IF given # "" THEN given ELSE "work-item") # ""
    OBVIOUS
  <2> HIDE DEF schema, options
  <2> QED BY <1>1, <1>2, <2>1, <2>2, <2>3 DEF given
<1>4. done.archived = TRUE /\ done.valid = item.valid /\ done.declared = item.declared
  BY ArchivedItem
<1> HIDE DEF done, options, schema
<1>5. FirstGiven(<<done.declared, options.schema>>) = schema
  <2>1. done.declared \in {"", schema}
    BY <1>4 DEF schema
  <2>2. FirstGiven(<<done.declared, options.schema>>) = IF done.declared # "" THEN done.declared ELSE options.schema
    <3>1. Present(options.schema)
      BY <1>3 DEF Present
    <3>2. FirstGiven(<<done.declared, options.schema>>) = IF Present(done.declared) THEN done.declared ELSE options.schema
      BY <3>1, FirstOfTwo
    <3> QED BY <3>2 DEF Present
  <2> QED BY <1>3, <2>1, <2>2
<1>7. schema \in done.valid => SchemaIssues(done, config) = {}
  BY <1>4 DEF SchemaIssues, schema
<1>8. ASSUME ArchivePasses(<<done>>, config, "error") PROVE schema \in done.valid
  <2>1. 1 \in DOMAIN <<done>> /\ <<done>>[1] = done
    BY ListOfOne
  <2>2. ArchiveFindings(done, options) \cap {"error"} = {}
    BY <1>4, <1>8, <2>1 DEF ArchivePasses, options
  <2> QED BY <1>5, <2>2 DEF ArchiveFindings
<1>9. Accepted(item, config, "error") <=> ArchivePasses(<<done>>, config, "error")
  BY DEF Accepted, done
<1> QED BY <1>7, <1>8, <1>9 DEF done

(* Bodies in the questions are sequences of at least four lines.           *)
IsBody(b) == b \in Seq(Lines) /\ Len(b) >= 4

(* A line more keeps them so.                                              *)
LEMMA LongerBodies ==
  ASSUME NEW B, \A b \in B : IsBody(b)
  PROVE  \A b \in LongerBy(B) : IsBody(b)
<1> SUFFICES ASSUME NEW b \in B, NEW i \in 1..5, NEW l \in Lines PROVE IsBody(InsertAt(b, i, l))
  BY DEF LongerBy
<1>1. b \in Seq(Lines) /\ Len(b) \in Nat /\ Len(b) >= 4
  BY DEF IsBody
<1> DEFINE before == SubSeq(b, 1, i - 1)
           after == SubSeq(b, i, Len(b))
<1>2. before \in Seq(Lines) /\ Len(before) = i - 1
  BY <1>1
<1>3. after \in Seq(Lines) /\ Len(after) = (Len(b) - i) + 1
  BY <1>1
<1>4. InsertAt(b, i, l) = before \o <<l>> \o after
  BY DEF InsertAt
<1> HIDE DEF before, after
<1>5. before \o <<l>> \o after \in Seq(Lines) /\ Len(before \o <<l>> \o after) = (Len(before) + 1) + Len(after)
  BY <1>2, <1>3
<1> QED BY <1>1, <1>2, <1>3, <1>4, <1>5 DEF IsBody

(* So are all that are two lines away from a finished one.                 *)
LEMMA BodiesOfQuestions == \A b \in Bodies : IsBody(b)
<1>1. IsBody(Finished.body)
  <2>1. Finished.body = <<"tasks", "ticked", "criteria", "ticked">>
    BY DEF Finished
  <2>2. {"tasks", "ticked", "criteria"} \subseteq Lines
    BY DEF Lines, Headings
  <2> QED BY <2>1, <2>2 DEF IsBody
<1>2. \A b \in LongerBy({Finished.body}) : IsBody(b)
  BY <1>1, LongerBodies
<1>3. \A b \in LongerBy(LongerBy({Finished.body})) : IsBody(b)
  BY <1>2, LongerBodies
<1>4. ASSUME NEW b, IsBody(b) PROVE \A c \in WithChange(b) : IsBody(c)
  <2> SUFFICES ASSUME NEW i \in DOMAIN b, NEW l \in Lines PROVE IsBody(ReplaceAt(b, i, l))
    BY DEF WithChange
  <2> QED BY <1>4 DEF IsBody, ReplaceAt
<1> QED BY <1>2, <1>3, <1>4 DEF Bodies

(* The items whose gate is asked about.                                    *)
GateItem(item) == IsFiniteSet(item.evidence) /\ \E S : item.body \in Seq(S)

(* A finished item is one, with any body or frontmatter of the questions.  *)
LEMMA FinishedIsGateItem ==
  /\ GateItem(Finished)
  /\ \A b \in Bodies : GateItem(WithBody(b))
  /\ \A s, l, reason, actual, date, est, shape, prs : \A ev \in SUBSET {"record", "bad"} :
       GateItem(Fronted(s, l, reason, actual, date, est, shape, ev, prs))
<1>1. IsFiniteSet({"record", "bad"}) /\ IsFiniteSet({"record"})
  <2>1. {"record"} \cup {"bad"} = {"record", "bad"}
    OBVIOUS
  <2> QED BY <2>1, FS_Singleton, FS_AddElement
<1>2. \A E \in SUBSET {"record", "bad"} : IsFiniteSet(E)
  BY <1>1, FS_Subset
<1>3. Finished.evidence = {"record"} /\ Finished.body \in Seq(Lines)
  <2>1. Finished.body = <<"tasks", "ticked", "criteria", "ticked">> /\ Finished.evidence = {"record"}
    BY DEF Finished
  <2>2. {"tasks", "ticked", "criteria"} \subseteq Lines
    BY DEF Lines, Headings
  <2> QED BY <2>1, <2>2
<1>4. GateItem(Finished)
  BY <1>1, <1>3 DEF GateItem
<1>5. ASSUME NEW b \in Bodies PROVE GateItem(WithBody(b))
  <2>1. WithBody(b).body = b /\ WithBody(b).evidence = Finished.evidence
    BY DEF WithBody, Finished
  <2> QED BY <1>1, <1>3, <2>1, BodiesOfQuestions DEF GateItem, IsBody
<1>6. ASSUME NEW s, NEW l, NEW reason, NEW actual, NEW date, NEW est, NEW shape, NEW prs,
             NEW ev \in SUBSET {"record", "bad"}
      PROVE  GateItem(Fronted(s, l, reason, actual, date, est, shape, ev, prs))
  <2> DEFINE item == Fronted(s, l, reason, actual, date, est, shape, ev, prs)
  <2>2. item.evidence = ev /\ item.body = Finished.body
    BY DEF Fronted, Finished
  <2> HIDE DEF item
  <2> QED BY <1>2, <1>3, <2>2 DEF GateItem, item
<1> QED BY <1>4, <1>5, <1>6

(* A list of one or two.                                                   *)
LEMMA ListOfOneOrTwo ==
  ASSUME NEW x, NEW y, NEW second \in {<<>>, <<y>>}
  PROVE  \A i \in DOMAIN (<<x>> \o second) : (<<x>> \o second)[i] \in {x, y}
<1> DEFINE S == {x, y}
<1>1. <<x>> \in Seq(S) /\ <<y>> \in Seq(S) /\ <<>> \in Seq(S)
  OBVIOUS
<1> HIDE DEF S
<1>2. second \in Seq(S)
  BY <1>1
<1>3. <<x>> \o second \in Seq(S)
  BY <1>1, <1>2
<1>4. \A i \in DOMAIN (<<x>> \o second) : (<<x>> \o second)[i] \in S
  BY <1>3
<1> QED BY <1>4 DEF S

(* The questions about a gate ask about such items.                        *)
LEMMA GateQuestionsItems ==
  ASSUME AskBody \/ AskFrontmatter
  PROVE  \A i \in DOMAIN asked'.items : GateItem(asked'.items[i])
<1>1. CASE AskBody
  <2>1. PICK b \in Bodies : asked' = [kind |-> "gate", items |-> <<WithBody(b)>>]
    BY <1>1 DEF AskBody, Ask
  <2>2. asked'.items = <<WithBody(b)>>
    BY <2>1
  <2> QED BY <2>2, ListOfOne, FinishedIsGateItem
<1>2. CASE AskFrontmatter
  <2>0. PICK s \in {"running", "completed"}, l \in {"active", "inactive"}, reason \in BOOLEAN,
             actual \in BOOLEAN, date \in {"", "bad", "valid"}, est \in {"", "bad", "number"},
             shape \in {"object", "list"}, ev \in SUBSET {"record", "bad"}, prs \in SUBSET {"pr", "pr2", "bad"},
             second \in {<<>>, <<Finished>>} :
          asked' = [kind |-> "gate",
                    items |-> <<Fronted(s, l, reason, actual, date, est, shape, ev, prs)>> \o second]
    BY <1>2 DEF AskFrontmatter, Ask
  <2> DEFINE item == Fronted(s, l, reason, actual, date, est, shape, ev, prs)
  <2>1. asked' = [kind |-> "gate", items |-> <<item>> \o second] /\ GateItem(item)
    BY <2>0, FinishedIsGateItem
  <2> HIDE DEF item
  <2>2. asked'.items = <<item>> \o second
    BY <2>1
  <2>3. \A i \in DOMAIN (<<item>> \o second) : (<<item>> \o second)[i] \in {item, Finished}
    BY ListOfOneOrTwo
  <2> QED BY <2>1, <2>2, <2>3, FinishedIsGateItem
<1> QED BY <1>1, <1>2

(* What the merge gate lets through is archived, in every question asked.  *)
LEMMA GatesAsked ==
  ASSUME AskBody \/ AskFrontmatter
  PROVE  MergedIsArchivable'
<1> DEFINE items == asked'.items
<1>1. \A i \in DOMAIN items : IsFiniteSet(items[i].evidence) /\ \E S : items[i].body \in Seq(S)
  BY GateQuestionsItems DEF GateItem
<1> HIDE DEF items
<1>2. MergeGate(items, SourceChange, "pr") =>
        \E i \in DOMAIN items : LET item == items[i] d == AsScanned(item) IN
          /\ "pr" \in item.prs
          /\ item.estimated = "number" /\ BothRead(item.body) =>
               Issues(d) = {} /\ Finalizable(d, [known |-> TRUE, merged |-> item.prs, covered |-> TRUE])
  BY <1>1, MergedIsFinalizable
<1> QED BY <1>2 DEF MergedIsArchivable, SourceChange, items

(* A section that says nothing of the baseline.                            *)
SilentOfBaseline(section) == section.severity["baseline"] = "" /\ section.schema["baseline"] = ""

(* No section of the questions says anything of it.                        *)
LEMMA SectionsOfQuestions ==
  ASSUME NEW a, NEW c, NEW strict, NEW where, NEW own, NEW e, where \in Wheres
  PROVE  SilentOfBaseline(PushSection(Config(e, where, Section(a, c, strict), own)))
<1> DEFINE section == Section(a, c, strict)
           config == Config(e, where, section, own)
<1>1. \A x, y : /\ [Unset EXCEPT !["archive"] = x]["baseline"] = ""
                /\ [Unset EXCEPT !["archive"] = x, !["changed"] = y]["baseline"] = ""
  BY DEF Unset, SectionKeys
<1>2. SilentOfBaseline(section) /\ SilentOfBaseline(Strictly)
  BY <1>1 DEF Section, Strictly, SilentOfBaseline
<1>3. SilentOfBaseline(NoSection)
  BY DEF NoSection, SectionKeys, SilentOfBaseline
<1> HIDE DEF section
<1>5. PushFile(config) = IF where = "elsewhere" THEN Consumer("good", TRUE, section, NoSection, own)
                         ELSE UsualFile(where, section, own)
  BY DEF PushFile, Config
<1>6. PushFile(config).direct \in {section, Strictly, NoSection} /\ PushFile(config).nested \in {section, Strictly, NoSection}
  <2> DEFINE usual == UsualFile(where, section, own)
             Sections == {section, Strictly, NoSection}
             InSections(file) == file.direct \in Sections /\ file.nested \in Sections
  <2>0. \A state, roots, own2 : \A direct, nested \in Sections : InSections(Consumer(state, roots, direct, nested, own2))
    BY DEF Consumer
  <2> HIDE DEF InSections
  <2>1. \E state, roots, own2 : \E direct, nested \in Sections : usual = Consumer(state, roots, direct, nested, own2)
    <3>1. CASE where = "nested"
      BY <3>1 DEF UsualFile
    <3>2. CASE where = "both"
      BY <3>2 DEF UsualFile
    <3>3. CASE where = "elsewhere"
      BY <3>3 DEF UsualFile
    <3>4. CASE where = "rootless"
      BY <3>4 DEF UsualFile
    <3>5. CASE where \in {"missing", "malformed"}
      BY <3>5 DEF UsualFile
    <3>6. CASE where \in {"direct", "apart"}
      BY <3>6 DEF UsualFile
    <3> QED BY <3>1, <3>2, <3>3, <3>4, <3>5, <3>6 DEF Wheres
  <2>2. InSections(usual)
    BY <2>0, <2>1
  <2>3. InSections(Consumer("good", TRUE, section, NoSection, own))
    BY <2>0
  <2>4. PushFile(config) = IF where = "elsewhere" THEN Consumer("good", TRUE, section, NoSection, own) ELSE usual
    BY <1>5
  <2> HIDE DEF config, usual
  <2> QED BY <2>2, <2>3, <2>4 DEF InSections
<1> HIDE DEF config
<1>7. PushSection(config) \in {section, Strictly, NoSection}
  BY <1>6 DEF PushSection
<1> QED BY <1>2, <1>3, <1>7 DEF config, section

(* The baseline is held against the usual schema, and an error counts.     *)
UsualBaseline(config) ==
  PushSchema(config, "baseline") = "work-item" /\ PushSeverity(config, "baseline") = "error"

(* The configurations of the questions leave the baseline as it is.        *)
LEMMA ConfigsOfQuestions ==
  \A where \in Wheres : \A e, a, c, strict, own : UsualBaseline(Config(e, where, Section(a, c, strict), own))
<1> SUFFICES ASSUME NEW where, where \in Wheres, NEW e, NEW a, NEW c, NEW strict, NEW own
             PROVE  UsualBaseline(Config(e, where, Section(a, c, strict), own))
  OBVIOUS
<1> DEFINE config == Config(e, where, Section(a, c, strict), own)
<1>2. \A x : [Unset EXCEPT !["archive"] = x]["baseline"] = ""
  BY DEF Unset, SectionKeys
<1>3. Unset["baseline"] = ""
  BY DEF Unset, SectionKeys
<1>4. /\ config.env.severity["baseline"] = "" /\ PushSection(config).severity["baseline"] = ""
      /\ config.env.schema["baseline"] = "" /\ PushSection(config).schema["baseline"] = ""
  <2>1. config.env.severity["baseline"] = "" /\ config.env.schema["baseline"] = ""
    BY <1>2, <1>3 DEF Config
  <2> QED BY <2>1, SectionsOfQuestions DEF SilentOfBaseline
<1> HIDE DEF config
<1>5. FirstGiven(<<"", "", "work-item">>) = "work-item"
  <2> DEFINE none == ""
             usual == "work-item"
  <2>1. ~Present(none) /\ Present(usual)
    BY DEF Present
  <2> HIDE DEF none, usual
  <2>2. \A x, y : FirstGiven(<<x, y, usual>>)
                   = IF Present(x) THEN x ELSE IF Present(y) THEN y ELSE usual
    BY <2>1, FirstOfThree
  <2>3. FirstGiven(<<none, none, usual>>) = usual
    BY <2>1, <2>2
  <2> QED BY <2>3 DEF none, usual
<1>6. PushSchema(config, "baseline") = "work-item"
  BY <1>4, <1>5 DEF PushSchema
<1>7. PushSeverity(config, "baseline") = NormalizeSeverity("", "error")
  BY <1>4, FirstOfNone DEF PushSeverity
<1> QED BY <1>6, <1>7 DEF NormalizeSeverity, config, UsualBaseline

(* A question about a life: an item, and a configuration for the gates.    *)
LifeAsked(config, failOn, d, v, b, s) ==
  asked' = [kind |-> "life", config |-> config, failOn |-> failOn, items |-> <<Declaring(d, v, b, s)>>]

(* Every one is asked of a configuration that leaves the baseline as it    *)
(* is.                                                                     *)
LEMMA LivesOfQuestions ==
  ASSUME AskLife
  PROVE  \E config, failOn, d, v, b, s : UsualBaseline(config) /\ LifeAsked(config, failOn, d, v, b, s)
<1>1. PICK e \in {"", "info", "error"}, a \in {"", "none", "warning", "error", "fatal"},
           c \in {"", "fatal", "warn"}, schema \in {"", "strict"}, own \in BOOLEAN,
           failOn \in {"warning", "error"},
           d \in {"", "work-item", "remote", "elsewhere"}, v \in SUBSET {"work-item", "strict", "remote"},
           b \in {Finished.body, <<"tasks">>}, s \in {"completed", "ready-for-review"}, where \in Wheres :
        /\ where # "direct" => c = "" /\ b = Finished.body
        /\ Ask([kind |-> "life", config |-> Config(e, where, Section(a, c, schema), own), failOn |-> failOn,
                items |-> <<Declaring(d, v, b, s)>>])
  BY DEF AskLife
<1>2. LifeAsked(Config(e, where, Section(a, c, schema), own), failOn, d, v, b, s)
  BY <1>1 DEF Ask, LifeAsked
<1>3. UsualBaseline(Config(e, where, Section(a, c, schema), own))
  BY ConfigsOfQuestions
<1> QED BY <1>2, <1>3, ZenonT(40)

(* What was pushed and merged stays accepted, in every question asked.     *)
LEMMA LivesAsked ==
  ASSUME AskLife
  PROVE  ArchivedStaysAccepted'
<1>0. PICK config, failOn, d, v, b, s : UsualBaseline(config) /\ LifeAsked(config, failOn, d, v, b, s)
  BY LivesOfQuestions
<1> DEFINE item == Declaring(d, v, b, s)
<1>2. ItemToGate(item) /\ item.pushed /\ ~item.archived
  <2>1. item = [f \in DOMAIN Finished |-> item[f]] /\ DOMAIN item = DOMAIN Finished
    BY DEF Declaring, Finished
  <2>2. {"archived", "life", "valid", "declared", "status", "deps", "body"} \subseteq DOMAIN Finished
    BY DEF Finished
  <2>3. item.pushed = TRUE /\ item.archived = FALSE
    BY DEF Declaring, Finished
  <2> HIDE DEF item
  <2> QED BY <2>1, <2>2, <2>3 DEF ItemToGate
<1>3. asked'.config = config /\ asked'.failOn = failOn /\ asked'.items = <<item>> /\ asked'.items[1] = item
  <2>1. asked'.config = config /\ asked'.failOn = failOn /\ asked'.items = <<item>>
    BY <1>0 DEF LifeAsked
  <2> HIDE DEF item
  <2> QED BY <2>1, ListOfOne
<1>4. PushSchema(config, "baseline") = "work-item" /\ PushSeverity(config, "baseline") = "error"
  BY <1>0 DEF UsualBaseline
<1> HIDE DEF item
<1> DEFINE options == ArchiveOptions(config)
<1>5. ASSUME PushCheck(<<item>>, config, TRUE), ArchiveReads(config),
             options.schema = "work-item", item.declared \in {"", "work-item"},
             item.declared = "" => options.missing # "error" /\ (options.missing = "warn" => failOn = "error")
      PROVE  Accepted(item, config, failOn)
  BY <1>2, <1>4, <1>5, PushedStaysAccepted
<1>6. ASSUME ArchiveReads(config), ~ArchiveFile(config).own.given,
             PushSection(config) = LegacySection(config), item.declared \in {"", PushSchema(config, "archive")},
             config.env.schema["archive"] = ""
      PROVE  /\ Accepted(item, config, "error") => SchemaIssues(Archived(item), config) = {}
             /\ "error" \in SchemaIssues(Archived(item), config) => ~Accepted(item, config, "error")
  BY <1>2, <1>6, ValidationsAgree
<1> HIDE DEF options
<1> QED BY <1>3, <1>5, <1>6 DEF ArchivedStaysAccepted, options

(* Nothing that a gate has let through is refused further on: what merged  *)
(* can be archived, and the archive's validation accepts it.               *)
THEOREM MergedIsAccepted == Spec => []MergedStaysAccepted
<1>1. Init => MergedStaysAccepted
  BY DEF Init, MergedStaysAccepted, MergedIsArchivable, ArchivedStaysAccepted, Asked
<1>2. MergedStaysAccepted /\ [Next]_asked => MergedStaysAccepted'
  <2> SUFFICES ASSUME MergedStaysAccepted, [Next]_asked PROVE MergedStaysAccepted'
    OBVIOUS
  <2>1. CASE AskBody \/ AskFrontmatter
    <3>1. MergedIsArchivable'
      BY <2>1, GatesAsked
    <3>2. asked'.kind # "life"
      BY <2>1, KindsOfQuestions
    <3> QED BY <3>1, <3>2 DEF MergedStaysAccepted, ArchivedStaysAccepted, Asked
  <2>2. CASE AskLife
    <3>1. ArchivedStaysAccepted'
      BY <2>2, LivesAsked
    <3>2. asked'.kind # "gate"
      BY <2>2, KindsOfQuestions
    <3> QED BY <3>1, <3>2 DEF MergedStaysAccepted, MergedIsArchivable, Asked
  <2>3. CASE AnyAsk /\ ~AskBody /\ ~AskFrontmatter /\ ~AskLife
    <3>1. asked'.kind \notin {"gate", "life"}
      BY <2>3, KindsOfQuestions DEF AnyAsk
    <3> QED BY <3>1 DEF MergedStaysAccepted, MergedIsArchivable, ArchivedStaysAccepted, Asked
  <2>4. CASE UNCHANGED asked
    BY <2>4 DEF MergedStaysAccepted, MergedIsArchivable, ArchivedStaysAccepted, Asked
  <2> QED BY <2>1, <2>2, <2>3, <2>4, NextAsks
<1> QED BY <1>1, <1>2, PTL DEF Spec

-----------------------------------------------------------------------------
(* Where the n-th item is while it is worked on, and where it is archived. *)
LiveAt(n) == <<"active", n>>
ShelfAt(n) == <<"archive", n>>
Slots == ToSet(Paths)

(* A work item that was read from a file: one without links has none.      *)
ScanItem(d) ==
  /\ d = [kind |-> "file", item |-> d.item, id |-> d.id, status |-> d.status, life |-> d.life,
          shape |-> d.shape, evidence |-> d.evidence, prs |-> d.prs, has |-> d.has]
  /\ IsSeq(d.evidence) /\ (d.shape = "none" => d.evidence = <<>> /\ d.prs = {})

(* The state of a scan, and what it has at each place.                     *)
ScanState(s) ==
  /\ s = [files |-> s.files, seen |-> s.seen, records |-> s.records, left |-> s.left,
          threw |-> s.threw, archived |-> s.archived]
  /\ s.left \in Nat /\ s.threw \in BOOLEAN
  /\ s.files = [p \in Slots |-> s.files[p]] /\ s.seen = [p \in Slots |-> s.seen[p]]
ItemsOnly(s) == \A p \in Slots : s.seen[p] = NoFile \/ ScanItem(s.seen[p])

(* What is on the disk is what is read, or in a dry run what it was.       *)
OnDisk(s, t, dry) ==
  IF dry THEN t.files = s.files /\ t.records = s.records ELSE t.files = t.seen

(* One id leads to one item, wherever that is.                             *)
HasId(s, p, id) == s.seen[p].kind = "file" /\ s.seen[p].id = id
IdsApart(s) == \A p, q \in Slots : \A id :
  HasId(s, p, id) /\ HasId(s, q, id) /\ id # NoId => p[2] = q[2]

(* The four places, in their order.                                        *)
LEMMA SlotsAre ==
  /\ Len(Paths) = 4 /\ DOMAIN Paths = 1..4
  /\ \A n \in 1..2 : Paths[n] = LiveAt(n) /\ Paths[n + 2] = ShelfAt(n)
  /\ \A n \in 1..2 : LiveAt(n) \in Slots /\ ShelfAt(n) \in Slots
  /\ \A p \in Slots : \E n \in 1..2 : p = LiveAt(n) \/ p = ShelfAt(n)
  /\ \A m, n : LiveAt(m) # ShelfAt(n) /\ (LiveAt(m) = LiveAt(n) => m = n)
               /\ (ShelfAt(m) = ShelfAt(n) => m = n)
  /\ \A n : /\ LiveAt(n)[1] = "active" /\ ShelfAt(n)[1] = "archive"
            /\ LiveAt(n)[2] = n /\ ShelfAt(n)[2] = n /\ ShelfAt(n) = <<"archive", n>>
<1>1. Len(Paths) = 4 /\ DOMAIN Paths = 1..4
  BY DEF Paths
<1>2. Paths[1] = LiveAt(1) /\ Paths[2] = LiveAt(2) /\ Paths[3] = ShelfAt(1) /\ Paths[4] = ShelfAt(2)
  BY DEF Paths, LiveAt, ShelfAt
<1>3. \A n \in 1..2 : Paths[n] = LiveAt(n) /\ Paths[n + 2] = ShelfAt(n)
  <2> SUFFICES ASSUME NEW n \in 1..2 PROVE Paths[n] = LiveAt(n) /\ Paths[n + 2] = ShelfAt(n)
    OBVIOUS
  <2>1. CASE n = 1
    BY <1>2, <2>1
  <2>2. CASE n = 2
    BY <1>2, <2>2
  <2> QED BY <2>1, <2>2
<1>4. Slots = {Paths[i] : i \in 1..4}
  BY <1>1 DEF Slots, ToSet
<1>5. \A n \in 1..2 : LiveAt(n) \in Slots /\ ShelfAt(n) \in Slots
  <2> SUFFICES ASSUME NEW n \in 1..2 PROVE LiveAt(n) \in Slots /\ ShelfAt(n) \in Slots
    OBVIOUS
  <2>1. n \in 1..4 /\ n + 2 \in 1..4
    OBVIOUS
  <2> QED BY <1>3, <1>4, <2>1
<1>6. ASSUME NEW p \in Slots PROVE \E n \in 1..2 : p = LiveAt(n) \/ p = ShelfAt(n)
  <2>1. PICK i \in 1..4 : p = Paths[i]
    BY <1>4
  <2>2. CASE i \in 1..2
    BY <1>3, <2>1, <2>2
  <2>3. CASE i \in 3..4
    <3>1. i - 2 \in 1..2 /\ (i - 2) + 2 = i
      BY <2>3
    <3> QED BY <1>3, <2>1, <3>1
  <2> QED BY <2>2, <2>3
<1>7. \A m, n : LiveAt(m) # ShelfAt(n) /\ (LiveAt(m) = LiveAt(n) => m = n)
               /\ (ShelfAt(m) = ShelfAt(n) => m = n)
  BY DEF LiveAt, ShelfAt
<1>8. \A n : /\ LiveAt(n)[1] = "active" /\ ShelfAt(n)[1] = "archive"
             /\ LiveAt(n)[2] = n /\ ShelfAt(n)[2] = n /\ ShelfAt(n) = <<"archive", n>>
  BY DEF LiveAt, ShelfAt
<1> QED BY <1>1, <1>3, <1>5, <1>6, <1>7, <1>8

(* The first file with an id is found.                                     *)
LEMMA FirstIs ==
  ASSUME NEW s, NEW id, NEW n \in 1..4, HasId(s, Paths[n], id),
         \A i \in 1..4 : HasId(s, Paths[i], id) => n <= i
  PROVE  FirstWithId(s, id) = n
<1> DEFINE I == {i \in 1..Len(Paths) : HasId(s, Paths[i], id)}
<1>1. FirstWithId(s, id) = IF I # {} THEN Min(I) ELSE 0
  BY DEF FirstWithId, SelectInSeq, HasId
<1>2. I = {i \in 1..4 : HasId(s, Paths[i], id)}
  BY SlotsAre
<1>3. I # {} /\ I \subseteq Nat /\ n \in I /\ \A i \in I : n <= i
  BY <1>2
<1> HIDE DEF I
<1>4. Min(I) \in I /\ Min(I) <= n
  BY <1>3, LeastOf
<1>5. Min(I) = n
  <2>1. Min(I) \in Nat /\ n <= Min(I)
    BY <1>3, <1>4
  <2> QED BY <1>4, <2>1
<1> QED BY <1>1, <1>3, <1>5

(* An item whose files alone have its id is found where it is worked on,   *)
(* and else in the archive.                                                *)
LEMMA FoundAt ==
  ASSUME NEW s, IdsApart(s), NEW n \in 1..2, NEW id, id # NoId
  PROVE  /\ HasId(s, LiveAt(n), id) => FirstWithId(s, id) = n
         /\ HasId(s, ShelfAt(n), id) /\ ~HasId(s, LiveAt(n), id) => FirstWithId(s, id) = n + 2
<1>1. ASSUME NEW i \in 1..4, NEW p \in Slots, p[2] = n, HasId(s, p, id), HasId(s, Paths[i], id)
      PROVE  i = n \/ i = n + 2
  <2>1. CASE i \in 1..2
    <3>1. Paths[i] = LiveAt(i) /\ LiveAt(i)[2] = i /\ LiveAt(i) \in Slots
      BY <2>1, SlotsAre
    <3>2. i = n
      BY <1>1, <3>1 DEF IdsApart
    <3> QED BY <3>2
  <2>2. CASE i \in 3..4
    <3>1. i - 2 \in 1..2 /\ (i - 2) + 2 = i
      BY <2>2
    <3>2. Paths[i] = ShelfAt(i - 2) /\ ShelfAt(i - 2)[2] = i - 2 /\ ShelfAt(i - 2) \in Slots
      BY <3>1, SlotsAre
    <3>3. i - 2 = n
      BY <1>1, <3>2 DEF IdsApart
    <3> QED BY <3>1, <3>3
  <2> QED BY <2>1, <2>2
<1>2. /\ LiveAt(n) \in Slots /\ LiveAt(n)[2] = n /\ ShelfAt(n) \in Slots /\ ShelfAt(n)[2] = n
      /\ Paths[n] = LiveAt(n) /\ Paths[n + 2] = ShelfAt(n) /\ n \in 1..4 /\ n + 2 \in 1..4
  BY SlotsAre
<1>3. ASSUME HasId(s, LiveAt(n), id) PROVE FirstWithId(s, id) = n
  <2>1. \A i \in 1..4 : HasId(s, Paths[i], id) => n <= i
    BY <1>1, <1>2, <1>3
  <2> QED BY <1>2, <1>3, <2>1, FirstIs
<1>4. ASSUME HasId(s, ShelfAt(n), id), ~HasId(s, LiveAt(n), id) PROVE FirstWithId(s, id) = n + 2
  <2>1. \A i \in 1..4 : HasId(s, Paths[i], id) => n + 2 <= i
    BY <1>1, <1>2, <1>4
  <2> QED BY <1>2, <1>4, <2>1, FirstIs
<1> QED BY <1>3, <1>4

(* One document was changed, and nothing else was done.                    *)
Wrote(s, t, dry, p, f) ==
  /\ ScanState(t) /\ OnDisk(s, t, dry) /\ t.seen[p] = f
  /\ t.left <= s.left /\ t.left + 1 >= s.left
  /\ \A q \in Slots : q # p => t.seen[q] = s.seen[q]
  /\ t.records = s.records /\ t.threw = s.threw /\ t.archived = s.archived

(* A document is changed without a file being written.                     *)
LEMMA Changes ==
  ASSUME NEW s, ScanState(s), NEW p \in Slots, NEW f
  PROVE  LET t == Change(s, p, f) IN
         /\ Dead(s) => t = s
         /\ ~Dead(s) => Wrote(s, t, TRUE, p, f)
<1> DEFINE t == Change(s, p, f)
           g == [s.seen EXCEPT ![p] = f]
           r == [files |-> s.files, seen |-> g, records |-> s.records, left |-> s.left,
                 threw |-> s.threw, archived |-> s.archived]
<1>1. Dead(s) => t = s
  BY DEF Change
<1>2. ASSUME ~Dead(s) PROVE Wrote(s, t, TRUE, p, f)
  <2>1. t = [s EXCEPT !.seen = g]
    BY <1>2 DEF Change
  <2>2. g = [q \in Slots |-> g[q]] /\ g[p] = f /\ \A q \in Slots : q # p => g[q] = s.seen[q]
    BY DEF ScanState
  <2> HIDE DEF g, t
  <2>3. t = r
    BY <2>1 DEF ScanState
  <2>4. s.left \in Nat /\ s.left <= s.left /\ s.left + 1 >= s.left
    BY DEF ScanState
  <2> QED BY <2>2, <2>3, <2>4 DEF ScanState, Wrote, OnDisk
<1> QED BY <1>1, <1>2

(* A write changes one document, or nothing if the scan is dead.           *)
LEMMA Writes ==
  ASSUME NEW s, ScanState(s), NEW options, OnDisk(s, s, options.dry), NEW p \in Slots, NEW f
  PROVE  LET t == Write(s, options, p, f) IN
         /\ Dead(s) => t = s
         /\ ~Dead(s) => Wrote(s, t, options.dry, p, f)
<1> DEFINE t == Write(s, options, p, f)
           g == [s.seen EXCEPT ![p] = f]
           h == [s.files EXCEPT ![p] = f]
           r == [files |-> h, seen |-> g, records |-> s.records, left |-> s.left - 1,
                 threw |-> s.threw, archived |-> s.archived]
<1>1. ASSUME options.dry \/ Dead(s) PROVE t = Change(s, p, f)
  BY <1>1 DEF Write
<1>2. Dead(s) => t = s
  BY <1>1, Changes
<1>3. ASSUME ~Dead(s), options.dry PROVE Wrote(s, t, options.dry, p, f)
  <2>1. Wrote(s, t, TRUE, p, f)
    BY <1>1, <1>3, Changes
  <2> HIDE DEF t
  <2> QED BY <1>3, <2>1 DEF Wrote, OnDisk
<1>4. ASSUME ~Dead(s), ~options.dry PROVE Wrote(s, t, options.dry, p, f)
  <2>1. t = [[[s EXCEPT !.seen = g] EXCEPT !.files = h] EXCEPT !.left = s.left - 1]
    BY <1>4 DEF Write
  <2>2. g = [q \in Slots |-> g[q]] /\ g[p] = f /\ (\A q \in Slots : q # p => g[q] = s.seen[q])
        /\ h = g /\ h = [q \in Slots |-> h[q]]
    BY <1>4 DEF ScanState, OnDisk
  <2> HIDE DEF g, h, t
  <2>3. t = r
    BY <2>1 DEF ScanState
  <2>4. s.left - 1 \in Nat /\ s.left - 1 <= s.left /\ (s.left - 1) + 1 >= s.left
    BY <1>4 DEF ScanState, Dead
  <2> QED BY <1>4, <2>2, <2>3, <2>4 DEF ScanState, Wrote, OnDisk
<1> QED BY <1>2, <1>3, <1>4

-----------------------------------------------------------------------------
(* The item with these links, as a scan writes it.                         *)
Relinked(d, evidence) ==
  [kind |-> "file", item |-> d.item, id |-> d.id, status |-> d.status, life |-> d.life,
   shape |-> "object", evidence |-> evidence, prs |-> d.prs, has |-> d.has]

(* An item has a link to a record.  One that gets a record keeps the one   *)
(* it has; an id with a dot is not the slug of a record.                   *)
Recorded(d) == \E l \in ToSet(d.evidence) : IsRecord(l)
WithRecord(d, time) ==
  IF Recorded(d) THEN Relinked(d, d.evidence)
  ELSE IF d.id[1] = "dotted" THEN d
  ELSE Relinked(d, Append(d.evidence, <<time, d.id>>))

(* What is linked is there, and on the disk or dry.                        *)
RecordsThere(s) == \A p \in Slots : s.files[p].kind = "file" =>
  \A l \in ToSet(s.files[p].evidence) : IsRecord(l) => l \in s.records
Stored(s, t, dry) == RecordsThere(t) /\ OnDisk(s, t, dry)

(* What one step leaves on the disk after another.                         *)
LEMMA StoredAfter ==
  ASSUME NEW s, NEW t, NEW u, NEW dry, Stored(s, t, dry)
  PROVE  /\ Stored(t, t, dry)
         /\ Stored(t, u, dry) => Stored(s, u, dry)
BY DEF Stored, OnDisk

(* A state that differs in nothing that is on the disk.                    *)
LEMMA StoredSame ==
  ASSUME NEW s, NEW t, NEW u, NEW dry, Stored(s, t, dry), u.files = t.files, u.seen = t.seen,
         u.records = t.records
  PROVE  Stored(s, u, dry)
BY DEF Stored, OnDisk, RecordsThere

(* The fields of an item with other links.                                 *)
LEMMA RelinkedIsItem ==
  ASSUME NEW d, ScanItem(d), NEW evidence, IsSeq(evidence)
  PROVE  LET e == Relinked(d, evidence) IN
         /\ ScanItem(e) /\ e.kind = "file" /\ e.item = d.item /\ e.id = d.id /\ e.status = d.status
         /\ e.life = d.life /\ e.shape = "object" /\ e.evidence = evidence /\ e.prs = d.prs
         /\ e.has = d.has
BY DEF ScanItem, Relinked

(* A link that is there is not added, and the links become an object.      *)
LEMMA LinkedDocument ==
  ASSUME NEW d, ScanItem(d), NEW record
  PROVE  WithLink(d, record)
           = Relinked(d, IF record \in ToSet(d.evidence) THEN d.evidence ELSE Append(d.evidence, record))
<1> DEFINE a == AsObject(d)
<1>1. a = Relinked(d, d.evidence)
  BY DEF AsObject, ScanItem, Relinked
<1>2. a.evidence = d.evidence
  BY <1>1 DEF Relinked
<1>3. \A e : [a EXCEPT !.evidence = e] = Relinked(d, e)
  BY <1>1 DEF Relinked
<1> HIDE DEF a
<1>4. [a EXCEPT !.evidence = IF record \in ToSet(@) THEN @ ELSE Append(@, record)]
        = [a EXCEPT !.evidence = IF record \in ToSet(a.evidence) THEN a.evidence ELSE Append(a.evidence, record)]
  OBVIOUS
<1> QED BY <1>2, <1>3, <1>4 DEF a, WithLink

(* The search for a record finds one that is linked.                       *)
LEMMA ExistingIs ==
  ASSUME NEW d, ScanItem(d)
  PROVE  LET n == ExistingRecord(d) IN
         /\ n = 0 <=> ~Recorded(d)
         /\ n # 0 => d.evidence[n] \in ToSet(d.evidence) /\ IsRecord(d.evidence[n])
<1> DEFINE e == d.evidence
           I == {i \in 1..Len(e) : IsRecord(e[i])}
           n == ExistingRecord(d)
<1>1. PICK S : e \in Seq(S)
  BY DEF ScanItem, IsSeq
<1>2. ToSet(e) = {e[i] : i \in 1..Len(e)} /\ I \subseteq Nat
  BY <1>1 DEF ToSet
<1>3. I = {} <=> ~Recorded(d)
  BY <1>2 DEF Recorded
<1>4. n = IF d.shape # "none" THEN IF I # {} THEN Min(I) ELSE 0 ELSE 0
  <2>1. d.kind = "file"
    BY DEF ScanItem
  <2> QED BY <2>1 DEF ExistingRecord, SelectInSeq
<1>5. d.shape = "none" => I = {}
  <2> SUFFICES ASSUME d.shape = "none" PROVE I = {}
    OBVIOUS
  <2>1. e = <<>>
    BY DEF ScanItem
  <2>2. Len(e) = 0
    BY <2>1
  <2> QED BY <2>2
<1>6. I # {} => Min(I) \in I
  BY <1>2, LeastOf
<1>7. \A i \in I : i # 0 /\ e[i] \in ToSet(e) /\ IsRecord(e[i])
  BY <1>1, <1>2
<1> HIDE DEF I, n, e
<1>8. (n = 0 <=> ~Recorded(d)) /\ (n # 0 => e[n] \in ToSet(e) /\ IsRecord(e[n]))
  BY <1>3, <1>4, <1>5, <1>6, <1>7
<1> QED BY <1>8 DEF n, e

(* An item that gets a record stays what it is; it gets one once.          *)
LEMMA WithRecordIs ==
  ASSUME NEW d, ScanItem(d), NEW time, d.id # NoId
  PROVE  LET e == WithRecord(d, time) IN
         /\ ScanItem(e) /\ e.kind = "file" /\ e.item = d.item /\ e.id = d.id /\ e.status = d.status
         /\ e.life = d.life /\ e.prs = d.prs /\ e.has = d.has
         /\ e = d \/ (Recorded(e) /\ e.shape = "object")
         /\ \A later : WithRecord(e, later) = e
<1> DEFINE e == WithRecord(d, time)
           more == Append(d.evidence, <<time, d.id>>)
<1>1. IsSeq(d.evidence) /\ IsSeq(more) /\ ToSet(more) = ToSet(d.evidence) \cup {<<time, d.id>>}
  <2>1. IsSeq(d.evidence)
    BY DEF ScanItem
  <2> QED BY <2>1, OneMore
<1>2. IsRecord(<<time, d.id>>)
  BY DEF IsRecord, Note
<1> HIDE DEF more
<1>3. CASE Recorded(d)
  <2>1. e = Relinked(d, d.evidence)
    BY <1>3 DEF WithRecord
  <2>2. Recorded(e)
    BY <1>1, <1>3, <2>1, RelinkedIsItem DEF Recorded
  <2>3. \A later : WithRecord(e, later) = Relinked(e, e.evidence)
    BY <2>2 DEF WithRecord
  <2>4. Relinked(e, e.evidence) = e
    BY <2>1 DEF Relinked
  <2> HIDE DEF e
  <2> QED BY <1>1, <2>1, <2>2, <2>3, <2>4, RelinkedIsItem DEF e
<1>4. CASE ~Recorded(d) /\ d.id[1] = "dotted"
  <2>1. e = d /\ \A later : WithRecord(d, later) = d
    BY <1>4 DEF WithRecord
  <2>2. d.kind = "file"
    BY DEF ScanItem
  <2> HIDE DEF e
  <2>3. ScanItem(e) /\ \A later : WithRecord(e, later) = e
    BY <2>1
  <2> QED BY <2>1, <2>2, <2>3 DEF e
<1>5. CASE ~Recorded(d) /\ d.id[1] # "dotted"
  <2>1. e = Relinked(d, more)
    BY <1>5 DEF WithRecord, more
  <2>2. Recorded(e)
    <3>1. e.evidence = more
      BY <1>1, <2>1, RelinkedIsItem
    <3> QED BY <1>1, <1>2, <3>1 DEF Recorded
  <2>3. \A later : WithRecord(e, later) = Relinked(e, e.evidence)
    BY <2>2 DEF WithRecord
  <2>4. Relinked(e, e.evidence) = e
    BY <2>1 DEF Relinked
  <2> HIDE DEF e
  <2> QED BY <1>1, <2>1, <2>2, <2>3, <2>4, RelinkedIsItem DEF e
<1> QED BY <1>3, <1>4, <1>5

(* The search for an id finds the file at a place.                         *)
SearchFinds(s, id, p) == FirstWithId(s, id) # 0 /\ Paths[FirstWithId(s, id)] = p

(* What a search finds depends on the ids alone.                           *)
LEMMA SameFirst ==
  ASSUME NEW s, NEW t, \A p \in Slots : \A id : HasId(s, p, id) <=> HasId(t, p, id)
  PROVE  \A id, p : SearchFinds(s, id, p) <=> SearchFinds(t, id, p)
<1>1. ASSUME NEW id PROVE FirstWithId(s, id) = FirstWithId(t, id)
  <2> DEFINE I(u) == {i \in 1..Len(Paths) : HasId(u, Paths[i], id)}
  <2>1. \A u : FirstWithId(u, id) = IF I(u) # {} THEN Min(I(u)) ELSE 0
    BY DEF FirstWithId, SelectInSeq, HasId
  <2>2. \A i \in 1..Len(Paths) : Paths[i] \in Slots
    BY SlotsAre DEF Slots, ToSet
  <2>3. I(s) = I(t)
    BY <2>2
  <2> HIDE DEF I
  <2> QED BY <2>1, <2>3
<1> QED BY <1>1 DEF SearchFinds

(* The state of a scan in which a call has thrown, or not.                 *)
LEMMA ThrewIs ==
  ASSUME NEW s, ScanState(s), NEW b \in BOOLEAN
  PROVE  LET t == [s EXCEPT !.threw = b] IN
         /\ ScanState(t) /\ t.files = s.files /\ t.seen = s.seen /\ t.records = s.records
         /\ t.left = s.left /\ t.archived = s.archived /\ t.threw = b
<1> DEFINE r == [files |-> s.files, seen |-> s.seen, records |-> s.records, left |-> s.left,
                 threw |-> b, archived |-> s.archived]
<1>1. [s EXCEPT !.threw = b] = r
  BY DEF ScanState
<1>2. ScanState(r) /\ r.files = s.files /\ r.seen = s.seen /\ r.records = s.records /\ r.left = s.left
      /\ r.archived = s.archived /\ r.threw = b
  BY DEF ScanState
<1> HIDE DEF r
<1> QED BY <1>1, <1>2

(* A record was asked for, and there is one unless that threw.             *)
Noted(s, t, dry, record) ==
  /\ ScanState(t) /\ t.files = s.files /\ t.seen = s.seen /\ t.archived = s.archived
  /\ t.threw <=> record[2][1] = "dotted"
  /\ s.records \subseteq t.records /\ t.left <= s.left /\ t.left + 1 >= s.left
  /\ ~dry /\ ~Dead(s) /\ ~t.threw => record \in t.records
  /\ dry => t.left = s.left /\ t.records = s.records

(* The record is written, unless the run is dry or killed; the id may not  *)
(* be the slug of one.                                                     *)
LEMMA RecordWritten ==
  ASSUME NEW s, ScanState(s), s.threw = FALSE, NEW options, NEW record
  PROVE  Noted(s, WriteRecord(s, options, record), options.dry, record)
<1> DEFINE t == WriteRecord(s, options, record)
           r == [files |-> s.files, seen |-> s.seen, records |-> s.records \cup {record},
                 left |-> s.left - 1, threw |-> s.threw, archived |-> s.archived]
<1>a. s.left \in Nat
  BY DEF ScanState
<1>1. CASE record[2][1] = "dotted"
  <2>1. t = [s EXCEPT !.threw = TRUE]
    BY <1>1 DEF WriteRecord, Threw
  <2>2. /\ ScanState(t) /\ t.files = s.files /\ t.seen = s.seen /\ t.records = s.records /\ t.left = s.left
        /\ t.archived = s.archived /\ t.threw = TRUE
    BY <2>1, ThrewIs
  <2> HIDE DEF t
  <2> QED BY <1>a, <1>1, <2>2 DEF t, Noted
<1>2. CASE record[2][1] # "dotted" /\ (options.dry \/ Dead(s))
  <2>1. t = s
    BY <1>2 DEF WriteRecord
  <2> HIDE DEF t
  <2> QED BY <1>a, <1>2, <2>1 DEF t, Noted
<1>3. CASE record[2][1] # "dotted" /\ ~(options.dry \/ Dead(s))
  <2>1. t = [[s EXCEPT !.records = s.records \cup {record}] EXCEPT !.left = s.left - 1]
    BY <1>3 DEF WriteRecord
  <2>2. t = r
    BY <2>1 DEF ScanState
  <2>3. s.left - 1 \in Nat
    BY <1>3, <1>a DEF Dead
  <2>4. ScanState(r) /\ r.files = s.files /\ r.seen = s.seen /\ r.archived = s.archived /\ r.threw = FALSE
        /\ r.records = s.records \cup {record} /\ r.left = s.left - 1
    BY <2>3 DEF ScanState
  <2>5. s.records \subseteq s.records \cup {record} /\ record \in s.records \cup {record}
    OBVIOUS
  <2> HIDE DEF t, r
  <2> QED BY <1>3, <1>a, <2>2, <2>3, <2>4, <2>5 DEF t, Noted
<1> QED BY <1>1, <1>2, <1>3

(* A link goes to the file that has the id.                                *)
LEMMA LinkIs ==
  ASSUME NEW s, ScanState(s), NEW options, OnDisk(s, s, options.dry), NEW id, NEW record,
         NEW p \in Slots, SearchFinds(s, id, p), ScanItem(s.seen[p])
  PROVE  LET d == s.seen[p]
             t == LinkTo(s, options, id, record) IN
         /\ Dead(s) => t = s
         /\ ~Dead(s) =>
              Wrote(s, t, options.dry, p,
                    Relinked(d, IF record \in ToSet(d.evidence) THEN d.evidence
                                ELSE Append(d.evidence, record)))
<1> DEFINE d == s.seen[p]
           e == Relinked(d, IF record \in ToSet(d.evidence) THEN d.evidence ELSE Append(d.evidence, record))
<1>1. LinkTo(s, options, id, record) = Write(s, options, p, e)
  <2>1. WithLink(d, record) = e
    BY LinkedDocument
  <2> HIDE DEF e, d
  <2> QED BY <2>1 DEF LinkTo, SearchFinds, d
<1> HIDE DEF e
<1> QED BY <1>1, Writes DEF e

(* Evidence was made for a file, if it was due and the run was not killed  *)
(* before, or between the record and its link.                             *)
Evidenced(s, t, dry, p, time, due) ==
  /\ ScanState(t) /\ Stored(s, t, dry) /\ t.archived = s.archived
  /\ t.left <= s.left /\ t.left + 2 >= s.left
  /\ \A q \in Slots : q # p => t.seen[q] = s.seen[q]
  /\ ~due => t = s
  /\ due => \/ t.seen[p] = WithRecord(s.seen[p], time)
            \/ t.seen[p] = s.seen[p] /\ t.left = 0

(* Evidence of an item goes to the file it was read from.                  *)
LEMMA GenerateIs ==
  ASSUME NEW s, ScanState(s), NEW options, Stored(s, s, options.dry),
         NEW p \in Slots, NEW d, ScanItem(s.seen[p]), s.seen[p].id = d.id,
         Eligible(d.id) => SearchFinds(s, d.id, p), NEW subjects, NEW force \in BOOLEAN
  PROVE  Evidenced(s, GenerateEvidence(s, options, p, d, subjects, force), options.dry, p,
                   options.time, Eligible(d.id) /\ (force \/ d.id \in subjects))
<1> DEFINE c == s.seen[p]
           t == GenerateEvidence(s, options, p, d, subjects, force)
           m == ExistingRecord(c)
           record == <<options.time, d.id>>
           z == [s EXCEPT !.threw = FALSE]
           made == WriteRecord(z, options, record)
<1>0. s.left \in Nat /\ IsSeq(c.evidence) /\ c.kind = "file" /\ options.time = options.time
  BY DEF ScanState, ScanItem
<1>1. CASE ~Eligible(d.id) \/ (~force /\ d.id \notin subjects)
  <2>1. t = s
    BY <1>1 DEF GenerateEvidence
  <2> HIDE DEF t
  <2> QED BY <1>0, <1>1, <2>1 DEF t, Evidenced
<1>2. SUFFICES ASSUME Eligible(d.id), force \/ d.id \in subjects
      PROVE  /\ ScanState(t) /\ Stored(s, t, options.dry) /\ t.archived = s.archived
             /\ t.left <= s.left /\ t.left + 2 >= s.left
             /\ \A q \in Slots : q # p => t.seen[q] = s.seen[q]
             /\ \/ t.seen[p] = WithRecord(c, options.time)
                \/ t.seen[p] = c /\ t.left = 0
  BY <1>1 DEF Evidenced
<1>3. ASSUME NEW u, ScanState(u), u.files = s.files, u.seen = s.seen, s.records \subseteq u.records,
             options.dry => u.records = s.records, u.archived = s.archived, u.left <= s.left, u.left + 1 >= s.left,
             NEW l, l \in u.records \/ Dead(u) \/ l \in ToSet(c.evidence) \/ options.dry,
             t = LinkTo(u, options, d.id, l),
             WithRecord(c, options.time)
               = Relinked(c, IF l \in ToSet(c.evidence) THEN c.evidence ELSE Append(c.evidence, l))
      PROVE  /\ ScanState(t) /\ Stored(s, t, options.dry) /\ t.archived = s.archived
             /\ t.left <= s.left /\ t.left + 2 >= s.left
             /\ \A q \in Slots : q # p => t.seen[q] = s.seen[q]
             /\ \/ t.seen[p] = WithRecord(c, options.time)
                \/ t.seen[p] = c /\ t.left = 0
  <2> HIDE DEF t
  <2>1. SearchFinds(u, d.id, p) /\ u.seen[p] = c /\ ScanItem(c) /\ u.left \in Nat
    <3>1. \A q \in Slots : \A id : HasId(s, q, id) <=> HasId(u, q, id)
      BY <1>3 DEF HasId
    <3> QED BY <1>2, <1>3, <3>1, SameFirst DEF ScanState
  <2>2. Stored(s, u, options.dry) /\ OnDisk(u, u, options.dry)
    BY <1>3 DEF Stored, OnDisk, RecordsThere
  <2> DEFINE e == IF l \in ToSet(c.evidence) THEN c.evidence ELSE Append(c.evidence, l)
  <2>0. /\ Dead(u) => t = u
        /\ ~Dead(u) => Wrote(u, t, options.dry, p, Relinked(c, e))
    <3>1. ScanState(u) /\ t = LinkTo(u, options, d.id, l)
      BY <1>3
    <3>2. SearchFinds(u, d.id, p) /\ ScanItem(u.seen[p]) /\ u.seen[p] = c
      BY <2>1
    <3> HIDE DEF c
    <3> QED BY <2>2, <3>1, <3>2, LinkIs
  <2>3. CASE Dead(u)
    <3>1. t = u
      BY <2>0, <2>3
    <3>2. u.left = 0
      BY <2>3 DEF Dead
    <3> QED BY <1>0, <1>3, <2>1, <2>2, <3>1, <3>2
  <2>4. CASE ~Dead(u)
    <3>1. /\ ScanState(t) /\ t.left <= u.left /\ t.left + 1 >= u.left /\ OnDisk(u, t, options.dry) /\ t.left \in Nat /\ t.seen[p] = Relinked(c, e)
          /\ \A q \in Slots : q # p => t.seen[q] = u.seen[q]
          /\ t.records = u.records /\ t.archived = u.archived
      BY <2>0, <2>4 DEF Wrote, ScanState
    <3>2. IsSeq(e) /\ ToSet(e) \subseteq ToSet(c.evidence) \cup {l}
      BY <1>0, OneMore
    <3>3. l \in u.records \/ l \in ToSet(c.evidence) \/ options.dry
      BY <1>3, <2>4
    <3>4. t.seen[p].evidence = e
      BY <3>1, <3>2, RelinkedIsItem
    <3> HIDE DEF e
    <3>5. Stored(s, t, options.dry)
      <4>1. CASE options.dry
        BY <1>3, <2>2, <3>1, <4>1 DEF Stored, OnDisk, RecordsThere
      <4>2. CASE ~options.dry
        <5>1. t.files = t.seen /\ u.files = u.seen /\ RecordsThere(u)
          BY <2>2, <3>1, <4>2 DEF Stored, OnDisk
        <5>2. ASSUME NEW q \in Slots, t.files[q].kind = "file", NEW k \in ToSet(t.files[q].evidence),
                     IsRecord(k)
              PROVE  k \in t.records
          <6>1. CASE q # p
            BY <3>1, <5>1, <5>2, <6>1 DEF RecordsThere
          <6>2. CASE q = p
            <7>1. k \in ToSet(c.evidence) \/ k = l
              BY <3>2, <3>4, <5>1, <5>2, <6>2
            <7>2. k \in ToSet(c.evidence) => k \in u.records
              BY <1>0, <2>1, <5>1, <5>2 DEF RecordsThere
            <7> QED BY <3>1, <3>3, <4>2, <7>1, <7>2
          <6> QED BY <6>1, <6>2
        <5> QED BY <4>2, <5>1, <5>2 DEF Stored, OnDisk, RecordsThere
      <4> QED BY <4>1, <4>2
    <3> QED BY <1>0, <1>3, <2>1, <3>1, <3>5 DEF e
  <2> QED BY <2>3, <2>4
<1>4. (m = 0 <=> ~Recorded(c)) /\ (m # 0 => c.evidence[m] \in ToSet(c.evidence) /\ IsRecord(c.evidence[m]))
  BY ExistingIs
<1>5. CASE m # 0
  <2>1. t = LinkTo(s, options, d.id, c.evidence[m])
    BY <1>2, <1>5 DEF GenerateEvidence
  <2>2. WithRecord(c, options.time) = Relinked(c, c.evidence)
    BY <1>4, <1>5 DEF WithRecord
  <2> DEFINE l == c.evidence[m]
  <2> HIDE DEF t, m, c, l
  <2>3. l \in ToSet(c.evidence) /\ t = LinkTo(s, options, d.id, l)
        /\ WithRecord(c, options.time)
               = Relinked(c, IF l \in ToSet(c.evidence) THEN c.evidence ELSE Append(c.evidence, l))
    BY <1>4, <1>5, <2>1, <2>2 DEF l
  <2>4. ScanState(s) /\ s.left + 1 >= s.left /\ s.left <= s.left
    BY <1>0
  <2> QED BY <2>3, <2>4, <1>3
<1>6. /\ ScanState(z) /\ z.files = s.files /\ z.seen = s.seen /\ z.records = s.records /\ z.left = s.left
      /\ z.archived = s.archived /\ z.threw = FALSE
  BY ThrewIs
<1>7. /\ ScanState(made) /\ made.files = s.files /\ made.seen = s.seen /\ made.archived = s.archived
      /\ made.threw <=> d.id[1] = "dotted"
      /\ s.records \subseteq made.records /\ made.left <= s.left /\ made.left + 1 >= s.left
      /\ ~options.dry /\ ~Dead(z) /\ ~made.threw => record \in made.records
      /\ options.dry => made.records = s.records
  <2>1. record[2] = d.id
    OBVIOUS
  <2> HIDE DEF z, record
  <2>2. Noted(z, made, options.dry, record)
    BY <1>6, RecordWritten
  <2> HIDE DEF made
  <2> QED BY <1>6, <2>1, <2>2 DEF Noted
<1>8. CASE m = 0 /\ d.id[1] = "dotted"
  <2>1. t = made
    <3> HIDE DEF z
    <3>1. made.threw
      BY <1>7, <1>8
    <3> QED BY <1>2, <1>8, <3>1 DEF GenerateEvidence, z
  <2>2. WithRecord(c, options.time) = c
    BY <1>4, <1>8 DEF WithRecord
  <2>3. Stored(s, made, options.dry)
    <3> HIDE DEF made
    <3> QED BY <1>7 DEF Stored, OnDisk, RecordsThere
  <2> HIDE DEF made, t
  <2> QED BY <1>0, <1>7, <2>1, <2>2, <2>3 DEF ScanState
<1>9. CASE m = 0 /\ d.id[1] # "dotted"
  <2>1. t = LinkTo(made, options, d.id, record)
    <3> HIDE DEF z
    <3>1. ~made.threw
      BY <1>7, <1>9
    <3> QED BY <1>2, <1>9, <3>1 DEF GenerateEvidence, z
  <2>2. record \notin ToSet(c.evidence)
    <3>1. d.id # NoId
      BY <1>2 DEF Eligible
    <3>2. IsRecord(record)
      BY <3>1 DEF IsRecord, Note
    <3> QED BY <1>4, <1>9, <3>2 DEF Recorded
  <2>3. WithRecord(c, options.time) = Relinked(c, Append(c.evidence, record))
    BY <1>4, <1>9 DEF WithRecord
  <2>4. record \in made.records \/ Dead(made) \/ options.dry
    <3>1. CASE Dead(s)
      <4>1. made.left \in Nat /\ made.left = 0
        <5> HIDE DEF made
        <5> QED BY <1>0, <1>7, <3>1 DEF ScanState, Dead
      <4> HIDE DEF made
      <4> QED BY <4>1 DEF Dead
    <3>2. CASE ~Dead(s)
      <4>1. ~Dead(z)
        <5> HIDE DEF z
        <5> QED BY <1>6, <3>2 DEF Dead
      <4> HIDE DEF made, z
      <4> QED BY <1>7, <1>9, <4>1
    <3> QED BY <3>1, <3>2
  <2>5. WithRecord(c, options.time)
               = Relinked(c, IF record \in ToSet(c.evidence) THEN c.evidence ELSE Append(c.evidence, record))
    BY <2>2, <2>3
  <2> HIDE DEF made, t, record, c
  <2> QED BY <1>3, <1>7, <2>1, <2>4, <2>5
<1> QED BY <1>5, <1>8, <1>9

-----------------------------------------------------------------------------
(* The item with another status, life or whatever else it has.             *)
Moved(d, status, life, has) ==
  [kind |-> "file", item |-> d.item, id |-> d.id, status |-> status, life |-> life,
   shape |-> d.shape, evidence |-> d.evidence, prs |-> d.prs, has |-> has]

(* An item as it is archived, and as it is when it lacks something.        *)
Shelved(d) == Moved(d, d.status, "inactive", d.has \cup {"date", "reason"})
Demoted(d, invalid) ==
  Moved(d, invalid, IF invalid = "draft" THEN "draft" ELSE "active",
        d.has \cup {"reason"} \cup (IF invalid \in {"completed", "aborted"} THEN {"date"} ELSE {}))

(* An item that is moved is one.                                           *)
LEMMA MovedIsItem ==
  ASSUME NEW d, ScanItem(d), NEW status, NEW life, NEW has
  PROVE  LET e == Moved(d, status, life, has) IN
         /\ ScanItem(e) /\ e.kind = "file" /\ e.item = d.item /\ e.id = d.id /\ e.status = status
         /\ e.life = life /\ e.shape = d.shape /\ e.evidence = d.evidence /\ e.prs = d.prs
         /\ e.has = has
BY DEF ScanItem, Moved

(* What an assignment to one field of an item makes of it.                 *)
LEMMA FieldSet ==
  ASSUME NEW d, ScanItem(d), NEW v
  PROVE  /\ [d EXCEPT !.status = v] = Moved(d, v, d.life, d.has)
         /\ [d EXCEPT !.life = v] = Moved(d, d.status, v, d.has)
         /\ [d EXCEPT !.has = v] = Moved(d, d.status, d.life, v)
<1> DEFINE item == d.item
           id == d.id
           status == d.status
           life == d.life
           shape == d.shape
           evidence == d.evidence
           prs == d.prs
           has == d.has
           m == [kind |-> "file", item |-> item, id |-> id, status |-> status, life |-> life,
                 shape |-> shape, evidence |-> evidence, prs |-> prs, has |-> has]
<1>1. d = m
  BY DEF ScanItem
<1> HIDE DEF item, id, status, life, shape, evidence, prs, has
<1>2. /\ [m EXCEPT !.status = v]
           = [kind |-> "file", item |-> item, id |-> id, status |-> v, life |-> life,
              shape |-> shape, evidence |-> evidence, prs |-> prs, has |-> has]
      /\ [m EXCEPT !.life = v]
           = [kind |-> "file", item |-> item, id |-> id, status |-> status, life |-> v,
              shape |-> shape, evidence |-> evidence, prs |-> prs, has |-> has]
      /\ [m EXCEPT !.has = v]
           = [kind |-> "file", item |-> item, id |-> id, status |-> status, life |-> life,
              shape |-> shape, evidence |-> evidence, prs |-> prs, has |-> v]
  OBVIOUS
<1> HIDE DEF m
<1>3. /\ [d EXCEPT !.status = v] = [m EXCEPT !.status = v] /\ [d EXCEPT !.life = v] = [m EXCEPT !.life = v]
      /\ [d EXCEPT !.has = v] = [m EXCEPT !.has = v]
  BY <1>1
<1> QED BY <1>2, <1>3 DEF Moved, item, id, status, life, shape, evidence, prs, has

(* What assignments to two of them or to all three do.                     *)
WithLife(d, life, has) == [d EXCEPT !.life = life, !.has = has]
WithStatus(d, status, life, has) == [d EXCEPT !.status = status, !.life = life, !.has = has]

(* Each is a change of the three fields in which files differ.             *)
LEMMA FieldsSet ==
  ASSUME NEW d, ScanItem(d), NEW status, NEW life, NEW has
  PROVE  /\ WithLife(d, life, has) = Moved(d, d.status, life, has)
         /\ WithStatus(d, status, life, has) = Moved(d, status, life, has)
<1> DEFINE a == [d EXCEPT !.life = life]
           b == [d EXCEPT !.status = status]
           c == [b EXCEPT !.life = life]
<1>1. a = Moved(d, d.status, life, d.has)
  BY FieldSet
<1> HIDE DEF a
<1>2. [a EXCEPT !.has = has] = Moved(d, d.status, life, has)
  <2>1. ScanItem(a) /\ a.status = d.status /\ a.life = life
    BY <1>1, MovedIsItem
  <2>2. [a EXCEPT !.has = has] = Moved(a, a.status, a.life, has)
    BY <2>1, FieldSet
  <2>3. \A st, li, h : Moved(a, st, li, h) = Moved(d, st, li, h)
    BY <1>1, MovedIsItem DEF Moved
  <2> QED BY <2>1, <2>2, <2>3
<1>3. b = Moved(d, status, d.life, d.has)
  BY FieldSet
<1> HIDE DEF b
<1>4. c = Moved(d, status, life, d.has)
  <2>1. ScanItem(b) /\ b.status = status /\ b.has = d.has
    BY <1>3, MovedIsItem
  <2>2. [b EXCEPT !.life = life] = Moved(b, b.status, life, b.has)
    BY <2>1, FieldSet
  <2>3. \A st, li, h : Moved(b, st, li, h) = Moved(d, st, li, h)
    BY <1>3, MovedIsItem DEF Moved
  <2> QED BY <2>1, <2>2, <2>3
<1> HIDE DEF c
<1>5. [c EXCEPT !.has = has] = Moved(d, status, life, has)
  <2>1. ScanItem(c) /\ c.status = status /\ c.life = life
    BY <1>4, MovedIsItem
  <2>2. [c EXCEPT !.has = has] = Moved(c, c.status, c.life, has)
    BY <2>1, FieldSet
  <2>3. \A st, li, h : Moved(c, st, li, h) = Moved(d, st, li, h)
    BY <1>4, MovedIsItem DEF Moved
  <2> QED BY <2>1, <2>2, <2>3
<1> QED BY <1>2, <1>5 DEF WithLife, WithStatus, a, b, c

(* The finalization of an item that is worked on, if it may be: it is      *)
(* copied to the archive and then removed, or in a dry run only changed.   *)
HasActual(d) == "actual" \in d.has
Finalized(s, t, n, dry, forge) == LET d == s.seen[LiveAt(n)] IN
  /\ ~Finalizable(d, forge) => t = Threw(s)
  /\ Finalizable(d, forge) /\ Dead(s) => t = s
  /\ Finalizable(d, forge) /\ ~Dead(s) /\ dry => Wrote(s, t, TRUE, LiveAt(n), Shelved(d))
  /\ Finalizable(d, forge) /\ ~Dead(s) /\ ~dry =>
       \E u : /\ Wrote(s, u, FALSE, ShelfAt(n), Shelved(d))
              /\ Dead(u) => t = u
              /\ ~Dead(u) => Wrote(u, t, FALSE, LiveAt(n), NoFile)

(* That is what it does with an item that has its actual effort.           *)
LEMMA FinalizeIs ==
  ASSUME NEW s, ScanState(s), NEW options, OnDisk(s, s, options.dry), NEW forge, NEW id, NEW n \in 1..2,
         SearchFinds(s, id, LiveAt(n)), ScanItem(s.seen[LiveAt(n)]), HasActual(s.seen[LiveAt(n)])
  PROVE  Finalized(s, Finalize(s, options, forge, id), n, options.dry, forge)
<1> DEFINE p == LiveAt(n)
           d == s.seen[p]
           t == Finalize(s, options, forge, id)
           more == d.has \cup {"date", "reason"}
           f == [d EXCEPT !.life = "inactive", !.has = more]
           u == Write(s, options, ShelfAt(n), Shelved(d))
<1>1. f = Shelved(d) /\ f.has = more
  <2>1. Shelved(d) = Moved(d, d.status, "inactive", more)
    BY DEF Shelved
  <2> HIDE DEF d, more
  <2>2. ScanItem(d) /\ f = WithLife(d, "inactive", more)
    BY DEF d, WithLife
  <2> HIDE DEF f
  <2>3. f = Moved(d, d.status, "inactive", more)
    BY <2>2, FieldsSet
  <2> QED BY <2>1, <2>2, <2>3, MovedIsItem
<1>2. ~Finalizable(d, forge) => t = Threw(s)
  BY DEF Finalize, SearchFinds
<1>3. /\ p[1] # "archive" /\ <<"archive", p[2]>> = ShelfAt(n)
      /\ p \in Slots /\ ShelfAt(n) \in Slots
  BY SlotsAre
<1>4. ASSUME Finalizable(d, forge)
      PROVE  t = IF options.dry THEN Change(s, p, Shelved(d)) ELSE Write(u, options, p, NoFile)
  <2>1. FirstWithId(s, id) # 0 /\ Paths[FirstWithId(s, id)] = p
    BY DEF SearchFinds
  <2>2. t = LET copied == Write(s, options, <<"archive", p[2]>>, f) IN
            IF "actual" \notin f.has THEN Threw(Change(s, p, f))
            ELSE IF options.dry THEN Change(s, p, f)
            ELSE IF p[1] = "archive" THEN copied ELSE Write(copied, options, p, NoFile)
    BY <1>4, <2>1 DEF Finalize
  <2>3. "actual" \in more
    BY DEF HasActual
  <2> HIDE DEF t, p, f, d, more
  <2> QED BY <1>1, <1>3, <2>2, <2>3
<1> HIDE DEF u, t, d, f, more
<1>5. ASSUME Finalizable(d, forge), options.dry
      PROVE  /\ Dead(s) => t = s
             /\ ~Dead(s) => Wrote(s, t, TRUE, p, Shelved(d))
  BY <1>3, <1>4, <1>5, Changes
<1>6. ASSUME Finalizable(d, forge), Dead(s), ~options.dry PROVE t = s
  <2>1. u = s
    BY <1>3, <1>6, Writes DEF u
  <2> QED BY <1>3, <1>4, <1>6, <2>1, Writes
<1>7. ASSUME Finalizable(d, forge), ~options.dry, ~Dead(s)
      PROVE  /\ Wrote(s, u, FALSE, ShelfAt(n), Shelved(d))
             /\ Dead(u) => t = u
             /\ ~Dead(u) => Wrote(u, t, FALSE, p, NoFile)
  <2>1. Wrote(s, u, options.dry, ShelfAt(n), Shelved(d))
    BY <1>3, <1>7, Writes DEF u
  <2>2. ScanState(u) /\ OnDisk(u, u, options.dry) /\ Wrote(s, u, FALSE, ShelfAt(n), Shelved(d))
    BY <1>7, <2>1 DEF Wrote, OnDisk
  <2>3. /\ Dead(u) => t = u
        /\ ~Dead(u) => Wrote(u, t, options.dry, p, NoFile)
    BY <1>3, <1>4, <1>7, <2>2, Writes
  <2>4. Wrote(u, t, options.dry, p, NoFile) => Wrote(u, t, FALSE, p, NoFile)
    BY <1>7 DEF Wrote, OnDisk
  <2> QED BY <2>2, <2>3, <2>4
<1> QED BY <1>2, <1>5, <1>6, <1>7 DEF t, d, Finalized

(* The transition of an item to the status for invalid candidates.         *)
LEMMA DemoteIs ==
  ASSUME NEW s, ScanState(s), NEW options, OnDisk(s, s, options.dry), NEW id, NEW p \in Slots,
         SearchFinds(s, id, p), ScanItem(s.seen[p])
  PROVE  LET d == s.seen[p]
             t == Demote(s, options, id)
             barred == options.invalid = "completed" /\ "ticked" \notin d.has IN
         /\ barred => t = Threw(s)
         /\ ~barred /\ Dead(s) => t = s
         /\ ~barred /\ ~Dead(s) => Wrote(s, t, options.dry, p, Demoted(d, options.invalid))
<1> DEFINE d == s.seen[p]
           t == Demote(s, options, id)
           i == options.invalid
           barred == i = "completed" /\ "ticked" \notin d.has
           life == IF i = "draft" THEN "draft" ELSE "active"
           has == d.has \cup {"reason"} \cup (IF i \in {"completed", "aborted"} THEN {"date"} ELSE {})
           f == [d EXCEPT !.status = i, !.life = life, !.has = has]
<1>1. f = Demoted(d, i)
  <2>1. Demoted(d, i) = Moved(d, i, life, has)
    BY DEF Demoted
  <2> HIDE DEF d, life, has, i
  <2>2. ScanItem(d) /\ f = WithStatus(d, i, life, has)
    BY DEF d, WithStatus
  <2> HIDE DEF f
  <2> QED BY <2>1, <2>2, FieldsSet
<1>2. t = IF barred THEN Threw(s) ELSE Write(s, options, p, f)
  <2> HIDE DEF barred
  <2> QED BY DEF Demote, SearchFinds, barred
<1> HIDE DEF f, t
<1>3. t = IF barred THEN Threw(s) ELSE Write(s, options, p, Demoted(d, i))
  BY <1>1, <1>2
<1> HIDE DEF barred, d, i
<1> QED BY <1>3, Writes DEF t, barred, d, i

(* A file that is moved or rewritten takes no link with it that is not     *)
(* there.                                                                  *)
LEMMA RecordsStay ==
  ASSUME NEW s, NEW t, NEW p \in Slots, NEW q \in Slots, NEW f, NEW dry, Wrote(s, t, dry, p, f),
         Stored(s, s, dry),
         f.kind = "file" => s.seen[q].kind = "file" /\ f.evidence = s.seen[q].evidence
  PROVE  Stored(s, t, dry)
<1>1. CASE dry
  BY <1>1 DEF Wrote, Stored, OnDisk, RecordsThere
<1>2. CASE ~dry
  <2>1. t.files = t.seen /\ s.files = s.seen
    BY <1>2 DEF Wrote, Stored, OnDisk
  <2> QED BY <1>2, <2>1 DEF Wrote, Stored, OnDisk, RecordsThere
<1> QED BY <1>1, <1>2

-----------------------------------------------------------------------------
(* What a scan makes of an item that is worked on: evidence if it is asked *)
(* for, or if the item is to be archived and has none.                     *)
IsSubject(d, options, forge) ==
  options.generate /\ Eligible(d.id) /\ d.id \in SubjectIds(d, options, forge)
WithEvidence(d, options, forge) ==
  IF IsSubject(d, options, forge) THEN WithRecord(d, options.time) ELSE d
Closing(d, options) == options.sweep /\ d.item /\ d.status = "completed"
Prepared(d, options, forge) == LET m == WithEvidence(d, options, forge) IN
  IF Closing(d, options) /\ options.generate /\ Evidence(m) = <<>> /\ Eligible(d.id)
    THEN WithRecord(m, options.time) ELSE m

(* And then it is archived, or demoted, or neither.                        *)
Archives(e, options, forge) ==
  Closing(e, options) /\ Issues(e) = {} /\ e.id # NoId /\ Finalizable(e, forge)
Demotes(e, options) ==
  /\ Closing(e, options) /\ Issues(e) # {} /\ e.id # NoId /\ options.invalid # "none"
  /\ ~(options.invalid = "completed" /\ "ticked" \notin e.has)

(* The two files of an item that was d and has been prepared as e, as they *)
(* are read: at any time, and in the end.                                  *)
Underway(d, e, z, x, y, options, forge) ==
  \/ y = z /\ (x = d \/ x = e)
  \/ Archives(e, options, forge) /\ ~options.dry /\ y = Shelved(e) /\ (x = e \/ x = NoFile)
  \/ Archives(e, options, forge) /\ options.dry /\ y = z /\ x = Shelved(e)
  \/ Demotes(e, options) /\ y = z /\ x = Demoted(e, options.invalid)
Through(e, z, x, y, options, forge) ==
  \/ Archives(e, options, forge) /\ ~options.dry /\ y = Shelved(e) /\ x = NoFile
  \/ Archives(e, options, forge) /\ options.dry /\ y = z /\ x = Shelved(e)
  \/ Demotes(e, options) /\ y = z /\ x = Demoted(e, options.invalid)
  \/ ~Archives(e, options, forge) /\ ~Demotes(e, options) /\ y = z /\ x = e

(* The item is prepared, unless the scan was killed before.                *)
Readied(s, t, dry, p, d, e) ==
  /\ ScanState(t) /\ Stored(s, t, dry) /\ t.archived = s.archived
  /\ t.left <= s.left /\ t.left + 4 >= s.left
  /\ \A q \in Slots : q # p => t.seen[q] = s.seen[q]
  /\ t.seen[p] = e \/ (t.seen[p] = d /\ t.left = 0)

(* Evidence of an item does not hide it.                                   *)
LEMMA StillLeads ==
  ASSUME NEW s, NEW t, NEW p \in Slots, s.seen[p].kind = "file", t.seen[p].kind = "file",
         t.seen[p].id = s.seen[p].id, \A q \in Slots : q # p => t.seen[q] = s.seen[q]
  PROVE  \A id, q : SearchFinds(s, id, q) <=> SearchFinds(t, id, q)
<1>1. ASSUME NEW q \in Slots, NEW id PROVE HasId(s, q, id) <=> HasId(t, q, id)
  BY DEF HasId
<1> QED BY <1>1, SameFirst

(* The items that a preparation makes of an item are the item.             *)
LEMMA PreparedIs ==
  ASSUME NEW d, ScanItem(d), NEW options, NEW forge
  PROVE  \A e \in {WithEvidence(d, options, forge), Prepared(d, options, forge)} :
           /\ ScanItem(e) /\ e.kind = "file" /\ e.item = d.item /\ e.id = d.id /\ e.status = d.status
           /\ e.prs = d.prs /\ e.has = d.has /\ e.life = d.life
           /\ e = d \/ e = WithRecord(d, options.time)
<1> DEFINE Same(e) == /\ ScanItem(e) /\ e.kind = "file" /\ e.item = d.item /\ e.id = d.id /\ e.status = d.status
                      /\ e.prs = d.prs /\ e.has = d.has /\ e.life = d.life
                      /\ e = d \/ e = WithRecord(d, options.time)
           m == WithEvidence(d, options, forge)
           e == Prepared(d, options, forge)
           w == WithRecord(d, options.time)
<1>1. d.kind = "file"
  BY DEF ScanItem
<1>2. Eligible(d.id) => Same(w) /\ WithRecord(w, options.time) = w
  <2> SUFFICES ASSUME Eligible(d.id) PROVE Same(w) /\ WithRecord(w, options.time) = w
    OBVIOUS
  <2>1. d.id # NoId
    BY DEF Eligible
  <2> HIDE DEF w
  <2> QED BY <2>1, WithRecordIs DEF w
<1>3. Same(d)
  BY <1>1
<1>4. m = d \/ (m = w /\ Eligible(d.id))
  BY DEF WithEvidence, IsSubject
<1>5. e = m \/ (Eligible(d.id) /\ e = WithRecord(m, options.time))
  BY DEF Prepared
<1> HIDE DEF Same, m, e, w
<1>6. Same(m) /\ Same(e)
  BY <1>2, <1>3, <1>4, <1>5 DEF w
<1> QED BY <1>6 DEF Same, m, e, w

(* An item that is not to be archived gets the evidence asked for.         *)
LEMMA MadeIs ==
  ASSUME NEW s, ScanState(s), NEW options, Stored(s, s, options.dry), NEW forge,
         NEW p \in Slots, ScanItem(s.seen[p]),
         Eligible(s.seen[p].id) => SearchFinds(s, s.seen[p].id, p)
  PROVE  LET d == s.seen[p]
             made == IF options.generate
                       THEN GenerateEvidence(s, options, p, d, SubjectIds(d, options, forge), FALSE) ELSE s IN
         /\ Evidenced(s, made, options.dry, p, options.time, IsSubject(d, options, forge))
         /\ Readied(s, made, options.dry, p, d, WithEvidence(d, options, forge))
         /\ made.left + 2 >= s.left
<1> DEFINE d == s.seen[p]
           made == IF options.generate
                     THEN GenerateEvidence(s, options, p, d, SubjectIds(d, options, forge), FALSE) ELSE s
<1>0. s.left \in Nat
  BY DEF ScanState
<1>1. Evidenced(s, made, options.dry, p, options.time, IsSubject(d, options, forge))
  <2>1. CASE options.generate
    <3>1. Evidenced(s, made, options.dry, p, options.time, Eligible(d.id) /\ (FALSE \/ d.id \in SubjectIds(d, options, forge)))
      BY <2>1, GenerateIs
    <3>2. IsSubject(d, options, forge) <=> Eligible(d.id) /\ (FALSE \/ d.id \in SubjectIds(d, options, forge))
      BY <2>1 DEF IsSubject
    <3> HIDE DEF made, d
    <3> QED BY <3>1, <3>2 DEF Evidenced
  <2>2. CASE ~options.generate
    <3>1. made = s /\ ~IsSubject(d, options, forge)
      BY <2>2 DEF IsSubject
    <3> HIDE DEF made, d
    <3> QED BY <1>0, <3>1 DEF Evidenced
  <2> QED BY <2>1, <2>2
<1> HIDE DEF made
<1>2. made.left \in Nat
  BY <1>1 DEF Evidenced, ScanState
<1>3. Readied(s, made, options.dry, p, d, WithEvidence(d, options, forge)) /\ made.left + 2 >= s.left
  BY <1>0, <1>1, <1>2 DEF Readied, Evidenced, WithEvidence
<1> QED BY <1>1, <1>3 DEF made

(* One that is to be archived gets evidence if it has none.                *)
LEMMA ForcedIs ==
  ASSUME NEW s, ScanState(s), NEW options, Stored(s, s, options.dry), NEW forge,
         NEW p \in Slots, NEW d, ScanItem(d), s.seen[p] = d, Eligible(d.id) => SearchFinds(s, d.id, p),
         Closing(d, options), NEW made,
         Evidenced(s, made, options.dry, p, options.time, IsSubject(d, options, forge))
  PROVE  LET forced == IF options.generate /\ Evidence(made.seen[p]) = <<>>
                         THEN GenerateEvidence(made, options, p, d, {}, TRUE) ELSE made IN
         Readied(s, forced, options.dry, p, d, Prepared(d, options, forge))
<1> DEFINE c == made.seen[p]
           m == WithEvidence(d, options, forge)
           w == WithRecord(d, options.time)
           e == Prepared(d, options, forge)
           forced == IF options.generate /\ Evidence(c) = <<>>
                       THEN GenerateEvidence(made, options, p, d, {}, TRUE) ELSE made
           again == options.generate /\ Evidence(c) = <<>>
<1>0. s.left \in Nat /\ made.left \in Nat /\ d.kind = "file"
  BY DEF Evidenced, ScanState, ScanItem
<1>1. /\ c = m \/ (c = d /\ made.left = 0)
      /\ made.left + 2 >= s.left /\ made.left <= s.left
  BY DEF WithEvidence, Evidenced
<1>2. Eligible(d.id) => WithRecord(w, options.time) = w /\ ScanItem(w) /\ w.id = d.id /\ w.kind = "file"
  <2> SUFFICES ASSUME Eligible(d.id) PROVE WithRecord(w, options.time) = w /\ ScanItem(w) /\ w.id = d.id /\ w.kind = "file"
    OBVIOUS
  <2>1. d.id # NoId
    BY DEF Eligible
  <2> HIDE DEF w
  <2> QED BY <2>1, WithRecordIs DEF w
<1>3. (m = d /\ ~IsSubject(d, options, forge)) \/ (m = w /\ Eligible(d.id))
  BY DEF WithEvidence, IsSubject
<1>4. e = IF options.generate /\ Evidence(m) = <<>> /\ Eligible(d.id) THEN WithRecord(m, options.time) ELSE m
  BY DEF Prepared
<1> HIDE DEF w, m, e
<1>5. ScanItem(c) /\ c.id = d.id /\ c.kind = "file"
  BY <1>0, <1>1, <1>2, <1>3
<1>6. CASE ~again \/ ~Eligible(d.id)
  <2>1. forced = made
    BY <1>6 DEF GenerateEvidence
  <2>2. c = e \/ (c = d /\ made.left = 0)
    BY <1>1, <1>2, <1>3, <1>4, <1>6
  <2> HIDE DEF forced
  <2>3. Readied(s, forced, options.dry, p, d, e)
    BY <1>0, <1>1, <2>1, <2>2 DEF Readied, Evidenced
  <2> QED BY <2>3 DEF forced, e
<1>7. CASE again /\ Eligible(d.id)
  <2>1. SearchFinds(made, d.id, p)
    <3>1. s.seen[p].kind = "file" /\ made.seen[p].kind = "file" /\ made.seen[p].id = s.seen[p].id
      BY <1>0, <1>5
    <3>2. \A q \in Slots : q # p => made.seen[q] = s.seen[q]
      BY DEF Evidenced
    <3> HIDE DEF c
    <3> QED BY <1>7, <3>1, <3>2, StillLeads
  <2>2. Evidenced(made, forced, options.dry, p, options.time, TRUE)
    <3>1. Evidenced(made, forced, options.dry, p, options.time, Eligible(d.id) /\ (TRUE \/ d.id \in {}))
      <4>1. forced = GenerateEvidence(made, options, p, d, {}, TRUE)
        BY <1>7
      <4>2. ScanState(made) /\ Stored(made, made, options.dry) /\ ScanItem(made.seen[p]) /\ made.seen[p].id = d.id
        BY <1>5, StoredAfter DEF Evidenced
      <4> HIDE DEF c, forced
      <4>3. Evidenced(made, GenerateEvidence(made, options, p, d, {}, TRUE), options.dry, p, options.time,
                      Eligible(d.id) /\ (TRUE \/ d.id \in {}))
        BY <2>1, <4>2, GenerateIs
      <4> QED BY <4>1, <4>3
    <3> HIDE DEF forced
    <3> QED BY <1>7, <3>1 DEF Evidenced
  <2> HIDE DEF forced
  <2>3. forced.left \in Nat /\ forced.left <= made.left /\ forced.left + 2 >= made.left
        /\ (forced.seen[p] = WithRecord(c, options.time) \/ (forced.seen[p] = c /\ forced.left = 0))
    BY <2>2 DEF Evidenced, ScanState
  <2>4. forced.seen[p] = e \/ (forced.seen[p] = d /\ forced.left = 0)
    <3>1. CASE c = d
      <4>1. e = w
        <5>1. CASE m = d
          BY <1>4, <1>7, <3>1, <5>1 DEF w
        <5>2. CASE m = w
          BY <1>2, <1>4, <1>7, <5>2
        <5> QED BY <1>3, <5>1, <5>2
      <4> QED BY <2>3, <3>1, <4>1 DEF w
    <3>2. CASE c = m /\ m = w
      <4>1. e = w
        BY <1>2, <1>3, <1>4, <1>7, <3>2
      <4> QED BY <1>2, <1>7, <2>3, <3>2, <4>1
    <3> QED BY <1>1, <1>3, <3>1, <3>2
  <2>5. Readied(s, forced, options.dry, p, d, e)
    <3>1. Stored(s, forced, options.dry)
      BY <2>2, StoredAfter DEF Evidenced
    <3> HIDE DEF c
    <3> QED BY <1>0, <1>1, <2>2, <2>3, <2>4, <3>1 DEF Readied, Evidenced
  <2> QED BY <2>5 DEF forced, e
<1> QED BY <1>6, <1>7

(* The files of an item are on their way, and if the scan was not killed   *)
(* they have arrived; nothing else has changed.                            *)
Untouched(s, t, n) ==
  \A q \in Slots : q # LiveAt(n) /\ q # ShelfAt(n) => t.seen[q] = s.seen[q]
Advanced(s, t, n, d, e, options, forge) ==
  /\ ScanState(t) /\ Stored(s, t, options.dry) /\ Untouched(s, t, n)
  /\ t.left <= s.left /\ t.left + 8 >= s.left
  /\ \/ t.archived = s.archived
     \/ Archives(e, options, forge) /\ t.archived = s.archived \cup {d.id}
  /\ Underway(d, e, s.seen[ShelfAt(n)], t.seen[LiveAt(n)], t.seen[ShelfAt(n)], options, forge)
  /\ t.left # 0 => Through(e, s.seen[ShelfAt(n)], t.seen[LiveAt(n)], t.seen[ShelfAt(n)], options, forge)
  /\ t.left # 0 /\ Archives(e, options, forge) => d.id \in t.archived

(* Another answer in the list of archived items changes nothing else.      *)
LEMMA ToldIs ==
  ASSUME NEW s, ScanState(s), NEW id
  PROVE  LET t == [s EXCEPT !.archived = @ \cup {id}] IN
         /\ ScanState(t) /\ t.files = s.files /\ t.seen = s.seen /\ t.records = s.records
         /\ t.left = s.left /\ t.archived = s.archived \cup {id}
<1> DEFINE more == s.archived \cup {id}
           r == [files |-> s.files, seen |-> s.seen, records |-> s.records, left |-> s.left,
                 threw |-> s.threw, archived |-> more]
<1>1. [s EXCEPT !.archived = more] = r
  <2> HIDE DEF more
  <2> QED BY DEF ScanState
<1> HIDE DEF more
<1>2. /\ ScanState(r) /\ r.files = s.files /\ r.seen = s.seen /\ r.records = s.records
      /\ r.left = s.left /\ r.archived = more
  BY DEF ScanState
<1> HIDE DEF r
<1> QED BY <1>1, <1>2 DEF more

(* A prepared item without issues is finalized.                            *)
LEMMA FinalizedAdvances ==
  ASSUME NEW s, ScanState(s), NEW f, NEW n \in 1..2, NEW d, ScanItem(d), NEW e, ScanItem(e), e.id = d.id,
         NEW options, Readied(s, f, options.dry, LiveAt(n), d, e), NEW forge, Closing(e, options),
         d.id # NoId, SearchFinds(f, d.id, LiveAt(n)), Issues(f.seen[LiveAt(n)]) = {}
  PROVE  LET final == Finalize([f EXCEPT !.threw = FALSE], options, forge, d.id)
             t == IF final.threw \/ Dead(final) THEN final ELSE [final EXCEPT !.archived = @ \cup {d.id}] IN
         Advanced(s, t, n, d, e, options, forge)
<1> DEFINE g == [f EXCEPT !.threw = FALSE]
           final == Finalize(g, options, forge, d.id)
           told == [final EXCEPT !.archived = @ \cup {d.id}]
           t == IF final.threw \/ Dead(final) THEN final ELSE told
           p == LiveAt(n)
           z == ShelfAt(n)
<1> SUFFICES Advanced(s, t, n, d, e, options, forge)
  OBVIOUS
<1>0. t = IF final.threw \/ Dead(final) THEN final ELSE told
  OBVIOUS
<1> HIDE DEF t
<1>1. /\ ScanState(g) /\ g.files = f.files /\ g.seen = f.seen /\ g.records = f.records /\ g.left = f.left
      /\ g.archived = f.archived /\ g.threw = FALSE
  BY ThrewIs DEF Readied
<1> HIDE DEF g
<1>2. /\ s.left \in Nat /\ f.left \in Nat /\ g.left \in Nat /\ p \in Slots /\ z \in Slots /\ p # z
  BY <1>1, SlotsAre DEF ScanState, Readied
<1>3. Stored(s, g, options.dry) /\ Stored(g, g, options.dry) /\ OnDisk(g, g, options.dry)
  <2>1. Stored(s, g, options.dry)
    BY <1>1, StoredSame DEF Readied
  <2> QED BY <2>1, StoredAfter DEF Stored
<1>4. SearchFinds(g, d.id, p)
  <2>1. \A q \in Slots : \A id : HasId(f, q, id) <=> HasId(g, q, id)
    BY <1>1 DEF HasId
  <2> QED BY <2>1, SameFirst
<1>5. ScanItem(g.seen[p]) /\ (g.seen[p] = e \/ (g.seen[p] = d /\ g.left = 0))
  BY <1>1 DEF Readied
<1>6. \A q \in Slots : q # p => g.seen[q] = s.seen[q]
  BY <1>1 DEF Readied
<1>7. g.left <= s.left /\ g.left + 4 >= s.left /\ g.archived = s.archived
  BY <1>1 DEF Readied
<1>8. ASSUME NEW u, ScanState(u), Stored(s, u, options.dry), u.seen = g.seen, u.left = g.left, u.archived = g.archived,
             g.left # 0 => ~Archives(e, options, forge)
      PROVE  Advanced(s, u, n, d, e, options, forge)
  <2>1. Untouched(s, u, n)
    BY <1>6, <1>8 DEF Untouched
  <2>2. u.seen[z] = s.seen[z] /\ (u.seen[p] = e \/ (u.seen[p] = d /\ u.left = 0))
    BY <1>2, <1>5, <1>6, <1>8
  <2>3. u.left # 0 => g.left # 0
    BY <1>8
  <2>4. u.left # 0 => ~Archives(e, options, forge)
    BY <1>8, <2>3
  <2>5. u.left # 0 => ~Demotes(e, options)
    <3>1. u.left # 0 => g.seen[p] = e
      BY <1>5, <2>3
    <3> QED BY <1>1, <3>1 DEF Demotes
  <2> QED BY <1>2, <1>7, <1>8, <2>1, <2>2, <2>3, <2>4, <2>5 DEF Advanced, Underway, Through
<1>12. HasActual(g.seen[p])
  <2> DEFINE h == f.seen[p].has
  <2>1. {"actual", "reason", "date", "note"} \ h = {}
    BY DEF Issues
  <2> HIDE DEF h
  <2>2. "actual" \in h
    BY <2>1
  <2> QED BY <1>1, <2>2 DEF h, HasActual
<1>13. Finalized(g, final, n, options.dry, forge)
  BY <1>1, <1>3, <1>4, <1>5, <1>12, FinalizeIs
<1>9. CASE ~Finalizable(g.seen[p], forge)
  <2>1. final = Threw(g)
    BY <1>9, <1>13 DEF Finalized
  <2>2. /\ ScanState(final) /\ final.files = g.files /\ final.seen = g.seen /\ final.records = g.records /\ final.left = g.left
        /\ final.archived = g.archived /\ final.threw = TRUE
    BY <1>1, <2>1, ThrewIs DEF Threw
  <2> HIDE DEF final
  <2>3. t = final
    BY <1>0, <2>2
  <2>4. Stored(s, final, options.dry)
    BY <1>3, <2>2, StoredSame
  <2>5. g.left # 0 => ~Archives(e, options, forge)
    BY <1>5, <1>9 DEF Archives
  <2>6. Advanced(s, final, n, d, e, options, forge)
    BY <1>8, <2>2, <2>4, <2>5
  <2> QED BY <2>3, <2>6
<1>10. CASE Finalizable(g.seen[p], forge) /\ Dead(g)
  <2>1. final = g
    BY <1>10, <1>13 DEF Finalized
  <2> HIDE DEF final
  <2>2. t = final
    BY <1>0, <1>1, <1>10, <2>1 DEF Dead
  <2>3. g.left # 0 => ~Archives(e, options, forge)
    BY <1>10 DEF Dead
  <2>4. Advanced(s, g, n, d, e, options, forge)
    BY <1>1, <1>3, <1>8, <2>3
  <2> QED BY <2>1, <2>2, <2>4
<1>11. CASE Finalizable(g.seen[p], forge) /\ ~Dead(g)
  <2>1. g.seen[p] = e /\ Archives(e, options, forge)
    <3>1. g.seen[p] = e
      BY <1>5, <1>11 DEF Dead
    <3> QED BY <1>1, <1>11, <3>1 DEF Archives
  <2>2. Shelved(e).evidence = e.evidence /\ e.kind = "file"
    BY MovedIsItem DEF Shelved, ScanItem
  <2>3. ASSUME ScanState(final), Stored(s, final, options.dry), Untouched(s, final, n), final.threw = FALSE,
               final.left <= g.left, final.left + 2 >= g.left, final.archived = s.archived,
               Through(e, s.seen[z], final.seen[p], final.seen[z], options, forge)
        PROVE  Advanced(s, t, n, d, e, options, forge)
    <3>1. /\ ScanState(told) /\ told.files = final.files /\ told.seen = final.seen
          /\ told.records = final.records /\ told.left = final.left
          /\ told.archived = s.archived \cup {d.id}
      BY <2>3, ToldIs
    <3> HIDE DEF told, final
    <3>2. /\ ScanState(t) /\ t.files = final.files /\ t.seen = final.seen /\ t.records = final.records
          /\ t.left = final.left /\ t.left \in Nat
          /\ t.archived = s.archived \/ t.archived = s.archived \cup {d.id}
          /\ t.left # 0 => d.id \in t.archived
      <4>1. t = final \/ t = told
        BY <1>0
      <4>2. t.left # 0 => t = told
        BY <1>0, <2>3 DEF Dead
      <4> QED BY <2>3, <3>1, <4>1, <4>2 DEF ScanState
    <3>3. Stored(s, t, options.dry) /\ Untouched(s, t, n)
      BY <2>3, <3>2, StoredSame DEF Untouched
    <3>4. Through(e, s.seen[z], t.seen[p], t.seen[z], options, forge)
      BY <2>3, <3>2
    <3>5. t.left <= s.left /\ t.left + 8 >= s.left
      BY <1>2, <1>7, <2>3, <3>2
    <3> HIDE DEF t
    <3> QED BY <2>1, <3>2, <3>3, <3>4, <3>5 DEF Advanced, Underway, Through
  <2>4. CASE options.dry
    <3>1. Wrote(g, final, TRUE, p, Shelved(e))
      BY <1>11, <1>13, <2>1, <2>4 DEF Finalized
    <3> HIDE DEF final
    <3>2. Wrote(g, final, options.dry, p, Shelved(e))
      BY <2>4, <3>1 DEF Wrote, OnDisk
    <3>3. Stored(g, final, options.dry)
      BY <1>2, <1>3, <2>1, <2>2, <3>2, RecordsStay
    <3>4. /\ ScanState(final) /\ final.threw = FALSE /\ final.left <= g.left /\ final.left + 2 >= g.left
          /\ final.archived = s.archived /\ final.seen[p] = Shelved(e) /\ final.seen[z] = s.seen[z]
      BY <1>1, <1>2, <1>6, <1>7, <3>1 DEF Wrote, ScanState
    <3>5. Untouched(s, final, n)
      BY <1>6, <3>1 DEF Untouched, Wrote
    <3>6. Stored(s, final, options.dry)
      BY <1>3, <3>3, StoredAfter
    <3> QED BY <2>1, <2>3, <2>4, <3>4, <3>5, <3>6 DEF Through
  <2>5. CASE ~options.dry
    <3>1. PICK u : /\ Wrote(g, u, FALSE, z, Shelved(e))
                   /\ Dead(u) => final = u
                   /\ ~Dead(u) => Wrote(u, final, FALSE, p, NoFile)
      BY <1>11, <1>13, <2>1, <2>5 DEF Finalized
    <3>2. Wrote(g, u, options.dry, z, Shelved(e))
      BY <2>5, <3>1 DEF Wrote, OnDisk
    <3>3. Stored(g, u, options.dry)
      BY <1>2, <1>3, <2>1, <2>2, <3>2, RecordsStay
    <3>4. Stored(s, u, options.dry) /\ Stored(u, u, options.dry)
      BY <1>3, <3>3, StoredAfter
    <3> HIDE DEF final
    <3>5. /\ u.left <= g.left /\ u.left + 1 >= g.left /\ u.left \in Nat /\ u.seen[z] = Shelved(e)
          /\ u.seen[p] = e /\ u.threw = FALSE /\ u.archived = s.archived /\ ScanState(u)
      BY <1>1, <1>2, <1>7, <2>1, <3>1 DEF Wrote, ScanState
    <3>6. Untouched(s, u, n)
      BY <1>6, <3>1 DEF Untouched, Wrote
    <3>7. CASE Dead(u)
      <4>1. t = u
        BY <1>0, <3>1, <3>7
      <4>2. u.left = 0
        BY <3>7 DEF Dead
      <4>3. Advanced(s, u, n, d, e, options, forge)
        BY <1>2, <1>7, <2>1, <2>5, <3>4, <3>5, <3>6, <4>2 DEF Advanced, Underway
      <4> QED BY <4>1, <4>3
    <3>8. CASE ~Dead(u)
      <4>1. Wrote(u, final, FALSE, p, NoFile) /\ Wrote(u, final, options.dry, p, NoFile)
        BY <2>5, <3>1, <3>8 DEF Wrote, OnDisk
      <4>2. NoFile.kind # "file"
        BY DEF NoFile
      <4>3. Stored(u, final, options.dry)
        BY <1>2, <3>4, <4>1, <4>2, RecordsStay
      <4>4. /\ ScanState(final) /\ final.left <= g.left /\ final.left + 2 >= g.left /\ final.threw = FALSE
            /\ final.archived = s.archived /\ final.seen[p] = NoFile /\ final.seen[z] = Shelved(e)
        BY <1>2, <3>5, <4>1 DEF Wrote, ScanState
      <4>5. Untouched(s, final, n)
        BY <3>6, <4>1 DEF Untouched, Wrote
      <4>6. Stored(s, final, options.dry)
        BY <3>4, <4>3, StoredAfter
      <4> QED BY <2>1, <2>3, <2>5, <4>4, <4>5, <4>6 DEF Through
    <3> QED BY <3>7, <3>8
  <2> QED BY <2>4, <2>5
<1> QED BY <1>9, <1>10, <1>11

(* A prepared item that lacks something is demoted, or left alone.         *)
LEMMA LackingAdvances ==
  ASSUME NEW s, ScanState(s), NEW f, NEW n \in 1..2, NEW d, ScanItem(d), NEW e, ScanItem(e), e.id = d.id,
         NEW options, Readied(s, f, options.dry, LiveAt(n), d, e), NEW forge, Closing(e, options),
         d.id # NoId => SearchFinds(f, d.id, LiveAt(n)),
         Issues(f.seen[LiveAt(n)]) # {} \/ d.id = NoId
  PROVE  LET t == IF d.id = NoId \/ options.invalid = "none" THEN f ELSE Demote(f, options, d.id) IN
         Advanced(s, t, n, d, e, options, forge)
<1> DEFINE t == IF d.id = NoId \/ options.invalid = "none" THEN f ELSE Demote(f, options, d.id)
           p == LiveAt(n)
           z == ShelfAt(n)
           i == options.invalid
           barred == i = "completed" /\ "ticked" \notin f.seen[p].has
<1> SUFFICES Advanced(s, t, n, d, e, options, forge)
  OBVIOUS
<1>0. t = IF d.id = NoId \/ i = "none" THEN f ELSE Demote(f, options, d.id)
  OBVIOUS
<1> HIDE DEF t
<1>1. /\ s.left \in Nat /\ f.left \in Nat /\ p \in Slots /\ z \in Slots /\ p # z /\ ScanState(f)
      /\ f.left <= s.left /\ f.left + 4 >= s.left /\ f.archived = s.archived
  BY SlotsAre DEF ScanState, Readied
<1>2. /\ Stored(s, f, options.dry) /\ Stored(f, f, options.dry) /\ ScanItem(f.seen[p]) /\ (f.seen[p] = e \/ (f.seen[p] = d /\ f.left = 0))
      /\ \A q \in Slots : q # p => f.seen[q] = s.seen[q]
      /\ OnDisk(f, f, options.dry)
  BY StoredAfter DEF Readied, Stored
<1>4. f.left # 0 => ~Archives(e, options, forge)
  BY <1>2 DEF Archives
<1>5. ASSUME NEW u, ScanState(u), Stored(s, u, options.dry), u.seen = f.seen, u.left = f.left, u.archived = f.archived,
             f.left # 0 => ~Demotes(e, options)
      PROVE  Advanced(s, u, n, d, e, options, forge)
  <2>1. Untouched(s, u, n)
    BY <1>2, <1>5 DEF Untouched
  <2>2. u.seen[z] = s.seen[z] /\ (u.seen[p] = e \/ (u.seen[p] = d /\ u.left = 0))
    BY <1>1, <1>2, <1>5
  <2>3. u.left # 0 => ~Demotes(e, options) /\ u.seen[p] = e
    BY <1>5, <2>2
  <2> QED BY <1>1, <1>4, <1>5, <2>1, <2>2, <2>3 DEF Advanced, Underway, Through
<1>6. CASE d.id = NoId \/ i = "none"
  <2>1. t = f
    BY <1>0, <1>6
  <2>2. ~Demotes(e, options)
    BY <1>6 DEF Demotes
  <2> QED BY <1>1, <1>2, <1>5, <2>1, <2>2
<1>7. CASE d.id # NoId /\ i # "none" /\ barred
  <2>1. t = Threw(f)
    BY <1>0, <1>1, <1>2, <1>7, DemoteIs
  <2>2. /\ ScanState(t) /\ t.files = f.files /\ t.seen = f.seen /\ t.records = f.records /\ t.left = f.left
        /\ t.archived = f.archived
    BY <1>1, <2>1, ThrewIs DEF Threw
  <2>3. Stored(s, t, options.dry)
    BY <1>2, <2>2, StoredSame
  <2>4. f.left # 0 => ~Demotes(e, options)
    BY <1>2, <1>7 DEF Demotes
  <2> QED BY <1>5, <2>2, <2>3, <2>4
<1>8. CASE d.id # NoId /\ i # "none" /\ ~barred /\ Dead(f)
  <2>1. t = f
    BY <1>0, <1>1, <1>2, <1>8, DemoteIs
  <2>2. f.left # 0 => ~Demotes(e, options)
    BY <1>8 DEF Dead
  <2> QED BY <1>1, <1>2, <1>5, <2>1, <2>2
<1>9. CASE d.id # NoId /\ i # "none" /\ ~barred /\ ~Dead(f)
  <2>1. f.seen[p] = e
    BY <1>2, <1>9 DEF Dead
  <2>2. Wrote(f, t, options.dry, p, Demoted(e, i))
    BY <1>0, <1>1, <1>2, <1>9, <2>1, DemoteIs
  <2>3. Demotes(e, options)
    BY <1>9, <2>1 DEF Demotes
  <2>4. Demoted(e, i).evidence = e.evidence /\ e.kind = "file"
    <3>1. e.kind = "file"
      BY DEF ScanItem
    <3> QED BY <3>1, MovedIsItem DEF Demoted
  <2>5. Stored(s, t, options.dry)
    <3>1. Stored(f, t, options.dry)
      BY <1>1, <1>2, <2>1, <2>2, <2>4, RecordsStay
    <3> QED BY <1>2, <3>1, StoredAfter
  <2>6. Untouched(s, t, n)
    BY <1>2, <2>2 DEF Untouched, Wrote
  <2>7. /\ ScanState(t) /\ t.left <= f.left /\ t.left + 1 >= f.left /\ f.left # 0 /\ t.left \in Nat /\ t.archived = s.archived
        /\ t.seen[p] = Demoted(e, i) /\ t.seen[z] = s.seen[z]
    BY <1>1, <1>2, <1>9, <2>2 DEF Wrote, ScanState, Dead
  <2> QED BY <1>1, <1>4, <2>3, <2>5, <2>6, <2>7 DEF Advanced, Underway, Through
<1> QED BY <1>6, <1>7, <1>8, <1>9

(* What a scan does with an item that is worked on: in the order of the    *)
(* code, it is prepared, judged, and archived or demoted.                  *)
LEMMA ActiveStep ==
  ASSUME NEW s, ScanState(s), NEW options, Stored(s, s, options.dry), NEW forge, NEW n \in 1..2,
         ScanItem(s.seen[LiveAt(n)]),
         s.seen[LiveAt(n)].id # NoId => SearchFinds(s, s.seen[LiveAt(n)].id, LiveAt(n))
  PROVE  LET d == s.seen[LiveAt(n)] IN
         Advanced(s, ScanFile(s, options, forge, LiveAt(n)), n, d, Prepared(d, options, forge), options, forge)
<1> DEFINE p == LiveAt(n)
           z == ShelfAt(n)
           d == s.seen[p]
           m == WithEvidence(d, options, forge)
           e == Prepared(d, options, forge)
           made == IF options.generate
                     THEN GenerateEvidence(s, options, p, d, SubjectIds(d, options, forge), FALSE) ELSE s
           forced == IF options.generate /\ Evidence(made.seen[p]) = <<>>
                       THEN GenerateEvidence(made, options, p, d, {}, TRUE) ELSE made
           t == ScanFile(s, options, forge, p)
           final == Finalize([forced EXCEPT !.threw = FALSE], options, forge, d.id)
           told == IF final.threw \/ Dead(final) THEN final ELSE [final EXCEPT !.archived = @ \cup {d.id}]
           left == IF d.id = NoId \/ options.invalid = "none" THEN forced ELSE Demote(forced, options, d.id)
<1> SUFFICES Advanced(s, t, n, d, e, options, forge)
  OBVIOUS
<1>1. /\ p \in Slots /\ z \in Slots /\ p # z /\ p[1] = "active" /\ s.left \in Nat
      /\ d.kind = "file" /\ (Eligible(d.id) => SearchFinds(s, d.id, p))
  BY SlotsAre DEF ScanState, ScanItem, Eligible
<1>2. \A x \in {m, e} : /\ ScanItem(x) /\ x.kind = "file" /\ x.item = d.item /\ x.id = d.id
                        /\ x.status = d.status
  BY PreparedIs
<1>3. /\ Evidenced(s, made, options.dry, p, options.time, IsSubject(d, options, forge))
      /\ Readied(s, made, options.dry, p, d, m)
      /\ made.left + 2 >= s.left
  BY <1>1, MadeIs
<1>4. t = IF Dead(s) THEN s ELSE IF options.sweep THEN Sweep(made, options, forge, p, d) ELSE made
  BY <1>1 DEF ScanFile
<1> DEFINE read == made.seen[p]
<1>6. ScanItem(read) /\ read.kind = "file" /\ read.item = d.item /\ read.status = d.status /\ read.id = d.id
  <2>1. read = m \/ read = d
    BY <1>3 DEF Readied
  <2> HIDE DEF made, m
  <2> QED BY <1>1, <1>2, <2>1
<1>8. Sweep(made, options, forge, p, d)
        = IF ~d.item \/ d.status # "completed" THEN made
          ELSE IF Issues(forced.seen[p]) = {} /\ d.id # NoId THEN told ELSE left
  <2> HIDE DEF made
  <2> QED BY <1>1, <1>6 DEF Sweep
<1> HIDE DEF t, m, e
<1>9. ASSUME NEW u, Readied(s, u, options.dry, p, d, m), e = m, ~Archives(e, options, forge), ~Demotes(e, options)
      PROVE  Advanced(s, u, n, d, e, options, forge)
  <2>0. u.left \in Nat
    BY <1>9 DEF Readied, ScanState
  <2>1. Untouched(s, u, n)
    BY <1>9 DEF Readied, Untouched
  <2>2. u.seen[z] = s.seen[z] /\ (u.seen[p] = e \/ (u.seen[p] = d /\ u.left = 0))
        /\ u.left <= s.left /\ u.left + 4 >= s.left /\ ScanState(u) /\ Stored(s, u, options.dry) /\ u.archived = s.archived
    BY <1>1, <1>9 DEF Readied
  <2>3. u.left # 0 => u.seen[p] = e
    BY <2>2
  <2> HIDE DEF d
  <2> QED BY <1>1, <1>9, <2>0, <2>1, <2>2, <2>3 DEF Advanced, Underway, Through
<1>10. ~Closing(d, options) => e = m /\ ~Closing(e, options)
  <2> SUFFICES ASSUME ~Closing(d, options) PROVE e = m /\ ~Closing(e, options)
    OBVIOUS
  <2>1. e = m
    BY DEF e, m, Prepared
  <2> HIDE DEF d
  <2> QED BY <1>2, <2>1 DEF Closing
<1>11. Closing(d, options) => Closing(e, options)
  <2> HIDE DEF d
  <2> QED BY <1>2 DEF Closing
<1>12. CASE Dead(s)
  <2>1. t = s /\ s.left = 0
    BY <1>4, <1>12 DEF Dead
  <2>2. Untouched(s, s, n)
    BY DEF Untouched
  <2> QED BY <1>1, <2>1, <2>2 DEF Advanced, Underway
<1>13. CASE ~Dead(s) /\ ~Closing(d, options)
  <2>1. t = made
    <3> HIDE DEF made, forced, told, left
    <3> QED BY <1>4, <1>8, <1>13 DEF Closing
  <2>2. ~Archives(e, options, forge) /\ ~Demotes(e, options)
    BY <1>10, <1>13 DEF Archives, Demotes
  <2> HIDE DEF made
  <2> QED BY <1>3, <1>9, <1>10, <1>13, <2>1, <2>2
<1>14. CASE ~Dead(s) /\ Closing(d, options)
  <2>1. t = IF Issues(forced.seen[p]) = {} /\ d.id # NoId THEN told ELSE left
    <3> HIDE DEF made, forced, told, left
    <3> QED BY <1>4, <1>8, <1>14 DEF Closing
  <2>2. Readied(s, forced, options.dry, p, d, e)
    <3> HIDE DEF made
    <3>1. ScanItem(d) /\ s.seen[p] = d
      OBVIOUS
    <3> QED BY <1>1, <1>3, <1>14, <3>1, ForcedIs DEF e
  <2>4. d.id # NoId => SearchFinds(forced, d.id, p)
    <3> SUFFICES ASSUME d.id # NoId PROVE SearchFinds(forced, d.id, p)
      OBVIOUS
    <3>1. forced.seen[p].kind = "file" /\ forced.seen[p].id = d.id
      <4>1. forced.seen[p] = e \/ forced.seen[p] = d
        BY <2>2 DEF Readied
      <4> HIDE DEF forced
      <4> QED BY <1>1, <1>2, <4>1
    <3>2. \A q \in Slots : q # p => forced.seen[q] = s.seen[q]
      BY <2>2 DEF Readied
    <3> HIDE DEF forced
    <3> QED BY <1>1, <3>1, <3>2, StillLeads
  <2>5. ScanItem(e) /\ e.id = d.id /\ Closing(e, options) /\ ScanItem(d)
    BY <1>2, <1>11, <1>14
  <2>6. CASE Issues(forced.seen[p]) = {} /\ d.id # NoId
    <3>1. t = told
      <4> HIDE DEF forced, told, left, made
      <4> QED BY <2>1, <2>6
    <3> HIDE DEF forced
    <3>2. Advanced(s, told, n, d, e, options, forge)
      BY <2>2, <2>4, <2>5, <2>6, FinalizedAdvances
    <3> HIDE DEF told
    <3> QED BY <3>1, <3>2
  <2>7. CASE Issues(forced.seen[p]) # {} \/ d.id = NoId
    <3>1. t = left
      <4> HIDE DEF forced, told, left, made
      <4> QED BY <2>1, <2>7
    <3> HIDE DEF forced
    <3>2. Advanced(s, left, n, d, e, options, forge)
      BY <2>2, <2>4, <2>5, <2>7, LackingAdvances
    <3> HIDE DEF left
    <3> QED BY <3>1, <3>2
  <2> QED BY <2>6, <2>7
<1> QED BY <1>12, <1>13, <1>14

-----------------------------------------------------------------------------
(* A scan visits the places that it collected before it began.             *)
Visit(c, t, p) == IF Collected(c.files, c.options, p) THEN ScanFile(t, c.options, c.forge, p) ELSE t
Sc == INSTANCE FoldTheory WITH Op <- Visit
Visited(files, options, forge, t, p) ==
  IF Collected(files, options, p) THEN ScanFile(t, options, forge, p) ELSE t

(* It visits the four places one after the other.                          *)
LEMMA ScanIs ==
  ASSUME NEW s, NEW options, NEW forge
  PROVE  LET V(t, p) == Visited(s.files, options, forge, t, p) IN
         Scan(s, options, forge) = V(V(V(V(s, LiveAt(1)), LiveAt(2)), ShelfAt(1)), ShelfAt(2))
<1> DEFINE c == [files |-> s.files, options |-> options, forge |-> forge]
           V(t, p) == Visited(s.files, options, forge, t, p)
<1>1. c.files = s.files /\ c.options = options /\ c.forge = forge
  OBVIOUS
<1> HIDE DEF c
<1>2. \A t, p : Visit(c, t, p) = V(t, p)
  BY <1>1 DEF Visit, Visited
<1>3. Scan(s, options, forge) = Sc!Over(c, s, Paths)
  BY <1>1 DEF Scan, FoldLeft, MapThenFoldSet, Sc!Over, Sc!FoldLeft, Sc!MapThenFoldSet, Visit, Max, Sc!Max
<1>4. PICK h : Sc!Goes(h, c, s, Paths, 4)
  <2>1. 4 \in Nat /\ DOMAIN Paths = 1..4
    BY SlotsAre
  <2> QED BY <2>1, Sc!FoldSteps
<1>5. /\ h[0] = s /\ Sc!Over(c, s, Paths) = h[4]
      /\ \A k \in 1..4 : h[k] = Visit(c, h[k - 1], Paths[k])
  BY <1>4 DEF Sc!Goes
<1>6. /\ Paths[1] = LiveAt(1) /\ Paths[2] = LiveAt(2) /\ Paths[3] = ShelfAt(1) /\ Paths[4] = ShelfAt(2)
  <2>1. 1 \in 1..2 /\ 2 \in 1..2 /\ 1 + 2 = 3 /\ 2 + 2 = 4
    OBVIOUS
  <2> QED BY <2>1, SlotsAre
<1> HIDE DEF V
<1>7. h[1] = V(h[0], LiveAt(1)) /\ h[2] = V(h[1], LiveAt(2)) /\ h[3] = V(h[2], ShelfAt(1))
      /\ h[4] = V(h[3], ShelfAt(2))
  <2>1. 1 \in 1..4 /\ 2 \in 1..4 /\ 3 \in 1..4 /\ 4 \in 1..4 /\ 1 - 1 = 0 /\ 2 - 1 = 1 /\ 3 - 1 = 2 /\ 4 - 1 = 3
    OBVIOUS
  <2>2. /\ h[1] = Visit(c, h[0], Paths[1]) /\ h[2] = Visit(c, h[1], Paths[2])
        /\ h[3] = Visit(c, h[2], Paths[3]) /\ h[4] = Visit(c, h[3], Paths[4])
    BY <1>5, <2>1
  <2> QED BY <1>2, <1>6, <2>2
<1>8. Scan(s, options, forge) = V(V(V(V(s, LiveAt(1)), LiveAt(2)), ShelfAt(1)), ShelfAt(2))
  BY <1>3, <1>5, <1>7
<1> QED BY <1>8 DEF V

(* In the archive a scan makes the evidence asked for, and nothing else.   *)
LEMMA ArchiveStep ==
  ASSUME NEW s, ScanState(s), NEW options, Stored(s, s, options.dry), NEW forge, NEW n \in 1..2,
         ScanItem(s.seen[ShelfAt(n)]),
         s.seen[ShelfAt(n)].id # NoId => SearchFinds(s, s.seen[ShelfAt(n)].id, ShelfAt(n))
  PROVE  LET z == s.seen[ShelfAt(n)] IN
         Readied(s, ScanFile(s, options, forge, ShelfAt(n)), options.dry, ShelfAt(n), z, WithEvidence(z, options, forge))
<1> DEFINE p == ShelfAt(n)
           d == s.seen[p]
           m == WithEvidence(d, options, forge)
           made == IF options.generate
                     THEN GenerateEvidence(s, options, p, d, SubjectIds(d, options, forge), FALSE) ELSE s
           t == ScanFile(s, options, forge, p)
<1> SUFFICES Readied(s, t, options.dry, p, d, m)
  OBVIOUS
<1>1. /\ p \in Slots /\ p[1] = "archive" /\ s.left \in Nat
      /\ d.kind = "file" /\ (Eligible(d.id) => SearchFinds(s, d.id, p))
  BY SlotsAre DEF ScanState, ScanItem, Eligible
<1>2. Readied(s, made, options.dry, p, d, m)
  BY <1>1, MadeIs
<1>3. t = IF Dead(s) THEN s ELSE IF options.sweep THEN Sweep(made, options, forge, p, d) ELSE made
  BY <1>1 DEF ScanFile
<1> HIDE DEF made, t, m
<1>4. Sweep(made, options, forge, p, d) = made
  BY <1>1 DEF Sweep
<1>5. CASE Dead(s)
  <2>1. t = s /\ s.left = 0
    BY <1>3, <1>5 DEF Dead
  <2> QED BY <1>1, <2>1 DEF Readied
<1>6. CASE ~Dead(s)
  BY <1>2, <1>3, <1>4, <1>6
<1> QED BY <1>5, <1>6

-----------------------------------------------------------------------------
(* A scan begins with, and leaves, work items that their ids lead to, with *)
(* links to what is there.                                                 *)
WellScanned(s, dry) == ScanState(s) /\ ItemsOnly(s) /\ Stored(s, s, dry) /\ IdsApart(s)

(* An id that a file has is one that the item had.                         *)
LEMMA StillApart ==
  ASSUME NEW s, IdsApart(s), NEW t,
         \A p \in Slots : \A id : HasId(t, p, id) => \E q \in Slots : q[2] = p[2] /\ HasId(s, q, id)
  PROVE  IdsApart(t)
BY DEF IdsApart

(* A step that moves or rewrites the files of one item keeps all that.     *)
LEMMA StillWell ==
  ASSUME NEW s, NEW dry, WellScanned(s, dry), NEW t, ScanState(t), Stored(s, t, dry), NEW n \in 1..2, Untouched(s, t, n),
         NEW from \in {LiveAt(n), ShelfAt(n)}, ScanItem(s.seen[from]),
         \A p \in {LiveAt(n), ShelfAt(n)} :
           \/ t.seen[p] = NoFile \/ t.seen[p] = s.seen[p]
           \/ ScanItem(t.seen[p]) /\ t.seen[p].id = s.seen[from].id
  PROVE  WellScanned(t, dry)
<1>1. /\ LiveAt(n) \in Slots /\ ShelfAt(n) \in Slots /\ LiveAt(n)[2] = n /\ ShelfAt(n)[2] = n
      /\ from \in Slots /\ from[2] = n /\ s.seen[from].kind = "file"
  BY SlotsAre DEF ScanItem
<1>2. ItemsOnly(t)
  BY <1>1 DEF ItemsOnly, WellScanned, Untouched
<1>3. ASSUME NEW p \in Slots, NEW id, HasId(t, p, id)
      PROVE  \E q \in Slots : q[2] = p[2] /\ HasId(s, q, id)
  <2>1. NoFile.kind # "file"
    BY DEF NoFile
  <2>2. CASE p \notin {LiveAt(n), ShelfAt(n)}
    <3>1. HasId(s, p, id)
      BY <1>3, <2>2 DEF HasId, Untouched
    <3> QED BY <3>1
  <2>3. CASE p \in {LiveAt(n), ShelfAt(n)} /\ t.seen[p] = s.seen[p]
    <3>1. HasId(s, p, id)
      BY <1>3, <2>3 DEF HasId
    <3> QED BY <3>1
  <2>4. CASE p \in {LiveAt(n), ShelfAt(n)} /\ t.seen[p].id = s.seen[from].id
    <3>1. HasId(s, from, id) /\ p[2] = from[2]
      BY <1>1, <1>3, <2>4 DEF HasId
    <3> QED BY <1>1, <3>1
  <2>5. CASE t.seen[p] = NoFile
    BY <1>3, <2>1, <2>5 DEF HasId
  <2> QED BY <2>2, <2>3, <2>4, <2>5
<1>4. IdsApart(t)
  BY <1>3, StillApart DEF WellScanned
<1>5. Stored(t, t, dry)
  BY StoredAfter
<1> QED BY <1>2, <1>4, <1>5 DEF WellScanned

(* What is said to be archived of an item that is worked on.               *)
Told(s, n, options, forge) == LET d == s.seen[LiveAt(n)] IN
  IF d # NoFile /\ Archives(Prepared(d, options, forge), options, forge) THEN {d.id} ELSE {}

(* A visit to an item that is worked on leaves it on its way.              *)
LiveDone(s, t, n, options, forge) == LET d == s.seen[LiveAt(n)] IN
  /\ WellScanned(t, options.dry) /\ Stored(s, t, options.dry) /\ Untouched(s, t, n)
  /\ t.left # 0 => t.archived = s.archived \cup Told(s, n, options, forge)
  /\ t.left <= s.left /\ t.left + 8 >= s.left
  /\ d = NoFile => t = s
  /\ d # NoFile => Advanced(s, t, n, d, Prepared(d, options, forge), options, forge)

(* So does every visit to it.                                              *)
LEMMA LiveVisit ==
  ASSUME NEW s, NEW options, WellScanned(s, options.dry), NEW forge, NEW n \in 1..2,
         NEW files, files[LiveAt(n)] = s.seen[LiveAt(n)]
  PROVE  LiveDone(s, Visited(files, options, forge, s, LiveAt(n)), n, options, forge)
<1> DEFINE p == LiveAt(n)
           d == s.seen[p]
           e == Prepared(d, options, forge)
           t == Visited(files, options, forge, s, p)
           y == t.seen[ShelfAt(n)]
<1> SUFFICES LiveDone(s, t, n, options, forge)
  OBVIOUS
<1>1. p \in Slots /\ p[1] = "active" /\ ShelfAt(n) \in Slots /\ s.left \in Nat /\ NoFile.kind = "none"
  BY SlotsAre DEF WellScanned, ScanState, NoFile
<1>2. CASE d = NoFile
  <2>1. t = s
    BY <1>1, <1>2 DEF Visited, Collected
  <2> HIDE DEF t
  <2>2. Told(s, n, options, forge) = {}
    BY <1>2 DEF Told
  <2>3. Stored(s, s, options.dry)
    BY DEF WellScanned
  <2> QED BY <1>1, <1>2, <2>1, <2>2, <2>3 DEF LiveDone, Untouched
<1>3. CASE d # NoFile
  <2>1. ScanItem(d) /\ d.kind = "file"
    BY <1>1, <1>3 DEF WellScanned, ItemsOnly, ScanItem
  <2>2. t = ScanFile(s, options, forge, p)
    BY <1>1, <2>1 DEF Visited, Collected
  <2>3. d.id # NoId => SearchFinds(s, d.id, p)
    <3> SUFFICES ASSUME d.id # NoId PROVE SearchFinds(s, d.id, p)
      OBVIOUS
    <3>1. HasId(s, p, d.id) /\ IdsApart(s)
      BY <2>1 DEF HasId, WellScanned
    <3> HIDE DEF d
    <3>2. FirstWithId(s, d.id) = n /\ n # 0 /\ Paths[n] = p
      BY <3>1, FoundAt, SlotsAre
    <3> QED BY <3>2 DEF SearchFinds
  <2>4. Advanced(s, t, n, d, e, options, forge)
    BY <2>1, <2>2, <2>3, ActiveStep DEF WellScanned
  <2> HIDE DEF t
  <2>5. ScanItem(e) /\ e.id = d.id
    BY <2>1, PreparedIs
  <2>6. ScanItem(Shelved(e)) /\ Shelved(e).id = d.id /\ ScanItem(Demoted(e, options.invalid))
        /\ Demoted(e, options.invalid).id = d.id
    <3> HIDE DEF e, d
    <3> QED BY <2>5, MovedIsItem DEF Shelved, Demoted
  <2>7. /\ t.seen[p] = NoFile \/ (ScanItem(t.seen[p]) /\ t.seen[p].id = d.id)
        /\ y = s.seen[ShelfAt(n)] \/ (ScanItem(y) /\ y.id = d.id)
    <3> HIDE DEF e, d
    <3> QED BY <2>1, <2>4, <2>5, <2>6 DEF Advanced, Underway
  <2>8. WellScanned(t, options.dry)
    <3>1. p \in {LiveAt(n), ShelfAt(n)} /\ ScanState(t) /\ Stored(s, t, options.dry) /\ Untouched(s, t, n)
      BY <2>4 DEF Advanced
    <3> HIDE DEF e
    <3> QED BY <2>1, <2>7, <3>1, StillWell
  <2>9. t.left # 0 => t.archived = s.archived \cup Told(s, n, options, forge)
    <3>1. Told(s, n, options, forge) = IF Archives(e, options, forge) THEN {d.id} ELSE {}
      BY <1>3 DEF Told
    <3> HIDE DEF e, d
    <3> QED BY <2>4, <3>1 DEF Advanced
  <2> HIDE DEF e
  <2> QED BY <1>3, <2>4, <2>8, <2>9 DEF LiveDone, Advanced, e
<1> QED BY <1>2, <1>3

(* A visit to an archived item leaves it with evidence, if that is all     *)
(* that is left of it.                                                     *)
ShelfDone(s, t, n, visited, options, forge) == LET z == s.seen[ShelfAt(n)] IN
  /\ WellScanned(t, options.dry) /\ Stored(s, t, options.dry)
  /\ \A q \in Slots : q # ShelfAt(n) => t.seen[q] = s.seen[q]
  /\ t.left <= s.left /\ t.left + 4 >= s.left /\ t.archived = s.archived
  /\ ~visited => t.seen[ShelfAt(n)] = z
  /\ visited => \/ t.seen[ShelfAt(n)] = WithEvidence(z, options, forge)
                \/ t.seen[ShelfAt(n)] = z /\ t.left = 0

(* So does every visit to an archived item.                                *)
LEMMA ShelfVisit ==
  ASSUME NEW s, NEW options, WellScanned(s, options.dry), NEW forge, NEW n \in 1..2, NEW files,
         Collected(files, options, ShelfAt(n)) =>
           s.seen[ShelfAt(n)] # NoFile /\ s.seen[LiveAt(n)] = NoFile
  PROVE  ShelfDone(s, Visited(files, options, forge, s, ShelfAt(n)), n,
                   Collected(files, options, ShelfAt(n)), options, forge)
<1> DEFINE p == ShelfAt(n)
           z == s.seen[p]
           m == WithEvidence(z, options, forge)
           t == Visited(files, options, forge, s, p)
           visited == Collected(files, options, p)
<1> SUFFICES ShelfDone(s, t, n, visited, options, forge)
  OBVIOUS
<1>1. p \in Slots /\ s.left \in Nat /\ NoFile.kind = "none"
  BY SlotsAre DEF WellScanned, ScanState, NoFile
<1>2. CASE ~visited
  <2>1. t = s
    BY <1>2 DEF Visited
  <2>2. Stored(s, s, options.dry)
    BY DEF WellScanned
  <2> HIDE DEF t, visited
  <2> QED BY <1>1, <1>2, <2>1, <2>2 DEF ShelfDone
<1>3. CASE visited
  <2>1. ScanItem(z) /\ z.kind = "file" /\ s.seen[LiveAt(n)] = NoFile
    BY <1>1, <1>3 DEF WellScanned, ItemsOnly, ScanItem
  <2>2. t = ScanFile(s, options, forge, p)
    BY <1>3 DEF Visited
  <2>3. z.id # NoId => SearchFinds(s, z.id, p)
    <3> SUFFICES ASSUME z.id # NoId PROVE SearchFinds(s, z.id, p)
      OBVIOUS
    <3>1. HasId(s, p, z.id) /\ IdsApart(s) /\ ~HasId(s, LiveAt(n), z.id)
      BY <1>1, <2>1 DEF HasId, WellScanned
    <3> HIDE DEF z
    <3>2. FirstWithId(s, z.id) = n + 2 /\ n + 2 # 0 /\ Paths[n + 2] = p
      BY <3>1, FoundAt, SlotsAre
    <3> QED BY <3>2 DEF SearchFinds
  <2>4. Readied(s, t, options.dry, p, z, m)
    BY <2>1, <2>2, <2>3, ArchiveStep DEF WellScanned
  <2> HIDE DEF t, visited
  <2>5. ScanItem(m) /\ m.id = z.id
    BY <2>1, PreparedIs
  <2>6. WellScanned(t, options.dry)
    <3>1. p \in {LiveAt(n), ShelfAt(n)} /\ ScanState(t) /\ Stored(s, t, options.dry) /\ Untouched(s, t, n)
          /\ t.seen[LiveAt(n)] = s.seen[LiveAt(n)]
      BY <2>4, SlotsAre DEF Readied, Untouched
    <3>2. ScanItem(t.seen[p]) /\ t.seen[p].id = z.id
      <4> HIDE DEF m
      <4> QED BY <2>1, <2>4, <2>5 DEF Readied
    <3> HIDE DEF m
    <3> QED BY <2>1, <3>1, <3>2, StillWell
  <2> HIDE DEF m, z
  <2> QED BY <1>3, <2>4, <2>6 DEF ShelfDone, Readied, m, z
<1> QED BY <1>2, <1>3

(* What a scan makes of the two files of an item, and if it is not killed. *)
PairDone(x, y, x2, y2, whole, options, forge) == \E y1 :
  /\ x = NoFile => x2 = x /\ y1 = y
  /\ x # NoFile => LET e == Prepared(x, options, forge) IN
       /\ Underway(x, e, y, x2, y1, options, forge)
       /\ whole => Through(e, y, x2, y1, options, forge)
  /\ y = NoFile \/ ~options.archive => y2 = y1
  /\ y # NoFile /\ options.archive => y2 = WithEvidence(y1, options, forge) \/ (y2 = y1 /\ ~whole)
ScanDone(s, t, options, forge) ==
  /\ WellScanned(t, options.dry) /\ Stored(s, t, options.dry) /\ t.left + 24 >= s.left
  /\ \A n \in 1..2 : PairDone(s.seen[LiveAt(n)], s.seen[ShelfAt(n)],
                              t.seen[LiveAt(n)], t.seen[ShelfAt(n)], t.left # 0, options, forge)
  /\ t.left # 0 =>
       t.archived = s.archived \cup Told(s, 1, options, forge) \cup Told(s, 2, options, forge)

(* An item has one file, or one too many that the scan is to remove.       *)
Resumable(s, options, forge) == \A n \in 1..2 : LET d == s.seen[LiveAt(n)] IN
  \/ d = NoFile \/ s.seen[ShelfAt(n)] = NoFile
  \/ ~options.dry /\ s.left > 16 /\ Archives(Prepared(d, options, forge), options, forge)

(* What was read from a file is one.                                       *)
LEMMA ItemsAreFiles ==
  ASSUME NEW d, ScanItem(d)
  PROVE  d.kind = "file"
<1> DEFINE e == [kind |-> "file", item |-> d.item, id |-> d.id, status |-> d.status, life |-> d.life,
                 shape |-> d.shape, evidence |-> d.evidence, prs |-> d.prs, has |-> d.has]
<1>1. d = e
  BY DEF ScanItem
<1>2. e.kind = "file"
  OBVIOUS
<1> HIDE DEF e
<1> QED BY <1>1, <1>2

(* What a scan makes of the files it found, item by item.                  *)
LEMMA ScanDoes ==
  ASSUME NEW s, NEW options, s.files = s.seen, WellScanned(s, options.dry), NEW forge,
         Resumable(s, options, forge)
  PROVE  ScanDone(s, Scan(s, options, forge), options, forge)
<1> DEFINE V(t, p) == Visited(s.files, options, forge, t, p)
           v1 == V(s, LiveAt(1))
           v2 == V(v1, LiveAt(2))
           v3 == V(v2, ShelfAt(1))
           v4 == V(v3, ShelfAt(2))
           E(n) == Prepared(s.seen[LiveAt(n)], options, forge)
           Lived(n) ==
             /\ s.seen[LiveAt(n)] = NoFile => v2.seen[LiveAt(n)] = NoFile
                                               /\ v2.seen[ShelfAt(n)] = s.seen[ShelfAt(n)]
             /\ s.seen[LiveAt(n)] # NoFile =>
                  /\ Underway(s.seen[LiveAt(n)], E(n), s.seen[ShelfAt(n)],
                              v2.seen[LiveAt(n)], v2.seen[ShelfAt(n)], options, forge)
                  /\ v2.left # 0 => Through(E(n), s.seen[ShelfAt(n)],
                                            v2.seen[LiveAt(n)], v2.seen[ShelfAt(n)], options, forge)
<1>1. Scan(s, options, forge) = v4
  BY ScanIs
<1>2. /\ 1 \in 1..2 /\ 2 \in 1..2 /\ \A n \in 1..2 : n = 1 \/ n = 2
      /\ LiveAt(1) \in Slots /\ LiveAt(2) \in Slots /\ ShelfAt(1) \in Slots /\ ShelfAt(2) \in Slots
      /\ LiveAt(1) # LiveAt(2) /\ ShelfAt(1) # ShelfAt(2) /\ LiveAt(1) # ShelfAt(1)
      /\ LiveAt(1) # ShelfAt(2) /\ LiveAt(2) # ShelfAt(1) /\ LiveAt(2) # ShelfAt(2)
  <2>1. 1 \in 1..2 /\ 2 \in 1..2 /\ \A n \in 1..2 : n = 1 \/ n = 2
    OBVIOUS
  <2> QED BY <2>1, SlotsAre
<1>3. LiveDone(s, v1, 1, options, forge)
  <2>1. s.files[LiveAt(1)] = s.seen[LiveAt(1)]
    OBVIOUS
  <2> QED BY <1>2, <2>1, LiveVisit
<1> HIDE DEF v1
<1>4. /\ v1.seen[LiveAt(2)] = s.seen[LiveAt(2)] /\ v1.seen[ShelfAt(2)] = s.seen[ShelfAt(2)]
      /\ WellScanned(v1, options.dry)
  BY <1>2, <1>3 DEF LiveDone, Untouched
<1>5. LiveDone(v1, v2, 2, options, forge)
  <2>1. s.files[LiveAt(2)] = v1.seen[LiveAt(2)]
    BY <1>4
  <2> QED BY <1>2, <1>4, <2>1, LiveVisit
<1> HIDE DEF v2
<1>6. /\ v2.seen[LiveAt(1)] = v1.seen[LiveAt(1)] /\ v2.seen[ShelfAt(1)] = v1.seen[ShelfAt(1)]
      /\ WellScanned(v2, options.dry)
  BY <1>2, <1>5 DEF LiveDone, Untouched
<1>7. s.left \in Nat /\ v1.left \in Nat /\ v2.left \in Nat /\ NoFile.kind = "none"
  BY <1>4, <1>6 DEF WellScanned, ScanState, NoFile
<1>8. v2.left + 16 >= s.left /\ (v2.left # 0 => v1.left # 0)
  <2>1. v1.left + 8 >= s.left /\ v2.left + 8 >= v1.left /\ v2.left <= v1.left
    BY <1>3, <1>5 DEF LiveDone
  <2> QED BY <1>7, <2>1
<1>23. v2.left # 0 =>
         v2.archived = s.archived \cup Told(s, 1, options, forge) \cup Told(s, 2, options, forge)
  <2>1. Told(v1, 2, options, forge) = Told(s, 2, options, forge)
    BY <1>4 DEF Told
  <2> QED BY <1>3, <1>5, <1>8, <2>1 DEF LiveDone
<1>9. Lived(1)
  BY <1>3, <1>6, <1>8 DEF LiveDone, Advanced
<1>10. Lived(2)
  BY <1>4, <1>5 DEF LiveDone, Advanced
<1>11. \A n \in 1..2 : Lived(n)
  BY <1>2, <1>9, <1>10
<1>24. s.files = s.seen
  OBVIOUS
<1>12. ASSUME NEW n \in 1..2
       PROVE  Collected(s.files, options, ShelfAt(n)) <=> s.seen[ShelfAt(n)] # NoFile /\ options.archive
  <2>1. s.seen[ShelfAt(n)] = NoFile \/ s.seen[ShelfAt(n)].kind = "file"
    <3>1. ShelfAt(n) \in Slots
      BY SlotsAre
    <3>2. s.seen[ShelfAt(n)] = NoFile \/ ScanItem(s.seen[ShelfAt(n)])
      BY <3>1 DEF WellScanned, ItemsOnly
    <3> QED BY <3>2, ItemsAreFiles
  <2> QED BY <1>7, <1>24, <2>1, SlotsAre DEF Collected
<1>13. ASSUME NEW n \in 1..2, s.seen[ShelfAt(n)] # NoFile
       PROVE  v2.seen[ShelfAt(n)] # NoFile /\ v2.seen[LiveAt(n)] = NoFile
  <2>1. CASE s.seen[LiveAt(n)] = NoFile
    BY <1>11, <1>13, <2>1
  <2>2. CASE s.seen[LiveAt(n)] # NoFile
    <3>1. ~options.dry /\ s.left > 16 /\ Archives(E(n), options, forge)
      BY <1>13, <2>2 DEF Resumable
    <3>2. v2.left # 0
      BY <1>7, <1>8, <3>1
    <3>3. Through(E(n), s.seen[ShelfAt(n)], v2.seen[LiveAt(n)], v2.seen[ShelfAt(n)], options, forge)
      BY <1>11, <2>2, <3>2
    <3>4. Shelved(E(n)).kind = "file"
      BY DEF Shelved, Moved
    <3> HIDE DEF E
    <3> QED BY <1>7, <3>1, <3>3, <3>4 DEF Through, Demotes, Archives
  <2> QED BY <2>1, <2>2
<1> HIDE DEF Lived, E
<1>14. ShelfDone(v2, v3, 1, Collected(s.files, options, ShelfAt(1)), options, forge)
  BY <1>2, <1>6, <1>12, <1>13, ShelfVisit
<1> HIDE DEF v3
<1>15. /\ v3.seen[ShelfAt(2)] = v2.seen[ShelfAt(2)] /\ v3.seen[LiveAt(2)] = v2.seen[LiveAt(2)]
       /\ v3.seen[LiveAt(1)] = v2.seen[LiveAt(1)] /\ WellScanned(v3, options.dry)
  BY <1>2, <1>14 DEF ShelfDone
<1>16. ShelfDone(v3, v4, 2, Collected(s.files, options, ShelfAt(2)), options, forge)
  BY <1>2, <1>12, <1>13, <1>15, ShelfVisit
<1> HIDE DEF v4
<1>17. /\ v4.seen[ShelfAt(1)] = v3.seen[ShelfAt(1)] /\ v4.seen[LiveAt(2)] = v3.seen[LiveAt(2)]
       /\ v4.seen[LiveAt(1)] = v3.seen[LiveAt(1)] /\ WellScanned(v4, options.dry)
  BY <1>2, <1>16 DEF ShelfDone
<1>18. /\ v4.left + 24 >= s.left /\ (v4.left # 0 => v3.left # 0 /\ v2.left # 0) /\ v4.archived = v2.archived
  <2>1. /\ v3.left + 4 >= v2.left /\ v4.left + 4 >= v3.left /\ v3.left <= v2.left /\ v4.left <= v3.left
        /\ v4.archived = v3.archived /\ v3.archived = v2.archived
    BY <1>14, <1>16 DEF ShelfDone
  <2>2. v3.left \in Nat /\ v4.left \in Nat
    BY <1>15, <1>17 DEF WellScanned, ScanState
  <2> QED BY <1>7, <1>8, <2>1, <2>2
<1>19. ASSUME NEW n \in 1..2
       PROVE  /\ v4.seen[LiveAt(n)] = v2.seen[LiveAt(n)]
              /\ ~Collected(s.files, options, ShelfAt(n)) => v4.seen[ShelfAt(n)] = v2.seen[ShelfAt(n)]
              /\ Collected(s.files, options, ShelfAt(n)) =>
                   \/ v4.seen[ShelfAt(n)] = WithEvidence(v2.seen[ShelfAt(n)], options, forge)
                   \/ v4.seen[ShelfAt(n)] = v2.seen[ShelfAt(n)] /\ v4.left = 0
  <2>1. CASE n = 1
    BY <1>14, <1>15, <1>17, <1>18, <2>1 DEF ShelfDone
  <2>2. CASE n = 2
    BY <1>15, <1>16, <1>17, <2>2 DEF ShelfDone
  <2> QED BY <1>2, <2>1, <2>2
<1>20. ASSUME NEW n \in 1..2
       PROVE  PairDone(s.seen[LiveAt(n)], s.seen[ShelfAt(n)],
                       v4.seen[LiveAt(n)], v4.seen[ShelfAt(n)], v4.left # 0, options, forge)
  <2> DEFINE x == s.seen[LiveAt(n)]
             y == s.seen[ShelfAt(n)]
             x2 == v4.seen[LiveAt(n)]
             y1 == v2.seen[ShelfAt(n)]
             y2 == v4.seen[ShelfAt(n)]
  <2>1. /\ x = NoFile => x2 = x /\ y1 = y
        /\ x # NoFile =>
             /\ Underway(x, Prepared(x, options, forge), y, x2, y1, options, forge)
             /\ v4.left # 0 => Through(Prepared(x, options, forge), y, x2, y1, options, forge)
    BY <1>11, <1>18, <1>19 DEF Lived, E
  <2>2. /\ y = NoFile \/ ~options.archive => y2 = y1
        /\ y # NoFile /\ options.archive => y2 = WithEvidence(y1, options, forge) \/ (y2 = y1 /\ v4.left = 0)
    BY <1>12, <1>19
  <2> HIDE DEF x, y, x2, y1, y2
  <2>3. PairDone(x, y, x2, y2, v4.left # 0, options, forge)
    BY <2>1, <2>2 DEF PairDone
  <2> QED BY <2>3 DEF x, y, x2, y2
<1>21. Stored(s, v4, options.dry)
  <2>1. /\ Stored(s, v1, options.dry) /\ Stored(v1, v2, options.dry) /\ Stored(v2, v3, options.dry)
        /\ Stored(v3, v4, options.dry)
    BY <1>3, <1>5, <1>14, <1>16 DEF LiveDone, ShelfDone
  <2>2. Stored(s, v2, options.dry)
    BY <2>1, StoredAfter
  <2>3. Stored(s, v3, options.dry)
    BY <2>1, <2>2, StoredAfter
  <2> QED BY <2>1, <2>3, StoredAfter
<1>22. ScanDone(s, v4, options, forge)
  BY <1>17, <1>18, <1>20, <1>21, <1>23 DEF ScanDone
<1> QED BY <1>1, <1>22

-----------------------------------------------------------------------------
(* The links of an item in the questions.                                  *)
LEMMA LinksOfQuestions ==
  ASSUME NEW l \in Shapes
  PROVE  /\ IsSeq(l.evidence) /\ \A k \in ToSet(l.evidence) : IsRecord(k) => k = Old(1)
         /\ l.shape = "none" => l.evidence = <<>> /\ l.prs = {}
<1> DEFINE old == Old(1)
           none == <<>>
           EvidenceLists == {none, <<old>>, <<Note, old>>, <<Note>>}
           OldOrNote == {Note, old}
           Pulled == {{}, {"pr"}, {"pr", "other"}}
           Missing == [shape |-> "none", evidence |-> none, prs |-> {}]
           KeptShapes == {"object", "list"}
<1>1. \A e \in EvidenceLists : e \in Seq(OldOrNote)
  <2>1. Note \in OldOrNote /\ old \in OldOrNote
    OBVIOUS
  <2>2. none \in Seq(OldOrNote) /\ <<old>> \in Seq(OldOrNote) /\ <<Note>> \in Seq(OldOrNote) /\ <<Note, old>> \in Seq(OldOrNote)
    <3> HIDE DEF OldOrNote, old
    <3> QED BY <2>1, ShortLists
  <2> HIDE DEF OldOrNote, old, none
  <2> QED BY <2>2
<1>2. none \in EvidenceLists
  OBVIOUS
<1>3. \A e \in Seq(OldOrNote) : ToSet(e) \subseteq OldOrNote
  BY DEF ToSet
<1>4. \A k \in OldOrNote : IsRecord(k) => k = old
  BY DEF IsRecord
<1>5. Shapes = {Missing} \cup {[shape |-> s, evidence |-> e, prs |-> q] : s \in KeptShapes, e \in EvidenceLists, q \in Pulled}
  BY DEF Shapes
<1>6. \A s \in KeptShapes : s # "none"
  OBVIOUS
<1>7. Missing.shape = "none" /\ Missing.evidence = none /\ Missing.prs = {}
  OBVIOUS
<1> HIDE DEF EvidenceLists, OldOrNote, Pulled, Missing, KeptShapes, none, old
<1>8. CASE l = Missing
  <2>1. l.evidence \in Seq(OldOrNote)
    BY <1>1, <1>2, <1>7, <1>8
  <2> QED BY <1>3, <1>4, <1>7, <1>8, <2>1 DEF IsSeq, none, old
<1>9. CASE l # Missing
  <2>1. PICK s \in KeptShapes, e \in EvidenceLists, q \in Pulled : l = [shape |-> s, evidence |-> e, prs |-> q]
    BY <1>5, <1>9
  <2>2. l.evidence \in Seq(OldOrNote) /\ l.shape # "none"
    BY <1>1, <1>6, <2>1
  <2> QED BY <1>3, <1>4, <2>2 DEF IsSeq, old
<1> QED BY <1>8, <1>9

(* An item of the questions, whatever it lacks, and the one next to it.    *)
QuestionRecord(id, status, shape, evidence, prs, has) ==
  [kind |-> "file", item |-> TRUE, id |-> id, status |-> status, life |-> "active",
   shape |-> shape, evidence |-> evidence, prs |-> prs, has |-> has]

(* They are what the questions are made of.                                *)
LEMMA QuestionItems ==
  ASSUME NEW id, NEW status, NEW l, NEW has
  PROVE  /\ Altered(id, status, l, has) = QuestionRecord(id, status, l.shape, l.evidence, l.prs, has)
         /\ \A n : Scanned(n) = QuestionRecord(<<"plain", n>>, "completed", "object", <<>>, {"pr"}, Complete)
<1> DEFINE shape == l.shape
           evidence == l.evidence
           prs == l.prs
           done == "completed"
           live == "active"
           yes == TRUE
           R(a, b, c, e, p, h) ==
             [kind |-> "file", item |-> yes, id |-> a, status |-> b, life |-> live, shape |-> c,
              evidence |-> e, prs |-> p, has |-> h]
           d == Scanned(1)
           a1 == [d EXCEPT !.shape = shape]
           a2 == [a1 EXCEPT !.evidence = evidence]
           a3 == [a2 EXCEPT !.prs = prs]
           a4 == [a3 EXCEPT !.id = id]
           a5 == [a4 EXCEPT !.status = status]
           a6 == [a5 EXCEPT !.has = has]
<1>1. \A n : Scanned(n) = QuestionRecord(<<"plain", n>>, "completed", "object", <<>>, {"pr"}, Complete)
  BY Zenon DEF Scanned, QuestionRecord
<1>2. PICK i, p, e, s : d = QuestionRecord(i, done, s, e, p, Complete)
  BY <1>1
<1>3. Altered(id, status, l, has) = a6
  BY DEF Altered, WithLinks
<1>11. \A a, b, c, f, g, h : QuestionRecord(a, b, c, f, g, h) = R(a, b, c, f, g, h)
  BY Zenon DEF QuestionRecord
<1> HIDE DEF shape, evidence, prs, done, d, live, yes, R
<1>12. d = R(i, done, s, e, p, Complete)
  BY <1>2, <1>11
<1>4. a1 = R(i, done, shape, e, p, Complete)
  BY <1>12 DEF R
<1> HIDE DEF a1
<1>5. a2 = R(i, done, shape, evidence, p, Complete)
  BY <1>4 DEF R
<1> HIDE DEF a2
<1>6. a3 = R(i, done, shape, evidence, prs, Complete)
  BY <1>5 DEF R
<1> HIDE DEF a3
<1>7. a4 = R(id, done, shape, evidence, prs, Complete)
  BY <1>6 DEF R
<1> HIDE DEF a4
<1>8. a5 = R(id, status, shape, evidence, prs, Complete)
  BY <1>7 DEF R
<1> HIDE DEF a5
<1>9. a6 = R(id, status, shape, evidence, prs, has)
  BY <1>8 DEF R
<1> HIDE DEF a6
<1>10. Altered(id, status, l, has) = QuestionRecord(id, status, shape, evidence, prs, has)
  BY <1>3, <1>9, <1>11
<1> QED BY <1>1, <1>10 DEF shape, evidence, prs

(* The files of a question about a scan.                                   *)
ScanAsked(q) ==
  /\ \A left \in Nat : \A dry : WellScanned(Begin(q.files, q.records, left), dry)
  /\ \A n \in 1..2 : q.files[LiveAt(n)] = NoFile \/ q.files[ShelfAt(n)] = NoFile
  /\ q.options.invalid # "completed" /\ q.left \in Nat

(* Items at two places with two ids make a backlog to scan.                *)
LEMMA BacklogIsWell ==
  ASSUME NEW one, ScanItem(one), NEW two, two = NoFile \/ ScanItem(two),
         two # NoFile => one.id # two.id, NEW at, at = LiveAt(2) \/ at = ShelfAt(2), NEW records,
         \A d \in {one, two} : d # NoFile => \A k \in ToSet(d.evidence) : IsRecord(k) => k \in records,
         NEW left \in Nat, NEW files,
         files = [p \in Slots |-> IF p = LiveAt(1) THEN one ELSE IF p = at THEN two ELSE NoFile]
  PROVE  /\ \A dry : WellScanned(Begin(files, records, left), dry)
         /\ \A n \in 1..2 : files[LiveAt(n)] = NoFile \/ files[ShelfAt(n)] = NoFile
<1> DEFINE s == Begin(files, records, left)
<1>2. /\ LiveAt(1) \in Slots /\ LiveAt(2) \in Slots /\ ShelfAt(1) \in Slots
      /\ ShelfAt(2) \in Slots /\ LiveAt(1) # LiveAt(2) /\ LiveAt(1) # ShelfAt(2) /\ LiveAt(1) # ShelfAt(1)
      /\ LiveAt(2) # ShelfAt(1) /\ LiveAt(2) # ShelfAt(2) /\ ShelfAt(1) # ShelfAt(2)
  <2>1. 1 \in 1..2 /\ 2 \in 1..2
    OBVIOUS
  <2> QED BY <2>1, SlotsAre
<1>3. at \in Slots /\ at # LiveAt(1) /\ at # ShelfAt(1)
  BY <1>2
<1>4. s = [files |-> files, seen |-> files, records |-> records, left |-> left, threw |-> FALSE, archived |-> {}]
  BY Zenon DEF Begin
<1>5. /\ files[LiveAt(1)] = one /\ files[at] = two
      /\ \A p \in Slots : p = LiveAt(1) \/ p = at \/ files[p] = NoFile
  BY <1>2, <1>3
<1>6. /\ s.files = files /\ s.seen = files /\ s.records = records /\ ScanState(s)
  <2> DEFINE no == FALSE
             nothing == {}
  <2>1. files = [p \in Slots |-> files[p]] /\ no \in BOOLEAN
    OBVIOUS
  <2> HIDE DEF no, nothing, s
  <2>2. s = [files |-> files, seen |-> files, records |-> records, left |-> left, threw |-> no, archived |-> nothing]
    BY <1>4 DEF no, nothing
  <2> QED BY <2>1, <2>2 DEF ScanState
<1> HIDE DEF s
<1>8. ItemsOnly(s)
  <2> SUFFICES ASSUME NEW p \in Slots PROVE files[p] = NoFile \/ ScanItem(files[p])
    BY <1>6 DEF ItemsOnly
  <2> QED BY <1>5
<1>9. NoFile.kind # "file" /\ one.kind = "file" /\ (two # NoFile => two.kind = "file")
  BY DEF NoFile, ScanItem
<1>10. RecordsThere(s)
  <2> SUFFICES ASSUME NEW p \in Slots, files[p].kind = "file"
               PROVE  \A l \in ToSet(files[p].evidence) : IsRecord(l) => l \in records
    BY <1>6 DEF RecordsThere
  <2>1. files[p] # NoFile /\ files[p] \in {one, two}
    BY <1>5, <1>9
  <2> QED BY <2>1
<1>11. IdsApart(s)
  <2>1. ASSUME NEW p \in Slots, NEW id, HasId(s, p, id)
        PROVE  (p = LiveAt(1) /\ id = one.id) \/ (p = at /\ two # NoFile /\ id = two.id)
    <3>1. files[p].kind = "file" /\ files[p].id = id
      BY <1>6, <2>1 DEF HasId
    <3> QED BY <1>5, <1>9, <3>1
  <2> QED BY <2>1 DEF IdsApart
<1>12. \A n \in 1..2 : files[LiveAt(n)] = NoFile \/ files[ShelfAt(n)] = NoFile
  <2>1. files[ShelfAt(1)] = NoFile
    BY <1>2, <1>3, <1>5
  <2>2. files[LiveAt(2)] = NoFile \/ files[ShelfAt(2)] = NoFile
    BY <1>2, <1>5
  <2>3. \A n \in 1..2 : n = 1 \/ n = 2
    OBVIOUS
  <2> QED BY <2>1, <2>2, <2>3
<1>13. \A dry : Stored(s, s, dry)
  BY <1>6, <1>10 DEF Stored, OnDisk
<1> QED BY <1>6, <1>8, <1>11, <1>12, <1>13 DEF WellScanned, s

(* What is asked about a scan is about such files.                         *)
LEMMA ScanQuestionsAreWell ==
  ASSUME AskScan
  PROVE  ScanAsked(asked')
<1> DEFINE Invalids == {"none", "paused"}
           Folders == {"active", "archive"}
           StepOrders == {<<"tokens", "linked">>, <<"linked">>}
<1>0. PICK one \in {d \in Firsts : Settled(d)}, two \in {NoFile, Scanned(2)}, place \in Folders, left \in 1..MaxWrites,
           generate \in BOOLEAN, sweep \in BOOLEAN, known \in BOOLEAN, invalid \in Invalids, order \in StepOrders :
        /\ (generate \/ sweep) /\ (~sweep => invalid = "none")
        /\ (two = NoFile => place = "active") /\ (Len(order) = 1 => known)
        /\ Ask([kind |-> "scan", files |-> Backlog(one, two, place), left |-> left,
                records |-> {Old(1)},
                options |-> [generate |-> generate, sweep |-> sweep, archive |-> place = "archive",
                             invalid |-> invalid, order |-> order],
                forge |-> [known |-> known, merged |-> {"pr"}, covered |-> TRUE]])
  BY Zenon DEF AskScan
<1>1. asked' = [kind |-> "scan", files |-> Backlog(one, two, place), left |-> left,
                records |-> {Old(1)},
                options |-> [generate |-> generate, sweep |-> sweep, archive |-> place = "archive",
                             invalid |-> invalid, order |-> order],
                forge |-> [known |-> known, merged |-> {"pr"}, covered |-> TRUE]]
  BY <1>0, Zenon DEF Ask
<1>2. /\ asked'.files = Backlog(one, two, place) /\ asked'.records = {Old(1)} /\ asked'.left = left
      /\ asked'.options.invalid = invalid
  BY <1>1
<1>3. invalid # "completed" /\ left \in Nat /\ (place = "active" \/ place = "archive")
  OBVIOUS
<1> DEFINE at == <<place, 2>>
           files == Backlog(one, two, place)
<1>17. (at = LiveAt(2) \/ at = ShelfAt(2)) /\ LiveAt(1) = Paths[1]
  <2>1. 1 \in 1..2
    OBVIOUS
  <2> QED BY <1>3, <2>1, SlotsAre DEF LiveAt, ShelfAt
<1>18. files = [p \in Slots |-> IF p = LiveAt(1) THEN one ELSE IF p = at THEN two ELSE NoFile]
  BY <1>17, Zenon DEF Backlog, Slots
<1> HIDE DEF Invalids, Folders, StepOrders, at, files
<1> DEFINE Statuses == {"running", "completed"}
           Lacking == {{}, {"ticked"}, {"actual"}, {"note"}}
<1>4. Firsts = {Altered(id, status, l, Complete \ lacks) :
                  l \in Shapes, id \in Ids, status \in Statuses, lacks \in Lacking}
  BY DEF Firsts
<1> HIDE DEF Statuses, Lacking
<1>20. PICK l \in Shapes, id \in Ids, status \in Statuses, lacks \in Lacking :
         one = Altered(id, status, l, Complete \ lacks)
  <2>1. one \in Firsts
    BY <1>0
  <2> QED BY <1>4, <2>1
<1>5. one = QuestionRecord(id, status, l.shape, l.evidence, l.prs, Complete \ lacks)
  BY <1>20, QuestionItems
<1>6. ScanItem(one) /\ one.id = id /\ one.evidence = l.evidence
  BY <1>5, LinksOfQuestions DEF QuestionRecord, ScanItem
<1>7. \A k \in ToSet(one.evidence) : IsRecord(k) => k \in {Old(1)}
  BY <1>6, LinksOfQuestions
<1> DEFINE second == Scanned(2)
           two_id == <<"plain", 2>>
           none == <<>>
           done == "completed"
           pulls == {"pr"}
<1>8. second = QuestionRecord(two_id, done, "object", none, pulls, Complete)
  BY QuestionItems, Zenon
<1>9. id # two_id
  <2> DEFINE Forms == {"plain", "upper", "dotted", "scored", "foreign"}
  <2>1. NoId # two_id
    <3>1. Len(<<"no id">>) = 1 /\ Len(<<"plain", 2>>) = 2
      OBVIOUS
    <3> QED BY <3>1 DEF NoId
  <2>2. \A form \in Forms : <<form, 1>> # two_id
    OBVIOUS
  <2>3. Ids = {NoId} \cup {<<form, 1>> : form \in Forms}
    BY DEF Ids
  <2> HIDE DEF Forms, two_id
  <2> QED BY <2>1, <2>2, <2>3
<1>10. ToSet(none) = {} /\ none \in Seq({})
  BY DEF ToSet
<1> HIDE DEF second, two_id, none, done, pulls
<1>11. ScanItem(second) /\ second.id = two_id /\ second.evidence = none
  BY <1>8, <1>10 DEF QuestionRecord, ScanItem, IsSeq
<1>12. two = NoFile \/ two = second
  BY DEF second
<1>13. /\ two = NoFile \/ ScanItem(two)
       /\ two # NoFile => one.id # two.id
       /\ \A d \in {one, two} : d # NoFile => \A k \in ToSet(d.evidence) : IsRecord(k) => k \in {Old(1)}
  BY <1>6, <1>7, <1>9, <1>10, <1>11, <1>12
<1> DEFINE records == {Old(1)}
<1>19. \A d \in {one, two} : d # NoFile => \A k \in ToSet(d.evidence) : IsRecord(k) => k \in records
  BY <1>13
<1> HIDE DEF records
<1>14. \A k \in Nat : /\ \A dry : WellScanned(Begin(files, records, k), dry)
                       /\ \A n \in 1..2 : files[LiveAt(n)] = NoFile \/ files[ShelfAt(n)] = NoFile
  BY <1>6, <1>13, <1>17, <1>18, <1>19, BacklogIsWell
<1>15. \A n \in 1..2 : files[LiveAt(n)] = NoFile \/ files[ShelfAt(n)] = NoFile
  <2>1. 0 \in Nat
    OBVIOUS
  <2> QED BY <1>14, <2>1
<1>16. asked'.files = files /\ asked'.records = records
  BY <1>2 DEF files, records
<1> QED BY <1>2, <1>3, <1>14, <1>15, <1>16 DEF ScanAsked

-----------------------------------------------------------------------------
(* Two items that are the same but for when their evidence was made.       *)
Marks(evidence) == [k \in DOMAIN evidence |-> IF IsRecord(evidence[k]) THEN evidence[k][2] ELSE evidence[k]]
AlikeItems(f, g) ==
  /\ ScanItem(f) /\ ScanItem(g) /\ f.item = g.item /\ f.id = g.id /\ f.status = g.status
  /\ f.life = g.life /\ f.shape = g.shape /\ f.prs = g.prs /\ f.has = g.has
  /\ Marks(f.evidence) = Marks(g.evidence)
AlikeFiles(f, g) == (f = NoFile /\ g = NoFile) \/ AlikeItems(f, g)

(* The options of two scans that differ in their time alone.               *)
Agree(options, later) ==
  /\ later.generate = options.generate /\ later.sweep = options.sweep /\ later.archive = options.archive
  /\ later.invalid = options.invalid /\ later.order = options.order

(* A sequence is empty if another one with the same places is.             *)
LEMMA EmptyTogether ==
  ASSUME NEW s, IsSeq(s), NEW t, IsSeq(t), DOMAIN s = DOMAIN t
  PROVE  s = <<>> <=> t = <<>>
<1>1. PICK S : s \in Seq(S)
  BY DEF IsSeq
<1>2. PICK T : t \in Seq(T)
  BY DEF IsSeq
<1>3. DOMAIN s = 1..Len(s) /\ Len(s) \in Nat /\ (s = <<>> <=> Len(s) = 0)
  BY <1>1, EmptySeq
<1>4. DOMAIN t = 1..Len(t) /\ Len(t) \in Nat /\ (t = <<>> <=> Len(t) = 0)
  BY <1>2, EmptySeq
<1>5. \A m, n \in Nat : 1..m = 1..n /\ m = 0 => n = 0
  <2> SUFFICES ASSUME NEW m \in Nat, NEW n \in Nat, 1..m = 1..n, m = 0, n # 0 PROVE FALSE
    OBVIOUS
  <2>1. 1 \in 1..n /\ 1 \notin 1..m
    OBVIOUS
  <2> QED BY <2>1
<1> QED BY <1>3, <1>4, <1>5

(* Items that are alike are judged alike, and stay alike when moved.       *)
LEMMA AlikeJudged ==
  ASSUME NEW f, NEW g, AlikeItems(f, g), NEW options, NEW later, Agree(options, later), NEW forge
  PROVE  /\ Evidence(f) = <<>> <=> Evidence(g) = <<>>
         /\ Archives(f, options, forge) <=> Archives(g, later, forge)
         /\ Demotes(f, options) <=> Demotes(g, later)
         /\ AlikeItems(Shelved(f), Shelved(g))
         /\ AlikeItems(Demoted(f, options.invalid), Demoted(g, later.invalid))
<1>1. f.evidence = <<>> <=> g.evidence = <<>>
  <2>1. DOMAIN f.evidence = DOMAIN Marks(f.evidence) /\ DOMAIN g.evidence = DOMAIN Marks(g.evidence)
    BY DEF Marks
  <2>2. IsSeq(f.evidence) /\ IsSeq(g.evidence) /\ DOMAIN f.evidence = DOMAIN g.evidence
    BY <2>1 DEF AlikeItems, ScanItem
  <2> QED BY <2>2, EmptyTogether
<1>2. Evidence(f) = <<>> <=> Evidence(g) = <<>>
  BY <1>1 DEF Evidence, AlikeItems
<1>3. Issues(f) = Issues(g)
  BY <1>2 DEF Issues, ScanPulls, AlikeItems
<1>4. Finalizable(f, forge) <=> Finalizable(g, forge)
  <2>1. Pulls(f) = Pulls(g)
    BY DEF Pulls, AlikeItems
  <2> QED BY <1>2, <2>1 DEF Finalizable, AlikeItems
<1>5. Closing(f, options) <=> Closing(g, later)
  BY DEF Closing, AlikeItems, Agree
<1>6. Archives(f, options, forge) <=> Archives(g, later, forge)
  BY <1>3, <1>4, <1>5 DEF Archives, AlikeItems
<1>7. Demotes(f, options) <=> Demotes(g, later)
  BY <1>3, <1>5 DEF Demotes, AlikeItems, Agree
<1>8. ASSUME NEW status, NEW life, NEW has PROVE AlikeItems(Moved(f, status, life, has), Moved(g, status, life, has))
  <2> DEFINE a == Moved(f, status, life, has)
             b == Moved(g, status, life, has)
  <2>1. /\ ScanItem(a) /\ a.item = f.item /\ a.id = f.id /\ a.status = status
        /\ a.life = life /\ a.shape = f.shape /\ a.evidence = f.evidence /\ a.prs = f.prs /\ a.has = has
    BY MovedIsItem DEF AlikeItems
  <2>2. /\ ScanItem(b) /\ b.item = g.item /\ b.id = g.id /\ b.status = status
        /\ b.life = life /\ b.shape = g.shape /\ b.evidence = g.evidence /\ b.prs = g.prs /\ b.has = has
    BY MovedIsItem DEF AlikeItems
  <2> HIDE DEF a, b
  <2>3. AlikeItems(a, b)
    BY <2>1, <2>2 DEF AlikeItems
  <2> QED BY <2>3 DEF a, b
<1>9. AlikeItems(Shelved(f), Shelved(g))
  <2>1. f.status = g.status /\ f.has = g.has
    BY DEF AlikeItems
  <2> QED BY <1>8, <2>1 DEF Shelved
<1>10. AlikeItems(Demoted(f, options.invalid), Demoted(g, later.invalid))
  <2>1. f.has = g.has /\ options.invalid = later.invalid
    BY DEF AlikeItems, Agree
  <2> QED BY <1>8, <2>1 DEF Demoted
<1> QED BY <1>2, <1>6, <1>7, <1>9, <1>10

(* An item that gets a record gets a like one at another time.             *)
LEMMA RecordsAlike ==
  ASSUME NEW d, ScanItem(d)
  PROVE  /\ AlikeItems(d, d)
         /\ d.id # NoId => \A time, later : AlikeItems(WithRecord(d, time), WithRecord(d, later))
<1>1. AlikeItems(d, d)
  BY DEF AlikeItems
<1>2. ASSUME d.id # NoId, NEW time, NEW later PROVE AlikeItems(WithRecord(d, time), WithRecord(d, later))
  <2>1. CASE WithRecord(d, time) = WithRecord(d, later)
    <3>1. ScanItem(WithRecord(d, time))
      BY <1>2, WithRecordIs
    <3> QED BY <2>1, <3>1 DEF AlikeItems
  <2>2. CASE WithRecord(d, time) # WithRecord(d, later)
    <3> DEFINE ev == d.evidence
               one == <<time, d.id>>
               two == <<later, d.id>>
               a == Append(ev, one)
               b == Append(ev, two)
    <3>1. WithRecord(d, time) = Relinked(d, a) /\ WithRecord(d, later) = Relinked(d, b)
      BY <2>2 DEF WithRecord
    <3>2. IsSeq(ev) /\ IsRecord(one) /\ IsRecord(two) /\ one[2] = d.id /\ two[2] = d.id
      BY <1>2 DEF ScanItem, IsRecord, Note
    <3>3. IsSeq(a) /\ IsSeq(b)
      BY <3>2, OneMore
    <3>4. PICK S : ev \in Seq(S) /\ one \in S /\ two \in S
      <4>1. PICK S : ev \in Seq(S)
        BY <3>2 DEF IsSeq
      <4>2. ev \in Seq(S \cup {one, two})
        BY <4>1
      <4> QED BY <4>2
    <3> HIDE DEF one, two, ev
    <3>5. /\ DOMAIN a = 1..(Len(ev) + 1) /\ DOMAIN b = 1..(Len(ev) + 1) /\ Len(ev) \in Nat
          /\ a[Len(ev) + 1] = one /\ b[Len(ev) + 1] = two
          /\ \A i \in 1..Len(ev) : a[i] = ev[i] /\ b[i] = ev[i]
      BY <3>4, AppendProperties
    <3> HIDE DEF a, b
    <3>6. Marks(a) = Marks(b)
      <4>1. \A i \in 1..(Len(ev) + 1) : i = Len(ev) + 1 \/ i \in 1..Len(ev)
        BY <3>5
      <4>2. \A i \in 1..(Len(ev) + 1) :
              (IF IsRecord(a[i]) THEN a[i][2] ELSE a[i]) = (IF IsRecord(b[i]) THEN b[i][2] ELSE b[i])
        BY <3>2, <3>5, <4>1
      <4> QED BY <3>5, <4>2 DEF Marks
    <3> DEFINE f == Relinked(d, a)
               g == Relinked(d, b)
    <3>7. /\ ScanItem(f) /\ f.item = d.item /\ f.id = d.id /\ f.status = d.status /\ f.life = d.life
          /\ f.shape = "object" /\ f.evidence = a /\ f.prs = d.prs /\ f.has = d.has
      BY <3>3, RelinkedIsItem
    <3>8. /\ ScanItem(g) /\ g.item = d.item /\ g.id = d.id /\ g.status = d.status /\ g.life = d.life
          /\ g.shape = "object" /\ g.evidence = b /\ g.prs = d.prs /\ g.has = d.has
      BY <3>3, RelinkedIsItem
    <3> HIDE DEF f, g
    <3>9. AlikeItems(f, g)
      BY <3>6, <3>7, <3>8 DEF AlikeItems
    <3> QED BY <3>1, <3>9 DEF f, g
  <2> QED BY <2>1, <2>2
<1> QED BY <1>1, <1>2

(* Whether an item is a subject depends on its id and its pull requests.   *)
LEMMA SubjectsAre ==
  ASSUME NEW d, NEW e, d.id = e.id, d.prs = e.prs, NEW options, NEW later, Agree(options, later), NEW forge
  PROVE  IsSubject(d, options, forge) <=> IsSubject(e, later, forge)
<1>1. Linked(d, forge) = Linked(e, forge)
  BY DEF Linked, ScanPulls
<1>2. options.order = later.order /\ options.generate = later.generate
  BY DEF Agree
<1> DEFINE Of(id, linked, order) ==
             LET found(strategy) == IF strategy = "linked" THEN linked ELSE TokensOf(id)
                 first == SelectInSeq(order, LAMBDA x : found(x) # {}) IN
             IF first = 0 THEN {} ELSE found(order[first])
<1>3. SubjectIds(d, options, forge) = SubjectIds(e, later, forge)
  <2>1. SubjectIds(d, options, forge) = Of(d.id, Linked(d, forge), options.order)
    BY DEF SubjectIds
  <2>2. SubjectIds(e, later, forge) = Of(e.id, Linked(e, forge), later.order)
    BY DEF SubjectIds
  <2> HIDE DEF Of
  <2> QED BY <1>1, <1>2, <2>1, <2>2
<1> QED BY <1>2, <1>3 DEF IsSubject

(* What an item is prepared as does not depend on the time.                *)
LEMMA PreparedAlike ==
  ASSUME NEW d, ScanItem(d), NEW options, NEW later, Agree(options, later), NEW forge
  PROVE  /\ AlikeItems(WithEvidence(d, options, forge), WithEvidence(d, later, forge))
         /\ AlikeItems(Prepared(d, options, forge), Prepared(d, later, forge))
<1> DEFINE m == WithEvidence(d, options, forge)
           n == WithEvidence(d, later, forge)
           v == WithRecord(d, options.time)
           w == WithRecord(d, later.time)
<1>1. Eligible(d.id) => d.id # NoId
  BY DEF Eligible
<1>2. AlikeItems(d, d) /\ (Eligible(d.id) => AlikeItems(v, w))
  BY <1>1, RecordsAlike
<1>3. (m = d /\ n = d) \/ (m = v /\ n = w /\ Eligible(d.id))
  <2>1. IsSubject(d, options, forge) <=> IsSubject(d, later, forge)
    BY SubjectsAre
  <2> QED BY <2>1 DEF WithEvidence, IsSubject
<1>4. AlikeItems(m, n)
  <2> HIDE DEF m, n, v, w
  <2> QED BY <1>2, <1>3
<1>5. Eligible(d.id) => WithRecord(v, options.time) = v /\ WithRecord(w, later.time) = w
  BY <1>1, WithRecordIs
<1>6. Evidence(m) = <<>> <=> Evidence(n) = <<>>
  BY <1>4, AlikeJudged
<1>7. Closing(d, options) /\ options.generate <=> Closing(d, later) /\ later.generate
  BY DEF Closing, Agree
<1> DEFINE more == Closing(d, options) /\ options.generate /\ Evidence(m) = <<>> /\ Eligible(d.id)
<1>8. /\ Prepared(d, options, forge) = IF more THEN WithRecord(m, options.time) ELSE m
      /\ Prepared(d, later, forge) = IF more THEN WithRecord(n, later.time) ELSE n
  <2> HIDE DEF m, n
  <2> QED BY <1>6, <1>7 DEF Prepared, m, n
<1>9. more => Eligible(d.id)
  OBVIOUS
<1> HIDE DEF m, n, more
<1>10. more => WithRecord(m, options.time) = v /\ WithRecord(n, later.time) = w
  <2> HIDE DEF v, w
  <2> QED BY <1>3, <1>5, <1>9 DEF v, w
<1> HIDE DEF v, w
<1> QED BY <1>2, <1>4, <1>8, <1>9, <1>10 DEF m, n

-----------------------------------------------------------------------------
(* A dry run says of the items it meets what the same run, made for real   *)
(* and not killed, does with them.                                         *)
LEMMA DryForetells ==
  ASSUME NEW s, s.files = s.seen, s.left > 24, NEW options, ~options.dry, NEW later, later.dry,
         Agree(options, later), WellScanned(s, options.dry), WellScanned(s, later.dry), NEW forge,
         Resumable(s, options, forge), Resumable(s, later, forge)
  PROVE  LET would == Scan(s, later, forge) IN
         /\ would.files = s.files /\ would.records = s.records
         /\ would.archived = Scan(s, options, forge).archived
<1> DEFINE would == Scan(s, later, forge)
           t == Scan(s, options, forge)
<1>1. ScanDone(s, t, options, forge) /\ ScanDone(s, would, later, forge)
  BY ScanDoes
<1> HIDE DEF would, t
<1>2. t.left # 0 /\ would.left # 0
  <2>1. /\ t.left + 24 >= s.left /\ would.left + 24 >= s.left
        /\ t.left \in Nat /\ would.left \in Nat /\ s.left \in Nat
    BY <1>1 DEF ScanDone, WellScanned, ScanState
  <2> QED BY <2>1
<1>3. would.files = s.files /\ would.records = s.records
  BY <1>1 DEF ScanDone, Stored, OnDisk
<1>4. ASSUME NEW n \in 1..2 PROVE Told(s, n, later, forge) = Told(s, n, options, forge)
  <2> DEFINE d == s.seen[LiveAt(n)]
  <2>1. CASE d = NoFile
    BY <2>1 DEF Told
  <2>2. CASE d # NoFile
    <3>1. ScanItem(d)
      BY <2>2, SlotsAre DEF WellScanned, ItemsOnly
    <3> HIDE DEF d
    <3>2. AlikeItems(Prepared(d, options, forge), Prepared(d, later, forge))
      BY <3>1, PreparedAlike
    <3>3. Archives(Prepared(d, options, forge), options, forge)
            <=> Archives(Prepared(d, later, forge), later, forge)
      BY <3>2, AlikeJudged
    <3> QED BY <3>3 DEF Told, d
  <2> QED BY <2>1, <2>2
<1>5. 1 \in 1..2 /\ 2 \in 1..2
  OBVIOUS
<1>6. would.archived = t.archived
  BY <1>1, <1>2, <1>4, <1>5 DEF ScanDone
<1> QED BY <1>3, <1>6 DEF would, t

(* A dry run of the scan that is asked about changes nothing, and what it  *)
(* says would be archived is what the scan archives.                       *)
THEOREM DryScansForetell == Spec => []DryRunForetells
<1>1. Init => DryRunForetells
  BY DEF Init, DryRunForetells, Asked
<1>2. DryRunForetells /\ [Next]_asked => DryRunForetells'
  <2> SUFFICES ASSUME DryRunForetells, [Next]_asked PROVE DryRunForetells'
    OBVIOUS
  <2>1. CASE AskScan
    <3> DEFINE q == asked'
               s == Begin(q.files, q.records, 99)
               wet == At(q.options, "first", FALSE)
               dry == At(q.options, "first", TRUE)
    <3>1. ScanAsked(q)
      BY <2>1, ScanQuestionsAreWell
    <3> HIDE DEF q
    <3>2. s.files = q.files /\ s.seen = q.files /\ s.records = q.records /\ s.left = 99
      BY DEF Begin
    <3>3. \A any : WellScanned(s, any)
      <4>1. 99 \in Nat
        OBVIOUS
      <4> QED BY <3>1, <4>1, Zenon DEF ScanAsked
    <3>4. ~wet.dry /\ dry.dry /\ Agree(wet, dry)
      BY Zenon DEF At, Agree
    <3> HIDE DEF s, wet, dry
    <3>5. Resumable(s, wet, q.forge) /\ Resumable(s, dry, q.forge)
      BY <3>1, <3>2 DEF ScanAsked, Resumable
    <3>6. LET would == Scan(s, dry, q.forge) IN
          /\ would.files = q.files /\ would.records = q.records
          /\ would.archived = Scan(s, wet, q.forge).archived
      <4>1. s.left > 24 /\ s.files = s.seen
        BY <3>2
      <4> QED BY <3>2, <3>3, <3>4, <3>5, <4>1, DryForetells
    <3> QED BY <3>6 DEF DryRunForetells, First, q, s, wet, dry
  <2>2. CASE AnyAsk /\ ~AskScan
    <3>1. asked'.kind # "scan"
      BY <2>2, KindsOfQuestions DEF AnyAsk
    <3> QED BY <3>1 DEF DryRunForetells, Asked
  <2>3. CASE UNCHANGED asked
    BY <2>3 DEF DryRunForetells, Asked, First
  <2> QED BY <2>1, <2>2, <2>3, NextAsks
<1> QED BY <1>1, <1>2, PTL DEF Spec

-----------------------------------------------------------------------------
(* An item that a scan has been at gets no other evidence from the next.   *)
Stays(e, options, forge) ==
  IsSubject(e, options, forge) => \A time : WithRecord(e, time) = e

(* No more does one that is moved then.                                    *)
LEMMA MovedStays ==
  ASSUME NEW e, ScanItem(e), NEW options, NEW forge, Stays(e, options, forge),
         NEW status, NEW life, NEW has
  PROVE  Stays(Moved(e, status, life, has), options, forge)
<1> DEFINE m == Moved(e, status, life, has)
<1>1. /\ ScanItem(m) /\ m.item = e.item /\ m.id = e.id /\ m.status = status /\ m.life = life
      /\ m.shape = e.shape /\ m.evidence = e.evidence /\ m.prs = e.prs /\ m.has = has
  BY MovedIsItem
<1> HIDE DEF m
<1>2. IsSubject(m, options, forge) <=> IsSubject(e, options, forge)
  <2>1. Agree(options, options)
    BY DEF Agree
  <2> QED BY <1>1, <2>1, SubjectsAre
<1>3. ASSUME NEW time, WithRecord(e, time) = e PROVE WithRecord(m, time) = m
  <2>1. Recorded(m) <=> Recorded(e)
    BY <1>1 DEF Recorded
  <2>2. CASE Recorded(e)
    <3>1. e = Relinked(e, e.evidence)
      BY <1>3, <2>2 DEF WithRecord
    <3>2. e.shape = "object"
      BY <3>1 DEF Relinked
    <3>3. m = Relinked(m, m.evidence)
      BY <1>1, <3>2 DEF ScanItem, Relinked
    <3> QED BY <2>1, <2>2, <3>3 DEF WithRecord
  <2>3. CASE ~Recorded(e) /\ e.id[1] = "dotted"
    BY <1>1, <2>1, <2>3 DEF WithRecord
  <2>4. CASE ~Recorded(e) /\ e.id[1] # "dotted"
    <3> DEFINE more == Append(e.evidence, <<time, e.id>>)
    <3>1. e = Relinked(e, more)
      BY <1>3, <2>4 DEF WithRecord
    <3>2. PICK S : e.evidence \in Seq(S)
      BY DEF ScanItem, IsSeq
    <3>3. Len(more) = Len(e.evidence) + 1 /\ Len(e.evidence) \in Nat
      <4>1. e.evidence \in Seq(S \cup {<<time, e.id>>})
        BY <3>2
      <4> QED BY <4>1, AppendProperties
    <3> HIDE DEF more
    <3>4. e.evidence = more
      BY <3>1 DEF Relinked
    <3> QED BY <3>3, <3>4
  <2> QED BY <2>2, <2>3, <2>4
<1>4. Stays(m, options, forge)
  BY <1>2, <1>3 DEF Stays
<1> QED BY <1>4 DEF m

(* What a scan has prepared, another scan leaves as it is.                 *)
LEMMA PreparedStays ==
  ASSUME NEW d, ScanItem(d), NEW options, NEW later, Agree(options, later), NEW forge
  PROVE  LET e == Prepared(d, options, forge)
             m == WithEvidence(d, options, forge) IN
         /\ Stays(e, options, forge) /\ WithEvidence(m, later, forge) = m
         /\ Prepared(e, later, forge) = e
<1> DEFINE e == Prepared(d, options, forge)
           m == WithEvidence(d, options, forge)
           w == WithRecord(d, options.time)
<1>1. Eligible(d.id) => \A time : WithRecord(w, time) = w
  <2> SUFFICES ASSUME Eligible(d.id) PROVE \A time : WithRecord(w, time) = w
    OBVIOUS
  <2>1. d.id # NoId
    BY DEF Eligible
  <2> QED BY <2>1, WithRecordIs
<1>2. /\ ScanItem(e) /\ e.item = d.item /\ e.id = d.id /\ e.status = d.status /\ e.prs = d.prs
      /\ ScanItem(m) /\ m.item = d.item /\ m.id = d.id /\ m.prs = d.prs
  BY PreparedIs
<1>3. m = IF IsSubject(d, options, forge) THEN w ELSE d
  BY DEF WithEvidence
<1> DEFINE more == Closing(d, options) /\ options.generate /\ Evidence(m) = <<>> /\ Eligible(d.id)
<1>4. e = IF more THEN WithRecord(m, options.time) ELSE m
  BY DEF Prepared
<1>5. IsSubject(d, options, forge) => Eligible(d.id)
  BY DEF IsSubject
<1> HIDE DEF e, m
<1>6. more => e = w
  <2> SUFFICES ASSUME more PROVE e = w
    OBVIOUS
  <2>1. e = WithRecord(m, options.time) /\ (m = d \/ m = w) /\ Eligible(d.id)
    BY <1>3, <1>4
  <2> HIDE DEF w
  <2> QED BY <1>1, <2>1 DEF w
<1> HIDE DEF w
<1>7. IsSubject(d, options, forge) => e = w /\ m = w
  BY <1>3, <1>4, <1>6
<1>8. /\ IsSubject(e, later, forge) <=> IsSubject(d, options, forge)
      /\ IsSubject(e, options, forge) <=> IsSubject(d, options, forge)
      /\ IsSubject(m, later, forge) <=> IsSubject(d, options, forge)
  <2>1. Agree(options, options)
    BY DEF Agree
  <2> QED BY <1>2, <2>1, SubjectsAre
<1>9. Stays(e, options, forge)
  BY <1>1, <1>5, <1>7, <1>8 DEF Stays
<1>10. WithEvidence(m, later, forge) = m
  BY <1>1, <1>5, <1>7, <1>8 DEF WithEvidence
<1>11. WithEvidence(e, later, forge) = e
  BY <1>1, <1>5, <1>7, <1>8 DEF WithEvidence
<1>12. Prepared(e, later, forge) = e
  <2>1. Prepared(e, later, forge) =
          IF Closing(e, later) /\ later.generate /\ Evidence(e) = <<>> /\ Eligible(e.id)
            THEN WithRecord(e, later.time) ELSE e
    BY <1>11 DEF Prepared
  <2>2. ASSUME Closing(e, later), later.generate, Evidence(e) = <<>>, Eligible(e.id)
        PROVE  WithRecord(e, later.time) = e
    <3>1. Closing(d, options) /\ options.generate /\ Eligible(d.id)
      BY <1>2, <2>2 DEF Closing, Agree
    <3>2. CASE more
      BY <1>1, <1>6, <3>1, <3>2
    <3>3. CASE ~more
      <4>1. e = m
        BY <1>4, <3>3
      <4> QED BY <2>2, <3>1, <3>3, <4>1
    <3> QED BY <3>2, <3>3
  <2> QED BY <2>1, <2>2
<1> HIDE DEF more
<1>13. Stays(e, options, forge) /\ WithEvidence(m, later, forge) = m /\ Prepared(e, later, forge) = e
  BY <1>9, <1>10, <1>12
<1> QED BY <1>13 DEF e, m

(* What stays gets no evidence from a later scan.                          *)
LEMMA NoMoreEvidence ==
  ASSUME NEW e, NEW options, NEW later, Agree(options, later), NEW forge, Stays(e, options, forge)
  PROVE  WithEvidence(e, later, forge) = e
<1>1. IsSubject(e, later, forge) <=> IsSubject(e, options, forge)
  BY SubjectsAre
<1> QED BY <1>1 DEF WithEvidence, Stays

(* Two scans of like items, none of them dry, end alike.                   *)
LEMMA ThroughAlike ==
  ASSUME NEW e, NEW f, AlikeItems(e, f), NEW options, ~options.dry, NEW later, ~later.dry,
         Agree(options, later), NEW forge,
         NEW x, NEW y, Through(e, NoFile, x, y, options, forge),
         NEW u, NEW v, Through(f, NoFile, u, v, later, forge)
  PROVE  AlikeFiles(x, u) /\ AlikeFiles(y, v)
<1>1. /\ Archives(e, options, forge) <=> Archives(f, later, forge)
      /\ Demotes(e, options) <=> Demotes(f, later)
      /\ AlikeItems(Shelved(e), Shelved(f))
      /\ AlikeItems(Demoted(e, options.invalid), Demoted(f, later.invalid))
  BY AlikeJudged
<1>2. Archives(e, options, forge) => ~Demotes(e, options)
  BY DEF Archives, Demotes
<1> QED BY <1>1, <1>2 DEF Through, AlikeFiles

(* The files of an item that a scan left, however far it came: the next    *)
(* scan can go on from them.                                               *)
LEMMA StillResumable ==
  ASSUME NEW x, x = NoFile \/ ScanItem(x), NEW y, x = NoFile \/ y = NoFile,
         NEW options, NEW later, Agree(options, later), NEW forge, NEW whole \in BOOLEAN, NEW x1, NEW y1,
         PairDone(x, y, x1, y1, whole, options, forge)
  PROVE  x1 = NoFile \/ y1 = NoFile \/ Archives(Prepared(x1, later, forge), later, forge)
<1> DEFINE e == Prepared(x, options, forge)
<1>1. CASE x = NoFile
  BY <1>1 DEF PairDone
<1>2. CASE x # NoFile
  <2>1. y = NoFile /\ Underway(x, e, y, x1, y1, options, forge)
    BY <1>2 DEF PairDone
  <2>2. ASSUME Archives(e, options, forge) PROVE Archives(Prepared(e, later, forge), later, forge)
    <3>1. ScanItem(x)
      BY <1>2
    <3>2. Prepared(e, later, forge) = e /\ ScanItem(e)
      BY <3>1, PreparedStays, PreparedIs
    <3> HIDE DEF e
    <3>3. AlikeItems(e, e)
      BY <3>2, RecordsAlike
    <3> QED BY <2>2, <3>2, <3>3, AlikeJudged
  <2> HIDE DEF e
  <2> QED BY <2>1, <2>2 DEF Underway
<1> QED BY <1>1, <1>2

(* An item is left as one scan would have left it, however far the scan    *)
(* before the last one came.                                               *)
LEMMA PairRecovers ==
  ASSUME NEW x, x = NoFile \/ ScanItem(x), NEW y, y = NoFile \/ ScanItem(y), x = NoFile \/ y = NoFile,
         NEW options, ~options.dry, options.invalid # "completed", NEW later, ~later.dry,
         Agree(options, later), NEW forge, NEW whole \in BOOLEAN, NEW x1, NEW y1, PairDone(x, y, x1, y1, whole, options, forge),
         NEW x2, NEW y2, PairDone(x1, y1, x2, y2, TRUE, later, forge),
         NEW x3, NEW y3, PairDone(x, y, x3, y3, TRUE, options, forge)
  PROVE  AlikeFiles(x2, x3) /\ AlikeFiles(y2, y3)
<1> DEFINE e == Prepared(x, options, forge)
           E(z) == WithEvidence(z, options, forge)
           L(z) == WithEvidence(z, later, forge)
<1>0. later.archive = options.archive /\ later.invalid # "completed"
  BY DEF Agree
<1>1. CASE x = NoFile
  <2>1. /\ x1 = NoFile /\ x2 = NoFile /\ x3 = NoFile
        /\ y = NoFile \/ ~options.archive => y1 = y /\ y3 = y
        /\ y # NoFile /\ options.archive => (y1 = E(y) \/ y1 = y) /\ y3 = E(y)
    BY <1>1 DEF PairDone
  <2>2. /\ y1 = NoFile \/ ~options.archive => y2 = y1
        /\ y1 # NoFile /\ options.archive => y2 = L(y1)
    BY <1>0, <2>1 DEF PairDone
  <2> HIDE DEF E, L
  <2>3. CASE y = NoFile
    BY <2>1, <2>2, <2>3 DEF AlikeFiles
  <2>4. CASE y # NoFile /\ ~options.archive
    <3>1. y2 = y /\ y3 = y /\ ScanItem(y)
      BY <2>1, <2>2, <2>4
    <3> QED BY <2>1, <3>1, RecordsAlike DEF AlikeFiles
  <2>5. CASE y # NoFile /\ options.archive
    <3>1. AlikeItems(E(y), L(y)) /\ L(E(y)) = E(y) /\ ScanItem(E(y)) /\ ScanItem(L(y))
      <4>1. ScanItem(y)
        BY <2>5
      <4>2. AlikeItems(E(y), L(y)) /\ L(E(y)) = E(y)
        BY <4>1, PreparedAlike, PreparedStays DEF E, L
      <4> QED BY <4>2 DEF AlikeItems
    <3>2. NoFile.kind # "file" /\ E(y).kind = "file"
      BY <3>1 DEF NoFile, ScanItem
    <3>3. y2 = L(y1) /\ y3 = E(y) /\ (y1 = E(y) \/ y1 = y)
      BY <2>1, <2>2, <2>5, <3>2
    <3>4. AlikeItems(E(y), E(y))
      BY <3>1, RecordsAlike
    <3>5. AlikeItems(L(y), E(y))
      BY <3>1 DEF AlikeItems
    <3> QED BY <2>1, <3>1, <3>3, <3>4, <3>5 DEF AlikeFiles
  <2> QED BY <2>3, <2>4, <2>5
<1>2. CASE x # NoFile
  <2>1. y = NoFile /\ ScanItem(x)
    BY <1>2
  <2>2. Underway(x, e, NoFile, x1, y1, options, forge)
    BY <1>2, <2>1 DEF PairDone
  <2>3. Through(e, NoFile, x3, y3, options, forge)
    BY <1>2, <2>1 DEF PairDone
  <2>4. y1 = NoFile /\ x1 # NoFile => Through(Prepared(x1, later, forge), NoFile, x2, y2, later, forge)
    <3> HIDE DEF e
    <3> QED BY DEF PairDone
  <2>5. /\ ScanItem(e) /\ Prepared(e, later, forge) = e /\ Stays(e, options, forge)
        /\ AlikeItems(e, Prepared(x, later, forge)) /\ AlikeItems(e, e)
    <3>1. ScanItem(e) /\ Prepared(e, later, forge) = e /\ Stays(e, options, forge)
      BY <2>1, PreparedIs, PreparedStays
    <3>2. AlikeItems(e, Prepared(x, later, forge))
      BY <2>1, PreparedAlike
    <3> HIDE DEF e
    <3> QED BY <3>1, <3>2, RecordsAlike
  <2>6. Archives(e, options, forge) => ~Demotes(e, options)
    BY DEF Archives, Demotes
  <2> HIDE DEF e
  <2>7. NoFile.kind # "file" /\ e.kind = "file" /\ e # NoFile
    BY <2>5 DEF NoFile, ScanItem
  <2>8. \A f, g : AlikeItems(f, g) => AlikeItems(g, f)
    BY DEF AlikeItems
  <2>13. \A f, g : AlikeFiles(f, g) => AlikeFiles(g, f)
    BY <2>8 DEF AlikeFiles
  <2>9. CASE y1 = NoFile /\ x1 = x
    <3>1. AlikeFiles(x3, x2) /\ AlikeFiles(y3, y2)
      BY <1>2, <2>3, <2>4, <2>5, <2>9, ThroughAlike
    <3> QED BY <2>13, <3>1
  <2>10. CASE y1 = NoFile /\ x1 = e
    <3>1. Through(e, NoFile, x2, y2, later, forge)
      BY <2>4, <2>5, <2>7, <2>10
    <3>2. AlikeFiles(x3, x2) /\ AlikeFiles(y3, y2)
      BY <2>3, <2>5, <3>1, ThroughAlike
    <3> QED BY <2>13, <3>2
  <2>11. CASE Archives(e, options, forge) /\ y1 = Shelved(e) /\ (x1 = e \/ x1 = NoFile)
    <3> DEFINE s == Shelved(e)
    <3>1. ScanItem(s) /\ s.kind = "file" /\ Stays(s, options, forge)
      BY <2>5, MovedIsItem, MovedStays DEF Shelved
    <3>2. L(s) = s /\ s # NoFile
      BY <2>7, <3>1, NoMoreEvidence
    <3>3. x3 = NoFile /\ y3 = s
      BY <2>3, <2>6, <2>11 DEF Through
    <3>4. Archives(e, later, forge) /\ ~Demotes(e, later)
      BY <2>5, <2>6, <2>11, AlikeJudged
    <3>5. PICK z : /\ x1 = NoFile => x2 = x1 /\ z = y1
                   /\ x1 # NoFile => Through(e, y1, x2, z, later, forge)
                   /\ y1 = NoFile \/ ~later.archive => y2 = z
                   /\ y1 # NoFile /\ later.archive => y2 = L(z)
      <4>1. x1 # NoFile => Prepared(x1, later, forge) = e
        BY <2>5, <2>11
      <4> QED BY <4>1 DEF PairDone
    <3> HIDE DEF s, L
    <3>6. x2 = NoFile /\ z = s
      BY <2>11, <3>4, <3>5 DEF Through, s
    <3>7. y2 = s
      BY <3>2, <3>5, <3>6
    <3> QED BY <3>1, <3>3, <3>6, <3>7, RecordsAlike DEF AlikeFiles
  <2>12. CASE Demotes(e, options) /\ y1 = NoFile /\ x1 = Demoted(e, options.invalid)
    <3> DEFINE d == Demoted(e, options.invalid)
    <3>1. ScanItem(d) /\ d.kind = "file" /\ Stays(d, options, forge) /\ d.status = options.invalid
      BY <2>5, MovedIsItem, MovedStays DEF Demoted
    <3>2. L(d) = d /\ d # NoFile
      BY <2>7, <3>1, NoMoreEvidence
    <3> HIDE DEF d
    <3>3. ~Closing(d, later)
      BY <3>1 DEF Closing
    <3>4. Prepared(d, later, forge) = d
      BY <3>2, <3>3 DEF Prepared
    <3>5. Through(d, NoFile, x2, y2, later, forge)
      BY <2>4, <2>12, <3>2, <3>4 DEF d
    <3>6. x2 = d /\ y2 = NoFile
      BY <3>3, <3>5 DEF Through, Archives, Demotes
    <3>7. x3 = d /\ y3 = NoFile
      BY <2>3, <2>6, <2>12 DEF Through, d
    <3> QED BY <3>1, <3>6, <3>7, RecordsAlike DEF AlikeFiles
  <2> QED BY <2>2, <2>9, <2>10, <2>11, <2>12 DEF Underway
<1> QED BY <1>1, <1>2

(* Files that are alike in every place are the same but for the times.     *)
LEMMA TimelessAre ==
  ASSUME NEW files, files = [p \in Slots |-> files[p]], NEW others, others = [p \in Slots |-> others[p]],
         \A p \in Slots : AlikeFiles(files[p], others[p])
  PROVE  Timeless(files) = Timeless(others)
<1> DEFINE Undated(f) == IF f.kind = "none" THEN NoFile
             ELSE [f EXCEPT !.evidence = [k \in DOMAIN @ |-> IF IsRecord(@[k]) THEN @[k][2] ELSE @[k]]]
<1>1. Timeless(files) = [p \in Slots |-> Undated(files[p])] /\ Timeless(others) = [p \in Slots |-> Undated(others[p])]
  <2>1. DOMAIN files = Slots /\ DOMAIN others = Slots
    OBVIOUS
  <2> QED BY <2>1 DEF Timeless
<1>2. ASSUME NEW f, ScanItem(f)
      PROVE  Undated(f) = [kind |-> "file", item |-> f.item, id |-> f.id, status |-> f.status, life |-> f.life,
                        shape |-> f.shape, evidence |-> Marks(f.evidence), prs |-> f.prs, has |-> f.has]
  <2>1. f.kind # "none"
    BY <1>2 DEF ScanItem
  <2>2. Undated(f) = [f EXCEPT !.evidence = Marks(f.evidence)]
    BY <2>1 DEF Marks
  <2> DEFINE m == Marks(f.evidence)
  <2> HIDE DEF m, Undated
  <2>3. [f EXCEPT !.evidence = m] = [kind |-> "file", item |-> f.item, id |-> f.id, status |-> f.status,
          life |-> f.life, shape |-> f.shape, evidence |-> m, prs |-> f.prs, has |-> f.has]
    BY <1>2 DEF ScanItem
  <2> QED BY <2>2, <2>3 DEF m
<1> HIDE DEF Undated
<1>3. ASSUME NEW f, NEW g, AlikeFiles(f, g) PROVE Undated(f) = Undated(g)
  <2>1. CASE f = g
    BY <2>1
  <2>2. CASE AlikeItems(f, g)
    BY <1>2, <2>2 DEF AlikeItems
  <2> QED BY <1>3, <2>1, <2>2 DEF AlikeFiles
<1> QED BY <1>1, <1>3

(* A scan that was killed is made up for by the next, which leaves what    *)
(* the first would have left, and nothing that leads to no record.         *)
LEMMA ScansRecover ==
  ASSUME NEW files, NEW records, NEW left \in Nat,
         \A n \in Nat : \A dry : WellScanned(Begin(files, records, n), dry),
         \A n \in 1..2 : files[LiveAt(n)] = NoFile \/ files[ShelfAt(n)] = NoFile,
         NEW options, ~options.dry, options.invalid # "completed",
         NEW later, ~later.dry, Agree(options, later), NEW forge
  PROVE  LET killed == Scan(Begin(files, records, left), options, forge)
             again == Scan(Begin(killed.files, killed.records, 99), later, forge) IN
         /\ Timeless(again.files) = Timeless(Scan(Begin(files, records, 99), options, forge).files)
         /\ RecordsThere(again) /\ again.files = [p \in Slots |-> again.files[p]]
<1> DEFINE s == Begin(files, records, left)
           w == Begin(files, records, 99)
           killed == Scan(s, options, forge)
           a == Begin(killed.files, killed.records, 99)
           again == Scan(a, later, forge)
           first == Scan(w, options, forge)
<1>1. /\ s.files = files /\ s.seen = files /\ w.files = files /\ w.seen = files /\ w.left = 99
      /\ a.files = killed.files /\ a.seen = killed.files /\ a.left = 99
  BY DEF Begin
<1>2. \A dry : WellScanned(s, dry) /\ WellScanned(w, dry)
  <2>1. 99 \in Nat
    OBVIOUS
  <2> QED BY <2>1, Zenon
<1>3. Resumable(s, options, forge) /\ Resumable(w, options, forge)
  <2> HIDE DEF s, w
  <2> QED BY <1>1 DEF Resumable
<1>4. ScanDone(s, killed, options, forge) /\ ScanDone(w, first, options, forge)
  <2> HIDE DEF s, w
  <2> QED BY <1>1, <1>2, <1>3, ScanDoes
<1> HIDE DEF s, w, killed, first
<1>14. killed.files = killed.seen /\ first.files = first.seen
  BY <1>4 DEF ScanDone, Stored, OnDisk
<1>5. WellScanned(a, later.dry)
  <2>1. ScanState(killed) /\ ItemsOnly(killed) /\ RecordsThere(killed) /\ IdsApart(killed)
    BY <1>4 DEF ScanDone, WellScanned, Stored
  <2> DEFINE no == FALSE
             nothing == {}
  <2>2. a = [files |-> killed.files, seen |-> killed.files, records |-> killed.records, left |-> 99, threw |-> no, archived |-> nothing]
    BY Zenon DEF Begin
  <2>3. no \in BOOLEAN
    OBVIOUS
  <2> HIDE DEF a, no, nothing
  <2>4. ScanState(a) /\ a.files = killed.files /\ a.seen = killed.seen /\ a.records = killed.records
    BY <1>14, <2>1, <2>2, <2>3 DEF ScanState
  <2>5. ItemsOnly(a) /\ RecordsThere(a) /\ IdsApart(a)
    BY <2>1, <2>4 DEF ItemsOnly, RecordsThere, IdsApart, HasId
  <2> QED BY <1>1, <2>4, <2>5 DEF WellScanned, Stored, OnDisk
<1>6. \A n \in 1..2 : /\ files[LiveAt(n)] = NoFile \/ ScanItem(files[LiveAt(n)])
                      /\ files[ShelfAt(n)] = NoFile \/ ScanItem(files[ShelfAt(n)])
  <2>1. ItemsOnly(s)
    BY <1>2 DEF WellScanned
  <2> HIDE DEF s
  <2> QED BY <1>1, <2>1, SlotsAre DEF ItemsOnly
<1> HIDE DEF a
<1>7. Resumable(a, later, forge)
  <2> SUFFICES ASSUME NEW n \in 1..2
               PROVE  LET d == killed.seen[LiveAt(n)] IN
                      \/ d = NoFile \/ killed.seen[ShelfAt(n)] = NoFile
                      \/ Archives(Prepared(d, later, forge), later, forge)
    BY <1>1, <1>14 DEF Resumable
  <2>1. PairDone(files[LiveAt(n)], files[ShelfAt(n)], killed.seen[LiveAt(n)], killed.seen[ShelfAt(n)],
                 killed.left # 0, options, forge)
    BY <1>1, <1>4 DEF ScanDone
  <2>2. (killed.left # 0) \in BOOLEAN
    OBVIOUS
  <2> QED BY <1>6, <2>1, <2>2, StillResumable
<1>8. ScanDone(a, again, later, forge)
  BY <1>1, <1>5, <1>7, ScanDoes
<1> HIDE DEF again
<1>9. again.left # 0 /\ first.left # 0
  <2>1. again.left + 24 >= a.left /\ first.left + 24 >= w.left /\ again.left \in Nat /\ first.left \in Nat
    BY <1>4, <1>8 DEF ScanDone, WellScanned, ScanState
  <2> QED BY <1>1, <2>1
<1>10. ASSUME NEW n \in 1..2
       PROVE  /\ AlikeFiles(again.seen[LiveAt(n)], first.seen[LiveAt(n)])
              /\ AlikeFiles(again.seen[ShelfAt(n)], first.seen[ShelfAt(n)])
  <2>1. PairDone(files[LiveAt(n)], files[ShelfAt(n)], killed.seen[LiveAt(n)], killed.seen[ShelfAt(n)],
                 killed.left # 0, options, forge)
    BY <1>1, <1>4 DEF ScanDone
  <2>2. PairDone(killed.seen[LiveAt(n)], killed.seen[ShelfAt(n)], again.seen[LiveAt(n)], again.seen[ShelfAt(n)],
                 again.left # 0, later, forge)
    <3>1. PairDone(a.seen[LiveAt(n)], a.seen[ShelfAt(n)], again.seen[LiveAt(n)], again.seen[ShelfAt(n)],
                   again.left # 0, later, forge)
      BY <1>8 DEF ScanDone
    <3>2. a.seen = killed.seen
      BY <1>1, <1>14
    <3> QED BY <3>1, <3>2
  <2>3. PairDone(files[LiveAt(n)], files[ShelfAt(n)], first.seen[LiveAt(n)], first.seen[ShelfAt(n)],
                 first.left # 0, options, forge)
    BY <1>1, <1>4 DEF ScanDone
  <2>4. (killed.left # 0) \in BOOLEAN /\ (again.left # 0) = TRUE /\ (first.left # 0) = TRUE
    BY <1>9
  <2> DEFINE x == files[LiveAt(n)]
             y == files[ShelfAt(n)]
  <2>5. PairDone(killed.seen[LiveAt(n)], killed.seen[ShelfAt(n)], again.seen[LiveAt(n)], again.seen[ShelfAt(n)],
                 TRUE, later, forge)
        /\ PairDone(x, y, first.seen[LiveAt(n)], first.seen[ShelfAt(n)], TRUE, options, forge)
    BY <2>2, <2>3, <2>4
  <2> QED BY <1>6, <2>1, <2>4, <2>5, PairRecovers
<1>11. \A p \in Slots : AlikeFiles(again.seen[p], first.seen[p])
  BY <1>10, SlotsAre
<1>15. again.files = again.seen
  BY <1>8 DEF ScanDone, Stored, OnDisk
<1>12. again.files = [p \in Slots |-> again.files[p]] /\ first.files = [p \in Slots |-> first.files[p]]
       /\ RecordsThere(again)
  BY <1>4, <1>8 DEF ScanDone, WellScanned, ScanState, Stored
<1>13. Timeless(again.files) = Timeless(first.files)
  BY <1>11, <1>12, <1>14, <1>15, TimelessAre
<1> QED BY <1>12, <1>13 DEF again, first, a, killed, s, w

(* A scan that is asked about is made up for by the next one, wherever it  *)
(* was killed, and what that one links is there.                           *)
THEOREM RescansRecover == Spec => []RescanRecovers
<1>1. Init => RescanRecovers
  BY DEF Init, RescanRecovers, Asked
<1>2. RescanRecovers /\ [Next]_asked => RescanRecovers'
  <2> SUFFICES ASSUME RescanRecovers, [Next]_asked PROVE RescanRecovers'
    OBVIOUS
  <2>1. CASE AskScan
    <3> DEFINE q == asked'
               options == At(q.options, "first", FALSE)
               later == At(q.options, "again", FALSE)
               killed == Scan(Begin(q.files, q.records, q.left), options, q.forge)
               again == Scan(Begin(killed.files, killed.records, 99), later, q.forge)
    <3>1. ScanAsked(q)
      BY <2>1, ScanQuestionsAreWell
    <3> HIDE DEF q
    <3>2. ~options.dry /\ ~later.dry
      BY Zenon DEF At
    <3>3. options.invalid = q.options.invalid /\ Agree(options, later)
      BY DEF At, Agree
    <3> HIDE DEF options, later
    <3>4. /\ Timeless(again.files) = Timeless(Scan(Begin(q.files, q.records, 99), options, q.forge).files)
          /\ RecordsThere(again) /\ again.files = [p \in Slots |-> again.files[p]]
      BY <3>1, <3>2, <3>3, ScansRecover DEF ScanAsked
    <3>5. again = Again(q, First(q, q.left))
      BY DEF Again, First, options, later
    <3>6. Scan(Begin(q.files, q.records, 99), options, q.forge) = First(q, 99)
      BY DEF First, options
    <3> HIDE DEF again
    <3>7. ASSUME NEW p \in DOMAIN again.files, again.files[p].kind = "file"
          PROVE  {l \in ToSet(again.files[p].evidence) : IsRecord(l)} \subseteq again.records
      <4>1. p \in Slots
        BY <3>4, <3>7
      <4> QED BY <3>4, <3>7, <4>1 DEF RecordsThere
    <3>8. Timeless(again.files) = Timeless(First(q, 99).files)
      BY <3>4, <3>6
    <3> QED BY <3>5, <3>7, <3>8 DEF RescanRecovers, q
  <2>2. CASE AnyAsk /\ ~AskScan
    <3>1. asked'.kind # "scan"
      BY <2>2, KindsOfQuestions DEF AnyAsk
    <3> QED BY <3>1 DEF RescanRecovers, Asked
  <2>3. CASE UNCHANGED asked
    BY <2>3 DEF RescanRecovers, Asked
  <2> QED BY <2>1, <2>2, <2>3, NextAsks
<1> QED BY <1>1, <1>2, PTL DEF Spec
=============================================================================
