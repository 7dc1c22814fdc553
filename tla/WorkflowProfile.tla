-------------------------- MODULE WorkflowProfile ---------------------------
(***************************************************************************)
(* The workflow profile of work items and the evaluator of transitions.    *)
(* A state is a vector of dimensions: status and reason are read from the  *)
(* document, category and connectivity are looked up from the two.  A      *)
(* transition is allowed when a rule matches both ends.  The data is that  *)
(* of the default profile; the evaluator takes any.                        *)
(***************************************************************************)
EXTENDS Naturals, Sequences, FiniteSets

Null == "(null)"
Star == "*"

-----------------------------------------------------------------------------
(* selectorMatches: a selector maps some dimensions to sets of values.     *)
SelectorMatches(sel, st) == \A d \in DOMAIN sel :
  Star \in sel[d] \/ (st[d] # Null /\ st[d] \in sel[d])

Matching(rules, from, to) ==
  {i \in DOMAIN rules : SelectorMatches(rules[i].from, from) /\ SelectorMatches(rules[i].to, to)}

(* compareRulePrecedence: how many ends of a rule name a value of d.       *)
Specific(sel, d) == d \in DOMAIN sel /\ \E v \in sel[d] : v # Star
Specificity(rule, d) == Cardinality({e \in {"from", "to"} : Specific(rule[e], d)})

(* Rule i is sorted before rule j.                                         *)
Before(c, i, j) == LET n(k, r) == Specificity(c.rules[r], c.precedence[k]) IN
  \/ \E k \in DOMAIN c.precedence :
       n(k, i) > n(k, j) /\ \A l \in 1..(k - 1) : n(l, i) = n(l, j)
  \/ (\A k \in DOMAIN c.precedence : n(k, i) = n(k, j)) /\ i < j

(* evaluateTransition: no rule is needed to stay.                          *)
Best(c, cand) == CHOOSE i \in cand : \A j \in cand \ {i} : Before(c, i, j)
Evaluate(c, from, to) == LET cand == Matching(c.rules, from, to) IN
  IF from = to THEN [allowed |-> TRUE, rule |-> 0]
  ELSE IF cand = {} THEN [allowed |-> FALSE, rule |-> 0]
  ELSE [allowed |-> TRUE, rule |-> Best(c, cand)]

-----------------------------------------------------------------------------
(* resolveLookupValue: a table maps paths, one key for each dimension it   *)
(* looks at, to values.  At each level the value itself goes before "*",   *)
(* and what was chosen is not taken back.                                  *)
Leads(map, p) == \E q \in DOMAIN map : Len(p) <= Len(q) /\ SubSeq(q, 1, Len(p)) = p
Walk(table, st) == LET
  walk[k \in 0..Len(table.from)] == IF k = 0 THEN <<>> ELSE
    LET here == walk[k - 1] v == st[table.from[k]] IN
    Append(here, IF v # Null /\ Leads(table.map, Append(here, v)) THEN v ELSE Star)
  IN walk[Len(table.from)]
LookUp(table, st) ==
  IF Walk(table, st) \in DOMAIN table.map THEN table.map[Walk(table, st)] ELSE table.default

-----------------------------------------------------------------------------
(* The default profile.                                                    *)
Reasons == [
  draft |-> {"needs-triage", "awaiting-approval", "deferred", "blocked-by-dependency",
             "blocked", "needs-info"},
  ready |-> {"auto", "recoverable", "prioritized", "scheduled", "dependencies-cleared",
             "unblocked"},
  running |-> {"implementation", "investigation", "verification", "review",
               "awaiting-feedback", "reverting-for-pr-workflow"},
  paused |-> {"blocked", "policy", "system", "manual"},
  completed |-> {"completed", "awaiting-review", "verification-pending",
                 "implementation-complete"},
  aborted |-> {"rejected", "duplicate", "obsolete", "cancelled", "wontfix"}]
WorkStatus == DOMAIN Reasons

(* Every row of statusReasonCategories.                                    *)
CategoryOf(s, r) ==
  CASE s = "draft" -> IF r \in {"blocked", "blocked-by-dependency"} THEN "execution" ELSE "intake"
    [] s = "ready" -> "planning"
    [] s = "running" -> IF r = "review" THEN "review" ELSE "execution"
    [] s = "paused" -> "execution"
    [] s = "completed" -> IF r = "completed" THEN "completed" ELSE "review"
    [] s = "aborted" -> "decision"
Pairs == UNION {{<<s, r>> : r \in Reasons[s]} : s \in WorkStatus}
Categories == [from |-> <<"status", "reason">>, total |-> TRUE, default |-> Null,
               map |-> [p \in Pairs |-> CategoryOf(p[1], p[2])]]
Connectivities == [from |-> <<"status", "reason">>, total |-> FALSE,
  default |-> "intermediate",
  map |-> [p \in {<<"draft", "needs-triage">>, <<"draft", "awaiting-approval">>,
                  <<"draft", "needs-info">>, <<"completed", Star>>, <<"aborted", Star>>} |->
             IF p[1] = "draft" THEN "start" ELSE "end"]]

(* resolveStateVector of a document whose reason is in its domain.         *)
Vector(s, r) == LET src == [status |-> s, reason |-> r] IN
  [status |-> s, reason |-> r, category |-> LookUp(Categories, src),
   connectivity |-> LookUp(Connectivities, src)]
Vectors == {Vector(p[1], p[2]) : p \in Pairs}

Category(c) == [category |-> {c}]
Both(s, c) == [status |-> s, category |-> {c}]
Rule(from, to) == [from |-> from, to |-> to]
Open == {"draft", "ready", "running", "paused"}

Rules == <<
  Rule(Category("intake"), Category("planning")),
  Rule(Category("planning"), Category("execution")),
  Rule(Category("execution"), Category("review")),
  Rule(Category("review"), Category("completed")),
  Rule([status |-> Open], Both({"aborted"}, "decision")),
  Rule(Both({"ready"}, "planning"), Both({"completed"}, "completed")),
  Rule(Both({"running"}, "execution"), Both({"completed"}, "completed")),
  Rule(Both({"running"}, "execution"), Both({"paused"}, "execution")),
  Rule(Both({"paused"}, "execution"), Both({"running"}, "execution")),
  Rule(Both({"completed"}, "review"), Both({"running"}, "execution")),
  Rule(Both({"running", "paused"}, "execution"), Both({"ready"}, "planning")),
  Rule(Both({"running", "paused"}, "execution"), Both({"draft"}, "intake")),
  Rule(Both({"ready"}, "planning"), Both({"draft"}, "intake")),
  Rule(Both({"completed"}, "review"), [status |-> {"draft"}, reason |-> {"needs-info"}])>>
Contract == [precedence |-> <<"reason", "category", "status">>, rules |-> Rules]

Action(from, s, r) == [from |-> from, status |-> s, reason |-> r]

Actions == [
  start |-> Action({"ready"}, "running", "implementation"),
  pause |-> Action({"running"}, "paused", "blocked"),
  resume |-> Action({"paused"}, "running", "implementation"),
  complete |-> Action({"ready", "running"}, "completed", "completed"),
  abort |-> Action(Open, "aborted", "cancelled")]

Allowed(from, to) == Evaluate(Contract, from, to).allowed
MovesFromVector(v) == {w \in Vectors \ {v} : Allowed(v, w)}
=============================================================================
