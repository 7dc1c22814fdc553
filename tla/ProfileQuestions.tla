-------------------------- MODULE ProfileQuestions --------------------------
(***************************************************************************)
(* Questions about workflow profiles: the precedence of rules, and what a  *)
(* profile that compiles may be trusted for.                               *)
(***************************************************************************)
EXTENDS Question, ProfileCompiler, FiniteSetsExt

CONSTANTS
  AStatus, AReason, Extra,  \* statuses and reasons of small profiles
  MaxPaths                  \* entries of a small lookup table

(* The default profile compiles: its categories cover every state, and     *)
(* each of its actions has a way into its goal.  What is completed without *)
(* review to come, or aborted, stays as it is.                             *)
ASSUME DefaultCompiles ==
  /\ \A v \in Vectors : v.category # Null /\ v.connectivity # Null
  /\ \A a \in DOMAIN Actions : ActionCompiles(Actions[a])
  /\ \A v, w \in Vectors : v.category \in {"completed", "decision"} =>
       (Allowed(v, w) <=> v = w)

(* Derived dimensions are computed after the ones they are looked up from, *)
(* and exactly the cyclic dependencies are refused.                        *)
Dim == {"d1", "d2", "d3"}
ASSUME DerivedInOrder == \A deps \in [Dim -> {SetToSeq(D) : D \in SUBSET Dim}] : OrderOf(deps)

(* Three rules of any contract over two dimensions.                        *)
Selectors == UNION {[D -> {{Star}, {"x"}, {"x", Star}}] : D \in SUBSET {"status", "reason"}}
(* Whatever the rules, the one reported is the heaviest that matches, where*)
(* a dimension outweighs all that come after it, and the first of those.   *)
Weight(c, i) == LET n == Len(c.precedence)
                    w[k \in 0..n] == IF k = 0 THEN 0
                      ELSE 3 * w[k - 1] + Specificity(c.rules[i], c.precedence[k])
                IN w[n]
ASSUME WinnerIsHeaviest == \A f, g, h \in Selectors :
  \A from, to \in [{"status", "reason"} -> {"x", "y"}] :
    LET c == [precedence |-> <<"reason", "status">>,
             rules |-> <<Rule(f, h), Rule(g, f), Rule(h, g)>>]
        e == Evaluate(c, from, to) cand == Matching(c.rules, from, to) IN
    e.rule # 0 => /\ e.rule \in cand
                  /\ \A j \in cand : \/ Weight(c, j) < Weight(c, e.rule)
                                     \/ Weight(c, j) = Weight(c, e.rule) /\ e.rule <= j

-----------------------------------------------------------------------------
(* Small profiles, compiled or not, and the documents they may meet.       *)
Keys == {<<s, r>> : s \in AStatus \cup {Star}, r \in AReason \cup Extra \cup {Star}}
Tables == {[from |-> <<"status", "reason">>, total |-> TRUE, default |-> d,
            map |-> [p \in P |-> "v"]] : d \in {Null, "v"},
           P \in UNION {kSubset(n, Keys) : n \in 1..MaxPaths}}
Profile(t, c, x, q, u) ==
  [status |-> AStatus, cases |-> c, required |-> q, extension |-> x, allowUnknown |-> u,
   values |-> {"v"}, table |-> t]
Cases == [AStatus -> SUBSET AReason \ {{}}]
AskTable == Unasked /\ \E t \in Tables, c \in Cases, x \in SUBSET Extra :
  Ask([kind |-> "table", profile |-> Profile(t, c, x, {}, FALSE)])
AskSchema == Unasked /\ \E c \in Cases, x \in SUBSET Extra, q \in SUBSET AStatus, u \in BOOLEAN :
  Ask([kind |-> "schema",
       profile |-> Profile(CHOOSE t \in Tables : t.default = "v", c, x, q, u)])
Docs == [status : AStatus \cup {Null, "other"}, reason : AReason \cup Extra \cup {Null, "other"}]

-----------------------------------------------------------------------------
(* A table that passes as total has a value for every document that passes,*)
(* the reasons of an extension and the wildcards of the table included.    *)
TotalMeansTotal == Asked("table") /\ Compiles(asked.profile) => LET p == asked.profile IN
  \A d \in Docs : d.status # Null /\ d.reason # Null /\ Resolves(p, d)
    => LookUp(p.table, d) # Null

(* The schema generated from a profile accepts what the profile resolves,  *)
(* but for a missing status or a missing required reason.                  *)
SchemaAgrees == Asked("schema") /\ Compiles(asked.profile) => LET p == asked.profile IN
  \A d \in Docs :
    /\ SchemaAccepts(p, d) => Resolves(p, d)
    /\ Resolves([p EXCEPT !.allowUnknown = FALSE], d) /\ d.status # Null
         => (SchemaAccepts(p, d) <=> ~(d.status \in p.required /\ d.reason = Null))

(* A profile that compiles may be trusted.                                *)
CompiledIsTrusted == TotalMeansTotal /\ SchemaAgrees

AskProfile == AskTable \/ AskSchema
=============================================================================
