-------------------------- MODULE ProfileCompiler ---------------------------
(***************************************************************************)
(* compileTransitionProfile: the checks a workflow profile has to pass     *)
(* before its transitions are evaluated, the order in which its derived    *)
(* dimensions are computed, and the schema of status and reason that is    *)
(* generated from it.  A profile here has the dimensions status and reason *)
(* and one lookup table over them; the dependencies among several derived  *)
(* dimensions are a question of their own.                                 *)
(***************************************************************************)
EXTENDS WorkflowProfile, SequencesExt

(* sortDerivedDimensions: depth first, each dimension after the ones it is *)
(* looked up from.  deps maps a derived dimension to a sequence of names.  *)
SortDerived(deps) == LET
    State == [visiting : SUBSET DOMAIN deps, visited : SUBSET DOMAIN deps,
              ordered : Seq(DOMAIN deps), cycle : BOOLEAN]
    visit[n \in DOMAIN deps, s \in State] ==
      IF n \in s.visited THEN s
      ELSE IF n \in s.visiting THEN [s EXCEPT !.cycle = TRUE]
      ELSE LET t == FoldLeft(
                 LAMBDA acc, d : IF d \in DOMAIN deps THEN visit[d, acc] ELSE acc,
                 [s EXCEPT !.visiting = @ \cup {n}], deps[n])
           IN [t EXCEPT !.visiting = @ \ {n}, !.visited = @ \cup {n}, !.ordered = Append(@, n)] IN
  FoldLeft(LAMBDA acc, n : visit[n, acc],
    [visiting |-> {}, visited |-> {}, ordered |-> <<>>, cycle |-> FALSE],
    SetToSeq(DOMAIN deps))

-----------------------------------------------------------------------------
(* getDimensionValues, with the keys chosen so far as assignments.         *)
DomainOf(prof, d, chosen) ==
  IF d = "status" THEN prof.status
  ELSE prof.extension \cup
    (IF "status" \in DOMAIN chosen /\ chosen["status"] # Star
       THEN IF chosen["status"] \in DOMAIN prof.cases THEN prof.cases[chosen["status"]] ELSE {}
       ELSE UNION {prof.cases[s] : s \in DOMAIN prof.cases})
Chosen(table, p, k) == [d \in {table.from[i] : i \in 1..k} |->
  p[CHOOSE i \in 1..k : table.from[i] = d]]

(* compileSourceDimensions: a case for each status, and no other.          *)
CasesComplete(prof) == DOMAIN prof.cases = prof.status
RequiredKnown(prof) == prof.required \subseteq DOMAIN prof.cases

(* validateLookupNode and the default of compileLookupTables.              *)
KeysKnown(prof) == LET t == prof.table IN \A p \in DOMAIN t.map : \A k \in DOMAIN p :
  p[k] = Star \/ p[k] \in DomainOf(prof, t.from[k], Chosen(t, p, k - 1))
ValuesKnown(prof) == LET t == prof.table IN
  /\ \A p \in DOMAIN t.map : t.map[p] \in prof.values
  /\ t.default = Null \/ t.default \in prof.values

(* Mutant of Combinations: the reasons of the extension are left out.      *)
CombinationsOfCases(prof) ==
  {st \in [{"status", "reason"} -> prof.status \cup UNION {prof.cases[s] : s \in DOMAIN prof.cases}] :
     st["status"] \in DOMAIN prof.cases /\ st["reason"] \in prof.cases[st["status"]]}

(* validateTotalLookup: every combination of values has an entry.          *)
Combinations(prof) == LET t == prof.table IN
  {st \in [{"status", "reason"} -> prof.status \cup DomainOf(prof, "reason", <<>>)] :
     \A k \in DOMAIN t.from :
       st[t.from[k]] \in DomainOf(prof, t.from[k], [d \in {t.from[i] : i \in 1..(k - 1)} |-> st[d]])}
TotalCovered(prof) ==
  prof.table.total => \A st \in Combinations(prof) : LookUp(prof.table, st) # Null

Compiles(prof) == /\ CasesComplete(prof) /\ RequiredKnown(prof)
                  /\ KeysKnown(prof) /\ ValuesKnown(prof) /\ TotalCovered(prof)

(* validateActions: some reason of some of its statuses leads to its goal. *)
ActionCompiles(a) ==
  /\ a.status \in WorkStatus /\ a.from \subseteq WorkStatus
  /\ a.reason \in Reasons[a.status]
  /\ \E s \in a.from : \E r \in Reasons[s] : Allowed(Vector(s, r), Vector(a.status, a.reason))

-----------------------------------------------------------------------------
(* resolveStateVector throws on a value outside its domain.                *)
Resolves(prof, doc) ==
  /\ doc.status # Null => doc.status \in prof.status
  /\ \/ doc.reason = Null \/ prof.allowUnknown
     \/ doc.status \in DOMAIN prof.cases /\ doc.reason \in prof.cases[doc.status]
     \/ doc.reason \in prof.extension

(* generateStatusReasonCompatibilitySchema: one branch for each status.    *)
SchemaAccepts(prof, doc) ==
  /\ doc.status \in prof.status
  /\ doc.status \in prof.required => doc.reason # Null
  /\ doc.reason # Null => doc.reason \in prof.cases[doc.status] \cup prof.extension

-----------------------------------------------------------------------------
(* The order names every dimension once, each after what it depends on;    *)
(* only a dependency cycle is reported, and every one is.                  *)
DependsOn(deps) == LET
  all == (DOMAIN deps) \X (DOMAIN deps)
  reach[k \in 0..Cardinality(DOMAIN deps)] ==
    IF k = 0 THEN {p \in all : p[2] \in ToSet(deps[p[1]])}
    ELSE reach[k - 1] \cup {p \in all :
           \E m \in DOMAIN deps : <<p[1], m>> \in reach[k - 1] /\ <<m, p[2]>> \in reach[0]}
  IN reach[Cardinality(DOMAIN deps)]
OrderOf(deps) == LET s == SortDerived(deps) cyclic == \E n \in DOMAIN deps : <<n, n>> \in DependsOn(deps) IN
  /\ s.cycle = cyclic
  /\ Len(s.ordered) = Cardinality(DOMAIN deps) /\ ToSet(s.ordered) = DOMAIN deps
  /\ ~cyclic => \A i, j \in DOMAIN s.ordered :
       <<s.ordered[i], s.ordered[j]>> \in DependsOn(deps) => j < i
=============================================================================
