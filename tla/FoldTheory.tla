----------------------------- MODULE FoldTheory -----------------------------
(***************************************************************************)
(* Induction over the naturals without an operator as a parameter, the     *)
(* least and the greatest of a set of naturals, and the steps of a fold    *)
(* over a sequence.  A fold takes its context as an argument, so that it   *)
(* can be instantiated with any operator of three arguments.               *)
(***************************************************************************)
EXTENDS SequencesExt, WellFoundedInduction, TLAPS

CONSTANT Op(_, _, _)   \* context, what has been made so far, the next element

(* What folding the list makes of the base.                                *)
Over(c, base, list) == FoldLeft(LAMBDA s, x : Op(c, s, x), base, list)

(* The values h[0], h[1], ... of its steps.                                *)
Goes(h, c, base, list, n) ==
  /\ h[0] = base
  /\ \A k \in 1..n : h[k] = Op(c, h[k - 1], list[k])
  /\ Over(c, base, list) = h[n]

(* Induction: a set with zero that is closed under successors is Nat.      *)
LEMMA SetInduction ==
  ASSUME NEW S \in SUBSET Nat, 0 \in S, \A n \in S : n + 1 \in S
  PROVE  S = Nat
<1> DEFINE T == Nat \ S
           R == OpToRel(<, Nat)
<1>1. SUFFICES ASSUME T # {} PROVE FALSE
  OBVIOUS
<1>2. IsWellFoundedOn(R, Nat)
  BY NatLessThanWellFounded
<1>3. PICK x \in T : \A y \in T : <<y, x>> \notin R
  <2> T \subseteq Nat OBVIOUS
  <2> HIDE DEF T, R
  <2> QED BY <1>1, <1>2, WFMin
<1>4. x # 0 /\ x - 1 \in Nat /\ x - 1 < x
  <2> x \in Nat /\ x \notin S
    OBVIOUS
  <2> HIDE DEF R, T
  <2> QED OBVIOUS
<1>5. <<x - 1, x>> \in R
  BY <1>3, <1>4 DEF OpToRel
<1>6. x - 1 \in S
  BY <1>3, <1>4, <1>5
<1>7. x - 1 + 1 = x
  BY <1>4
<1> QED BY <1>3, <1>6, <1>7

(* A set of naturals that is not empty has a least element.                *)
LEMMA MinOfSet ==
  ASSUME NEW S \in SUBSET Nat, S # {}
  PROVE  Min(S) \in S /\ \A x \in S : Min(S) <= x
<1> DEFINE R == OpToRel(<, Nat)
<1>1. IsWellFoundedOn(R, Nat)
  BY NatLessThanWellFounded
<1>2. PICK x \in S : \A y \in S : <<y, x>> \notin R
  <2> HIDE DEF R
  <2> QED BY <1>1, WFMin
<1>3. ASSUME NEW y \in S PROVE x <= y
  <2>1. SUFFICES ASSUME y < x PROVE FALSE
    OBVIOUS
  <2>2. <<y, x>> \in R
    BY <2>1 DEF OpToRel
  <2> HIDE DEF R
  <2> QED BY <1>2, <2>2
<1> QED BY <1>3 DEF Min

(* One that is bounded has a greatest element.                             *)
LEMMA MaxOfSet ==
  ASSUME NEW n \in Nat, NEW S \in SUBSET (0..n), S # {}
  PROVE  Max(S) \in S /\ \A x \in S : Max(S) >= x
<1> DEFINE T == {n - x : x \in S}
<1>1. T \in SUBSET Nat /\ T # {}
  <2>1. \A x \in S : n - x \in Nat
    OBVIOUS
  <2> QED BY <2>1
<1>2. Min(T) \in T /\ \A y \in T : Min(T) <= y
  <2> HIDE DEF T
  <2> QED BY <1>1, MinOfSet
<1>3. PICK x \in S : n - x = Min(T)
  BY <1>2
<1>4. \A y \in S : x >= y
  <2> SUFFICES ASSUME NEW y \in S PROVE x >= y
    OBVIOUS
  <2>1. n - y \in T
    OBVIOUS
  <2> HIDE DEF T
  <2>2. n - x <= n - y
    BY <1>2, <1>3, <2>1
  <2> QED BY <2>2
<1> QED BY <1>4 DEF Max

(* A fold goes through the values of its steps.                            *)
LEMMA FoldSteps ==
  ASSUME NEW c, NEW base, NEW list, NEW n \in Nat, DOMAIN list = 1..n
  PROVE  \E h : Goes(h, c, base, list, n)
<1> DEFINE It(m, f) == f = [s \in SUBSET (1..m) |->
             IF s = {} THEN base ELSE Op(c, f[s \ {Max(s)}], list[Max(s)])]
           S == {m \in Nat : \E f : It(m, f)}
<1>1. 0 \in S
  <2>1. It(0, [s \in SUBSET (1..0) |-> base])
    OBVIOUS
  <2> QED BY <2>1
<1>2. ASSUME NEW m \in S PROVE m + 1 \in S
  <2>1. PICK f : It(m, f)
    OBVIOUS
  <2> DEFINE g == [s \in SUBSET (1..(m + 1)) |->
                     IF m + 1 \in s THEN Op(c, f[s \ {m + 1}], list[m + 1]) ELSE f[s]]
  <2>2. ASSUME NEW s \in SUBSET (1..(m + 1))
        PROVE  g[s] = IF s = {} THEN base ELSE Op(c, g[s \ {Max(s)}], list[Max(s)])
    <3>1. CASE m + 1 \in s
      <4>1. Max(s) = m + 1
        <5>1. \A x \in s : m + 1 >= x
          OBVIOUS
        <5>2. \A x \in s : (\A y \in s : x >= y) => x = m + 1
          BY <3>1
        <5> QED BY <3>1, <5>1, <5>2 DEF Max
      <4>2. g[s \ {m + 1}] = f[s \ {m + 1}]
        OBVIOUS
      <4> QED BY <3>1, <4>1, <4>2
    <3>2. CASE m + 1 \notin s
      <4>1. s \in SUBSET (1..m)
        BY <3>2
      <4>2. f[s] = IF s = {} THEN base ELSE Op(c, f[s \ {Max(s)}], list[Max(s)])
        <5>1. f = [t \in SUBSET (1..m) |->
             IF t = {} THEN base ELSE Op(c, f[t \ {Max(t)}], list[Max(t)])]
          BY <2>1
        <5> QED BY <4>1, <5>1
      <4>3. g[s] = f[s] /\ g[s \ {Max(s)}] = f[s \ {Max(s)}]
        BY <3>2
      <4> QED BY <4>2, <4>3
    <3> QED BY <3>1, <3>2
  <2>3. It(m + 1, g)
    <3> DEFINE G == [s \in SUBSET (1..(m + 1)) |->
                       IF s = {} THEN base ELSE Op(c, g[s \ {Max(s)}], list[Max(s)])]
    <3>1. g = G
      <4>1. DOMAIN g = DOMAIN G
        OBVIOUS
      <4>2. \A s \in SUBSET (1..(m + 1)) : g[s] = G[s]
        BY <2>2
      <4> QED BY <4>1, <4>2
    <3> QED BY <3>1
  <2>4. \E f2 : It(m + 1, f2)
    <3> HIDE DEF g, It
    <3> QED BY <2>3
  <2> HIDE DEF It
  <2> QED BY <2>4
<1>3. S = Nat
  <2> HIDE DEF S
  <2> S \in SUBSET Nat BY DEF S
  <2> QED BY <1>1, <1>2, SetInduction
<1> DEFINE iter == CHOOSE f : It(n, f)
           h == [k \in 0..n |-> iter[1..k]]
<1>4. It(n, iter)
  <2>1. \E f : It(n, f)
    BY <1>3
  <2> QED BY <2>1
<1>5. ASSUME NEW s \in SUBSET (1..n)
      PROVE  iter[s] = IF s = {} THEN base ELSE Op(c, iter[s \ {Max(s)}], list[Max(s)])
  <2> HIDE DEF iter
  <2>1. iter = [t \in SUBSET (1..n) |->
             IF t = {} THEN base ELSE Op(c, iter[t \ {Max(t)}], list[Max(t)])]
    BY <1>4
  <2> QED BY <2>1
<1>6. Over(c, base, list) = iter[1..n]
  BY DEF Over, FoldLeft, MapThenFoldSet
<1>7. h[0] = base
  <2> HIDE DEF iter
  <2>1. 1..0 = {}
    OBVIOUS
  <2>2. h[0] = iter[{}]
    BY <2>1
  <2>3. iter[{}] = base
    BY <1>5, {} \in SUBSET (1..n)
  <2> QED BY <2>2, <2>3
<1>8. ASSUME NEW k \in 1..n PROVE h[k] = Op(c, h[k - 1], list[k])
  <2> HIDE DEF iter
  <2>1. Max(1..k) = k
    <3>1. \A x \in 1..k : k >= x
      OBVIOUS
    <3>2. \A x \in 1..k : (\A y \in 1..k : x >= y) => x = k
      OBVIOUS
    <3> QED BY <3>1, <3>2 DEF Max
  <2>2. (1..k) \ {k} = 1..(k - 1) /\ k \in 1..k /\ 1..k \in SUBSET (1..n)
    OBVIOUS
  <2>3. iter[1..k] = Op(c, iter[1..(k - 1)], list[k])
    BY <1>5, <2>1, <2>2
  <2>4. k \in 0..n /\ k - 1 \in 0..n
    OBVIOUS
  <2> QED BY <2>3, <2>4
<1>9. h[n] = iter[1..n]
  <2> HIDE DEF iter
  <2> QED OBVIOUS
<1>10. Goes(h, c, base, list, n)
  <2> HIDE DEF h, iter
  <2> QED BY <1>6, <1>7, <1>8, <1>9 DEF Goes
<1> QED BY <1>10
=============================================================================
