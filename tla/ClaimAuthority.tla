--------------------------- MODULE ClaimAuthority ---------------------------
(***************************************************************************)
(* What the runtime authority promises the agents, without clocks, rows or *)
(* transactions (ADR-007: "Claim and lock acquisition is atomic"): an      *)
(* execution attempt, named by its token, holds one target and some paths; *)
(* no target and no path has two holders; paths are held only by attempts  *)
(* that hold a target; an attempt that has ended never holds anything again.*)
(***************************************************************************)
CONSTANTS Token, NoToken, Target, NoTarget, Path

VARIABLES
  holds,  \* [Token -> the target the attempt holds, or NoTarget]
  guard,  \* [Path -> the attempt that may mutate the path, or NoToken]
  ended   \* the attempts that have ended or were refused

authority == <<holds, guard, ended>>

Init ==
  /\ holds = [t \in Token |-> NoTarget]
  /\ guard = [f \in Path |-> NoToken]
  /\ ended = {}

(* A new attempt gets a free target and free paths, all or nothing.        *)
Grant(t, tg, fs) ==
  /\ t \notin ended
  /\ holds[t] = NoTarget
  /\ \A u \in Token : holds[u] # tg
  /\ \A f \in fs : guard[f] = NoToken
  /\ holds' = [holds EXCEPT ![t] = tg]
  /\ guard' = [f \in Path |-> IF f \in fs THEN t ELSE guard[f]]
  /\ UNCHANGED ended

(* An attempt that gets nothing is recorded and over.                      *)
Refuse(t) ==
  /\ holds[t] = NoTarget
  /\ ended' = ended \cup {t}
  /\ UNCHANGED <<holds, guard>>

(* A holder takes more paths, none of them another attempt's.              *)
Extend(t, fs) ==
  /\ holds[t] # NoTarget
  /\ \A f \in fs : guard[f] \in {NoToken, t}
  /\ guard' = [f \in Path |-> IF f \in fs THEN t ELSE guard[f]]
  /\ UNCHANGED <<holds, ended>>

Shrink(t, fs) ==
  /\ guard' = [f \in Path |->
                 IF f \in fs /\ guard[f] = t THEN NoToken ELSE guard[f]]
  /\ UNCHANGED <<holds, ended>>

(* The end of an attempt frees its target and every path of it at once.    *)
End(t) ==
  /\ holds' = [holds EXCEPT ![t] = NoTarget]
  /\ guard' = [f \in Path |-> IF guard[f] = t THEN NoToken ELSE guard[f]]
  /\ ended' = ended \cup {t}

Next == \E t \in Token :
  \/ \E tg \in Target, fs \in SUBSET Path : Grant(t, tg, fs)
  \/ Refuse(t)
  \/ \E fs \in SUBSET Path : Extend(t, fs) \/ Shrink(t, fs)
  \/ End(t)

Spec == Init /\ [][Next]_authority
=============================================================================
