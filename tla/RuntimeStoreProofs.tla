------------------------- MODULE RuntimeStoreProofs -------------------------
(***************************************************************************)
(* Proofs about RuntimeStore, for every set of processes, tokens, targets, *)
(* paths and scopes.  The argument: the five conjuncts of IInv are         *)
(* inductive together.  Each action is summarised by a few lemmas on what  *)
(* it does to the log, to the claim rows and to the calls of the others.   *)
(***************************************************************************)
EXTENDS RuntimeStore, SequenceTheorems, TLAPS

(* What appending an entry does to the log: one more entry, the others are *)
(* where they were, and only the log of the entry's token grows.           *)
LEMMA LogGrows ==
  ASSUME TypeOK, NEW t \in Token, NEW tg \in Target, NEW s \in LogState,
         NEW time \in Nat, Append1(t, tg, s, time)
  PROVE  /\ log' \in Seq(LogEntry)
         /\ Len(log') = Len(log) + 1
         /\ log'[Len(log')] = [token |-> t, target |-> tg, state |-> s, at |-> time]
         /\ \A i \in DOMAIN log : i \in DOMAIN log' /\ log'[i] = log[i]
         /\ \A u \in Token : LogOf(u)' = IF u = t THEN LogOf(u) \cup {Len(log')}
                                         ELSE LogOf(u)
<1> DEFINE e == [token |-> t, target |-> tg, state |-> s, at |-> time]
<1>1. e \in LogEntry /\ log \in Seq(LogEntry) /\ log' = Append(log, e)
  BY DEF LogEntry, TypeOK, Append1
<1>2. /\ log' \in Seq(LogEntry)
      /\ Len(log') = Len(log) + 1
      /\ log'[Len(log')] = e
      /\ \A i \in 1..Len(log) : log'[i] = log[i]
  <2> HIDE DEF e
  <2> QED BY <1>1, AppendProperties
<1>3. DOMAIN log = 1..Len(log) /\ DOMAIN log' = 1..Len(log') /\ Len(log) \in Nat
  BY <1>1, <1>2, LenProperties
<1>4. e.token = t
  OBVIOUS
<1>5. ASSUME NEW u \in Token
      PROVE  LogOf(u)' = IF u = t THEN LogOf(u) \cup {Len(log')} ELSE LogOf(u)
  <2>1. LogOf(u)' = {i \in 1..Len(log') : log'[i].token = u}
    BY <1>3 DEF LogOf
  <2>2. LogOf(u) = {i \in 1..Len(log) : log[i].token = u}
    BY <1>3 DEF LogOf
  <2> HIDE DEF e
  <2> QED BY <1>2, <1>3, <1>4, <2>1, <2>2
<1> QED BY <1>2, <1>3, <1>5

(* What deleting claim rows does: they and everything that hangs on them   *)
(* are gone, the rest is as it was.                                        *)
LEMMA DeleteEffects ==
  ASSUME TypeOK, NoOrphans, OneClaimPerTarget, NEW T \in SUBSET Token, DeleteClaims(T)
  PROVE  /\ claimTarget' \in [Token -> Target \cup {NoTarget}]
         /\ expiresAt' \in [Token -> Nat]
         /\ locks' \in [Path -> Token \cup {NoToken}]
         /\ scopeLocks' \in SUBSET ScopeLock
         /\ manifests' \in SUBSET Token
         /\ NoOrphans'
         /\ OneClaimPerTarget'
         /\ \A u \in Token : Live(u)' <=> Live(u) /\ u \notin T
         /\ \A u \in Token : Live(u)' => claimTarget'[u] = claimTarget[u]
<1>1. /\ claimTarget' \in [Token -> Target \cup {NoTarget}]
      /\ expiresAt' \in [Token -> Nat]
      /\ locks' \in [Path -> Token \cup {NoToken}]
      /\ scopeLocks' \in SUBSET ScopeLock
      /\ manifests' \in SUBSET Token
  BY DEF TypeOK, DeleteClaims
<1>2. \A u \in Token : /\ Live(u)' <=> Live(u) /\ u \notin T
                       /\ Live(u)' => claimTarget'[u] = claimTarget[u]
  BY DEF Live, DeleteClaims
<1>3. NoOrphans'
  BY <1>1, <1>2, ConstantsOK DEF NoOrphans, TypeOK, DeleteClaims, ScopeLock
<1>4. OneClaimPerTarget'
  BY <1>1, <1>2 DEF OneClaimPerTarget, Live, DeleteClaims
<1> QED BY <1>1, <1>2, <1>3, <1>4

(* A step of p leaves the calls of the others as good as they were, if it  *)
(* logs and claims nothing but for the token of p's own pending claim, and *)
(* takes up no token another process has pending.                          *)
LEMMA OtherCalls ==
  ASSUME TypeOK, CallsInFlight, NEW p \in Proc, NEW j \in Job,
         job' = [job EXCEPT ![p] = j],
         \A t \in Token : LogOf(t) # {} => LogOf(t)' # {},
         \A t \in Token : LogOf(t)' # {} =>
           LogOf(t) # {} \/ (t = job[p].token /\ job[p].op \in {"acquire", "conflict"}),
         \A t \in Token : Live(t)' =>
           \/ Live(t) /\ claimTarget'[t] = claimTarget[t]
           \/ LogOf(t) = {},
         \/ j.token = NoToken
         \/ j.token = job[p].token
         \/ LogOf(j.token) # {}
         \/ \A q \in Proc : job[q].token # j.token
  PROVE  \A q \in Proc : q # p => CallInFlight(q)'
<1> SUFFICES ASSUME NEW q \in Proc, q # p PROVE CallInFlight(q)'
  OBVIOUS
<1>1. CallInFlight(q) /\ CallInFlight(p) /\ job'[q] = job[q] /\ job'[p] = j
  BY DEF CallsInFlight, TypeOK
<1>2. job[q] \in Job /\ job[p] \in Job
  BY DEF TypeOK
<1>3. ASSUME job[q].op \in {"acquire", "conflict"}
      PROVE  /\ job[q].token \in Token /\ job[q].target \in Target
             /\ LogOf(job[q].token)' = {}
             /\ \A r \in Proc : job'[r].token = job[q].token => r = q
  <2>1. /\ job[q].token \in Token /\ job[q].target \in Target
        /\ LogOf(job[q].token) = {}
        /\ \A r \in Proc : job[r].token = job[q].token => r = q
    BY <1>1, <1>3 DEF CallInFlight
  <2>2. j.token # job[q].token
    BY <2>1, ConstantsOK
  <2>3. \A r \in Proc : job'[r].token = job[q].token => r = q
    <3> SUFFICES ASSUME NEW r \in Proc, job'[r].token = job[q].token PROVE r = q
      OBVIOUS
    <3>1. CASE r = p
      BY <3>1, <2>2, <1>1
    <3>2. CASE r # p
      BY <3>2, <2>1 DEF TypeOK
    <3> QED BY <3>1, <3>2
  <2> QED BY <2>1, <2>3
<1>4. ASSUME job[q].op = "cleanup"
      PROVE  \A t \in job[q].tokens : ~Live(t)' /\ LogOf(t)' # {}
  <2>1. job[q].tokens \in SUBSET Token
    BY <1>2 DEF Job
  <2> QED BY <1>1, <1>4, <2>1 DEF CallInFlight
<1>5. ASSUME job[q].op \in Op \ {"idle", "acquire", "conflict", "cleanup"}
      PROVE  job[q].token \in Token /\ LogOf(job[q].token)' # {}
  BY <1>1, <1>5 DEF CallInFlight
<1>6. ASSUME job[q].op = "finalize"
      PROVE  /\ job[q].target \in Target /\ job[q].state # "running"
             /\ Live(job[q].token)' => claimTarget'[job[q].token] = job[q].target
  <2>1. /\ job[q].target \in Target /\ job[q].state # "running"
        /\ Live(job[q].token) => claimTarget[job[q].token] = job[q].target
        /\ job[q].token \in Token /\ LogOf(job[q].token) # {}
    BY <1>1, <1>6 DEF CallInFlight, Op
  <2> QED BY <2>1
<1> QED BY <1>1, <1>3, <1>4, <1>5, <1>6 DEF CallInFlight

-----------------------------------------------------------------------------
(* The row invariants when neither claims nor log change.                  *)
LEMMA RowsKept ==
  ASSUME IInv, UNCHANGED <<claimTarget, log>>
  PROVE  /\ OneClaimPerTarget' /\ LiveMeansRunning'
         /\ \A t \in Token : LogOf(t)' = LogOf(t) /\ (Live(t)' <=> Live(t))
BY DEF IInv, OneClaimPerTarget, LiveMeansRunning, LogOf, Live

(* A process between two calls holds nothing.                              *)
LEMMA IdleCall ==
  ASSUME NEW p \in Proc, job'[p] = Idle
  PROVE  CallInFlight(p)'
BY DEF CallInFlight, Idle, Op

(* An idle process has a well-typed job.                                   *)
LEMMA IdleIsJob == Idle \in Job
BY DEF Idle, Job, Op, LogState

(* The start of a call: nothing but job[p] changes.                        *)
LEMMA StartKeeps ==
  ASSUME IInv, NEW p \in Proc, NEW command, NEW j \in Job, Start(p, command, j),
         \/ j.token = NoToken
         \/ LogOf(j.token) # {}
         \/ \A q \in Proc : job[q].token # j.token,
         CallInFlight(p)'
  PROVE  IInv'
<1>1. UNCHANGED <<db, now>> /\ job' = [job EXCEPT ![p] = j]
  BY DEF Start
<1>2. TypeOK'
  BY <1>1 DEF TypeOK, db, IInv
<1>3. NoOrphans'
  BY <1>1 DEF NoOrphans, Live, db, IInv
<1>4. /\ OneClaimPerTarget' /\ LiveMeansRunning'
      /\ \A t \in Token : LogOf(t)' = LogOf(t) /\ (Live(t)' <=> Live(t))
  BY <1>1, RowsKept DEF db
<1>5. \A q \in Proc : q # p => CallInFlight(q)'
  BY <1>1, <1>4, OtherCalls DEF db, IInv
<1> QED BY <1>2, <1>3, <1>4, <1>5 DEF IInv, CallsInFlight

(* A step of a call that leaves the claim rows and the log alone, whatever *)
(* it does to leases, locks and manifests, and then ends or goes on.       *)
LEMMA QuietStepKeeps ==
  ASSUME IInv, NEW p \in Proc, NEW j \in Job,
         job' = [job EXCEPT ![p] = j],
         UNCHANGED <<claimTarget, log, now>>,
         expiresAt' \in [Token -> Nat],
         locks' \in [Path -> Token \cup {NoToken}],
         scopeLocks' \in SUBSET ScopeLock,
         manifests' \in SUBSET Token,
         NoOrphans',
         \/ j = Idle
         \/ /\ j.token = job[p].token /\ j.token \in Token /\ LogOf(j.token) # {}
            /\ j.op \in Op \ {"idle", "acquire", "conflict", "cleanup", "finalize"}
  PROVE  IInv'
<1>1. TypeOK'
  BY DEF TypeOK, IInv
<1>2. /\ OneClaimPerTarget' /\ LiveMeansRunning'
      /\ \A t \in Token : LogOf(t)' = LogOf(t) /\ (Live(t)' <=> Live(t))
  BY RowsKept
<1>3. job'[p] = j
  BY DEF IInv, TypeOK
<1>4. CallInFlight(p)'
  <2>1. CASE j = Idle
    BY <2>1, <1>3, IdleCall
  <2>2. CASE j # Idle
    BY <2>2, <1>2, <1>3 DEF CallInFlight
  <2> QED BY <2>1, <2>2
<1>5. \A q \in Proc : q # p => CallInFlight(q)'
  <2>1. j.token = NoToken \/ j.token = job[p].token
    BY DEF Idle
  <2>2. \A t \in Token : LogOf(t)' = LogOf(t) /\ (Live(t)' => Live(t) /\ claimTarget'[t] = claimTarget[t])
    BY <1>2
  <2> QED BY <2>1, <2>2, OtherCalls DEF IInv
<1> QED BY <1>1, <1>2, <1>4, <1>5 DEF IInv, CallsInFlight

(* A step that logs a terminal entry for t, a token of the log, and        *)
(* deletes its row: completion, failure, halt, recovery, reconciliation.   *)
LEMMA EndKeeps ==
  ASSUME IInv, NEW p \in Proc, NEW t \in Token, NEW tg \in Target,
         NEW s \in LogState, LogOf(t) # {},
         Append1(t, tg, s, now), DeleteClaims({t}), Return(p)
  PROVE  IInv'
<1>1. /\ log' \in Seq(LogEntry)
      /\ \A i \in DOMAIN log : i \in DOMAIN log' /\ log'[i] = log[i]
      /\ \A u \in Token : LogOf(u)' = IF u = t THEN LogOf(u) \cup {Len(log')}
                                      ELSE LogOf(u)
  BY LogGrows DEF IInv, TypeOK
<1>2. /\ claimTarget' \in [Token -> Target \cup {NoTarget}]
      /\ expiresAt' \in [Token -> Nat]
      /\ locks' \in [Path -> Token \cup {NoToken}]
      /\ scopeLocks' \in SUBSET ScopeLock
      /\ manifests' \in SUBSET Token
      /\ NoOrphans' /\ OneClaimPerTarget'
      /\ \A u \in Token : Live(u)' <=> Live(u) /\ u # t
      /\ \A u \in Token : Live(u)' => claimTarget'[u] = claimTarget[u]
  BY DeleteEffects DEF IInv
<1>3. job' = [job EXCEPT ![p] = Idle] /\ now' = now
  BY DEF Return
<1>4. TypeOK'
  BY <1>1, <1>2, <1>3, IdleIsJob DEF TypeOK, IInv
<1>5. LiveMeansRunning'
  <2> SUFFICES ASSUME NEW u \in Token, Live(u)'
               PROVE  \E i \in DOMAIN log' :
                        /\ LogOf(u)' = {i}
                        /\ log'[i].state = "running" /\ log'[i].target = claimTarget'[u]
    BY DEF LiveMeansRunning
  <2>1. Live(u) /\ u # t /\ claimTarget'[u] = claimTarget[u] /\ LogOf(u)' = LogOf(u)
    BY <1>1, <1>2
  <2>2. PICK i \in DOMAIN log : /\ LogOf(u) = {i}
                               /\ log[i].state = "running" /\ log[i].target = claimTarget[u]
    BY <2>1 DEF IInv, LiveMeansRunning
  <2> QED BY <1>1, <2>1, <2>2
<1>6. CallInFlight(p)'
  BY <1>3, IdleCall DEF IInv, TypeOK
<1>7. \A q \in Proc : q # p => CallInFlight(q)'
  <2>1. Idle.token = NoToken
    BY DEF Idle
  <2> QED BY <1>1, <1>2, <1>3, <2>1, IdleIsJob, OtherCalls DEF IInv
<1> QED BY <1>2, <1>4, <1>5, <1>6, <1>7 DEF IInv, CallsInFlight
-----------------------------------------------------------------------------
(* A live claim has its running entry, so its token is in the log.         *)
LEMMA LiveIsLogged ==
  ASSUME IInv, NEW t \in Token, Live(t)
  PROVE  LogOf(t) # {} /\ claimTarget[t] \in Target
BY DEF IInv, TypeOK, LiveMeansRunning, Live

(* A live claim's latest entry is the running one: cleanup never passes it.*)
LEMMA LiveStopsCleanup ==
  ASSUME IInv, NEW t \in Token, Live(t)
  PROVE  CleanupConflict(t)
<1>1. PICK i \in DOMAIN log : LogOf(t) = {i} /\ log[i].state = "running"
  BY DEF IInv, LiveMeansRunning
<1>2. \E k \in {i} : \A l \in {i} :
        log[l].at < log[k].at \/ (log[l].at = log[k].at /\ l <= k)
  BY <1>1 DEF IInv, TypeOK
<1>3. LatestIn(LogOf(t)) \in {i}
  BY <1>1, <1>2 DEF LatestIn
<1> QED BY <1>1, <1>3 DEF CleanupConflict

(* Calls about one claim that is in the log, other than a terminal entry.  *)
LEMMA StartAboutClaim ==
  ASSUME IInv, NEW p \in Proc, NEW command, NEW j \in Job, Start(p, command, j),
         j.token \in Token, LogOf(j.token) # {},
         j.op \in Op \ {"idle", "acquire", "conflict", "cleanup", "finalize"}
  PROVE  IInv'
<1>1. job'[p] = j /\ UNCHANGED log
  BY DEF Start, IInv, TypeOK, db
<1>2. CallInFlight(p)'
  BY <1>1 DEF CallInFlight, LogOf
<1> QED BY <1>2, StartKeeps

(* Every start of a call keeps the invariant.                              *)
LEMMA CallKeeps ==
  ASSUME IInv, NEW p \in Proc, Call(p)
  PROVE  IInv'
<1> USE DEF Mode, LogState, ScopeRequest
<1>0. /\ now \in Nat /\ \A t \in Token : expiresAt[t] \in Nat
      /\ \A t \in Token : Active(t) \/ Expired(t) => Live(t)
      /\ \A t \in Token : Live(t) => LogOf(t) # {} /\ claimTarget[t] \in Target
  BY LiveIsLogged DEF IInv, TypeOK, Active, Expired
<1>1. ASSUME NEW t \in Token, NEW tg \in Target, NEW fs \in SUBSET Path,
             NEW ttl \in ClaimTtls, CallAcquireClaim(p, t, tg, fs, ttl)
      PROVE  IInv'
  <2> DEFINE j == [Idle EXCEPT !.op = "acquire", !.token = t, !.target = tg,
                               !.paths = fs, !.at = now, !.until = now + ttl]
  <2>1. Fresh(t) /\ Start(p, "acquireClaim", j)
    BY <1>1 DEF CallAcquireClaim
  <2>2. /\ j \in Job /\ j.op = "acquire" /\ j.token = t /\ j.target = tg
    <3>1. now + ttl \in Nat
      BY <1>0, ConstantsOK
    <3> QED BY <1>0, <3>1 DEF Idle, Job, Op
  <2>3. job' = [job EXCEPT ![p] = j] /\ job'[p] = j /\ UNCHANGED log
    BY <2>1 DEF Start, IInv, TypeOK, db
  <2>4. \A q \in Proc : job[q].token # t
    BY <2>1 DEF Fresh
  <2>5. CallInFlight(p)'
    <3>1. LogOf(t)' = {}
      BY <2>1, <2>3 DEF Fresh, LogOf
    <3>2. \A q \in Proc : job'[q].token = t => q = p
      BY <2>3, <2>4 DEF IInv, TypeOK
    <3> HIDE DEF j
    <3> QED BY <2>2, <2>3, <3>1, <3>2 DEF CallInFlight, Op
  <2> HIDE DEF j
  <2> QED BY <2>1, <2>2, <2>4, <2>5, StartKeeps
<1>2. ASSUME NEW t \in Token, NEW fs \in SUBSET Path, CallAcquireLocks(p, t, fs)
      PROVE  IInv'
  BY <1>0, <1>2, StartAboutClaim DEF CallAcquireLocks, Idle, Job, Op
<1>3. ASSUME NEW t \in Token, NEW fs \in SUBSET Path, CallRemoveLocks(p, t, fs)
      PROVE  IInv'
  BY <1>0, <1>3, StartAboutClaim DEF CallRemoveLocks, Idle, Job, Op
<1>4. ASSUME NEW t \in Token, CallTouch(p, t)
      PROVE  IInv'
  BY <1>0, <1>4, StartAboutClaim DEF CallTouch, Idle, Job, Op
<1>5. ASSUME NEW t \in Token, NEW r \in ScopeRequest, CallAcquireScopeLocks(p, t, {r})
      PROVE  IInv'
  BY <1>0, <1>5, StartAboutClaim DEF CallAcquireScopeLocks, Idle, Job, Op
<1>6. ASSUME NEW t \in Token, NEW r \in ScopeRequest, CallRemoveScopeLocks(p, t, {r})
      PROVE  IInv'
  BY <1>0, <1>6, StartAboutClaim DEF CallRemoveScopeLocks, Idle, Job, Op
<1>7. ASSUME NEW t \in Token, NEW s \in {"completed", "failed", "halted"},
             CallFinalize(p, t, s)
      PROVE  IInv'
  <2> DEFINE j == [Idle EXCEPT !.op = "finalize", !.token = t,
                               !.target = claimTarget[t], !.state = s]
  <2>1. Live(t) /\ Start(p, IF s = "halted" THEN "halt" ELSE "finalize", j)
    BY <1>0, <1>7 DEF CallFinalize
  <2>2. /\ j \in Job /\ j.op = "finalize" /\ j.token = t
        /\ j.target = claimTarget[t] /\ j.state # "running"
    BY <1>0, <2>1 DEF Idle, Job, Op
  <2>3. job'[p] = j /\ UNCHANGED <<log, claimTarget>>
    BY <2>1 DEF Start, IInv, TypeOK, db
  <2>4. LogOf(t) # {} /\ LogOf(t)' # {} /\ claimTarget'[t] \in Target
    BY <1>0, <2>1, <2>3 DEF LogOf
  <2>5. CallInFlight(p)'
    <3> HIDE DEF j
    <3> QED BY <2>2, <2>3, <2>4 DEF CallInFlight, Op
  <2> HIDE DEF j
  <2> QED BY <2>1, <2>2, <2>4, <2>5, StartKeeps
<1>8. ASSUME NEW t \in Token, CallReclaim(p, t)
      PROVE  IInv'
  BY <1>0, <1>8, StartAboutClaim DEF CallReclaim, Idle, Job, Op
<1>9. ASSUME NEW t \in Token, CallRecordManifest(p, t)
      PROVE  IInv'
  BY <1>0, <1>9, StartAboutClaim DEF CallRecordManifest, Idle, Job, Op
<1>10. ASSUME NEW t \in Token, CallReleaseReconciled(p, t)
       PROVE  IInv'
  BY <1>0, <1>10, StartAboutClaim DEF CallReleaseReconciled, Idle, Job, Op
<1>11. ASSUME NEW T \in SUBSET Token, CallCleanup(p, T),
              \A t \in T : LogOf(t) # {}
       PROVE  IInv'
  <2> DEFINE j == [Idle EXCEPT !.op = "cleanup", !.tokens = T]
  <2>1. Start(p, "cleanup", j) /\ \A t \in T : ~CleanupConflict(t)
    BY <1>11 DEF CallCleanup
  <2>2. j \in Job /\ j.token = NoToken /\ j.op = "cleanup" /\ j.tokens = T
    BY DEF Idle, Job, Op
  <2>3. job'[p] = j /\ UNCHANGED <<log, claimTarget>>
    BY <2>1 DEF Start, IInv, TypeOK, db
  <2>4. \A t \in T : ~Live(t)' /\ LogOf(t)' # {}
    BY <1>11, <2>1, <2>3, LiveStopsCleanup DEF Live, LogOf
  <2>5. CallInFlight(p)'
    <3> HIDE DEF j
    <3> QED BY <2>2, <2>3, <2>4 DEF CallInFlight, Op
  <2> HIDE DEF j
  <2> QED BY <2>1, <2>2, <2>5, StartKeeps
<1>12. ASSUME NEW cutoff \in 0..MaxNow,
              CallCleanup(p, {t \in Token : Live(t) /\ expiresAt[t] <= cutoff})
       PROVE  IInv'
  BY <1>0, <1>12, <1>11
<1>13. ASSUME NEW t \in Token, LogOf(t) # {}, CallCleanup(p, {t})
       PROVE  IInv'
  BY <1>11, <1>13
<1> QED
  BY <1>1, <1>2, <1>3, <1>4, <1>5, <1>6, <1>7, <1>8, <1>9, <1>10, <1>12, <1>13
     DEF Call
-----------------------------------------------------------------------------
(* The claim that a call other than acquire and cleanup is about.          *)
LEMMA StepToken ==
  ASSUME IInv, NEW p \in Proc,
         job[p].op \in Op \ {"idle", "acquire", "conflict", "cleanup"}
  PROVE  job[p].token \in Token /\ LogOf(job[p].token) # {}
BY DEF IInv, CallsInFlight, CallInFlight

(* The acquisition: a fresh row, its initial locks and its running entry.  *)
LEMMA AcquireKeeps ==
  ASSUME IInv, NEW p \in Proc, AcquireRuntimeClaim(p)
  PROVE  IInv'
<1>0. PICK t \in Token, tg \in Target : t = job[p].token /\ tg = job[p].target
  BY DEF AcquireRuntimeClaim, IInv, CallsInFlight, CallInFlight
<1>1. /\ job[p] \in Job /\ job[p].op = "acquire" /\ t \in Token /\ tg \in Target
      /\ LogOf(t) = {} /\ \A q \in Proc : job[q].token = t => q = p
  BY <1>0 DEF AcquireRuntimeClaim, IInv, TypeOK, CallsInFlight, CallInFlight
<1>2. /\ log' \in Seq(LogEntry) /\ Len(log') \in Nat
      /\ log'[Len(log')] = [token |-> t, target |-> tg, state |-> "running",
                            at |-> job[p].at]
      /\ \A i \in DOMAIN log : i \in DOMAIN log' /\ log'[i] = log[i]
      /\ \A u \in Token : LogOf(u)' = IF u = t THEN LogOf(u) \cup {Len(log')}
                                      ELSE LogOf(u)
  <2>1. job[p].at \in Nat /\ "running" \in LogState
    BY <1>1 DEF Job, LogState
  <2>2. TypeOK /\ Append1(t, tg, "running", job[p].at)
    BY <1>0 DEF IInv, AcquireRuntimeClaim
  <2> QED BY <1>1, <2>1, <2>2, LogGrows, LenProperties
<1>3. /\ claimTarget' = [claimTarget EXCEPT ![t] = tg]
      /\ expiresAt' = [expiresAt EXCEPT ![t] = job[p].until]
      /\ locks' = [f \in Path |-> IF f \in job[p].paths THEN t ELSE locks[f]]
      /\ scopeLocks' = scopeLocks \cup
           {[token |-> t, scope |-> ScopeOf[tg], mode |-> "execute"]}
      /\ manifests' = manifests /\ now' = now
      /\ job' = [job EXCEPT ![p] = Idle]
      /\ \A u \in Token : claimTarget[u] # tg
  BY <1>0 DEF AcquireRuntimeClaim, Return, AcquireRefused
<1>4. ~Live(t) /\ \A u \in Token \ {t} : claimTarget'[u] = claimTarget[u]
  <2> QED BY <1>1, <1>3 DEF IInv, TypeOK, LiveMeansRunning
<1>5. claimTarget'[t] = tg /\ Live(t)' /\ \A u \in Token \ {t} : Live(u)' <=> Live(u)
  <2> QED BY <1>1, <1>3, <1>4, ConstantsOK DEF IInv, TypeOK, Live
<1>6. TypeOK'
  <2>1. job[p].until \in Nat /\ ScopeOf[tg] \in Scope
    BY <1>1, ConstantsOK DEF Job
  <2> QED BY <1>1, <1>2, <1>3, <2>1, IdleIsJob
          DEF IInv, TypeOK, ScopeLock, Mode
<1>7. NoOrphans'
  <2> QED BY <1>1, <1>3, <1>5 DEF IInv, TypeOK, NoOrphans, ScopeLock
<1>8. OneClaimPerTarget'
  <2> SUFFICES ASSUME NEW u \in Token, NEW v \in Token,
                      Live(u)', claimTarget'[u] = claimTarget'[v]
               PROVE  u = v
    BY DEF OneClaimPerTarget
  <2>1. CASE u # t /\ v # t
    BY <1>4, <1>5, <2>1 DEF IInv, OneClaimPerTarget
  <2>2. CASE u = t \/ v = t
    BY <1>3, <1>4, <1>5, <2>2
  <2> QED BY <2>1, <2>2
<1>9. LiveMeansRunning'
  <2> SUFFICES ASSUME NEW u \in Token, Live(u)'
               PROVE  \E i \in DOMAIN log' :
                        /\ LogOf(u)' = {i}
                        /\ log'[i].state = "running" /\ log'[i].target = claimTarget'[u]
    BY DEF LiveMeansRunning
  <2>1. CASE u = t
    <3>1. LogOf(t)' = {Len(log')}
      BY <1>1, <1>2
    <3>2. Len(log') \in DOMAIN log'
      BY <3>1 DEF LogOf
    <3> QED BY <1>2, <1>5, <2>1, <3>1, <3>2
  <2>2. CASE u # t
    <3>1. Live(u) /\ claimTarget'[u] = claimTarget[u] /\ LogOf(u)' = LogOf(u)
      BY <1>2, <1>4, <1>5, <2>2
    <3>2. PICK i \in DOMAIN log : /\ LogOf(u) = {i} /\ log[i].state = "running"
                                 /\ log[i].target = claimTarget[u]
      BY <3>1 DEF IInv, LiveMeansRunning
    <3> QED BY <1>2, <3>1, <3>2
  <2> QED BY <2>1, <2>2
<1>10. CallInFlight(p)'
  BY <1>3, IdleCall DEF IInv, TypeOK
<1>11. \A q \in Proc : q # p => CallInFlight(q)'
  <2>1. Idle.token = NoToken
    BY DEF Idle
  <2>2. \A u \in Token : Live(u)' =>
          (Live(u) /\ claimTarget'[u] = claimTarget[u]) \/ LogOf(u) = {}
    BY <1>1, <1>4, <1>5
  <2>3. \A u \in Token : /\ LogOf(u) # {} => LogOf(u)' # {}
                         /\ LogOf(u)' # {} => LogOf(u) # {} \/ u = t
    <3> QED BY <1>2
  <2> QED BY <1>0, <1>1, <1>3, <2>1, <2>2, <2>3, IdleIsJob, OtherCalls DEF IInv
<1> QED BY <1>6, <1>7, <1>8, <1>9, <1>10, <1>11 DEF IInv, CallsInFlight

(* A refused acquisition goes on to log its conflict, changing no row.     *)
LEMMA AcquireConflictKeeps ==
  ASSUME IInv, NEW p \in Proc, AcquireConflict(p)
  PROVE  IInv'
<1> DEFINE j == [job[p] EXCEPT !.op = "conflict"]
<1>1. /\ job[p] \in Job /\ job[p].op = "acquire" /\ CallInFlight(p)
      /\ job' = [job EXCEPT ![p] = j] /\ UNCHANGED <<db, now>>
  BY DEF AcquireConflict, Continue, IInv, TypeOK, CallsInFlight
<1>2. /\ j \in Job /\ j.op = "conflict" /\ j.token = job[p].token
      /\ j.target = job[p].target
  BY <1>1 DEF Job, Op
<1> HIDE DEF j
<1>3. TypeOK' /\ NoOrphans'
  BY <1>1, <1>2 DEF IInv, TypeOK, NoOrphans, Live, db
<1>4. /\ OneClaimPerTarget' /\ LiveMeansRunning'
      /\ \A t \in Token : LogOf(t)' = LogOf(t) /\ (Live(t)' <=> Live(t))
  BY <1>1, RowsKept DEF db
<1>5. CallInFlight(p)'
  <2>1. /\ job[p].token \in Token /\ job[p].target \in Target
        /\ LogOf(job[p].token) = {}
        /\ \A q \in Proc : job[q].token = job[p].token => q = p
    BY <1>1 DEF CallInFlight
  <2>2. job'[p] = j /\ \A q \in Proc : job'[q].token = j.token => q = p
    BY <1>1, <1>2, <2>1 DEF IInv, TypeOK
  <2> QED BY <1>2, <1>4, <2>1, <2>2 DEF CallInFlight, Op
<1>6. \A q \in Proc : q # p => CallInFlight(q)'
  BY <1>1, <1>2, <1>4, OtherCalls DEF IInv, db
<1> QED BY <1>3, <1>4, <1>5, <1>6 DEF IInv, CallsInFlight

(* The halted entry of a refused acquisition, under a token without a row. *)
LEMMA LogConflictKeeps ==
  ASSUME IInv, NEW p \in Proc, LogAcquireConflict(p)
  PROVE  IInv'
<1>0. PICK t \in Token, tg \in Target : t = job[p].token /\ tg = job[p].target
  BY DEF LogAcquireConflict, IInv, CallsInFlight, CallInFlight
<1>1. /\ job[p] \in Job /\ job[p].op = "conflict" /\ t \in Token /\ tg \in Target
      /\ LogOf(t) = {}
  BY <1>0 DEF LogAcquireConflict, IInv, TypeOK, CallsInFlight, CallInFlight
<1>2. /\ log' \in Seq(LogEntry)
      /\ \A i \in DOMAIN log : i \in DOMAIN log' /\ log'[i] = log[i]
      /\ \A u \in Token : LogOf(u)' = IF u = t THEN LogOf(u) \cup {Len(log')}
                                      ELSE LogOf(u)
  <2>1. job[p].at \in Nat /\ "halted" \in LogState
    BY <1>1 DEF Job, LogState
  <2>2. TypeOK /\ Append1(t, tg, "halted", job[p].at)
    BY <1>0 DEF IInv, LogAcquireConflict
  <2> QED BY <1>1, <2>1, <2>2, LogGrows
<1>3. /\ UNCHANGED <<claimTarget, expiresAt, locks, scopeLocks, manifests, now>>
      /\ job' = [job EXCEPT ![p] = Idle]
  BY DEF LogAcquireConflict, Return
<1>4. TypeOK' /\ NoOrphans' /\ OneClaimPerTarget'
  BY <1>2, <1>3, IdleIsJob DEF IInv, TypeOK, NoOrphans, OneClaimPerTarget, Live
<1>5. LiveMeansRunning'
  <2> SUFFICES ASSUME NEW u \in Token, Live(u)'
               PROVE  \E i \in DOMAIN log' :
                        /\ LogOf(u)' = {i}
                        /\ log'[i].state = "running" /\ log'[i].target = claimTarget'[u]
    BY DEF LiveMeansRunning
  <2>1. Live(u) /\ u # t /\ LogOf(u)' = LogOf(u)
    BY LiveIsLogged, <1>1, <1>2, <1>3 DEF Live
  <2>2. PICK i \in DOMAIN log : /\ LogOf(u) = {i} /\ log[i].state = "running"
                               /\ log[i].target = claimTarget[u]
    BY <2>1 DEF IInv, LiveMeansRunning
  <2> QED BY <1>2, <1>3, <2>1, <2>2
<1>6. CallInFlight(p)'
  BY <1>3, IdleCall DEF IInv, TypeOK
<1>7. \A q \in Proc : q # p => CallInFlight(q)'
  <2>1. Idle.token = NoToken
    BY DEF Idle
  <2>2. \A u \in Token : Live(u)' => Live(u) /\ claimTarget'[u] = claimTarget[u]
    BY <1>3 DEF Live
  <2>3. \A u \in Token : /\ LogOf(u) # {} => LogOf(u)' # {}
                         /\ LogOf(u)' # {} => LogOf(u) # {} \/ u = t
    BY <1>2
  <2> QED BY <1>0, <1>1, <1>3, <2>1, <2>2, <2>3, IdleIsJob, OtherCalls DEF IInv
<1> QED BY <1>4, <1>5, <1>6, <1>7 DEF IInv, CallsInFlight
-----------------------------------------------------------------------------
(* The steps that leave claim rows and log alone.                          *)
LEMMA TouchRenewKeeps ==
  ASSUME IInv, NEW p \in Proc, NEW next \in Op, TouchRenew(p, next),
         job[p].op \in Op \ {"idle", "acquire", "conflict", "cleanup"},
         next \notin {"idle", "acquire", "conflict", "cleanup", "finalize"}
  PROVE  IInv'
<1> DEFINE t == job[p].token
<1>1. /\ job[p] \in Job /\ t \in Token /\ LogOf(t) # {}
      /\ UNCHANGED <<claimTarget, locks, scopeLocks, manifests, log, now>>
  BY StepToken DEF TouchRenew, Continue, Return, IInv, TypeOK
<1>2. NoOrphans'
  BY <1>1 DEF IInv, NoOrphans, Live
<1>3. expiresAt' \in [Token -> Nat]
  <2>1. now + RenewTtl \in Nat
    BY ConstantsOK DEF IInv, TypeOK
  <2> QED BY <1>1, <2>1 DEF TouchRenew, IInv, TypeOK
<1>4. CASE job' = [job EXCEPT ![p] = Idle]
  BY <1>1, <1>2, <1>3, <1>4, QuietStepKeeps, IdleIsJob DEF IInv, TypeOK
<1>5. CASE job' = [job EXCEPT ![p].op = next]
  <2> DEFINE j == [job[p] EXCEPT !.op = next]
  <2>1. job' = [job EXCEPT ![p] = j]
    BY <1>5
  <2>2. j \in Job /\ j.op = next /\ j.token = t
    BY <1>1 DEF Job
  <2> HIDE DEF j
  <2> QED BY <1>1, <1>2, <1>3, <2>1, <2>2, QuietStepKeeps DEF IInv, TypeOK
<1> QED BY <1>4, <1>5 DEF TouchRenew, Continue, Return

(* Every step of a call that neither ends nor makes a claim.               *)
LEMMA QuietStepsKeep ==
  ASSUME IInv, NEW p \in Proc,
         \/ AcquireLocksTouch(p) \/ AcquireRuntimeLocks(p)
         \/ RemoveLocksTouch(p) \/ RemoveLocksCheck(p) \/ RemoveRuntimeLocks(p)
         \/ TouchClaimContext(p)
         \/ AcquireRuntimeScopeLocks(p) \/ RemoveRuntimeScopeLocks(p)
         \/ RecordVerifiedHistoricalMerge(p)
  PROVE  IInv'
<1> DEFINE t == job[p].token
<1>0. TypeOK /\ NoOrphans /\ job[p] \in Job /\ Idle \in Job
  BY IdleIsJob DEF IInv, TypeOK
<1>1. CASE AcquireLocksTouch(p)
  BY <1>1, TouchRenewKeeps DEF AcquireLocksTouch, Op
<1>2. CASE RemoveLocksTouch(p)
  BY <1>2, TouchRenewKeeps DEF RemoveLocksTouch, Op
<1>3. CASE AcquireRuntimeLocks(p)
  <2>1. t \in Token
    BY <1>3, StepToken DEF AcquireRuntimeLocks, Op
  <2>2. /\ UNCHANGED <<claimTarget, expiresAt, scopeLocks, manifests, log, now>>
        /\ job' = [job EXCEPT ![p] = Idle]
    BY <1>3 DEF AcquireRuntimeLocks, Return
  <2>3. locks' \in [Path -> Token \cup {NoToken}]
    BY <1>0, <1>3, <2>1 DEF AcquireRuntimeLocks, TypeOK
  <2>4. NoOrphans'
    BY <1>0, <1>3, <2>2 DEF AcquireRuntimeLocks, NoOrphans, Live, TypeOK
  <2> QED BY <1>0, <2>2, <2>3, <2>4, QuietStepKeeps DEF TypeOK
<1>4. CASE RemoveLocksCheck(p)
  <2>1. t \in Token /\ LogOf(t) # {} /\ UNCHANGED <<db, now>>
    BY <1>4, StepToken DEF RemoveLocksCheck, Op, Continue, Return
  <2>2. NoOrphans'
    BY <1>0, <2>1 DEF NoOrphans, Live, db
  <2>3. CASE job' = [job EXCEPT ![p] = Idle]
    BY <1>0, <2>1, <2>2, <2>3, QuietStepKeeps DEF TypeOK, db
  <2>4. CASE job' = [job EXCEPT ![p].op = "unlock"]
    <3> DEFINE j == [job[p] EXCEPT !.op = "unlock"]
    <3>1. job' = [job EXCEPT ![p] = j]
      BY <2>4
    <3>2. j \in Job /\ j.op = "unlock" /\ j.token = t
      BY <1>0 DEF Job, Op
    <3> HIDE DEF j
    <3> QED BY <1>0, <2>1, <2>2, <3>1, <3>2, QuietStepKeeps DEF TypeOK, db, Op
  <2> QED BY <1>4, <2>3, <2>4 DEF RemoveLocksCheck, Continue, Return
<1>5. CASE RemoveRuntimeLocks(p)
  <2>1. /\ UNCHANGED <<claimTarget, expiresAt, scopeLocks, manifests, log, now>>
        /\ job' = [job EXCEPT ![p] = Idle]
    BY <1>5 DEF RemoveRuntimeLocks, Return
  <2>2. locks' \in [Path -> Token \cup {NoToken}]
    BY <1>0, <1>5 DEF RemoveRuntimeLocks, TypeOK
  <2>3. NoOrphans'
    BY <1>0, <1>5, <2>1 DEF RemoveRuntimeLocks, NoOrphans, Live, TypeOK
  <2> QED BY <1>0, <2>1, <2>2, <2>3, QuietStepKeeps DEF TypeOK
<1>6. CASE TouchClaimContext(p)
  <2>1. /\ UNCHANGED <<claimTarget, locks, scopeLocks, manifests, log, now>>
        /\ job' = [job EXCEPT ![p] = Idle]
    BY <1>6 DEF TouchClaimContext, Return
  <2>2. expiresAt' \in [Token -> Nat]
    BY <1>0, <1>6 DEF TouchClaimContext, TypeOK, Job
  <2>3. NoOrphans'
    BY <1>0, <2>1 DEF NoOrphans, Live
  <2> QED BY <1>0, <2>1, <2>2, <2>3, QuietStepKeeps DEF TypeOK
<1>7. CASE AcquireRuntimeScopeLocks(p)
  <2>1. /\ UNCHANGED <<claimTarget, locks, manifests, log, now>>
        /\ job' = [job EXCEPT ![p] = Idle] /\ t \in Token
    BY <1>7, StepToken DEF AcquireRuntimeScopeLocks, Return, Op
  <2>2. expiresAt' \in [Token -> Nat]
    <3>1. now + RenewTtl \in Nat
      BY <1>0, ConstantsOK DEF TypeOK
    <3> QED BY <1>0, <1>7, <3>1 DEF AcquireRuntimeScopeLocks, TypeOK
  <2>3. \A r \in job[p].scopes : r.scope \in Scope /\ r.mode \in Mode
    BY <1>0 DEF Job, ScopeRequest
  <2>4. scopeLocks' \in SUBSET ScopeLock
    BY <1>0, <1>7, <2>1, <2>3 DEF AcquireRuntimeScopeLocks, TypeOK, ScopeLock
  <2>5. \A l \in scopeLocks' : Live(l.token)
    BY <1>0, <1>7 DEF AcquireRuntimeScopeLocks, NoOrphans, Renewable, Active
  <2>6. NoOrphans'
    BY <1>0, <2>1, <2>5 DEF NoOrphans, Live
  <2> QED BY <1>0, <2>1, <2>2, <2>4, <2>6, QuietStepKeeps DEF TypeOK
<1>8. CASE RemoveRuntimeScopeLocks(p)
  <2>1. /\ UNCHANGED <<claimTarget, expiresAt, locks, manifests, log, now>>
        /\ job' = [job EXCEPT ![p] = Idle]
    BY <1>8 DEF RemoveRuntimeScopeLocks, Return
  <2>2. scopeLocks' \in SUBSET scopeLocks
    BY <1>8 DEF RemoveRuntimeScopeLocks
  <2>3. NoOrphans'
    BY <1>0, <2>1, <2>2 DEF NoOrphans, Live
  <2> QED BY <1>0, <2>1, <2>2, <2>3, QuietStepKeeps DEF TypeOK
<1>9. CASE RecordVerifiedHistoricalMerge(p)
  <2>1. /\ UNCHANGED <<claimTarget, expiresAt, locks, scopeLocks, log, now>>
        /\ job' = [job EXCEPT ![p] = Idle] /\ t \in Token
    BY <1>9, StepToken DEF RecordVerifiedHistoricalMerge, Return, Op
  <2>2. manifests' \in SUBSET Token /\ \A u \in manifests' : Live(u)
    BY <1>0, <1>9, <2>1 DEF RecordVerifiedHistoricalMerge, TypeOK, NoOrphans
  <2>3. NoOrphans'
    BY <1>0, <2>1, <2>2 DEF NoOrphans, Live
  <2> QED BY <1>0, <2>1, <2>2, <2>3, QuietStepKeeps DEF TypeOK
<1> QED BY <1>1, <1>2, <1>3, <1>4, <1>5, <1>6, <1>7, <1>8, <1>9

-----------------------------------------------------------------------------
(* The steps that end claims.                                              *)
LEMMA FinalizeKeeps ==
  ASSUME IInv, NEW p \in Proc, FinalizeRuntimeExecution(p)
  PROVE  IInv'
<1>1. /\ job[p].token \in Token /\ LogOf(job[p].token) # {}
      /\ job[p].target \in Target /\ job[p].state \in LogState
  BY StepToken
     DEF FinalizeRuntimeExecution, Op, IInv, CallsInFlight, CallInFlight, TypeOK, Job
<1> QED BY <1>1, EndKeeps DEF FinalizeRuntimeExecution

(* Recovery of an expired claim, and its release by reconciliation.        *)
LEMMA ReclaimKeeps ==
  ASSUME IInv, NEW p \in Proc,
         ReclaimExpiredRuntimeClaim(p) \/ ReleaseReconciledClaim(p)
  PROVE  IInv'
<1> DEFINE t == job[p].token
<1>1. t \in Token /\ LogOf(t) # {}
  BY StepToken DEF ReclaimExpiredRuntimeClaim, ReleaseReconciledClaim, Op
<1>2. CASE UNCHANGED db /\ Return(p)
  <2>1. NoOrphans'
    BY <1>2 DEF IInv, NoOrphans, Live, db
  <2> QED BY <1>2, <2>1, QuietStepKeeps, IdleIsJob DEF IInv, TypeOK, db, Return
<1>3. ASSUME Expired(t), NEW s \in LogState,
             Append1(t, claimTarget[t], s, now), DeleteClaims({t}), Return(p)
      PROVE  IInv'
  BY <1>1, <1>3, LiveIsLogged, EndKeeps DEF Expired
<1> QED BY <1>2, <1>3 DEF ReclaimExpiredRuntimeClaim, ReleaseReconciledClaim, LogState

(* A cleanup: it names no live claim, so it deletes none.                  *)
LEMMA CleanupKeeps ==
  ASSUME IInv, NEW p \in Proc, CleanupRuntimeClaims(p)
  PROVE  IInv'
<1>1. /\ job[p].tokens \in SUBSET Token /\ \A t \in job[p].tokens : ~Live(t)
      /\ DeleteClaims(job[p].tokens) /\ job' = [job EXCEPT ![p] = Idle]
      /\ UNCHANGED <<log, now>>
  BY DEF CleanupRuntimeClaims, IInv, TypeOK, Job, CallsInFlight, CallInFlight, Return
<1>2. /\ expiresAt' \in [Token -> Nat]
      /\ locks' \in [Path -> Token \cup {NoToken}]
      /\ scopeLocks' \in SUBSET ScopeLock
      /\ manifests' \in SUBSET Token
      /\ NoOrphans'
  BY <1>1, DeleteEffects DEF IInv
<1>3. claimTarget' = claimTarget
  BY <1>1 DEF DeleteClaims, Live, IInv, TypeOK
<1> QED BY <1>1, <1>2, <1>3, QuietStepKeeps, IdleIsJob

-----------------------------------------------------------------------------
(* A renewal moves one lease.                                              *)
LEMMA RenewKeeps ==
  ASSUME IInv, NEW p \in Proc, Renew(p)
  PROVE  IInv'
<1>1. PICK t \in Token, ttl \in ClaimTtls \cup {RenewTtl} : RenewRuntimeClaim(p, t, ttl)
  BY DEF Renew
<1>2. expiresAt' \in [Token -> Nat]
  <2>1. now + ttl \in Nat
    BY ConstantsOK DEF IInv, TypeOK
  <2> QED BY <1>1, <2>1 DEF RenewRuntimeClaim, IInv, TypeOK
<1>3. UNCHANGED <<claimTarget, locks, scopeLocks, manifests, log, now, job>>
  BY <1>1 DEF RenewRuntimeClaim
<1>4. NoOrphans'
  BY <1>3 DEF IInv, NoOrphans, Live
<1>5. job' = [job EXCEPT ![p] = Idle]
  BY <1>1, <1>3 DEF RenewRuntimeClaim, IInv, TypeOK
<1> QED BY <1>2, <1>3, <1>4, <1>5, QuietStepKeeps, IdleIsJob DEF IInv, TypeOK

(* A crash forgets one call.                                               *)
LEMMA CrashKeeps ==
  ASSUME IInv, NEW p \in Proc, Crash(p)
  PROVE  IInv'
<1>1. UNCHANGED db /\ UNCHANGED now /\ job' = [job EXCEPT ![p] = Idle]
  BY DEF Crash, Return
<1>2. NoOrphans'
  BY <1>1 DEF IInv, NoOrphans, Live, db
<1> QED BY <1>1, <1>2, QuietStepKeeps, IdleIsJob DEF IInv, TypeOK, db

(* The clock changes no row.                                               *)
LEMMA TickKeeps ==
  ASSUME IInv, Tick \/ UNCHANGED vars
  PROVE  IInv'
<1>1. UNCHANGED <<db, job>> /\ now' \in Nat
  BY DEF Tick, vars, db, IInv, TypeOK
<1>2. UNCHANGED <<claimTarget, expiresAt, locks, scopeLocks, manifests, log, job>>
  BY <1>1 DEF db
<1> QED BY <1>1, <1>2 DEF IInv, TypeOK, NoOrphans, OneClaimPerTarget, LiveMeansRunning,
                          CallsInFlight, CallInFlight, Live, LogOf

(* Every step keeps the inductive invariant.                               *)
LEMMA NextKeeps ==
  ASSUME IInv, [Next]_vars
  PROVE  IInv'
<1>1. CASE Tick \/ UNCHANGED vars
  BY <1>1, TickKeeps
<1>2. ASSUME NEW p \in Proc, Call(p) \/ Step(p) \/ Renew(p) \/ Crash(p)
      PROVE  IInv'
  <2>1. CASE Step(p)
    BY <2>1, AcquireKeeps, AcquireConflictKeeps, LogConflictKeeps, QuietStepsKeep,
       FinalizeKeeps, CleanupKeeps, ReclaimKeeps DEF Step
  <2> QED BY <1>2, <2>1, CallKeeps, RenewKeeps, CrashKeeps
<1> QED BY <1>1, <1>2 DEF Next

(* The empty database satisfies the invariant.                             *)
LEMMA InitGood == Init => IInv
<1> SUFFICES ASSUME Init PROVE IInv
  OBVIOUS
<1>1. /\ \A t \in Token : ~Live(t)
      /\ \A p \in Proc : job[p] = Idle /\ CallInFlight(p)
  BY DEF Init, Live, CallInFlight, Idle, Op
<1>2. TypeOK
  BY IdleIsJob DEF Init, TypeOK
<1>3. NoOrphans
  BY <1>1 DEF Init, NoOrphans
<1> QED BY <1>1, <1>2, <1>3
        DEF IInv, OneClaimPerTarget, LiveMeansRunning, CallsInFlight

(* The inductive invariant holds throughout every execution.               *)
THEOREM Invariance == Spec => []IInv
<1>1. Init => IInv
  BY InitGood
<1>2. IInv /\ [Next]_vars => IInv'
  BY NextKeeps
<1> QED BY <1>1, <1>2, PTL DEF Spec

(* Every variable keeps its type.                                          *)
THEOREM TypeCorrect == Spec => []TypeOK
<1>1. IInv => TypeOK
  BY DEF IInv
<1> QED BY <1>1, Invariance, PTL

(* Locks, scope locks and manifests never outlive their claim: the         *)
(* transactions of sqlite-store.ts delete them with the row and the foreign*)
(* keys refuse late ones.                                                  *)
THEOREM NoOrphanRows == Spec => []NoOrphans
<1>1. IInv => NoOrphans
  BY DEF IInv
<1> QED BY <1>1, Invariance, PTL

(* No two claims ever hold one target.                                     *)
THEOREM TargetExclusion == Spec => []OneClaimPerTarget
<1>1. IInv => OneClaimPerTarget
  BY DEF IInv
<1> QED BY <1>1, Invariance, PTL

(* While a claim row exists its log is exactly the running entry.          *)
THEOREM RowsMatchLog == Spec => []LiveMeansRunning
<1>1. IInv => LiveMeansRunning
  BY DEF IInv
<1> QED BY <1>1, Invariance, PTL
-----------------------------------------------------------------------------
(* What a step does to the claim rows and the log, in one place: nothing,  *)
(* or the insertion of one row with its running entry, or a terminal entry *)
(* for one token, with the deletion of its row or for a token without row. *)
LEMMA RowSteps ==
  ASSUME IInv, [Next]_vars
  PROVE  \/ UNCHANGED <<claimTarget, log>>
         \/ \E p \in Proc : AcquireRuntimeClaim(p)
         \/ \E p \in Proc : LogAcquireConflict(p)
         \/ \E p \in Proc, t \in Token, s \in LogState \ {"running"} :
              /\ Append1(t, IF job[p].op = "finalize" THEN job[p].target
                            ELSE claimTarget[t], s, now)
              /\ DeleteClaims({t}) /\ Return(p) /\ LogOf(t) # {}
              /\ \/ job[p].op = "finalize" /\ job[p].token = t
                 \/ job[p].op # "finalize" /\ Expired(t)
<1>1. CASE Tick \/ UNCHANGED vars
  BY <1>1 DEF Tick, vars, db
<1>2. ASSUME NEW p \in Proc, Call(p) \/ Renew(p) \/ Crash(p)
      PROVE  UNCHANGED <<claimTarget, log>>
  BY <1>2 DEF Call, Renew, Crash, db, Start, RenewRuntimeClaim, CallAcquireClaim,
     CallAcquireLocks, CallRemoveLocks, CallTouch, CallAcquireScopeLocks,
     CallRemoveScopeLocks, CallFinalize, CallCleanup, CallReclaim,
     CallRecordManifest, CallReleaseReconciled
<1>3. ASSUME NEW p \in Proc,
             \/ AcquireConflict(p) \/ AcquireLocksTouch(p) \/ AcquireRuntimeLocks(p)
             \/ RemoveLocksTouch(p) \/ RemoveLocksCheck(p) \/ RemoveRuntimeLocks(p)
             \/ TouchClaimContext(p)
             \/ AcquireRuntimeScopeLocks(p) \/ RemoveRuntimeScopeLocks(p)
             \/ RecordVerifiedHistoricalMerge(p)
      PROVE  UNCHANGED <<claimTarget, log>>
  BY <1>3 DEF AcquireConflict, AcquireLocksTouch, AcquireRuntimeLocks, RemoveLocksTouch,
     RemoveLocksCheck, RemoveRuntimeLocks, TouchClaimContext, TouchRenew,
     AcquireRuntimeScopeLocks, RemoveRuntimeScopeLocks,
     RecordVerifiedHistoricalMerge, db
<1>4. ASSUME NEW p \in Proc, CleanupRuntimeClaims(p)
      PROVE  UNCHANGED <<claimTarget, log>>
  <2>1. /\ job[p].tokens \in SUBSET Token /\ \A t \in job[p].tokens : ~Live(t)
        /\ DeleteClaims(job[p].tokens) /\ UNCHANGED log
    BY <1>4 DEF CleanupRuntimeClaims, IInv, TypeOK, Job, CallsInFlight, CallInFlight
  <2> QED BY <2>1 DEF DeleteClaims, Live, IInv, TypeOK
<1>5. ASSUME NEW p \in Proc, FinalizeRuntimeExecution(p)
      PROVE  /\ job[p].op = "finalize" /\ job[p].token \in Token
             /\ job[p].state \in LogState \ {"running"} /\ LogOf(job[p].token) # {}
             /\ Append1(job[p].token, job[p].target, job[p].state, now)
             /\ DeleteClaims({job[p].token}) /\ Return(p)
  <2>1. job[p].op = "finalize"
    BY <1>5 DEF FinalizeRuntimeExecution
  <2>2. job[p].token \in Token /\ LogOf(job[p].token) # {}
    BY <2>1, StepToken DEF Op
  <2>3. job[p].state \in LogState \ {"running"}
    BY <2>1 DEF IInv, TypeOK, Job, CallsInFlight, CallInFlight
  <2> QED BY <1>5, <2>1, <2>2, <2>3 DEF FinalizeRuntimeExecution
<1>6. ASSUME NEW p \in Proc, ReclaimExpiredRuntimeClaim(p) \/ ReleaseReconciledClaim(p)
      PROVE  \/ UNCHANGED <<claimTarget, log>>
             \/ \E t \in Token, s \in LogState \ {"running"} :
                  /\ Append1(t, claimTarget[t], s, now)
                  /\ DeleteClaims({t}) /\ Return(p) /\ LogOf(t) # {}
                  /\ job[p].op # "finalize" /\ Expired(t)
  <2>1. job[p].token \in Token /\ LogOf(job[p].token) # {} /\ job[p].op # "finalize"
    BY <1>6, StepToken DEF ReclaimExpiredRuntimeClaim, ReleaseReconciledClaim, Op
  <2>2. "halted" \in LogState \ {"running"} /\ "completed" \in LogState \ {"running"}
    BY DEF LogState
  <2>3. CASE ReclaimExpiredRuntimeClaim(p)
    BY <2>1, <2>2, <2>3 DEF ReclaimExpiredRuntimeClaim, db
  <2>4. CASE ReleaseReconciledClaim(p)
    BY <2>1, <2>2, <2>4 DEF ReleaseReconciledClaim, db
  <2> QED BY <1>6, <2>3, <2>4
<1>7. ASSUME NEW p \in Proc, Step(p)
      PROVE  \/ UNCHANGED <<claimTarget, log>>
             \/ AcquireRuntimeClaim(p)
             \/ LogAcquireConflict(p)
             \/ \E t \in Token, s \in LogState \ {"running"} :
                  /\ Append1(t, IF job[p].op = "finalize" THEN job[p].target
                                ELSE claimTarget[t], s, now)
                  /\ DeleteClaims({t}) /\ Return(p) /\ LogOf(t) # {}
                  /\ \/ job[p].op = "finalize" /\ job[p].token = t
                     \/ job[p].op # "finalize" /\ Expired(t)
  BY <1>3, <1>4, <1>5, <1>6, <1>7 DEF Step
<1> QED BY <1>1, <1>2, <1>7 DEF Next

(* The liveness of the other rows when one row is inserted.                *)
LEMMA AcquireEndsNothing ==
  ASSUME IInv, NEW p \in Proc, AcquireRuntimeClaim(p), NEW t \in Token, Live(t)
  PROVE  Live(t)'
BY ConstantsOK
   DEF AcquireRuntimeClaim, Live, IInv, TypeOK, CallsInFlight, CallInFlight

(* A claim row only disappears together with the terminal entry of its     *)
(* token and target: what complete, fail, halt, recovery and reconciliation*)
(* do in their transactions, and cleanup never.                            *)
THEOREM EndingsAreLogged == Spec => EndingIsLogged
<1>1. ASSUME IInv, [Next]_vars, NEW t \in Token, Live(t), ~Live(t)'
      PROVE  /\ Len(log') = Len(log) + 1
             /\ log'[Len(log')].token = t
             /\ log'[Len(log')].target = claimTarget[t]
             /\ log'[Len(log')].state # "running"
  <2>1. ~UNCHANGED <<claimTarget, log>>
    BY <1>1 DEF Live
  <2>2. ~\E p \in Proc : AcquireRuntimeClaim(p) \/ LogAcquireConflict(p)
    BY <1>1, AcquireEndsNothing DEF LogAcquireConflict, Live
  <2>3. PICK p \in Proc, u \in Token, s \in LogState \ {"running"} :
          /\ Append1(u, IF job[p].op = "finalize" THEN job[p].target
                        ELSE claimTarget[u], s, now)
          /\ DeleteClaims({u})
          /\ \/ job[p].op = "finalize" /\ job[p].token = u
             \/ job[p].op # "finalize" /\ Expired(u)
    BY <1>1, <2>1, <2>2, RowSteps
  <2>4. u = t
    BY <1>1, <2>3, DeleteEffects DEF IInv
  <2>5. job[p].op = "finalize" => job[p].target = claimTarget[t]
    BY <1>1, <2>3, <2>4 DEF IInv, CallsInFlight, CallInFlight, Expired
  <2>6. Append1(t, claimTarget[t], s, now)
    BY <2>3, <2>4, <2>5
  <2>7. claimTarget[t] \in Target /\ TypeOK /\ now \in Nat
    BY <1>1, LiveIsLogged DEF IInv, TypeOK
  <2>8. /\ Len(log') = Len(log) + 1
        /\ log'[Len(log')] = [token |-> t, target |-> claimTarget[t],
                              state |-> s, at |-> now]
    <3>1. s \in LogState
      BY <2>3
    <3> QED BY <2>6, <2>7, <3>1, LogGrows
  <2> QED BY <2>3, <2>8
<1>2. IInv /\ [Next]_vars =>
        [\A t \in Token : Live(t) /\ ~Live(t)' =>
           /\ Len(log') = Len(log) + 1
           /\ log'[Len(log')].token = t
           /\ log'[Len(log')].target = claimTarget[t]
           /\ log'[Len(log')].state # "running"]_vars
  BY <1>1
<1> QED BY <1>2, Invariance, PTL DEF Spec, EndingIsLogged

(* An active claim is only ended by a process that named it to complete,   *)
(* fail or halt it: recovery and reconciliation re-read the expiry in their*)
(* transaction, cleanup never passes a live claim.                         *)
THEOREM ActiveClaimsAreSafe == Spec => OnlyOwnerEndsActive
<1>1. ASSUME IInv, [Next]_vars, NEW t \in Token, Active(t), ~Live(t)'
      PROVE  \E p \in Proc : /\ job[p].op = "finalize" /\ job[p].token = t
                             /\ job'[p] = Idle
  <2>0. Live(t) /\ expiresAt[t] > now /\ expiresAt[t] \in Nat /\ now \in Nat
    BY <1>1 DEF Active, IInv, TypeOK
  <2>1. ~UNCHANGED <<claimTarget, log>>
    BY <1>1, <2>0 DEF Live
  <2>2. ~\E p \in Proc : AcquireRuntimeClaim(p) \/ LogAcquireConflict(p)
    BY <1>1, <2>0, AcquireEndsNothing DEF LogAcquireConflict, Live
  <2>3. PICK p \in Proc, u \in Token :
          /\ DeleteClaims({u}) /\ Return(p)
          /\ \/ job[p].op = "finalize" /\ job[p].token = u
             \/ job[p].op # "finalize" /\ Expired(u)
    BY <1>1, <2>1, <2>2, RowSteps
  <2>4. u = t
    BY <1>1, <2>0, <2>3, DeleteEffects DEF IInv
  <2>5. ~Expired(t)
    BY <2>0 DEF Expired
  <2>6. job'[p] = Idle
    BY <1>1, <2>3 DEF Return, IInv, TypeOK
  <2> QED BY <2>3, <2>4, <2>5, <2>6
<1>2. IInv /\ [Next]_vars =>
        [\A t \in Token : Active(t) /\ ~Live(t)' =>
           \E p \in Proc : job[p].op = "finalize" /\ job[p].token = t /\ job'[p] = Idle]_vars
  BY <1>1
<1> QED BY <1>2, Invariance, PTL DEF Spec, OnlyOwnerEndsActive
-----------------------------------------------------------------------------
(* The attempts that have ended change with the log only.                  *)
LEMMA EndedKept == UNCHANGED log => Ended' = Ended
BY DEF Ended

(* A terminal entry ends its attempt and no other.                         *)
LEMMA EndedGrows ==
  ASSUME TypeOK, NEW t \in Token, NEW tg \in Target, NEW s \in LogState,
         NEW time \in Nat, Append1(t, tg, s, time)
  PROVE  Ended' = IF s = "running" THEN Ended ELSE Ended \cup {t}
<1> DEFINE e == [token |-> t, target |-> tg, state |-> s, at |-> time]
<1>0. /\ Len(log') = Len(log) + 1 /\ log' \in Seq(LogEntry)
      /\ log'[Len(log')] = e
      /\ \A i \in DOMAIN log : i \in DOMAIN log' /\ log'[i] = log[i]
  BY LogGrows
<1>1. /\ Len(log') = Len(log) + 1 /\ log' \in Seq(LogEntry) /\ log \in Seq(LogEntry)
      /\ log'[Len(log')].token = t /\ log'[Len(log')].state = s
      /\ \A i \in DOMAIN log : i \in DOMAIN log' /\ log'[i] = log[i]
  BY <1>0 DEF TypeOK
<1>2. /\ DOMAIN log = 1..Len(log) /\ DOMAIN log' = 1..Len(log') /\ Len(log) \in Nat
  BY <1>1, LenProperties
<1>3. DOMAIN log' = DOMAIN log \cup {Len(log')} /\ Len(log') \notin DOMAIN log
  BY <1>1, <1>2
<1>4. \A u : u \in Ended <=> \E k \in DOMAIN log : log[k].state # "running" /\ u = log[k].token
  BY DEF Ended
<1>5. \A u : u \in Ended' <=> \E k \in DOMAIN log' : log'[k].state # "running" /\ u = log'[k].token
  BY DEF Ended
<1>6. \A u : u \in Ended' <=> u \in Ended \/ (s # "running" /\ u = t)
  BY <1>1, <1>3, <1>4, <1>5
<1> QED BY <1>6

(* Every step of the store is a step of the authority or a stutter.        *)
LEMMA StepRefines ==
  ASSUME IInv, [Next]_vars
  PROVE  [Authority!Next]_(Authority!authority)
<1> USE DEF Authority!authority
<1> DEFINE A == [Authority!Next]_(Authority!authority)
<1>0. TypeOK /\ NoOrphans /\ now \in Nat
  BY DEF IInv, TypeOK
<1>1. ASSUME UNCHANGED <<claimTarget, locks, log>> PROVE A
  BY <1>1, EndedKept
<1>2. ASSUME NEW p \in Proc, AcquireRuntimeClaim(p) PROVE A
  <2>1. PICK t \in Token, tg \in Target :
          /\ t = job[p].token /\ tg = job[p].target /\ LogOf(t) = {}
    BY <1>2 DEF AcquireRuntimeClaim, IInv, CallsInFlight, CallInFlight
  <2>2. job[p] \in Job /\ job[p].paths \in SUBSET Path /\ job[p].at \in Nat
    BY DEF IInv, TypeOK, Job
  <2>3. Ended' = Ended
    <3>1. "running" \in LogState
      BY DEF LogState
    <3> QED BY <1>0, <1>2, <2>1, <2>2, <3>1, EndedGrows DEF AcquireRuntimeClaim
  <2>4. t \notin Ended
    BY <2>1 DEF Ended, LogOf
  <2>5. claimTarget[t] = NoTarget
    BY <2>1, LiveIsLogged DEF Live
  <2>6. Authority!Grant(t, tg, job[p].paths)
    BY <1>0, <1>2, <2>1, <2>2, <2>3, <2>4, <2>5
       DEF Authority!Grant, AcquireRuntimeClaim, AcquireRefused, TypeOK
  <2> QED BY <2>2, <2>6 DEF Authority!Next
<1>3. ASSUME NEW p \in Proc, LogAcquireConflict(p) PROVE A
  <2>1. PICK t \in Token, tg \in Target :
          /\ t = job[p].token /\ tg = job[p].target /\ LogOf(t) = {}
    BY <1>3 DEF LogAcquireConflict, IInv, CallsInFlight, CallInFlight
  <2>2. job[p].at \in Nat /\ "halted" \in LogState
    BY DEF IInv, TypeOK, Job, LogState
  <2>3. Ended' = Ended \cup {t}
    BY <1>0, <1>3, <2>1, <2>2, EndedGrows DEF LogAcquireConflict
  <2>4. claimTarget[t] = NoTarget
    BY <2>1, LiveIsLogged DEF Live
  <2>5. Authority!Refuse(t)
    BY <1>3, <2>3, <2>4 DEF Authority!Refuse, LogAcquireConflict
  <2> QED BY <2>5 DEF Authority!Next
<1>4. ASSUME NEW p \in Proc, NEW t \in Token, NEW tg \in Target,
             NEW s \in LogState \ {"running"},
             Append1(t, tg, s, now), DeleteClaims({t})
      PROVE  A
  <2>1. Ended' = Ended \cup {t}
    BY <1>0, <1>4, EndedGrows
  <2>2. Authority!End(t)
    BY <1>0, <1>4, <2>1 DEF Authority!End, DeleteClaims, TypeOK
  <2> QED BY <2>2 DEF Authority!Next
<1>5. ASSUME NEW p \in Proc, AcquireRuntimeLocks(p) PROVE A
  <2>1. PICK t \in Token : t = job[p].token
    BY <1>5, StepToken DEF AcquireRuntimeLocks, Op
  <2>2. job[p].paths \in SUBSET Path /\ Ended' = Ended /\ claimTarget' = claimTarget
    BY <1>0, <1>5, EndedKept DEF AcquireRuntimeLocks, TypeOK, Job
  <2>3. CASE LockConflict(t, job[p].paths) \/ ~Live(t)
    BY <1>5, <2>1, <2>2, <2>3 DEF AcquireRuntimeLocks
  <2>4. CASE ~LockConflict(t, job[p].paths) /\ Live(t)
    <3>1. Authority!Extend(t, job[p].paths)
      BY <1>5, <2>1, <2>2, <2>4
         DEF Authority!Extend, AcquireRuntimeLocks, LockConflict, Live
    <3> QED BY <2>2, <3>1 DEF Authority!Next
  <2> QED BY <2>3, <2>4
<1>6. ASSUME NEW p \in Proc, RemoveRuntimeLocks(p) PROVE A
  <2>1. PICK t \in Token : t = job[p].token
    BY <1>6, StepToken DEF RemoveRuntimeLocks, Op
  <2>2. job[p].paths \in SUBSET Path /\ Ended' = Ended /\ claimTarget' = claimTarget
    BY <1>0, <1>6, EndedKept DEF RemoveRuntimeLocks, TypeOK, Job
  <2>3. Authority!Shrink(t, job[p].paths)
    BY <1>6, <2>1, <2>2 DEF Authority!Shrink, RemoveRuntimeLocks
  <2> QED BY <2>2, <2>3 DEF Authority!Next
<1>7. ASSUME NEW p \in Proc, CleanupRuntimeClaims(p) PROVE A
  <2>1. /\ job[p].tokens \in SUBSET Token /\ \A t \in job[p].tokens : ~Live(t)
        /\ DeleteClaims(job[p].tokens) /\ UNCHANGED log
    BY <1>7 DEF CleanupRuntimeClaims, IInv, TypeOK, Job, CallsInFlight, CallInFlight
  <2>2. claimTarget' = claimTarget
    BY <1>0, <2>1 DEF DeleteClaims, Live, TypeOK
  <2>3. locks' = locks
    BY <1>0, <2>1, ConstantsOK DEF DeleteClaims, NoOrphans, TypeOK
  <2> QED BY <1>1, <2>1, <2>2, <2>3
<1>8. ASSUME NEW p \in Proc, FinalizeRuntimeExecution(p) PROVE A
  <2>1. PICK t \in Token, tg \in Target, s \in LogState \ {"running"} :
          t = job[p].token /\ tg = job[p].target /\ s = job[p].state
    BY <1>8 DEF FinalizeRuntimeExecution, IInv, TypeOK, Job, CallsInFlight, CallInFlight, Op
  <2> QED BY <1>4, <1>8, <2>1 DEF FinalizeRuntimeExecution
<1>9. ASSUME NEW p \in Proc, ReclaimExpiredRuntimeClaim(p) \/ ReleaseReconciledClaim(p)
      PROVE  A
  <2>1. PICK t \in Token : t = job[p].token
    BY <1>9, StepToken DEF ReclaimExpiredRuntimeClaim, ReleaseReconciledClaim, Op
  <2>2. "halted" \in LogState \ {"running"} /\ "completed" \in LogState \ {"running"}
    BY DEF LogState
  <2>3. CASE UNCHANGED db
    BY <1>1, <2>3 DEF db
  <2>4. ASSUME Expired(t), NEW s \in LogState \ {"running"},
               Append1(t, claimTarget[t], s, now), DeleteClaims({t})
        PROVE  A
    BY <1>4, <2>4, LiveIsLogged, <1>9 DEF Expired
  <2> QED BY <1>9, <2>1, <2>2, <2>3, <2>4 DEF ReclaimExpiredRuntimeClaim, ReleaseReconciledClaim
<1>10. ASSUME NEW p \in Proc, Call(p) \/ Renew(p) \/ Crash(p) PROVE A
  <2>1. UNCHANGED <<claimTarget, locks, log>>
    BY <1>10 DEF Call, Renew, Crash, db, Start, RenewRuntimeClaim, CallAcquireClaim,
       CallAcquireLocks, CallRemoveLocks, CallTouch, CallAcquireScopeLocks,
       CallRemoveScopeLocks, CallFinalize, CallCleanup, CallReclaim,
       CallRecordManifest, CallReleaseReconciled
  <2> QED BY <1>1, <2>1
<1>11. ASSUME NEW p \in Proc,
              \/ AcquireConflict(p) \/ AcquireLocksTouch(p) \/ RemoveLocksTouch(p)
              \/ RemoveLocksCheck(p) \/ TouchClaimContext(p)
              \/ AcquireRuntimeScopeLocks(p) \/ RemoveRuntimeScopeLocks(p)
              \/ RecordVerifiedHistoricalMerge(p)
       PROVE  A
  <2>1. UNCHANGED <<claimTarget, locks, log>>
    BY <1>11 DEF AcquireConflict, AcquireLocksTouch, RemoveLocksTouch, RemoveLocksCheck,
       TouchClaimContext, TouchRenew, AcquireRuntimeScopeLocks,
       RemoveRuntimeScopeLocks, RecordVerifiedHistoricalMerge, db
  <2> QED BY <1>1, <2>1
<1>12. CASE Tick \/ UNCHANGED vars
  BY <1>1, <1>12 DEF Tick, vars, db
<1> QED
  <2>1. ASSUME NEW p \in Proc, Step(p) PROVE A
    BY <1>2, <1>3, <1>5, <1>6, <1>7, <1>8, <1>9, <1>11, <2>1 DEF Step
  <2> QED BY <1>10, <1>12, <2>1 DEF Next

(* The SQLite store implements the authority: acquisition is atomic, a     *)
(* target and a path have one holder, an ended attempt never holds again.  *)
THEOREM Refinement == Spec => ImplementsAuthority
<1>1. Init => Authority!Init
  BY DEF Init, Authority!Init, Ended
<1>2. IInv /\ [Next]_vars => [Authority!Next]_(Authority!authority)
  BY StepRefines
<1> QED BY <1>1, <1>2, Invariance, PTL DEF Spec, ImplementsAuthority, Authority!Spec
-----------------------------------------------------------------------------
(* Losing scope locks keeps the policy, if the claims of the others stay.  *)
LEMMA FewerScopeLocks ==
  ASSUME PolicyLocksCompatible, scopeLocks' \in SUBSET scopeLocks,
         \A l \in scopeLocks' : claimTarget'[l.token] = claimTarget[l.token]
  PROVE  PolicyLocksCompatible'
<1> SUFFICES ASSUME NEW l \in scopeLocks', NEW m \in scopeLocks', Clash(l, m)
             PROVE  OwnTargetLock(l)' \/ OwnTargetLock(m)'
  BY DEF PolicyLocksCompatible, Clash
<1>1. OwnTargetLock(l) \/ OwnTargetLock(m)
  BY DEF PolicyLocksCompatible
<1> QED BY <1>1 DEF OwnTargetLock, Live

(* Every step keeps the policy, given the inductive invariant.             *)
LEMMA PolicyKept ==
  ASSUME IInv, PolicyLocksCompatible, [Next]_vars
  PROVE  PolicyLocksCompatible'
<1>0. TypeOK /\ NoOrphans
  BY DEF IInv
<1>1. ASSUME UNCHANGED <<claimTarget, scopeLocks>> PROVE PolicyLocksCompatible'
  BY <1>1, FewerScopeLocks
<1>2. ASSUME NEW T, DeleteClaims(T) PROVE PolicyLocksCompatible'
  <2>1. scopeLocks' \in SUBSET scopeLocks
    BY <1>2 DEF DeleteClaims
  <2>2. \A l \in scopeLocks' : l.token \in Token /\ claimTarget'[l.token] = claimTarget[l.token]
    BY <1>0, <1>2 DEF DeleteClaims, TypeOK, ScopeLock
  <2> QED BY <2>1, <2>2, FewerScopeLocks
<1>3. ASSUME NEW p \in Proc, AcquireRuntimeClaim(p) PROVE PolicyLocksCompatible'
  <2>1. PICK t \in Token, tg \in Target :
          /\ t = job[p].token /\ tg = job[p].target /\ LogOf(t) = {}
    BY <1>3 DEF AcquireRuntimeClaim, IInv, CallsInFlight, CallInFlight
  <2> DEFINE own == [token |-> t, scope |-> ScopeOf[tg], mode |-> "execute"]
  <2>2. /\ claimTarget' = [claimTarget EXCEPT ![t] = tg]
        /\ scopeLocks' = scopeLocks \cup {own} /\ ~Live(t)
    BY <1>3, <2>1, LiveIsLogged DEF AcquireRuntimeClaim
  <2>3. OwnTargetLock(own)'
    BY <1>0, <2>2, ConstantsOK DEF OwnTargetLock, Live, TypeOK
  <2>4. ASSUME NEW l \in scopeLocks, OwnTargetLock(l) PROVE OwnTargetLock(l)'
    <3>1. l.token \in Token /\ l.token # t
      BY <1>0, <2>2 DEF TypeOK, NoOrphans, ScopeLock
    <3> QED BY <1>0, <2>2, <2>4, <3>1 DEF OwnTargetLock, Live, TypeOK
  <2> SUFFICES ASSUME NEW l \in scopeLocks', NEW m \in scopeLocks', Clash(l, m)
               PROVE  OwnTargetLock(l)' \/ OwnTargetLock(m)'
    BY DEF PolicyLocksCompatible, Clash
  <2>5. CASE l = own \/ m = own
    BY <2>3, <2>5
  <2>6. CASE l \in scopeLocks /\ m \in scopeLocks
    BY <2>4, <2>6 DEF PolicyLocksCompatible
  <2> QED BY <2>2, <2>5, <2>6
<1>4. ASSUME NEW p \in Proc, AcquireRuntimeScopeLocks(p) PROVE PolicyLocksCompatible'
  <2> DEFINE t == job[p].token
             new == {[token |-> t, scope |-> r.scope, mode |-> r.mode] : r \in job[p].scopes}
  <2>1. claimTarget' = claimTarget
    BY <1>4 DEF AcquireRuntimeScopeLocks
  <2>2. CASE scopeLocks' = scopeLocks
    BY <1>1, <2>1, <2>2
  <2>3. CASE scopeLocks' = scopeLocks \cup new /\ ~ScopeConflict(t, job[p].scopes)
    <3>1. \A n \in new, l \in scopeLocks : ~Clash(l, n) /\ ~Clash(n, l)
      BY <2>3 DEF Clash, ScopeConflict, Compatible
    <3>2. \A n, n2 \in new : ~Clash(n, n2)
      BY DEF Clash
    <3> SUFFICES ASSUME NEW l \in scopeLocks', NEW m \in scopeLocks', Clash(l, m)
                 PROVE  OwnTargetLock(l)' \/ OwnTargetLock(m)'
      BY DEF PolicyLocksCompatible, Clash
    <3>3. l \in scopeLocks /\ m \in scopeLocks
      BY <2>3, <3>1, <3>2
    <3>4. OwnTargetLock(l) \/ OwnTargetLock(m)
      BY <3>3 DEF PolicyLocksCompatible
    <3> QED BY <2>1, <3>4 DEF OwnTargetLock, Live
  <2> QED BY <1>4, <2>2, <2>3 DEF AcquireRuntimeScopeLocks
<1>5. ASSUME NEW p \in Proc, RemoveRuntimeScopeLocks(p) PROVE PolicyLocksCompatible'
  BY <1>5, FewerScopeLocks DEF RemoveRuntimeScopeLocks
<1>6. ASSUME NEW p \in Proc,
             \/ FinalizeRuntimeExecution(p) \/ CleanupRuntimeClaims(p)
             \/ ReclaimExpiredRuntimeClaim(p) \/ ReleaseReconciledClaim(p)
      PROVE  PolicyLocksCompatible'
  BY <1>1, <1>2, <1>6 DEF FinalizeRuntimeExecution, CleanupRuntimeClaims,
     ReclaimExpiredRuntimeClaim, ReleaseReconciledClaim, db
<1>7. ASSUME NEW p \in Proc,
             \/ AcquireConflict(p) \/ LogAcquireConflict(p)
             \/ AcquireLocksTouch(p) \/ AcquireRuntimeLocks(p)
             \/ RemoveLocksTouch(p) \/ RemoveLocksCheck(p) \/ RemoveRuntimeLocks(p)
             \/ TouchClaimContext(p) \/ RecordVerifiedHistoricalMerge(p)
      PROVE  UNCHANGED <<claimTarget, scopeLocks>>
  BY <1>7 DEF AcquireConflict, LogAcquireConflict, AcquireLocksTouch, AcquireRuntimeLocks,
     RemoveLocksTouch, RemoveLocksCheck, RemoveRuntimeLocks, TouchClaimContext,
     TouchRenew, RecordVerifiedHistoricalMerge, db
<1>8. ASSUME NEW p \in Proc, Call(p) \/ Renew(p) \/ Crash(p)
      PROVE  UNCHANGED <<claimTarget, scopeLocks>>
  BY <1>8 DEF Call, Renew, Crash, db, Start, RenewRuntimeClaim, CallAcquireClaim,
     CallAcquireLocks, CallRemoveLocks, CallTouch, CallAcquireScopeLocks,
     CallRemoveScopeLocks, CallFinalize, CallCleanup, CallReclaim,
     CallRecordManifest, CallReleaseReconciled
<1>9. CASE Tick \/ UNCHANGED vars
  BY <1>1, <1>9 DEF Tick, vars, db
<1> QED
  <2>1. ASSUME NEW p \in Proc, Step(p) PROVE PolicyLocksCompatible'
    BY <1>1, <1>3, <1>4, <1>5, <1>6, <1>7, <2>1 DEF Step
  <2> QED BY <1>1, <1>8, <1>9, <2>1 DEF Next

(* Every scope lock that went through the lock policy is compatible with   *)
(* all others: two that exclude each other include the execute lock that   *)
(* acquireRuntimeClaim inserts for a claim's own target without a check.   *)
THEOREM PolicyHolds == Spec => []PolicyLocksCompatible
<1>1. Init => PolicyLocksCompatible
  BY DEF Init, PolicyLocksCompatible
<1>2. IInv /\ PolicyLocksCompatible /\ [Next]_vars => PolicyLocksCompatible'
  BY PolicyKept
<1> QED BY <1>1, <1>2, Invariance, PTL DEF Spec
=============================================================================
