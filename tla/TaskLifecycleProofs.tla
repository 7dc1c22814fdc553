------------------------ MODULE TaskLifecycleProofs -------------------------
(***************************************************************************)
(* Proofs about TaskLifecycle, for any number of processes, tokens and     *)
(* tasks: no claim is left behind by a command that failed, commands that  *)
(* do not overlap move a task along the profile, a recovery that succeeds  *)
(* leaves it claimable, and the commands use the store as ClaimAuthority   *)
(* says; and no task is left where no command gets hold of it again.       *)
(***************************************************************************)
EXTENDS TaskLifecycle, TLAPS

(* The rows: a task has one claim, locks and claims end together.          *)
OneClaimPerTask == \A t, u \in Token : Live(t) /\ claims[t] = claims[u] => t = u
LocksAreOwned == \A tk \in Task : fileLock[tk] # NoToken => Live(fileLock[tk])
EndedIsOver == \A t \in ended : ~Live(t)
Rows == OneClaimPerTask /\ LocksAreOwned /\ EndedIsOver

(* What a command in flight may rely on: what it is about, and, before it  *)
(* has a claim, that its token is nobody else's.                           *)
Pending(p) == job[p].pc \in {"reclaim", "acquire", "refused"}
Named(p) ==
  /\ Busy(p) => job[p].task \in Task
  /\ job[p].pc \notin {"idle", "gate"} => job[p].token \in Token
  /\ job[p].pc \in {"load", "audit", "write"} => job[p].op \in Verb \cup {"release"}
  /\ job[p].pc = "reset" => job[p].op \in Recovery
OwnToken(p) == Pending(p) =>
  /\ ~Live(job[p].token) /\ job[p].token \notin ended
  /\ \A q \in Proc : job[q].token = job[p].token => q = p
Calls == \A p \in Proc : Named(p) /\ OwnToken(p)

(* A claim was handed out, or a recovery is going to end it.               *)
Recovering(p, t) ==
  /\ job[p].op \in Recovery /\ job[p].token = t
  /\ job[p].pc \in {"reset", "check", "finalize", "rollback", "undo"}
Answered == \A t \in Token : Live(t) => t \in handed \/ \E p \in Proc : Recovering(p, t)

(* The log and the commands are never ahead of the clock.                  *)
Clock == /\ \A tk \in Task : latest[tk].at <= now
         /\ \A p \in Proc : job[p].at <= now

(* As long as commands on a task did not overlap, one that is going to     *)
(* write a status knows the one that is there.                             *)
Alone == \A p, q \in Proc : Busy(p) /\ Busy(q) /\ job[p].task = job[q].task => p = q
Knows(p) == LET j == job[p] IN
  /\ j.pc \in {"audit", "write"} => status[j.task] \in MovesFrom(j.op)
  /\ j.pc \in {"gate", "reclaim", "acquire", "reset"} /\ j.op \in Recovery =>
       j.read = "draft" \/ status[j.task] = j.read
  /\ j.pc \in {"reclaim", "acquire", "reset"} /\ j.op \in Recovery =>
       j.read \in {"ready", "running", "paused"}
  /\ j.pc \in {"check", "finalize"} /\ j.op \in Recovery => status[j.task] = "ready"
Informed == overlap \/ (Alone /\ \A p \in Proc : Knows(p))

IInv == TypeOK /\ Rows /\ Calls /\ Answered /\ Clock /\ Informed

-----------------------------------------------------------------------------
(* The three records that a job begins or ends with are jobs: of a process *)
(* that is idle ...                                                        *)
LEMMA IdleIsJob == ASSUME ConstantsOK PROVE Idle \in Job
BY DEF ConstantsOK, Idle, Job, Op, Status

(* ... of a command that loads a task, to claim or to recover it ...       *)
LEMMA LoadingIsJob ==
  ASSUME ConstantsOK, TypeOK, NEW tk \in Task, NEW op \in Recovery \cup {"claim"}
  PROVE  Loading(op, tk) \in Job
BY DEF ConstantsOK, TypeOK, Loading, Job, Op

(* ... and of a command that was called with a claim.                      *)
LEMMA HoldingIsJob ==
  ASSUME ConstantsOK, TypeOK, NEW t \in Token, Live(t), NEW pc \in {"load", "pause"}, NEW op \in Op
  PROVE  claims[t] \in Task /\ Holding(pc, op, t) \in Job
<1>1. claims[t] \in Task
  BY DEF TypeOK, Live
<1> QED
  BY <1>1 DEF Holding, Job, Status

(* The types of the parts of a job.                                        *)
LEMMA JobFacts ==
  ASSUME ConstantsOK, TypeOK, NEW p \in Proc
  PROVE  /\ job[p].op \in Op /\ job[p].read \in Status /\ job[p].at \in Nat
         /\ job[p].task \in Task \cup {NoTask} /\ job[p].token \in Token \cup {NoToken}
         /\ now \in Nat /\ 0 \in Nat
BY DEF ConstantsOK, TypeOK, Job

(* A command that moves on changes where it is, and no other command.      *)
LEMMA GotoEffect ==
  ASSUME TypeOK, NEW p \in Proc, NEW pc, Goto(p, pc),
         pc \in {"acquire", "refused", "audit", "write", "finalize", "reset", "check",
                 "rollback", "undo"}
  PROVE  /\ job' \in [Proc -> Job]
         /\ job'[p].pc = pc /\ job'[p].op = job[p].op /\ job'[p].task = job[p].task
         /\ job'[p].token = job[p].token /\ job'[p].read = job[p].read /\ job'[p].at = job[p].at
         /\ \A q \in Proc \ {p} : job'[q] = job[q]
BY DEF TypeOK, Goto, Job

(* A command that takes a token, or has stored it, keeps what it was called*)
(* for and what it has read.                                               *)
LEMMA ContinueEffect ==
  ASSUME TypeOK, NEW p \in Proc, NEW pc \in {"reclaim", "acquire", "reset"},
         NEW t \in Token, NEW at \in Nat, Continue(p, pc, t, at)
  PROVE  /\ job' \in [Proc -> Job]
         /\ job'[p].pc = pc /\ job'[p].op = job[p].op /\ job'[p].task = job[p].task
         /\ job'[p].token = t /\ job'[p].read = job[p].read /\ job'[p].at = at
         /\ \A q \in Proc \ {p} : job'[q] = job[q]
BY DEF TypeOK, Continue, Job

(* A command that begins, ends or begins anew.                             *)
LEMMA ReplaceEffect ==
  ASSUME TypeOK, NEW p \in Proc, NEW r \in Job, job' = [job EXCEPT ![p] = r]
  PROVE  /\ job' \in [Proc -> Job]
         /\ job'[p] = r
         /\ \A q \in Proc \ {p} : job'[q] = job[q]
BY DEF TypeOK

(* What is logged is an entry ...                                          *)
LEMMA LogEffect ==
  ASSUME TypeOK, NEW tk \in Task, NEW t \in Token, NEW state \in LogState, NEW at \in Nat,
         Log(tk, t, state, at)
  PROVE  latest' \in [Task -> Entry]
BY DEF TypeOK, Log, Entry

(* ... and it is not ahead of the clock.                                   *)
LEMMA LogClock ==
  ASSUME ConstantsOK, TypeOK, \A tk \in Task : latest[tk].at <= now,
         NEW tk \in Task, NEW t \in Token, NEW state, NEW at \in Nat, at <= now,
         Log(tk, t, state, at)
  PROVE  \A u \in Task : latest'[u].at <= now
BY DEF TypeOK, Log, Entry

(* Closing a claim touches that claim alone.                               *)
LEMMA CloseEffect ==
  ASSUME ConstantsOK, TypeOK, NEW t \in Token, Close(t)
  PROVE  /\ claims' \in [Token -> Task \cup {NoTask}]
         /\ claims'[t] = NoTask /\ \A u \in Token \ {t} : claims'[u] = claims[u]
         /\ expired' \subseteq {u \in Token : claims'[u] # NoTask}
         /\ fileLock' \in [Task -> Token \cup {NoToken}]
         /\ ended' \subseteq Token /\ handed' \subseteq Token
BY DEF ConstantsOK, TypeOK, Close

(* Every step leaves a job for every process.                              *)
LEMMA JobTyped ==
  ASSUME ConstantsOK, TypeOK, \A p \in Proc : Named(p), [Next]_vars
  PROVE  job' \in [Proc -> Job]
<1>1. ASSUME NEW p \in Proc, ClaimGate(p) PROVE job' \in [Proc -> Job]
  BY <1>1, IdleIsJob, ReplaceEffect, LoadingIsJob, ContinueEffect, JobFacts DEF TypeOK,
     ClaimGate, Return, Recovery, Named, Pending, At, Busy
<1>2. ASSUME NEW p \in Proc, RecoverGate(p) PROVE job' \in [Proc -> Job]
  BY <1>2, IdleIsJob, ReplaceEffect, ContinueEffect, JobFacts DEF TypeOK, RecoverGate,
     Return, Named, Pending, At
<1>3. ASSUME NEW p \in Proc, Reclaim(p) PROVE job' \in [Proc -> Job]
  BY <1>3, GotoEffect DEF TypeOK, Reclaim
<1>4. ASSUME NEW p \in Proc, Acquire(p) PROVE job' \in [Proc -> Job]
  BY <1>4, IdleIsJob, ReplaceEffect, ContinueEffect, JobFacts DEF TypeOK, Acquire, Return,
     Named, Pending, At
<1>5. ASSUME NEW p \in Proc, AcquireConflict(p) PROVE job' \in [Proc -> Job]
  BY <1>5, GotoEffect DEF TypeOK, AcquireConflict
<1>6. ASSUME NEW p \in Proc, LogConflict(p) PROVE job' \in [Proc -> Job]
  BY <1>6, IdleIsJob, ReplaceEffect DEF TypeOK, LogConflict, Return
<1>7. ASSUME NEW p \in Proc, LoadTask(p) PROVE job' \in [Proc -> Job]
  BY <1>7, GotoEffect, IdleIsJob, ReplaceEffect DEF TypeOK, LoadTask, Return
<1>8. ASSUME NEW p \in Proc, Audit(p) PROVE job' \in [Proc -> Job]
  BY <1>8, GotoEffect, IdleIsJob, ReplaceEffect DEF TypeOK, Audit, Return
<1>9. ASSUME NEW p \in Proc, WriteStatus(p) PROVE job' \in [Proc -> Job]
  BY <1>9, GotoEffect, IdleIsJob, ReplaceEffect DEF TypeOK, WriteStatus, Return
<1>10. ASSUME NEW p \in Proc, Complete(p) PROVE job' \in [Proc -> Job]
  BY <1>10, IdleIsJob, ReplaceEffect, LoadingIsJob DEF TypeOK, Complete, Return, Recovery,
     Named, Busy, At
<1>11. ASSUME NEW p \in Proc, CompleteFails(p) PROVE job' \in [Proc -> Job]
  BY <1>11, GotoEffect, IdleIsJob, ReplaceEffect DEF TypeOK, CompleteFails, Return
<1>12. ASSUME NEW p \in Proc, PauseHalted(p) PROVE job' \in [Proc -> Job]
  BY <1>12, IdleIsJob, ReplaceEffect DEF TypeOK, PauseHalted, Return
<1>13. ASSUME NEW p \in Proc, ResetStatus(p) PROVE job' \in [Proc -> Job]
  BY <1>13, GotoEffect DEF TypeOK, ResetStatus
<1>14. ASSUME NEW p \in Proc, RecoverAudit(p) PROVE job' \in [Proc -> Job]
  BY <1>14, GotoEffect DEF TypeOK, RecoverAudit
<1>15. ASSUME NEW p \in Proc, Rollback(p) PROVE job' \in [Proc -> Job]
  BY <1>15, GotoEffect DEF TypeOK, Rollback
<1>16. ASSUME NEW p \in Proc, HaltRecovery(p) PROVE job' \in [Proc -> Job]
  BY <1>16, IdleIsJob, ReplaceEffect DEF TypeOK, HaltRecovery, Return
<1>17. ASSUME NEW p \in Proc, Crash(p) PROVE job' \in [Proc -> Job]
  BY <1>17, IdleIsJob, ReplaceEffect DEF TypeOK, Crash, Return
<1>18. ASSUME NEW p \in Proc, NEW tk \in Task, CallClaim(p, tk) PROVE job' \in [Proc -> Job]
  BY <1>18, LoadingIsJob, ReplaceEffect DEF TypeOK, CallClaim, Recovery, Start
<1>19. ASSUME NEW p \in Proc, NEW tk \in Task, CallRecover(p, tk)
       PROVE  job' \in [Proc -> Job]
  BY <1>19, LoadingIsJob, ReplaceEffect DEF TypeOK, CallRecover, Recovery, Start
<1>20. ASSUME NEW p \in Proc, NEW t \in Token, NEW op \in Verb \cup {"release"},
              CallTransition(p, op, t)
       PROVE  job' \in [Proc -> Job]
  BY <1>20, ReplaceEffect, HoldingIsJob DEF TypeOK, CallTransition, Start, Active, Op
<1>21. ASSUME NEW p \in Proc, NEW t \in Token, NEW lockConflict \in BOOLEAN,
              ReleaseHalted(p, t, lockConflict)
       PROVE  job' \in [Proc -> Job]
  BY <1>21, ReplaceEffect, HoldingIsJob DEF TypeOK, ReleaseHalted, Start, Active, Op
<1>22. ASSUME NEW t \in Token, ReleaseFailed(t) PROVE job' \in [Proc -> Job]
  BY <1>22 DEF TypeOK, ReleaseFailed
<1>23. ASSUME NEW t \in Token, Expire(t) PROVE job' \in [Proc -> Job]
  BY <1>23 DEF TypeOK, Expire
<1>24. ASSUME NEW t \in Token, NEW tk \in Task, LockFile(t, tk) PROVE job' \in [Proc -> Job]
  BY <1>24 DEF TypeOK, LockFile
<1>25. ASSUME NEW tk \in Task, UnlockFile(tk) PROVE job' \in [Proc -> Job]
  BY <1>25 DEF TypeOK, UnlockFile
<1>26. ASSUME NEW tk \in Task, Promote(tk) PROVE job' \in [Proc -> Job]
  BY <1>26 DEF TypeOK, Promote
<1>27. ASSUME Tick PROVE job' \in [Proc -> Job]
  BY <1>27 DEF TypeOK, Tick
<1>28. CASE UNCHANGED vars
  BY <1>28 DEF vars, TypeOK
<1> QED
  BY <1>1, <1>2, <1>3, <1>4, <1>5, <1>6, <1>7, <1>8, <1>9, <1>10, <1>11, <1>12, <1>13,
     <1>14, <1>15, <1>16, <1>17, <1>18, <1>19, <1>20, <1>21, <1>22, <1>23, <1>24, <1>25,
     <1>26, <1>27, <1>28 DEF Next, Step

(* Every step keeps the types.                                             *)
LEMMA TypeKept ==
  ASSUME ConstantsOK, TypeOK, \A p \in Proc : Named(p), [Next]_vars
  PROVE  TypeOK'
<1>0. job' \in [Proc -> Job]
  BY JobTyped
<1>1. ASSUME NEW p \in Proc, ClaimGate(p) PROVE TypeOK'
  BY <1>0, <1>1, JobFacts DEF TypeOK, ClaimGate, store, Named, Busy, At
<1>2. ASSUME NEW p \in Proc, RecoverGate(p) PROVE TypeOK'
  BY <1>0, <1>2, JobFacts DEF TypeOK, RecoverGate, store, Named, Busy, At
<1>3. ASSUME NEW p \in Proc, Reclaim(p) PROVE TypeOK'
  BY <1>0, <1>3, JobFacts, CloseEffect, LogEffect DEF TypeOK, Reclaim, store, Named, Busy,
     At, Active, Live, LogState, Claims, ConstantsOK
<1>4. ASSUME NEW p \in Proc, Acquire(p) PROVE TypeOK'
  BY <1>0, <1>4, JobFacts, LogEffect DEF TypeOK, Acquire, store, Named, Busy, At,
     LogState, ConstantsOK
<1>5. ASSUME NEW p \in Proc, AcquireConflict(p) PROVE TypeOK'
  BY <1>0, <1>5, JobFacts DEF TypeOK, AcquireConflict, store, Named, Busy, At
<1>6. ASSUME NEW p \in Proc, LogConflict(p) PROVE TypeOK'
  BY <1>0, <1>6, JobFacts, LogEffect DEF TypeOK, LogConflict, store, Named, Busy, At,
     LogState
<1>7. ASSUME NEW p \in Proc, LoadTask(p) PROVE TypeOK'
  BY <1>0, <1>7, JobFacts DEF TypeOK, LoadTask, store, Named, Busy, At
<1>8. ASSUME NEW p \in Proc, Audit(p) PROVE TypeOK'
  BY <1>0, <1>8, JobFacts DEF TypeOK, Audit, store, Named, Busy, At
<1>9. ASSUME NEW p \in Proc, WriteStatus(p) PROVE TypeOK'
  BY <1>0, <1>9, JobFacts DEF TypeOK, WriteStatus, store, Named, Busy, At, MovesTo, Status
<1>10. ASSUME NEW p \in Proc, Complete(p) PROVE TypeOK'
  BY <1>0, <1>10, JobFacts, CloseEffect, LogEffect DEF TypeOK, Complete, store, Named,
     Busy, At, Active, Live, LogState
<1>11. ASSUME NEW p \in Proc, CompleteFails(p) PROVE TypeOK'
  BY <1>0, <1>11, JobFacts DEF TypeOK, CompleteFails, store, Named, Busy, At
<1>12. ASSUME NEW p \in Proc, PauseHalted(p) PROVE TypeOK'
  BY <1>0, <1>12, JobFacts DEF TypeOK, PauseHalted, store, Named, Busy, At, Status
<1>13. ASSUME NEW p \in Proc, ResetStatus(p) PROVE TypeOK'
  BY <1>0, <1>13, JobFacts DEF TypeOK, ResetStatus, store, Named, Busy, At, Status
<1>14. ASSUME NEW p \in Proc, RecoverAudit(p) PROVE TypeOK'
  BY <1>0, <1>14, JobFacts DEF TypeOK, RecoverAudit, store, Named, Busy, At
<1>15. ASSUME NEW p \in Proc, Rollback(p) PROVE TypeOK'
  BY <1>0, <1>15, JobFacts DEF TypeOK, Rollback, store, Named, Busy, At
<1>16. ASSUME NEW p \in Proc, HaltRecovery(p) PROVE TypeOK'
  BY <1>0, <1>16, JobFacts, CloseEffect, LogEffect DEF TypeOK, HaltRecovery, store, Named,
     Busy, At, Active, Live, LogState
<1>17. ASSUME NEW p \in Proc, Crash(p) PROVE TypeOK'
  BY <1>0, <1>17, JobFacts DEF TypeOK, Crash, store, Named, Busy, At
<1>18. ASSUME NEW p \in Proc, NEW tk \in Task, CallClaim(p, tk) PROVE TypeOK'
  BY <1>0, <1>18 DEF TypeOK, CallClaim, store, Begin, Start
<1>19. ASSUME NEW p \in Proc, NEW tk \in Task, CallRecover(p, tk) PROVE TypeOK'
  BY <1>0, <1>19 DEF TypeOK, CallRecover, store, Begin, Start
<1>20. ASSUME NEW p \in Proc, NEW t \in Token, NEW op \in Verb \cup {"release"},
              CallTransition(p, op, t)
       PROVE  TypeOK'
  BY <1>0, <1>20 DEF TypeOK, CallTransition, store, Begin, Start
<1>21. ASSUME NEW p \in Proc, NEW t \in Token, NEW lockConflict \in BOOLEAN,
              ReleaseHalted(p, t, lockConflict)
       PROVE  TypeOK'
  <2>1. overlap' \in BOOLEAN
    BY <1>21 DEF ReleaseHalted, Begin, Start, TypeOK
  <2>2. claims[t] \in Task
    BY <1>21 DEF ReleaseHalted, Live, TypeOK
  <2>3. latest' \in [Task -> Entry]
    BY <1>21, <2>2, LogEffect DEF ReleaseHalted, LogState, TypeOK, ConstantsOK
  <2> QED
    BY <1>0, <1>21, <2>1, <2>3, CloseEffect DEF ReleaseHalted, TypeOK
<1>22. ASSUME NEW t \in Token, ReleaseFailed(t) PROVE TypeOK'
  BY <1>0, <1>22, CloseEffect, LogEffect DEF TypeOK, ReleaseFailed, store, Active, Live,
     LogState, Begin, Start
<1>23. ASSUME NEW t \in Token, Expire(t) PROVE TypeOK'
  BY <1>0, <1>23 DEF TypeOK, Expire, store, Active, Live
<1>24. ASSUME NEW t \in Token, NEW tk \in Task, LockFile(t, tk) PROVE TypeOK'
  BY <1>0, <1>24 DEF TypeOK, LockFile, store
<1>25. ASSUME NEW tk \in Task, UnlockFile(tk) PROVE TypeOK'
  BY <1>0, <1>25 DEF TypeOK, UnlockFile, store
<1>26. ASSUME NEW tk \in Task, Promote(tk) PROVE TypeOK'
  BY <1>0, <1>26 DEF TypeOK, Promote, store, Status
<1>27. ASSUME Tick PROVE TypeOK'
  BY <1>0, <1>27, ConstantsOK DEF TypeOK, Tick, store, ConstantsOK
<1>28. CASE UNCHANGED vars
  BY <1>0, <1>28 DEF vars, TypeOK
<1> QED
  BY <1>1, <1>2, <1>3, <1>4, <1>5, <1>6, <1>7, <1>8, <1>9, <1>10, <1>11, <1>12, <1>13,
     <1>14, <1>15, <1>16, <1>17, <1>18, <1>19, <1>20, <1>21, <1>22, <1>23, <1>24, <1>25,
     <1>26, <1>27, <1>28 DEF Next, Step

(* What a step may do to the rows.                                         *)
StoreStep ==
  \/ UNCHANGED <<claims, fileLock, ended>>
  \/ \E t \in Token : Live(t) /\ Close(t)
  \/ \E p \in Proc : Acquire(p) \/ LogConflict(p)
  \/ \E t \in Token, tk \in Task : LockFile(t, tk)
  \/ \E tk \in Task : UnlockFile(tk)

(* Every step of Next is one of the six things that happen to the rows: a  *)
(* case split that the proofs about the rows start from.                   *)
LEMMA StoreSteps ==
  ASSUME ConstantsOK, TypeOK, \A p \in Proc : Named(p), [Next]_vars
  PROVE  StoreStep
<1> USE DEF StoreStep
<1>1. ASSUME NEW p \in Proc, ClaimGate(p) PROVE StoreStep
  BY <1>1 DEF ClaimGate, store
<1>2. ASSUME NEW p \in Proc, RecoverGate(p) PROVE StoreStep
  BY <1>2 DEF RecoverGate, store
<1>3. ASSUME NEW p \in Proc, Reclaim(p) PROVE StoreStep
  BY <1>3 DEF Reclaim, store, Active, Live, Claims, Named, At, TypeOK, ConstantsOK
<1>4. ASSUME NEW p \in Proc, Acquire(p) PROVE StoreStep
  BY <1>4 DEF Acquire, store
<1>5. ASSUME NEW p \in Proc, AcquireConflict(p) PROVE StoreStep
  BY <1>5 DEF AcquireConflict, store
<1>6. ASSUME NEW p \in Proc, LogConflict(p) PROVE StoreStep
  BY <1>6 DEF LogConflict, store
<1>7. ASSUME NEW p \in Proc, LoadTask(p) PROVE StoreStep
  BY <1>7 DEF LoadTask, store
<1>8. ASSUME NEW p \in Proc, Audit(p) PROVE StoreStep
  BY <1>8 DEF Audit, store
<1>9. ASSUME NEW p \in Proc, WriteStatus(p) PROVE StoreStep
  BY <1>9 DEF WriteStatus, store
<1>10. ASSUME NEW p \in Proc, Complete(p) PROVE StoreStep
  BY <1>10 DEF Complete, store, Active, Live, Claims, Named, At, TypeOK, ConstantsOK
<1>11. ASSUME NEW p \in Proc, CompleteFails(p) PROVE StoreStep
  BY <1>11 DEF CompleteFails, store
<1>12. ASSUME NEW p \in Proc, PauseHalted(p) PROVE StoreStep
  BY <1>12 DEF PauseHalted, store
<1>13. ASSUME NEW p \in Proc, ResetStatus(p) PROVE StoreStep
  BY <1>13 DEF ResetStatus, store
<1>14. ASSUME NEW p \in Proc, RecoverAudit(p) PROVE StoreStep
  BY <1>14 DEF RecoverAudit, store
<1>15. ASSUME NEW p \in Proc, Rollback(p) PROVE StoreStep
  BY <1>15 DEF Rollback, store
<1>16. ASSUME NEW p \in Proc, HaltRecovery(p) PROVE StoreStep
  BY <1>16 DEF HaltRecovery, store, Active, Live, Claims, Named, At, TypeOK, ConstantsOK
<1>17. ASSUME NEW p \in Proc, Crash(p) PROVE StoreStep
  BY <1>17 DEF Crash, store
<1>18. ASSUME NEW p \in Proc, NEW tk \in Task, CallClaim(p, tk) PROVE StoreStep
  BY <1>18 DEF CallClaim, store
<1>19. ASSUME NEW p \in Proc, NEW tk \in Task, CallRecover(p, tk) PROVE StoreStep
  BY <1>19 DEF CallRecover, store
<1>20. ASSUME NEW p \in Proc, NEW t \in Token, NEW op \in Verb \cup {"release"},
              CallTransition(p, op, t)
       PROVE  StoreStep
  BY <1>20 DEF CallTransition, store
<1>21. ASSUME NEW p \in Proc, NEW t \in Token, NEW lockConflict \in BOOLEAN,
              ReleaseHalted(p, t, lockConflict)
       PROVE  StoreStep
  BY <1>21 DEF ReleaseHalted, store, Active, Live, Claims, Named, At, TypeOK, ConstantsOK
<1>22. ASSUME NEW t \in Token, ReleaseFailed(t) PROVE StoreStep
  BY <1>22 DEF ReleaseFailed, store, Active, Live, Claims, Named, At, TypeOK, ConstantsOK
<1>23. ASSUME NEW t \in Token, Expire(t) PROVE StoreStep
  BY <1>23 DEF Expire, store
<1>24. ASSUME NEW t \in Token, NEW tk \in Task, LockFile(t, tk) PROVE StoreStep
  BY <1>24 DEF LockFile, store
<1>25. ASSUME NEW tk \in Task, UnlockFile(tk) PROVE StoreStep
  BY <1>25 DEF UnlockFile, store
<1>26. ASSUME NEW tk \in Task, Promote(tk) PROVE StoreStep
  BY <1>26 DEF Promote, store
<1>27. ASSUME Tick PROVE StoreStep
  BY <1>27 DEF Tick, store
<1>28. CASE UNCHANGED vars
  BY <1>28 DEF vars
<1> QED
  BY <1>1, <1>2, <1>3, <1>4, <1>5, <1>6, <1>7, <1>8, <1>9, <1>10, <1>11, <1>12, <1>13,
     <1>14, <1>15, <1>16, <1>17, <1>18, <1>19, <1>20, <1>21, <1>22, <1>23, <1>24, <1>25,
     <1>26, <1>27, <1>28 DEF Next, Step

(* A claim is stored only for a task that has none, a lock only for a live *)
(* claim, and closing a claim takes its locks along; so the rows stay      *)
(* consistent.                                                             *)
LEMMA RowsKept ==
  ASSUME ConstantsOK, TypeOK, Rows, Calls, StoreStep
  PROVE  Rows'
<1> USE DEF Rows, OneClaimPerTask, LocksAreOwned, EndedIsOver, Live
<1>1. CASE UNCHANGED <<claims, fileLock, ended>>
  BY <1>1
<1>2. ASSUME NEW t \in Token, Live(t), Close(t) PROVE Rows'
  BY <1>2 DEF Close, TypeOK, ConstantsOK
<1>3. ASSUME NEW p \in Proc, Acquire(p) PROVE Rows'
  BY <1>3 DEF Acquire, Blocked, Claims, At, Calls, Named, OwnToken, Pending, Busy, TypeOK,
     ConstantsOK
<1>4. ASSUME NEW p \in Proc, LogConflict(p) PROVE Rows'
  BY <1>4 DEF LogConflict, At, Calls, OwnToken, Pending, TypeOK
<1>5. ASSUME NEW t \in Token, NEW tk \in Task, LockFile(t, tk) PROVE Rows'
  BY <1>5 DEF LockFile, TypeOK
<1>6. ASSUME NEW tk \in Task, UnlockFile(tk) PROVE Rows'
  BY <1>6 DEF UnlockFile, TypeOK
<1> QED
  BY <1>1, <1>2, <1>3, <1>4, <1>5, <1>6 DEF StoreStep

(* Every step keeps what a command knows of its task, its token and what it*)
(* was called for.                                                         *)
LEMMA NamedKept ==
  ASSUME ConstantsOK, TypeOK, \A p \in Proc : Named(p), [Next]_vars
  PROVE  \A q \in Proc : Named(q)'
<1> USE DEF Named, Busy
<1>1. ASSUME NEW p \in Proc, ClaimGate(p) PROVE \A q \in Proc : Named(q)'
  <2>0. job[p].task \in Task
    BY <1>1 DEF ClaimGate, At
  <2>1. CASE \E t \in Token : Fresh(t) /\ Continue(p, "acquire", t, now)
    BY <2>0, <1>1, <2>1, ContinueEffect, JobFacts DEF At
  <2>2. CASE job' = [job EXCEPT ![p] = Loading("claimRecover", job[p].task)]
    BY <2>0, <1>1, <2>2, LoadingIsJob, ReplaceEffect DEF At, Loading, Recovery
  <2>3. CASE Return(p)
    BY <2>0, <1>1, <2>3, IdleIsJob, ReplaceEffect DEF At, Return, Idle
  <2> QED
    BY <1>1, <2>1, <2>2, <2>3 DEF ClaimGate
<1>2. ASSUME NEW p \in Proc, RecoverGate(p) PROVE \A q \in Proc : Named(q)'
  BY <1>2, IdleIsJob, ReplaceEffect, ContinueEffect, JobFacts DEF RecoverGate, Return,
     Idle, At
<1>3. ASSUME NEW p \in Proc, Reclaim(p) PROVE \A q \in Proc : Named(q)'
  BY <1>3, GotoEffect DEF Reclaim, At
<1>4. ASSUME NEW p \in Proc, Acquire(p) PROVE \A q \in Proc : Named(q)'
  BY <1>4, IdleIsJob, ReplaceEffect, ContinueEffect, JobFacts DEF Acquire, Return, Idle, At
<1>5. ASSUME NEW p \in Proc, AcquireConflict(p) PROVE \A q \in Proc : Named(q)'
  BY <1>5, GotoEffect DEF AcquireConflict, At
<1>6. ASSUME NEW p \in Proc, LogConflict(p) PROVE \A q \in Proc : Named(q)'
  BY <1>6, IdleIsJob, ReplaceEffect DEF LogConflict, Return, Idle, At
<1>7. ASSUME NEW p \in Proc, LoadTask(p) PROVE \A q \in Proc : Named(q)'
  BY <1>7, GotoEffect, IdleIsJob, ReplaceEffect DEF LoadTask, Return, Idle, At
<1>8. ASSUME NEW p \in Proc, Audit(p) PROVE \A q \in Proc : Named(q)'
  BY <1>8, GotoEffect, IdleIsJob, ReplaceEffect DEF Audit, Return, Idle, At
<1>9. ASSUME NEW p \in Proc, WriteStatus(p) PROVE \A q \in Proc : Named(q)'
  BY <1>9, GotoEffect, IdleIsJob, ReplaceEffect DEF WriteStatus, Return, Idle, At
<1>10. ASSUME NEW p \in Proc, Complete(p) PROVE \A q \in Proc : Named(q)'
  <2>0. job[p].task \in Task
    BY <1>10 DEF Complete, At
  <2>1. CASE job' = [job EXCEPT ![p] = Loading("claim", job[p].task)]
    BY <2>0, <1>10, <2>1, LoadingIsJob, ReplaceEffect DEF At, Loading, Recovery
  <2>2. CASE Return(p)
    BY <2>0, <1>10, <2>2, IdleIsJob, ReplaceEffect DEF At, Return, Idle
  <2> QED
    BY <1>10, <2>1, <2>2 DEF Complete
<1>11. ASSUME NEW p \in Proc, CompleteFails(p) PROVE \A q \in Proc : Named(q)'
  BY <1>11, GotoEffect, IdleIsJob, ReplaceEffect DEF CompleteFails, Return, Idle, At
<1>12. ASSUME NEW p \in Proc, PauseHalted(p) PROVE \A q \in Proc : Named(q)'
  BY <1>12, IdleIsJob, ReplaceEffect DEF PauseHalted, Return, Idle, At
<1>13. ASSUME NEW p \in Proc, ResetStatus(p) PROVE \A q \in Proc : Named(q)'
  BY <1>13, GotoEffect DEF ResetStatus, At
<1>14. ASSUME NEW p \in Proc, RecoverAudit(p) PROVE \A q \in Proc : Named(q)'
  BY <1>14, GotoEffect DEF RecoverAudit, At
<1>15. ASSUME NEW p \in Proc, Rollback(p) PROVE \A q \in Proc : Named(q)'
  BY <1>15, GotoEffect DEF Rollback, At
<1>16. ASSUME NEW p \in Proc, HaltRecovery(p) PROVE \A q \in Proc : Named(q)'
  BY <1>16, IdleIsJob, ReplaceEffect DEF HaltRecovery, Return, Idle, At
<1>17. ASSUME NEW p \in Proc, Crash(p) PROVE \A q \in Proc : Named(q)'
  BY <1>17, IdleIsJob, ReplaceEffect DEF Crash, Return, Idle, At
<1>18. ASSUME NEW p \in Proc, NEW tk \in Task, CallClaim(p, tk)
       PROVE  \A q \in Proc : Named(q)'
  BY <1>18, LoadingIsJob, ReplaceEffect DEF CallClaim, Recovery, Loading, Start
<1>19. ASSUME NEW p \in Proc, NEW tk \in Task, CallRecover(p, tk)
       PROVE  \A q \in Proc : Named(q)'
  BY <1>19, LoadingIsJob, ReplaceEffect DEF CallRecover, Recovery, Loading, Start
<1>20. ASSUME NEW p \in Proc, NEW t \in Token, NEW op \in Verb \cup {"release"},
              CallTransition(p, op, t)
       PROVE  \A q \in Proc : Named(q)'
  BY <1>20, ReplaceEffect, HoldingIsJob DEF CallTransition, Start, Active, Op, Holding
<1>21. ASSUME NEW p \in Proc, NEW t \in Token, NEW lockConflict \in BOOLEAN,
              ReleaseHalted(p, t, lockConflict)
       PROVE  \A q \in Proc : Named(q)'
  <2>0. Live(t) /\ claims[t] \in Task
    BY <1>21 DEF ReleaseHalted, Live, TypeOK
  <2>1. CASE job' = [job EXCEPT ![p] = Holding("pause", "halt", t)]
    BY <2>0, <1>21, <2>1, HoldingIsJob, ReplaceEffect DEF Holding, Op
  <2>2. CASE UNCHANGED job
    BY <2>0, <1>21, <2>2
  <2> QED
    BY <1>21, <2>1, <2>2 DEF ReleaseHalted, Start
<1>22. ASSUME NEW t \in Token, ReleaseFailed(t) PROVE \A q \in Proc : Named(q)'
  BY <1>22 DEF ReleaseFailed
<1>23. ASSUME NEW t \in Token, Expire(t) PROVE \A q \in Proc : Named(q)'
  BY <1>23 DEF Expire
<1>24. ASSUME NEW t \in Token, NEW tk \in Task, LockFile(t, tk)
       PROVE  \A q \in Proc : Named(q)'
  BY <1>24 DEF LockFile
<1>25. ASSUME NEW tk \in Task, UnlockFile(tk) PROVE \A q \in Proc : Named(q)'
  BY <1>25 DEF UnlockFile
<1>26. ASSUME NEW tk \in Task, Promote(tk) PROVE \A q \in Proc : Named(q)'
  BY <1>26 DEF Promote
<1>27. ASSUME Tick PROVE \A q \in Proc : Named(q)'
  BY <1>27 DEF Tick
<1>28. CASE UNCHANGED vars
  BY <1>28 DEF vars
<1> QED
  BY <1>1, <1>2, <1>3, <1>4, <1>5, <1>6, <1>7, <1>8, <1>9, <1>10, <1>11, <1>12, <1>13,
     <1>14, <1>15, <1>16, <1>17, <1>18, <1>19, <1>20, <1>21, <1>22, <1>23, <1>24, <1>25,
     <1>26, <1>27, <1>28 DEF Next, Step

(* A token that a command has drawn and not stored yet is not drawn by     *)
(* another one, nor becomes live or ended by what others do.               *)
LEMMA OwnKept ==
  ASSUME ConstantsOK, TypeOK, Calls, [Next]_vars
  PROVE  \A q \in Proc : OwnToken(q)'
<1> USE DEF Calls, OwnToken, Pending, Live
<1>1. ASSUME NEW p \in Proc, ClaimGate(p) PROVE \A q \in Proc : OwnToken(q)'
  <2>0. job[p].task \in Task
    BY <1>1 DEF ClaimGate, At, Named, Busy
  <2>1. CASE \E t \in Token : Fresh(t) /\ Continue(p, "acquire", t, now)
    BY <2>0, <1>1, <2>1, ContinueEffect, JobFacts DEF ClaimGate, At, store, Fresh,
       TypeOK, ConstantsOK, Named, Busy
  <2>2. CASE job' = [job EXCEPT ![p] = Loading("claimRecover", job[p].task)]
    BY <2>0, <1>1, <2>2, LoadingIsJob, ReplaceEffect DEF ClaimGate, At, store, Fresh,
       TypeOK, ConstantsOK, Named, Busy, Loading, Recovery
  <2>3. CASE Return(p)
    BY <2>0, <1>1, <2>3, IdleIsJob, ReplaceEffect DEF ClaimGate, At, store, Fresh,
       TypeOK, ConstantsOK, Named, Busy, Return, Idle
  <2> QED
    BY <1>1, <2>1, <2>2, <2>3 DEF ClaimGate
<1>2. ASSUME NEW p \in Proc, RecoverGate(p) PROVE \A q \in Proc : OwnToken(q)'
  <2>0. job[p].task \in Task
    BY <1>2 DEF RecoverGate, At, Named, Busy
  <2>1. CASE \E t \in Token : Fresh(t) /\ Continue(p, "reclaim", t, job[p].at)
    BY <2>0, <1>2, <2>1, ContinueEffect, JobFacts DEF RecoverGate, At, store, Fresh,
       TypeOK, ConstantsOK, Named, Busy
  <2>2. CASE Return(p)
    BY <2>0, <1>2, <2>2, IdleIsJob, ReplaceEffect DEF RecoverGate, At, store, Fresh,
       TypeOK, ConstantsOK, Named, Busy, Return, Idle
  <2> QED
    BY <1>2, <2>1, <2>2 DEF RecoverGate
<1>3. ASSUME NEW p \in Proc, Reclaim(p) PROVE \A q \in Proc : OwnToken(q)'
  BY <1>3, GotoEffect DEF Reclaim, At, Close, Active, store, Fresh, TypeOK, ConstantsOK,
     Named, Busy, Claims
<1>4. ASSUME NEW p \in Proc, Acquire(p) PROVE \A q \in Proc : OwnToken(q)'
  <2>0. job[p].task \in Task /\ job[p].token \in Token
    BY <1>4 DEF Acquire, At, Named, Busy
  <2>1. CASE job[p].op \in Recovery
    <3>1. /\ job'[p].pc = "reset" /\ job'[p].op = job[p].op /\ job'[p].task = job[p].task
          /\ job'[p].token = job[p].token /\ \A q \in Proc \ {p} : job'[q] = job[q]
      BY <2>0, <1>4, <2>1, ContinueEffect, JobFacts DEF Acquire
    <3>2. \A q \in Proc : job[q].token = job[p].token => q = p
      BY <1>4 DEF Acquire, At
    <3>3. \A t \in Token \ {job[p].token} : claims'[t] = claims[t]
      BY <1>4 DEF Acquire, TypeOK
    <3>4. UNCHANGED ended
      BY <1>4 DEF Acquire
    <3> QED
      BY <2>0, <3>1, <3>2, <3>3, <3>4 DEF Named
  <2>2. CASE job[p].op \notin Recovery
    BY <2>0, <1>4, <2>2, IdleIsJob, ReplaceEffect, JobFacts DEF Acquire, At, store,
       Fresh, TypeOK, ConstantsOK, Named, Busy, Return, Idle
  <2> QED
    BY <1>4, <2>1, <2>2 DEF Acquire
<1>5. ASSUME NEW p \in Proc, AcquireConflict(p) PROVE \A q \in Proc : OwnToken(q)'
  BY <1>5, GotoEffect DEF AcquireConflict, At, store, Fresh, TypeOK, ConstantsOK, Named,
     Busy
<1>6. ASSUME NEW p \in Proc, LogConflict(p) PROVE \A q \in Proc : OwnToken(q)'
  BY <1>6, IdleIsJob, ReplaceEffect DEF LogConflict, Return, Idle, At, store, Fresh,
     TypeOK, ConstantsOK, Named, Busy
<1>7. ASSUME NEW p \in Proc, LoadTask(p) PROVE \A q \in Proc : OwnToken(q)'
  BY <1>7, GotoEffect, IdleIsJob, ReplaceEffect DEF LoadTask, Return, Idle, At, store,
     Fresh, TypeOK, ConstantsOK, Named, Busy
<1>8. ASSUME NEW p \in Proc, Audit(p) PROVE \A q \in Proc : OwnToken(q)'
  BY <1>8, GotoEffect, IdleIsJob, ReplaceEffect DEF Audit, Return, Idle, At, store, Fresh,
     TypeOK, ConstantsOK, Named, Busy
<1>9. ASSUME NEW p \in Proc, WriteStatus(p) PROVE \A q \in Proc : OwnToken(q)'
  BY <1>9, GotoEffect, IdleIsJob, ReplaceEffect DEF WriteStatus, Return, Idle, At, store,
     Fresh, TypeOK, ConstantsOK, Named, Busy
<1>10. ASSUME NEW p \in Proc, Complete(p) PROVE \A q \in Proc : OwnToken(q)'
  <2>0. job[p].task \in Task /\ job[p].token \in Token
    BY <1>10 DEF Complete, At, Named, Busy
  <2>1. CASE job' = [job EXCEPT ![p] = Loading("claim", job[p].task)]
    BY <2>0, <1>10, <2>1, LoadingIsJob, ReplaceEffect DEF Complete, At, store, Fresh,
       TypeOK, ConstantsOK, Named, Busy, Close, Active, Loading, Recovery
  <2>2. CASE Return(p)
    BY <2>0, <1>10, <2>2, IdleIsJob, ReplaceEffect DEF Complete, At, store, Fresh,
       TypeOK, ConstantsOK, Named, Busy, Close, Active, Return, Idle
  <2> QED
    BY <1>10, <2>1, <2>2 DEF Complete
<1>11. ASSUME NEW p \in Proc, CompleteFails(p) PROVE \A q \in Proc : OwnToken(q)'
  BY <1>11, GotoEffect, IdleIsJob, ReplaceEffect DEF CompleteFails, Return, Idle, At,
     store, Fresh, TypeOK, ConstantsOK, Named, Busy
<1>12. ASSUME NEW p \in Proc, PauseHalted(p) PROVE \A q \in Proc : OwnToken(q)'
  BY <1>12, IdleIsJob, ReplaceEffect DEF PauseHalted, Return, Idle, At, store, Fresh,
     TypeOK, ConstantsOK, Named, Busy
<1>13. ASSUME NEW p \in Proc, ResetStatus(p) PROVE \A q \in Proc : OwnToken(q)'
  BY <1>13, GotoEffect DEF ResetStatus, At, store, Fresh, TypeOK, ConstantsOK, Named, Busy
<1>14. ASSUME NEW p \in Proc, RecoverAudit(p) PROVE \A q \in Proc : OwnToken(q)'
  BY <1>14, GotoEffect DEF RecoverAudit, At, store, Fresh, TypeOK, ConstantsOK, Named, Busy
<1>15. ASSUME NEW p \in Proc, Rollback(p) PROVE \A q \in Proc : OwnToken(q)'
  BY <1>15, GotoEffect DEF Rollback, At, store, Fresh, TypeOK, ConstantsOK, Named, Busy
<1>16. ASSUME NEW p \in Proc, HaltRecovery(p) PROVE \A q \in Proc : OwnToken(q)'
  BY <1>16, IdleIsJob, ReplaceEffect DEF HaltRecovery, Return, Idle, At, Close, Active,
     store, Fresh, TypeOK, ConstantsOK, Named, Busy
<1>17. ASSUME NEW p \in Proc, Crash(p) PROVE \A q \in Proc : OwnToken(q)'
  BY <1>17, IdleIsJob, ReplaceEffect DEF Crash, Return, Idle, At, store, Fresh, TypeOK,
     ConstantsOK, Named, Busy
<1>18. ASSUME NEW p \in Proc, NEW tk \in Task, CallClaim(p, tk)
       PROVE  \A q \in Proc : OwnToken(q)'
  BY <1>18, LoadingIsJob, ReplaceEffect DEF CallClaim, Recovery, Loading, Start, store,
     Fresh, TypeOK, ConstantsOK, Named, Busy
<1>19. ASSUME NEW p \in Proc, NEW tk \in Task, CallRecover(p, tk)
       PROVE  \A q \in Proc : OwnToken(q)'
  BY <1>19, LoadingIsJob, ReplaceEffect DEF CallRecover, Recovery, Loading, Start, store,
     Fresh, TypeOK, ConstantsOK, Named, Busy
<1>20. ASSUME NEW p \in Proc, NEW t \in Token, NEW op \in Verb \cup {"release"},
              CallTransition(p, op, t)
       PROVE  \A q \in Proc : OwnToken(q)'
  BY <1>20, ReplaceEffect, HoldingIsJob DEF CallTransition, Start, Active, Op, Holding,
     store, Fresh, TypeOK, ConstantsOK, Named, Busy
<1>21. ASSUME NEW p \in Proc, NEW t \in Token, NEW lockConflict \in BOOLEAN,
              ReleaseHalted(p, t, lockConflict)
       PROVE  \A q \in Proc : OwnToken(q)'
  <2>0. Live(t) /\ claims[t] \in Task
    BY <1>21 DEF ReleaseHalted, Live, TypeOK
  <2>1. CASE job' = [job EXCEPT ![p] = Holding("pause", "halt", t)]
    BY <2>0, <1>21, <2>1, HoldingIsJob, ReplaceEffect DEF ReleaseHalted, At, store,
       Fresh, TypeOK, ConstantsOK, Named, Busy, Close, Active, Holding, Op
  <2>2. CASE UNCHANGED job
    BY <2>0, <1>21, <2>2 DEF ReleaseHalted, At, store, Fresh, TypeOK, ConstantsOK,
       Named, Busy, Close, Active
  <2> QED
    BY <1>21, <2>1, <2>2 DEF ReleaseHalted, Start
<1>22. ASSUME NEW t \in Token, ReleaseFailed(t) PROVE \A q \in Proc : OwnToken(q)'
  BY <1>22 DEF ReleaseFailed, Close, Active, store, Fresh, TypeOK, ConstantsOK, Named, Busy
<1>23. ASSUME NEW t \in Token, Expire(t) PROVE \A q \in Proc : OwnToken(q)'
  BY <1>23 DEF Expire, store, Fresh, TypeOK, ConstantsOK, Named, Busy
<1>24. ASSUME NEW t \in Token, NEW tk \in Task, LockFile(t, tk)
       PROVE  \A q \in Proc : OwnToken(q)'
  BY <1>24 DEF LockFile, store, Fresh, TypeOK, ConstantsOK, Named, Busy
<1>25. ASSUME NEW tk \in Task, UnlockFile(tk) PROVE \A q \in Proc : OwnToken(q)'
  BY <1>25 DEF UnlockFile, store, Fresh, TypeOK, ConstantsOK, Named, Busy
<1>26. ASSUME NEW tk \in Task, Promote(tk) PROVE \A q \in Proc : OwnToken(q)'
  BY <1>26 DEF Promote, store, Fresh, TypeOK, ConstantsOK, Named, Busy
<1>27. ASSUME Tick PROVE \A q \in Proc : OwnToken(q)'
  BY <1>27 DEF Tick, store, Fresh, TypeOK, ConstantsOK, Named, Busy
<1>28. CASE UNCHANGED vars
  BY <1>28 DEF vars
<1> QED
  BY <1>1, <1>2, <1>3, <1>4, <1>5, <1>6, <1>7, <1>8, <1>9, <1>10, <1>11, <1>12, <1>13,
     <1>14, <1>15, <1>16, <1>17, <1>18, <1>19, <1>20, <1>21, <1>22, <1>23, <1>24, <1>25,
     <1>26, <1>27, <1>28 DEF Next, Step

(* A claim is stored by a claim command, which hands it out, or by a       *)
(* recovery, which goes on with it until it has closed it; a command that  *)
(* is killed leaves it to the agents.                                      *)
LEMMA AnsweredKept ==
  ASSUME ConstantsOK, TypeOK, Calls, Answered, [Next]_vars
  PROVE  Answered'
<1> USE DEF Answered, Recovering, Live
<1>1. ASSUME NEW p \in Proc, ClaimGate(p) PROVE Answered'
  <2>0. job[p].task \in Task
    BY <1>1 DEF ClaimGate, At, Named, Busy, Calls
  <2>1. CASE \E t \in Token : Fresh(t) /\ Continue(p, "acquire", t, now)
    BY <2>0, <1>1, <2>1, ContinueEffect, JobFacts DEF ClaimGate, At, store, TypeOK,
       ConstantsOK, Calls, Named, Busy, Recovery
  <2>2. CASE job' = [job EXCEPT ![p] = Loading("claimRecover", job[p].task)]
    BY <2>0, <1>1, <2>2, LoadingIsJob, ReplaceEffect DEF ClaimGate, At, store, TypeOK,
       ConstantsOK, Calls, Named, Busy, Recovery, Loading
  <2>3. CASE Return(p)
    BY <2>0, <1>1, <2>3, IdleIsJob, ReplaceEffect DEF ClaimGate, At, store, TypeOK,
       ConstantsOK, Calls, Named, Busy, Recovery, Return, Idle
  <2> QED
    BY <1>1, <2>1, <2>2, <2>3 DEF ClaimGate
<1>2. ASSUME NEW p \in Proc, RecoverGate(p) PROVE Answered'
  <2>0. job[p].task \in Task
    BY <1>2 DEF RecoverGate, At, Named, Busy, Calls
  <2>1. CASE \E t \in Token : Fresh(t) /\ Continue(p, "reclaim", t, job[p].at)
    BY <2>0, <1>2, <2>1, ContinueEffect, JobFacts DEF RecoverGate, At, store, TypeOK,
       ConstantsOK, Calls, Named, Busy, Recovery
  <2>2. CASE Return(p)
    BY <2>0, <1>2, <2>2, IdleIsJob, ReplaceEffect DEF RecoverGate, At, store, TypeOK,
       ConstantsOK, Calls, Named, Busy, Recovery, Return, Idle
  <2> QED
    BY <1>2, <2>1, <2>2 DEF RecoverGate
<1>3. ASSUME NEW p \in Proc, Reclaim(p) PROVE Answered'
  <2>0. job[p].task \in Task /\ job[p].token \in Token
    BY <1>3 DEF Reclaim, At, Named, Busy, Calls
  <2>1. CASE Claims(job[p].task) \cap expired = {}
    BY <2>0, <1>3, <2>1, GotoEffect, JobFacts DEF Reclaim, At, store, TypeOK,
       ConstantsOK, Calls, Named, Busy, Recovery, Close, Active, Claims
  <2>2. CASE Claims(job[p].task) \cap expired # {}
    BY <2>0, <1>3, <2>2, GotoEffect, JobFacts DEF Reclaim, At, store, TypeOK,
       ConstantsOK, Calls, Named, Busy, Recovery, Close, Active, Claims
  <2> QED
    BY <1>3, <2>1, <2>2 DEF Reclaim
<1>4. ASSUME NEW p \in Proc, Acquire(p) PROVE Answered'
  <2>0. job[p].task \in Task /\ job[p].token \in Token
    BY <1>4 DEF Acquire, At, Named, Busy, Calls
  <2>1. CASE job[p].op \in Recovery
    BY <2>0, <1>4, <2>1, ContinueEffect, JobFacts DEF Acquire, At, store, TypeOK,
       ConstantsOK, Calls, Named, Busy, Recovery
  <2>2. CASE job[p].op \notin Recovery
    BY <2>0, <1>4, <2>2, IdleIsJob, ReplaceEffect, JobFacts DEF Acquire, At, store,
       TypeOK, ConstantsOK, Calls, Named, Busy, Recovery, Return, Idle
  <2> QED
    BY <1>4, <2>1, <2>2 DEF Acquire
<1>5. ASSUME NEW p \in Proc, AcquireConflict(p) PROVE Answered'
  BY <1>5, GotoEffect DEF AcquireConflict, At, store, TypeOK, ConstantsOK, Calls, Named,
     Busy, Recovery
<1>6. ASSUME NEW p \in Proc, LogConflict(p) PROVE Answered'
  BY <1>6, IdleIsJob, ReplaceEffect DEF LogConflict, Return, Idle, At, store, TypeOK,
     ConstantsOK, Calls, Named, Busy, Recovery
<1>7. ASSUME NEW p \in Proc, LoadTask(p) PROVE Answered'
  BY <1>7, GotoEffect, IdleIsJob, ReplaceEffect DEF LoadTask, Return, Idle, At, store,
     TypeOK, ConstantsOK, Calls, Named, Busy, Recovery
<1>8. ASSUME NEW p \in Proc, Audit(p) PROVE Answered'
  BY <1>8, GotoEffect, IdleIsJob, ReplaceEffect DEF Audit, Return, Idle, At, store,
     TypeOK, ConstantsOK, Calls, Named, Busy, Recovery
<1>9. ASSUME NEW p \in Proc, WriteStatus(p) PROVE Answered'
  BY <1>9, GotoEffect, IdleIsJob, ReplaceEffect DEF WriteStatus, Return, Idle, At, store,
     TypeOK, ConstantsOK, Calls, Named, Busy, Recovery
<1>10. ASSUME NEW p \in Proc, Complete(p) PROVE Answered'
  <2>0. job[p].task \in Task /\ job[p].token \in Token
    BY <1>10 DEF Complete, At, Named, Busy, Calls
  <2>1. CASE job' = [job EXCEPT ![p] = Loading("claim", job[p].task)]
    BY <2>0, <1>10, <2>1, LoadingIsJob, ReplaceEffect DEF Complete, At, store, TypeOK,
       ConstantsOK, Calls, Named, Busy, Recovery, Close, Active, Loading
  <2>2. CASE Return(p)
    BY <2>0, <1>10, <2>2, IdleIsJob, ReplaceEffect DEF Complete, At, store, TypeOK,
       ConstantsOK, Calls, Named, Busy, Recovery, Close, Active, Return, Idle
  <2> QED
    BY <1>10, <2>1, <2>2 DEF Complete
<1>11. ASSUME NEW p \in Proc, CompleteFails(p) PROVE Answered'
  BY <1>11, GotoEffect, IdleIsJob, ReplaceEffect DEF CompleteFails, Return, Idle, At,
     store, TypeOK, ConstantsOK, Calls, Named, Busy, Recovery
<1>12. ASSUME NEW p \in Proc, PauseHalted(p) PROVE Answered'
  BY <1>12, IdleIsJob, ReplaceEffect DEF PauseHalted, Return, Idle, At, store, TypeOK,
     ConstantsOK, Calls, Named, Busy, Recovery
<1>13. ASSUME NEW p \in Proc, ResetStatus(p) PROVE Answered'
  BY <1>13, GotoEffect DEF ResetStatus, At, store, TypeOK, ConstantsOK, Calls, Named,
     Busy, Recovery
<1>14. ASSUME NEW p \in Proc, RecoverAudit(p) PROVE Answered'
  BY <1>14, GotoEffect DEF RecoverAudit, At, store, TypeOK, ConstantsOK, Calls, Named,
     Busy, Recovery
<1>15. ASSUME NEW p \in Proc, Rollback(p) PROVE Answered'
  BY <1>15, GotoEffect DEF Rollback, At, store, TypeOK, ConstantsOK, Calls, Named, Busy,
     Recovery
<1>16. ASSUME NEW p \in Proc, HaltRecovery(p) PROVE Answered'
  BY <1>16, IdleIsJob, ReplaceEffect DEF HaltRecovery, Return, Idle, At, store, TypeOK,
     ConstantsOK, Calls, Named, Busy, Recovery, Close, Active
<1>17. ASSUME NEW p \in Proc, Crash(p) PROVE Answered'
  BY <1>17, IdleIsJob, ReplaceEffect DEF Crash, Return, Idle, At, store, TypeOK,
     ConstantsOK, Calls, Named, Busy, Recovery
<1>18. ASSUME NEW p \in Proc, NEW tk \in Task, CallClaim(p, tk) PROVE Answered'
  BY <1>18, LoadingIsJob, ReplaceEffect DEF CallClaim, Recovery, Loading, Start, store,
     TypeOK, ConstantsOK, Calls, Named, Busy
<1>19. ASSUME NEW p \in Proc, NEW tk \in Task, CallRecover(p, tk) PROVE Answered'
  BY <1>19, LoadingIsJob, ReplaceEffect DEF CallRecover, Recovery, Loading, Start, store,
     TypeOK, ConstantsOK, Calls, Named, Busy
<1>20. ASSUME NEW p \in Proc, NEW t \in Token, NEW op \in Verb \cup {"release"},
              CallTransition(p, op, t)
       PROVE  Answered'
  BY <1>20, ReplaceEffect, HoldingIsJob DEF CallTransition, Start, Active, Op, Holding,
     store, TypeOK, ConstantsOK, Calls, Named, Busy, Recovery
<1>21. ASSUME NEW p \in Proc, NEW t \in Token, NEW lockConflict \in BOOLEAN,
              ReleaseHalted(p, t, lockConflict)
       PROVE  Answered'
  <2>0. Live(t) /\ claims[t] \in Task
    BY <1>21 DEF ReleaseHalted, Live, TypeOK, Calls
  <2>1. CASE job' = [job EXCEPT ![p] = Holding("pause", "halt", t)]
    BY <2>0, <1>21, <2>1, HoldingIsJob, ReplaceEffect DEF ReleaseHalted, At, store,
       TypeOK, ConstantsOK, Calls, Named, Busy, Recovery, Close, Active, Holding, Op
  <2>2. CASE UNCHANGED job
    BY <2>0, <1>21, <2>2 DEF ReleaseHalted, At, store, TypeOK, ConstantsOK, Calls,
       Named, Busy, Recovery, Close, Active
  <2> QED
    BY <1>21, <2>1, <2>2 DEF ReleaseHalted, Start
<1>22. ASSUME NEW t \in Token, ReleaseFailed(t) PROVE Answered'
  BY <1>22 DEF ReleaseFailed, store, TypeOK, ConstantsOK, Calls, Named, Busy, Recovery,
     Close, Active
<1>23. ASSUME NEW t \in Token, Expire(t) PROVE Answered'
  BY <1>23 DEF Expire, store, TypeOK, ConstantsOK, Calls, Named, Busy, Recovery
<1>24. ASSUME NEW t \in Token, NEW tk \in Task, LockFile(t, tk) PROVE Answered'
  BY <1>24 DEF LockFile, store, TypeOK, ConstantsOK, Calls, Named, Busy, Recovery
<1>25. ASSUME NEW tk \in Task, UnlockFile(tk) PROVE Answered'
  BY <1>25 DEF UnlockFile, store, TypeOK, ConstantsOK, Calls, Named, Busy, Recovery
<1>26. ASSUME NEW tk \in Task, Promote(tk) PROVE Answered'
  BY <1>26 DEF Promote, store, TypeOK, ConstantsOK, Calls, Named, Busy, Recovery
<1>27. ASSUME Tick PROVE Answered'
  BY <1>27 DEF Tick, store, TypeOK, ConstantsOK, Calls, Named, Busy, Recovery
<1>28. CASE UNCHANGED vars
  BY <1>28 DEF vars
<1> QED
  BY <1>1, <1>2, <1>3, <1>4, <1>5, <1>6, <1>7, <1>8, <1>9, <1>10, <1>11, <1>12, <1>13,
     <1>14, <1>15, <1>16, <1>17, <1>18, <1>19, <1>20, <1>21, <1>22, <1>23, <1>24, <1>25,
     <1>26, <1>27, <1>28 DEF Next, Step

(* What was read from the clock stays in the past.                         *)
LEMMA ClockKept ==
  ASSUME ConstantsOK, TypeOK, Calls, Clock, [Next]_vars
  PROVE  Clock'
<1> USE DEF Clock
<1>1. ASSUME NEW p \in Proc, ClaimGate(p) PROVE Clock'
  <2>0. job[p].task \in Task
    BY <1>1 DEF ClaimGate, At, Named, Busy, Calls
  <2>1. CASE \E t \in Token : Fresh(t) /\ Continue(p, "acquire", t, now)
    BY <2>0, <1>1, <2>1, ContinueEffect, JobFacts, LogClock DEF ClaimGate, Return, Idle,
       Recovery, Loading, At, TypeOK, ConstantsOK, Named, Busy, Calls
  <2>2. CASE job' = [job EXCEPT ![p] = Loading("claimRecover", job[p].task)]
    BY <2>0, <1>1, <2>2, LoadingIsJob, ReplaceEffect, LogClock DEF ClaimGate, Return,
       Idle, Recovery, Loading, At, TypeOK, ConstantsOK, Named, Busy, Calls
  <2>3. CASE Return(p)
    BY <2>0, <1>1, <2>3, IdleIsJob, ReplaceEffect, LogClock DEF ClaimGate, Return, Idle,
       Recovery, Loading, At, TypeOK, ConstantsOK, Named, Busy, Calls
  <2> QED
    BY <1>1, <2>1, <2>2, <2>3 DEF ClaimGate
<1>2. ASSUME NEW p \in Proc, RecoverGate(p) PROVE Clock'
  <2>0. job[p].task \in Task
    BY <1>2 DEF RecoverGate, At, Named, Busy, Calls
  <2>1. CASE \E t \in Token : Fresh(t) /\ Continue(p, "reclaim", t, job[p].at)
    BY <2>0, <1>2, <2>1, ContinueEffect, JobFacts, LogClock DEF RecoverGate, Return,
       Idle, At, TypeOK, ConstantsOK, Named, Busy, Calls
  <2>2. CASE Return(p)
    BY <2>0, <1>2, <2>2, IdleIsJob, ReplaceEffect, LogClock DEF RecoverGate, Return,
       Idle, At, TypeOK, ConstantsOK, Named, Busy, Calls
  <2> QED
    BY <1>2, <2>1, <2>2 DEF RecoverGate
<1>3. ASSUME NEW p \in Proc, Reclaim(p) PROVE Clock'
  <2>0. job[p].task \in Task /\ job[p].token \in Token
    BY <1>3 DEF Reclaim, At, Named, Busy, Calls
  <2>1. CASE Claims(job[p].task) \cap expired = {}
    BY <2>0, <1>3, <2>1, GotoEffect, JobFacts, LogClock DEF Reclaim, At, TypeOK,
       ConstantsOK, Named, Busy, Calls, Active, Live
  <2>2. CASE Claims(job[p].task) \cap expired # {}
    BY <2>0, <1>3, <2>2, GotoEffect, JobFacts, LogClock DEF Reclaim, At, TypeOK,
       ConstantsOK, Named, Busy, Calls, Active, Live, Claims
  <2> QED
    BY <1>3, <2>1, <2>2 DEF Reclaim
<1>4. ASSUME NEW p \in Proc, Acquire(p) PROVE Clock'
  <2>0. job[p].task \in Task /\ job[p].token \in Token
    BY <1>4 DEF Acquire, At, Named, Busy, Calls
  <2>1. CASE job[p].op \in Recovery
    BY <2>0, <1>4, <2>1, ContinueEffect, JobFacts, LogClock DEF Acquire, Return, Idle,
       At, TypeOK, ConstantsOK, Named, Busy, Calls
  <2>2. CASE job[p].op \notin Recovery
    BY <2>0, <1>4, <2>2, IdleIsJob, ReplaceEffect, JobFacts, LogClock DEF Acquire,
       Return, Idle, At, TypeOK, ConstantsOK, Named, Busy, Calls
  <2> QED
    BY <1>4, <2>1, <2>2 DEF Acquire
<1>5. ASSUME NEW p \in Proc, AcquireConflict(p) PROVE Clock'
  BY <1>5, GotoEffect, JobFacts DEF AcquireConflict, At, TypeOK, ConstantsOK, Named, Busy,
     Calls
<1>6. ASSUME NEW p \in Proc, LogConflict(p) PROVE Clock'
  BY <1>6, IdleIsJob, ReplaceEffect, LogClock, JobFacts, JobFacts DEF LogConflict, Return,
     Idle, At, TypeOK, ConstantsOK, Named, Busy, Calls
<1>7. ASSUME NEW p \in Proc, LoadTask(p) PROVE Clock'
  BY <1>7, GotoEffect, IdleIsJob, ReplaceEffect, JobFacts DEF LoadTask, Return, Idle, At,
     TypeOK, ConstantsOK, Named, Busy, Calls
<1>8. ASSUME NEW p \in Proc, Audit(p) PROVE Clock'
  BY <1>8, GotoEffect, IdleIsJob, ReplaceEffect, JobFacts DEF Audit, Return, Idle, At,
     TypeOK, ConstantsOK, Named, Busy, Calls
<1>9. ASSUME NEW p \in Proc, WriteStatus(p) PROVE Clock'
  BY <1>9, GotoEffect, IdleIsJob, ReplaceEffect, JobFacts DEF WriteStatus, Return, Idle,
     At, TypeOK, ConstantsOK, Named, Busy, Calls
<1>10. ASSUME NEW p \in Proc, Complete(p) PROVE Clock'
  <2>0. job[p].task \in Task /\ job[p].token \in Token
    BY <1>10 DEF Complete, At, Named, Busy, Calls
  <2>1. CASE job' = [job EXCEPT ![p] = Loading("claim", job[p].task)]
    BY <2>0, <1>10, <2>1, LoadingIsJob, ReplaceEffect, LogClock DEF Complete, Return,
       Idle, Recovery, Loading, At, TypeOK, ConstantsOK, Named, Busy, Calls, Active,
       Live
  <2>2. CASE Return(p)
    BY <2>0, <1>10, <2>2, IdleIsJob, ReplaceEffect, LogClock DEF Complete, Return, Idle,
       Recovery, Loading, At, TypeOK, ConstantsOK, Named, Busy, Calls, Active, Live
  <2> QED
    BY <1>10, <2>1, <2>2 DEF Complete
<1>11. ASSUME NEW p \in Proc, CompleteFails(p) PROVE Clock'
  BY <1>11, GotoEffect, IdleIsJob, ReplaceEffect, JobFacts DEF CompleteFails, Return,
     Idle, At, TypeOK, ConstantsOK, Named, Busy, Calls
<1>12. ASSUME NEW p \in Proc, PauseHalted(p) PROVE Clock'
  BY <1>12, IdleIsJob, ReplaceEffect, JobFacts DEF PauseHalted, Return, Idle, At, TypeOK,
     ConstantsOK, Named, Busy, Calls
<1>13. ASSUME NEW p \in Proc, ResetStatus(p) PROVE Clock'
  BY <1>13, GotoEffect, JobFacts DEF ResetStatus, At, TypeOK, ConstantsOK, Named, Busy,
     Calls
<1>14. ASSUME NEW p \in Proc, RecoverAudit(p) PROVE Clock'
  BY <1>14, GotoEffect, JobFacts DEF RecoverAudit, At, TypeOK, ConstantsOK, Named, Busy,
     Calls
<1>15. ASSUME NEW p \in Proc, Rollback(p) PROVE Clock'
  BY <1>15, GotoEffect, JobFacts DEF Rollback, At, TypeOK, ConstantsOK, Named, Busy, Calls
<1>16. ASSUME NEW p \in Proc, HaltRecovery(p) PROVE Clock'
  BY <1>16, IdleIsJob, ReplaceEffect, LogClock, JobFacts, JobFacts DEF HaltRecovery,
     Return, Idle, At, TypeOK, ConstantsOK, Named, Busy, Calls, Active, Live
<1>17. ASSUME NEW p \in Proc, Crash(p) PROVE Clock'
  BY <1>17, IdleIsJob, ReplaceEffect, JobFacts DEF Crash, Return, Idle, At, TypeOK,
     ConstantsOK, Named, Busy, Calls
<1>18. ASSUME NEW p \in Proc, NEW tk \in Task, CallClaim(p, tk) PROVE Clock'
  BY <1>18, LoadingIsJob, ReplaceEffect DEF CallClaim, Recovery, Loading, Start, TypeOK,
     ConstantsOK, Named, Busy, Calls
<1>19. ASSUME NEW p \in Proc, NEW tk \in Task, CallRecover(p, tk) PROVE Clock'
  BY <1>19, LoadingIsJob, ReplaceEffect DEF CallRecover, Recovery, Loading, Start, TypeOK,
     ConstantsOK, Named, Busy, Calls
<1>20. ASSUME NEW p \in Proc, NEW t \in Token, NEW op \in Verb \cup {"release"},
              CallTransition(p, op, t)
       PROVE  Clock'
  BY <1>20, ReplaceEffect, HoldingIsJob DEF CallTransition, Start, Active, Op, Holding,
     TypeOK, ConstantsOK, Named, Busy, Calls
<1>21. ASSUME NEW p \in Proc, NEW t \in Token, NEW lockConflict \in BOOLEAN,
              ReleaseHalted(p, t, lockConflict)
       PROVE  Clock'
  <2>0. Live(t) /\ claims[t] \in Task
    BY <1>21 DEF ReleaseHalted, Live, TypeOK, Calls
  <2>1. CASE job' = [job EXCEPT ![p] = Holding("pause", "halt", t)]
    BY <2>0, <1>21, <2>1, HoldingIsJob, ReplaceEffect, LogClock DEF ReleaseHalted,
       Start, Active, Op, Holding, TypeOK, ConstantsOK, Named, Busy, Calls, Live
  <2>2. CASE UNCHANGED job
    BY <2>0, <1>21, <2>2, LogClock DEF ReleaseHalted, Start, Active, Op, Holding,
       TypeOK, ConstantsOK, Named, Busy, Calls, Live
  <2> QED
    BY <1>21, <2>1, <2>2 DEF ReleaseHalted, Start
<1>22. ASSUME NEW t \in Token, ReleaseFailed(t) PROVE Clock'
  BY <1>22, LogClock, JobFacts DEF ReleaseFailed, TypeOK, ConstantsOK, Named, Busy, Calls,
     Active, Live
<1>23. ASSUME NEW t \in Token, Expire(t) PROVE Clock'
  BY <1>23 DEF Expire, TypeOK, ConstantsOK, Named, Busy, Calls
<1>24. ASSUME NEW t \in Token, NEW tk \in Task, LockFile(t, tk) PROVE Clock'
  BY <1>24 DEF LockFile, TypeOK, ConstantsOK, Named, Busy, Calls
<1>25. ASSUME NEW tk \in Task, UnlockFile(tk) PROVE Clock'
  BY <1>25 DEF UnlockFile, TypeOK, ConstantsOK, Named, Busy, Calls
<1>26. ASSUME NEW tk \in Task, Promote(tk) PROVE Clock'
  BY <1>26 DEF Promote, TypeOK, ConstantsOK, Named, Busy, Calls
<1>27. ASSUME Tick PROVE Clock'
  BY <1>27 DEF Tick, TypeOK, ConstantsOK, Named, Busy, Calls, Entry, Job
<1>28. CASE UNCHANGED vars
  BY <1>28 DEF vars
<1> QED
  BY <1>1, <1>2, <1>3, <1>4, <1>5, <1>6, <1>7, <1>8, <1>9, <1>10, <1>11, <1>12, <1>13,
     <1>14, <1>15, <1>16, <1>17, <1>18, <1>19, <1>20, <1>21, <1>22, <1>23, <1>24, <1>25,
     <1>26, <1>27, <1>28 DEF Next, Step

(* The history of overlapping commands is not forgotten.                   *)
LEMMA OverlapStays ==
  ASSUME ConstantsOK, TypeOK, overlap, [Next]_vars
  PROVE  overlap'
<1>1. ASSUME NEW p \in Proc, ClaimGate(p) PROVE overlap'
  BY <1>1 DEF ClaimGate
<1>2. ASSUME NEW p \in Proc, RecoverGate(p) PROVE overlap'
  BY <1>2 DEF RecoverGate
<1>3. ASSUME NEW p \in Proc, Reclaim(p) PROVE overlap'
  BY <1>3 DEF Reclaim
<1>4. ASSUME NEW p \in Proc, Acquire(p) PROVE overlap'
  BY <1>4 DEF Acquire
<1>5. ASSUME NEW p \in Proc, AcquireConflict(p) PROVE overlap'
  BY <1>5 DEF AcquireConflict
<1>6. ASSUME NEW p \in Proc, LogConflict(p) PROVE overlap'
  BY <1>6 DEF LogConflict
<1>7. ASSUME NEW p \in Proc, LoadTask(p) PROVE overlap'
  BY <1>7 DEF LoadTask
<1>8. ASSUME NEW p \in Proc, Audit(p) PROVE overlap'
  BY <1>8 DEF Audit
<1>9. ASSUME NEW p \in Proc, WriteStatus(p) PROVE overlap'
  BY <1>9 DEF WriteStatus
<1>10. ASSUME NEW p \in Proc, Complete(p) PROVE overlap'
  BY <1>10 DEF Complete
<1>11. ASSUME NEW p \in Proc, CompleteFails(p) PROVE overlap'
  BY <1>11 DEF CompleteFails
<1>12. ASSUME NEW p \in Proc, PauseHalted(p) PROVE overlap'
  BY <1>12 DEF PauseHalted
<1>13. ASSUME NEW p \in Proc, ResetStatus(p) PROVE overlap'
  BY <1>13 DEF ResetStatus
<1>14. ASSUME NEW p \in Proc, RecoverAudit(p) PROVE overlap'
  BY <1>14 DEF RecoverAudit
<1>15. ASSUME NEW p \in Proc, Rollback(p) PROVE overlap'
  BY <1>15 DEF Rollback
<1>16. ASSUME NEW p \in Proc, HaltRecovery(p) PROVE overlap'
  BY <1>16 DEF HaltRecovery
<1>17. ASSUME NEW p \in Proc, Crash(p) PROVE overlap'
  BY <1>17 DEF Crash
<1>18. ASSUME NEW p \in Proc, NEW tk \in Task, CallClaim(p, tk) PROVE overlap'
  BY <1>18 DEF CallClaim, Begin, Start
<1>19. ASSUME NEW p \in Proc, NEW tk \in Task, CallRecover(p, tk) PROVE overlap'
  BY <1>19 DEF CallRecover, Begin, Start
<1>20. ASSUME NEW p \in Proc, NEW t \in Token, NEW op \in Verb \cup {"release"},
              CallTransition(p, op, t)
       PROVE  overlap'
  BY <1>20 DEF CallTransition, Begin, Start
<1>21. ASSUME NEW p \in Proc, NEW t \in Token, NEW lockConflict \in BOOLEAN,
              ReleaseHalted(p, t, lockConflict)
       PROVE  overlap'
  BY <1>21 DEF ReleaseHalted, Begin, Start
<1>22. ASSUME NEW t \in Token, ReleaseFailed(t) PROVE overlap'
  BY <1>22 DEF ReleaseFailed, Begin, Start
<1>23. ASSUME NEW t \in Token, Expire(t) PROVE overlap'
  BY <1>23 DEF Expire
<1>24. ASSUME NEW t \in Token, NEW tk \in Task, LockFile(t, tk) PROVE overlap'
  BY <1>24 DEF LockFile
<1>25. ASSUME NEW tk \in Task, UnlockFile(tk) PROVE overlap'
  BY <1>25 DEF UnlockFile
<1>26. ASSUME NEW tk \in Task, Promote(tk) PROVE overlap'
  BY <1>26 DEF Promote
<1>27. ASSUME Tick PROVE overlap'
  BY <1>27 DEF Tick
<1>28. CASE UNCHANGED vars
  BY <1>28 DEF vars
<1> QED
  BY <1>1, <1>2, <1>3, <1>4, <1>5, <1>6, <1>7, <1>8, <1>9, <1>10, <1>11, <1>12, <1>13,
     <1>14, <1>15, <1>16, <1>17, <1>18, <1>19, <1>20, <1>21, <1>22, <1>23, <1>24, <1>25,
     <1>26, <1>27, <1>28 DEF Next, Step

(* A command that begins without overlapping another one on its task is the*)
(* only one on that task.                                                  *)
LEMMA StartsAlone ==
  ASSUME TypeOK, Alone, NEW p \in Proc, NEW j \in Job, Start(p, j), ~overlap'
  PROVE  Alone'
<1>1. \A q \in Proc : Busy(q) => job[q].task # j.task
  BY DEF Start, Begin
<1>2. job'[p] = j /\ \A q \in Proc \ {p} : job'[q] = job[q]
  BY ReplaceEffect DEF Start
<1> QED
  BY <1>1, <1>2 DEF Alone, Busy

(* Commands on one task that do not overlap stay alone on it: a command in *)
(* flight never changes its task.                                          *)
LEMMA AloneKept ==
  ASSUME ConstantsOK, TypeOK, Calls, Alone, ~overlap, ~overlap', [Next]_vars
  PROVE  Alone'
<1> USE DEF Alone, Busy
<1>1. ASSUME NEW p \in Proc, ClaimGate(p) PROVE Alone'
  <2>0. job[p].task \in Task
    BY <1>1 DEF ClaimGate, At, Named, Busy, Calls
  <2>1. CASE \E t \in Token : Fresh(t) /\ Continue(p, "acquire", t, now)
    BY <2>0, <1>1, <2>1, ContinueEffect, JobFacts DEF ClaimGate, Return, Idle, Recovery,
       Loading, At, TypeOK, ConstantsOK, Calls, Named
  <2>2. CASE job' = [job EXCEPT ![p] = Loading("claimRecover", job[p].task)]
    BY <2>0, <1>1, <2>2, LoadingIsJob, ReplaceEffect DEF ClaimGate, Return, Idle,
       Recovery, Loading, At, TypeOK, ConstantsOK, Calls, Named
  <2>3. CASE Return(p)
    BY <2>0, <1>1, <2>3, IdleIsJob, ReplaceEffect DEF ClaimGate, Return, Idle, Recovery,
       Loading, At, TypeOK, ConstantsOK, Calls, Named
  <2> QED
    BY <1>1, <2>1, <2>2, <2>3 DEF ClaimGate
<1>2. ASSUME NEW p \in Proc, RecoverGate(p) PROVE Alone'
  <2>0. job[p].task \in Task
    BY <1>2 DEF RecoverGate, At, Named, Busy, Calls
  <2>1. CASE \E t \in Token : Fresh(t) /\ Continue(p, "reclaim", t, job[p].at)
    BY <2>0, <1>2, <2>1, ContinueEffect, JobFacts DEF RecoverGate, Return, Idle, At,
       TypeOK, ConstantsOK, Calls, Named
  <2>2. CASE Return(p)
    BY <2>0, <1>2, <2>2, IdleIsJob, ReplaceEffect DEF RecoverGate, Return, Idle, At,
       TypeOK, ConstantsOK, Calls, Named
  <2> QED
    BY <1>2, <2>1, <2>2 DEF RecoverGate
<1>3. ASSUME NEW p \in Proc, Reclaim(p) PROVE Alone'
  <2>0. job[p].task \in Task /\ job[p].token \in Token
    BY <1>3 DEF Reclaim, At, Named, Busy, Calls
  <2>1. CASE Claims(job[p].task) \cap expired = {}
    BY <2>0, <1>3, <2>1, GotoEffect, JobFacts DEF Reclaim, At, TypeOK, ConstantsOK,
       Calls, Named
  <2>2. CASE Claims(job[p].task) \cap expired # {}
    BY <2>0, <1>3, <2>2, GotoEffect, JobFacts DEF Reclaim, At, TypeOK, ConstantsOK,
       Calls, Named, Claims
  <2> QED
    BY <1>3, <2>1, <2>2 DEF Reclaim
<1>4. ASSUME NEW p \in Proc, Acquire(p) PROVE Alone'
  <2>0. job[p].task \in Task /\ job[p].token \in Token
    BY <1>4 DEF Acquire, At, Named, Busy, Calls
  <2>1. CASE job[p].op \in Recovery
    BY <2>0, <1>4, <2>1, ContinueEffect, JobFacts DEF Acquire, Return, Idle, At, TypeOK,
       ConstantsOK, Calls, Named
  <2>2. CASE job[p].op \notin Recovery
    BY <2>0, <1>4, <2>2, IdleIsJob, ReplaceEffect, JobFacts DEF Acquire, Return, Idle,
       At, TypeOK, ConstantsOK, Calls, Named
  <2> QED
    BY <1>4, <2>1, <2>2 DEF Acquire
<1>5. ASSUME NEW p \in Proc, AcquireConflict(p) PROVE Alone'
  BY <1>5, GotoEffect, JobFacts DEF AcquireConflict, At, TypeOK, ConstantsOK, Calls, Named
<1>6. ASSUME NEW p \in Proc, LogConflict(p) PROVE Alone'
  BY <1>6, IdleIsJob, ReplaceEffect, JobFacts DEF LogConflict, Return, Idle, At, TypeOK,
     ConstantsOK, Calls, Named
<1>7. ASSUME NEW p \in Proc, LoadTask(p) PROVE Alone'
  BY <1>7, GotoEffect, IdleIsJob, ReplaceEffect, JobFacts DEF LoadTask, Return, Idle, At,
     TypeOK, ConstantsOK, Calls, Named
<1>8. ASSUME NEW p \in Proc, Audit(p) PROVE Alone'
  BY <1>8, GotoEffect, IdleIsJob, ReplaceEffect, JobFacts DEF Audit, Return, Idle, At,
     TypeOK, ConstantsOK, Calls, Named
<1>9. ASSUME NEW p \in Proc, WriteStatus(p) PROVE Alone'
  BY <1>9, GotoEffect, IdleIsJob, ReplaceEffect, JobFacts DEF WriteStatus, Return, Idle,
     At, TypeOK, ConstantsOK, Calls, Named
<1>10. ASSUME NEW p \in Proc, Complete(p) PROVE Alone'
  <2>0. job[p].task \in Task /\ job[p].token \in Token
    BY <1>10 DEF Complete, At, Named, Busy, Calls
  <2>1. CASE job' = [job EXCEPT ![p] = Loading("claim", job[p].task)]
    BY <2>0, <1>10, <2>1, LoadingIsJob, ReplaceEffect DEF Complete, Return, Idle,
       Recovery, Loading, At, TypeOK, ConstantsOK, Calls, Named
  <2>2. CASE Return(p)
    BY <2>0, <1>10, <2>2, IdleIsJob, ReplaceEffect DEF Complete, Return, Idle, Recovery,
       Loading, At, TypeOK, ConstantsOK, Calls, Named
  <2> QED
    BY <1>10, <2>1, <2>2 DEF Complete
<1>11. ASSUME NEW p \in Proc, CompleteFails(p) PROVE Alone'
  BY <1>11, GotoEffect, IdleIsJob, ReplaceEffect, JobFacts DEF CompleteFails, Return,
     Idle, At, TypeOK, ConstantsOK, Calls, Named
<1>12. ASSUME NEW p \in Proc, PauseHalted(p) PROVE Alone'
  BY <1>12, IdleIsJob, ReplaceEffect, JobFacts DEF PauseHalted, Return, Idle, At, TypeOK,
     ConstantsOK, Calls, Named
<1>13. ASSUME NEW p \in Proc, ResetStatus(p) PROVE Alone'
  BY <1>13, GotoEffect, JobFacts DEF ResetStatus, At, TypeOK, ConstantsOK, Calls, Named
<1>14. ASSUME NEW p \in Proc, RecoverAudit(p) PROVE Alone'
  BY <1>14, GotoEffect, JobFacts DEF RecoverAudit, At, TypeOK, ConstantsOK, Calls, Named
<1>15. ASSUME NEW p \in Proc, Rollback(p) PROVE Alone'
  BY <1>15, GotoEffect, JobFacts DEF Rollback, At, TypeOK, ConstantsOK, Calls, Named
<1>16. ASSUME NEW p \in Proc, HaltRecovery(p) PROVE Alone'
  BY <1>16, IdleIsJob, ReplaceEffect, JobFacts DEF HaltRecovery, Return, Idle, At, TypeOK,
     ConstantsOK, Calls, Named
<1>17. ASSUME NEW p \in Proc, Crash(p) PROVE Alone'
  BY <1>17, IdleIsJob, ReplaceEffect, JobFacts DEF Crash, Return, Idle, At, TypeOK,
     ConstantsOK, Calls, Named
<1>18. ASSUME NEW p \in Proc, NEW tk \in Task, CallClaim(p, tk) PROVE Alone'
  BY <1>18, LoadingIsJob, StartsAlone DEF CallClaim, Recovery
<1>19. ASSUME NEW p \in Proc, NEW tk \in Task, CallRecover(p, tk) PROVE Alone'
  BY <1>19, LoadingIsJob, StartsAlone DEF CallRecover, Recovery
<1>20. ASSUME NEW p \in Proc, NEW t \in Token, NEW op \in Verb \cup {"release"},
              CallTransition(p, op, t)
       PROVE  Alone'
  <2>1. Live(t) /\ op \in Op
    BY <1>20 DEF CallTransition, Active, Op
  <2> QED
    BY <1>20, <2>1, HoldingIsJob, StartsAlone DEF CallTransition
<1>21. ASSUME NEW p \in Proc, NEW t \in Token, NEW lockConflict \in BOOLEAN,
              ReleaseHalted(p, t, lockConflict)
       PROVE  Alone'
  <2>0. Live(t) /\ claims[t] \in Task
    BY <1>21 DEF ReleaseHalted, Live, TypeOK, Calls
  <2>1. CASE job' = [job EXCEPT ![p] = Holding("pause", "halt", t)]
    BY <2>0, <1>21, <2>1, HoldingIsJob, ReplaceEffect DEF ReleaseHalted, Start, Active,
       Op, Holding, TypeOK, ConstantsOK, Calls, Named, Begin
  <2>2. CASE UNCHANGED job
    BY <2>0, <1>21, <2>2 DEF ReleaseHalted, Start, Active, Op, Holding, TypeOK,
       ConstantsOK, Calls, Named, Begin
  <2> QED
    BY <1>21, <2>1, <2>2 DEF ReleaseHalted, Start
<1>22. ASSUME NEW t \in Token, ReleaseFailed(t) PROVE Alone'
  BY <1>22 DEF ReleaseFailed, TypeOK, ConstantsOK, Calls, Named, Begin
<1>23. ASSUME NEW t \in Token, Expire(t) PROVE Alone'
  BY <1>23 DEF Expire, TypeOK, ConstantsOK, Calls, Named
<1>24. ASSUME NEW t \in Token, NEW tk \in Task, LockFile(t, tk) PROVE Alone'
  BY <1>24 DEF LockFile, TypeOK, ConstantsOK, Calls, Named
<1>25. ASSUME NEW tk \in Task, UnlockFile(tk) PROVE Alone'
  BY <1>25 DEF UnlockFile, TypeOK, ConstantsOK, Calls, Named
<1>26. ASSUME NEW tk \in Task, Promote(tk) PROVE Alone'
  BY <1>26 DEF Promote, TypeOK, ConstantsOK, Calls, Named
<1>27. ASSUME Tick PROVE Alone'
  BY <1>27 DEF Tick, TypeOK, ConstantsOK, Calls, Named
<1>28. CASE UNCHANGED vars
  BY <1>28 DEF vars
<1> QED
  BY <1>1, <1>2, <1>3, <1>4, <1>5, <1>6, <1>7, <1>8, <1>9, <1>10, <1>11, <1>12, <1>13,
     <1>14, <1>15, <1>16, <1>17, <1>18, <1>19, <1>20, <1>21, <1>22, <1>23, <1>24, <1>25,
     <1>26, <1>27, <1>28 DEF Next, Step

(* While commands on a task do not overlap, the status that a command has  *)
(* read or has written is still there when it acts on it, because no other *)
(* command writes it in between.                                           *)
LEMMA KnowsKept ==
  ASSUME ConstantsOK, TypeOK, Calls, Alone, \A p \in Proc : Knows(p), [Next]_vars
  PROVE  \A q \in Proc : Knows(q)'
<1> USE DEF Knows, Recovery
<1>1. ASSUME NEW p \in Proc, ClaimGate(p) PROVE \A q \in Proc : Knows(q)'
  <2>0. job[p].task \in Task
    BY <1>1 DEF ClaimGate, At, Named, Busy, Calls
  <2>1. CASE \E t \in Token : Fresh(t) /\ Continue(p, "acquire", t, now)
    BY <2>0, <1>1, <2>1, ContinueEffect, JobFacts DEF ClaimGate, Return, Idle, Recovery,
       Loading, At, TypeOK, ConstantsOK, Calls, Named, Busy
  <2>2. CASE job' = [job EXCEPT ![p] = Loading("claimRecover", job[p].task)]
    BY <2>0, <1>1, <2>2, LoadingIsJob, ReplaceEffect DEF ClaimGate, Return, Idle,
       Recovery, Loading, At, TypeOK, ConstantsOK, Calls, Named, Busy
  <2>3. CASE Return(p)
    BY <2>0, <1>1, <2>3, IdleIsJob, ReplaceEffect DEF ClaimGate, Return, Idle, Recovery,
       Loading, At, TypeOK, ConstantsOK, Calls, Named, Busy
  <2> QED
    BY <1>1, <2>1, <2>2, <2>3 DEF ClaimGate
<1>2. ASSUME NEW p \in Proc, RecoverGate(p) PROVE \A q \in Proc : Knows(q)'
  <2>0. job[p].task \in Task
    BY <1>2 DEF RecoverGate, At, Named, Busy, Calls
  <2>1. CASE \E t \in Token : Fresh(t) /\ Continue(p, "reclaim", t, job[p].at)
    BY <2>0, <1>2, <2>1, ContinueEffect, JobFacts DEF RecoverGate, Return, Idle, At,
       TypeOK, ConstantsOK, Calls, Named, Busy, Recoverable, Permits
  <2>2. CASE Return(p)
    BY <2>0, <1>2, <2>2, IdleIsJob, ReplaceEffect DEF RecoverGate, Return, Idle, At,
       TypeOK, ConstantsOK, Calls, Named, Busy, Recoverable, Permits
  <2> QED
    BY <1>2, <2>1, <2>2 DEF RecoverGate
<1>3. ASSUME NEW p \in Proc, Reclaim(p) PROVE \A q \in Proc : Knows(q)'
  <2>0. job[p].task \in Task /\ job[p].token \in Token
    BY <1>3 DEF Reclaim, At, Named, Busy, Calls
  <2>1. CASE Claims(job[p].task) \cap expired = {}
    BY <2>0, <1>3, <2>1, GotoEffect, JobFacts DEF Reclaim, At, TypeOK, ConstantsOK,
       Calls, Named, Busy
  <2>2. CASE Claims(job[p].task) \cap expired # {}
    BY <2>0, <1>3, <2>2, GotoEffect, JobFacts DEF Reclaim, At, TypeOK, ConstantsOK,
       Calls, Named, Busy, Claims
  <2> QED
    BY <1>3, <2>1, <2>2 DEF Reclaim
<1>4. ASSUME NEW p \in Proc, Acquire(p) PROVE \A q \in Proc : Knows(q)'
  <2>0. job[p].task \in Task /\ job[p].token \in Token
    BY <1>4 DEF Acquire, At, Named, Busy, Calls
  <2>1. CASE job[p].op \in Recovery
    BY <2>0, <1>4, <2>1, ContinueEffect, JobFacts DEF Acquire, Return, Idle, At, TypeOK,
       ConstantsOK, Calls, Named, Busy
  <2>2. CASE job[p].op \notin Recovery
    BY <2>0, <1>4, <2>2, IdleIsJob, ReplaceEffect, JobFacts DEF Acquire, Return, Idle,
       At, TypeOK, ConstantsOK, Calls, Named, Busy
  <2> QED
    BY <1>4, <2>1, <2>2 DEF Acquire
<1>5. ASSUME NEW p \in Proc, AcquireConflict(p) PROVE \A q \in Proc : Knows(q)'
  BY <1>5, GotoEffect, JobFacts DEF AcquireConflict, At, TypeOK, ConstantsOK, Calls,
     Named, Busy
<1>6. ASSUME NEW p \in Proc, LogConflict(p) PROVE \A q \in Proc : Knows(q)'
  BY <1>6, IdleIsJob, ReplaceEffect, JobFacts DEF LogConflict, Return, Idle, At, TypeOK,
     ConstantsOK, Calls, Named, Busy
<1>7. ASSUME NEW p \in Proc, LoadTask(p) PROVE \A q \in Proc : Knows(q)'
  BY <1>7, GotoEffect, IdleIsJob, ReplaceEffect, JobFacts DEF LoadTask, Return, Idle, At,
     TypeOK, ConstantsOK, Calls, Named, Busy
<1>8. ASSUME NEW p \in Proc, Audit(p) PROVE \A q \in Proc : Knows(q)'
  BY <1>8, GotoEffect, IdleIsJob, ReplaceEffect, JobFacts DEF Audit, Return, Idle, At,
     TypeOK, ConstantsOK, Calls, Named, Busy
<1>9. ASSUME NEW p \in Proc, WriteStatus(p) PROVE \A q \in Proc : Knows(q)'
  BY <1>9, GotoEffect, IdleIsJob, ReplaceEffect, JobFacts DEF WriteStatus, Return, Idle,
     At, TypeOK, ConstantsOK, Calls, Named, Busy, Alone, Status, MovesFrom, Verb
<1>10. ASSUME NEW p \in Proc, Complete(p) PROVE \A q \in Proc : Knows(q)'
  <2>0. job[p].task \in Task /\ job[p].token \in Token
    BY <1>10 DEF Complete, At, Named, Busy, Calls
  <2>1. CASE job' = [job EXCEPT ![p] = Loading("claim", job[p].task)]
    BY <2>0, <1>10, <2>1, LoadingIsJob, ReplaceEffect DEF Complete, Return, Idle,
       Recovery, Loading, At, TypeOK, ConstantsOK, Calls, Named, Busy
  <2>2. CASE Return(p)
    BY <2>0, <1>10, <2>2, IdleIsJob, ReplaceEffect DEF Complete, Return, Idle, Recovery,
       Loading, At, TypeOK, ConstantsOK, Calls, Named, Busy
  <2> QED
    BY <1>10, <2>1, <2>2 DEF Complete
<1>11. ASSUME NEW p \in Proc, CompleteFails(p) PROVE \A q \in Proc : Knows(q)'
  BY <1>11, GotoEffect, IdleIsJob, ReplaceEffect, JobFacts DEF CompleteFails, Return,
     Idle, At, TypeOK, ConstantsOK, Calls, Named, Busy
<1>12. ASSUME NEW p \in Proc, PauseHalted(p) PROVE \A q \in Proc : Knows(q)'
  BY <1>12, IdleIsJob, ReplaceEffect, JobFacts DEF PauseHalted, Return, Idle, At, TypeOK,
     ConstantsOK, Calls, Named, Busy, Alone, Status, MovesFrom, Verb
<1>13. ASSUME NEW p \in Proc, ResetStatus(p) PROVE \A q \in Proc : Knows(q)'
  BY <1>13, GotoEffect, JobFacts DEF ResetStatus, At, TypeOK, ConstantsOK, Calls, Named,
     Busy, Alone, Status, MovesFrom, Verb
<1>14. ASSUME NEW p \in Proc, RecoverAudit(p) PROVE \A q \in Proc : Knows(q)'
  BY <1>14, GotoEffect, JobFacts DEF RecoverAudit, At, TypeOK, ConstantsOK, Calls, Named,
     Busy
<1>15. ASSUME NEW p \in Proc, Rollback(p) PROVE \A q \in Proc : Knows(q)'
  BY <1>15, GotoEffect, JobFacts DEF Rollback, At, TypeOK, ConstantsOK, Calls, Named,
     Busy, Alone, Status, MovesFrom, Verb
<1>16. ASSUME NEW p \in Proc, HaltRecovery(p) PROVE \A q \in Proc : Knows(q)'
  BY <1>16, IdleIsJob, ReplaceEffect, JobFacts DEF HaltRecovery, Return, Idle, At, TypeOK,
     ConstantsOK, Calls, Named, Busy
<1>17. ASSUME NEW p \in Proc, Crash(p) PROVE \A q \in Proc : Knows(q)'
  BY <1>17, IdleIsJob, ReplaceEffect, JobFacts DEF Crash, Return, Idle, At, TypeOK,
     ConstantsOK, Calls, Named, Busy
<1>18. ASSUME NEW p \in Proc, NEW tk \in Task, CallClaim(p, tk)
       PROVE  \A q \in Proc : Knows(q)'
  BY <1>18, LoadingIsJob, ReplaceEffect DEF CallClaim, Recovery, Loading, Start, TypeOK,
     ConstantsOK, Calls, Named, Busy
<1>19. ASSUME NEW p \in Proc, NEW tk \in Task, CallRecover(p, tk)
       PROVE  \A q \in Proc : Knows(q)'
  BY <1>19, LoadingIsJob, ReplaceEffect DEF CallRecover, Recovery, Loading, Start, TypeOK,
     ConstantsOK, Calls, Named, Busy
<1>20. ASSUME NEW p \in Proc, NEW t \in Token, NEW op \in Verb \cup {"release"},
              CallTransition(p, op, t)
       PROVE  \A q \in Proc : Knows(q)'
  BY <1>20, ReplaceEffect, HoldingIsJob DEF CallTransition, Start, Active, Op, Holding,
     TypeOK, ConstantsOK, Calls, Named, Busy
<1>21. ASSUME NEW p \in Proc, NEW t \in Token, NEW lockConflict \in BOOLEAN,
              ReleaseHalted(p, t, lockConflict)
       PROVE  \A q \in Proc : Knows(q)'
  <2>0. Live(t) /\ claims[t] \in Task
    BY <1>21 DEF ReleaseHalted, Live, TypeOK, Calls
  <2>1. CASE job' = [job EXCEPT ![p] = Holding("pause", "halt", t)]
    BY <2>0, <1>21, <2>1, HoldingIsJob, ReplaceEffect DEF ReleaseHalted, Start, Active,
       Op, Holding, TypeOK, ConstantsOK, Calls, Named, Busy
  <2>2. CASE UNCHANGED job
    BY <2>0, <1>21, <2>2 DEF ReleaseHalted, Start, Active, Op, Holding, TypeOK,
       ConstantsOK, Calls, Named, Busy
  <2> QED
    BY <1>21, <2>1, <2>2 DEF ReleaseHalted, Start
<1>22. ASSUME NEW t \in Token, ReleaseFailed(t) PROVE \A q \in Proc : Knows(q)'
  BY <1>22 DEF ReleaseFailed, TypeOK, ConstantsOK, Calls, Named, Busy
<1>23. ASSUME NEW t \in Token, Expire(t) PROVE \A q \in Proc : Knows(q)'
  BY <1>23 DEF Expire, TypeOK, ConstantsOK, Calls, Named, Busy
<1>24. ASSUME NEW t \in Token, NEW tk \in Task, LockFile(t, tk)
       PROVE  \A q \in Proc : Knows(q)'
  BY <1>24 DEF LockFile, TypeOK, ConstantsOK, Calls, Named, Busy
<1>25. ASSUME NEW tk \in Task, UnlockFile(tk) PROVE \A q \in Proc : Knows(q)'
  BY <1>25 DEF UnlockFile, TypeOK, ConstantsOK, Calls, Named, Busy
<1>26. ASSUME NEW tk \in Task, Promote(tk) PROVE \A q \in Proc : Knows(q)'
  BY <1>26 DEF Promote, TypeOK, ConstantsOK, Calls, Named, Busy, Alone, Status, MovesFrom,
     Verb
<1>27. ASSUME Tick PROVE \A q \in Proc : Knows(q)'
  BY <1>27 DEF Tick, TypeOK, ConstantsOK, Calls, Named, Busy
<1>28. CASE UNCHANGED vars
  BY <1>28 DEF vars
<1> QED
  BY <1>1, <1>2, <1>3, <1>4, <1>5, <1>6, <1>7, <1>8, <1>9, <1>10, <1>11, <1>12, <1>13,
     <1>14, <1>15, <1>16, <1>17, <1>18, <1>19, <1>20, <1>21, <1>22, <1>23, <1>24, <1>25,
     <1>26, <1>27, <1>28 DEF Next, Step

(* The invariant holds at first.                                           *)
LEMMA InitGood == ASSUME ConstantsOK, Init PROVE IInv
<1>1. TypeOK
  <2>1. status \in [Task -> Status]
    BY DEF Init, Status
  <2>2. latest \in [Task -> Entry]
    BY DEF Init, NoEntry, Entry, LogState
  <2>3. job \in [Proc -> Job]
    BY IdleIsJob DEF Init
  <2>4. /\ claims \in [Token -> Task \cup {NoTask}] /\ expired \subseteq {t \in Token : claims[t] # NoTask}
        /\ fileLock \in [Task -> Token \cup {NoToken}]
    BY DEF Init
  <2>5. ended \subseteq Token /\ handed \subseteq Token /\ overlap \in BOOLEAN
    BY DEF Init
  <2>6. now \in 0..MaxNow
    BY DEF ConstantsOK, Init
  <2> QED
    BY <2>1, <2>2, <2>3, <2>4, <2>5, <2>6 DEF TypeOK
<1>2. Rows
  BY DEF ConstantsOK, Init, Rows, OneClaimPerTask, LocksAreOwned, EndedIsOver, Live
<1>3. Calls
  BY DEF Init, Calls, Named, OwnToken, Pending, Busy, Idle
<1>4. Answered
  BY DEF Init, Answered, Live
<1>5. Clock
  BY DEF Init, Clock, NoEntry, Idle
<1>6. Informed
  BY DEF Init, Informed, Alone, Knows, Busy, Idle
<1> QED
  BY <1>1, <1>2, <1>3, <1>4, <1>5, <1>6 DEF IInv

(* The invariant is inductive.                                             *)
LEMMA IInvKept == ASSUME ConstantsOK, IInv, [Next]_vars PROVE IInv'
<1>1. TypeOK'
  BY TypeKept DEF IInv, Calls
<1>2. Rows'
  BY StoreSteps, RowsKept DEF IInv, Calls
<1>3. Calls'
  BY NamedKept, OwnKept DEF IInv, Calls
<1>4. Answered'
  BY AnsweredKept DEF IInv
<1>5. Clock'
  BY ClockKept DEF IInv
<1>6. Informed'
  <2>1. CASE overlap'
    BY <2>1 DEF Informed
  <2>2. CASE ~overlap'
    <3>1. ~overlap
      BY <2>2, OverlapStays DEF IInv
    <3>2. Alone /\ \A p \in Proc : Knows(p)
      BY <3>1 DEF IInv, Informed
    <3>3. Alone'
      BY <2>2, <3>1, <3>2, AloneKept DEF IInv
    <3>4. \A q \in Proc : Knows(q)'
      BY <3>2, KnowsKept DEF IInv
    <3> QED
      BY <3>3, <3>4 DEF Informed
  <2> QED
    BY <2>1, <2>2
<1> QED
  BY <1>1, <1>2, <1>3, <1>4, <1>5, <1>6 DEF IInv

(* The inductive invariant: rows, commands in flight, answered claims,     *)
(* clock, and what a command that is alone on its task knows.              *)
THEOREM Inductive == Spec => []IInv
<1>1. Init => IInv
  BY InitGood, ConstantsOK
<1>2. IInv /\ [Next]_vars => IInv'
  BY IInvKept, ConstantsOK
<1> QED
  BY <1>1, <1>2, PTL DEF Spec

(* Every reachable state is well typed.                                    *)
THEOREM Typed == Spec => []TypeOK
<1>1. IInv => TypeOK
  BY DEF IInv
<1> QED
  BY <1>1, Inductive, PTL

(* A live claim is in the hands of an agent or of a command in flight,     *)
(* after failed commands, failed rollbacks and expired leases too.         *)
THEOREM ClaimsAreAnswered == Spec => []NoClaimLeftBehind
<1>1. IInv => NoClaimLeftBehind
  BY DEF IInv, Answered, Recovering, NoClaimLeftBehind, Busy
<1> QED
  BY <1>1, Inductive, PTL

(* The steps that write a status.                                          *)
LEMMA StatusWriters ==
  ASSUME ConstantsOK, [Next]_vars
  PROVE  \/ UNCHANGED status
         \/ \E p \in Proc : WriteStatus(p) \/ PauseHalted(p) \/ ResetStatus(p) \/ Rollback(p)
         \/ \E tk \in Task : Promote(tk)
BY DEF Next, Step, vars, CallClaim, CallRecover, CallTransition, ClaimGate, RecoverGate,
   Reclaim,
  Acquire, AcquireConflict, LogConflict, LoadTask, Audit, Complete, CompleteFails, RecoverAudit,
  HaltRecovery, Crash, ReleaseFailed, ReleaseHalted, Expire, LockFile, UnlockFile, Tick

(* A write by a command that is alone on its task is a move of the profile,*)
(* because the status it read is still there.                              *)
LEMMA StatusMoves ==
  ASSUME ConstantsOK, IInv, [Next]_vars, NEW tk \in Task, status'[tk] # status[tk], ~overlap
  PROVE  \/ <<status[tk], status'[tk]>> \in ProfileMoves
         \/ \E p \in Proc : job[p].pc \in {"pause", "rollback"} /\ job[p].task = tk
<1> USE DEF IInv, TypeOK
<1>0. \A p \in Proc : Named(p) /\ Knows(p)
  BY DEF Informed, Calls
<1>1. ASSUME NEW p \in Proc, WriteStatus(p)
      PROVE  <<status[tk], status'[tk]>> \in ProfileMoves
  <2>1. /\ job[p].task = tk /\ status'[tk] = MovesTo(job[p].op)
        /\ status[tk] \in MovesFrom(job[p].op) /\ job[p].op \in Verb \cup {"release"}
    BY <1>0, <1>1 DEF WriteStatus, At, Named, Knows, Busy
  <2> QED
    BY <2>1 DEF MovesTo, MovesFrom, Verb, ProfileMoves
<1>2. ASSUME NEW p \in Proc, PauseHalted(p) \/ Rollback(p)
      PROVE  job[p].pc \in {"pause", "rollback"} /\ job[p].task = tk
  BY <1>2 DEF PauseHalted, Rollback, At
<1>3. ASSUME NEW p \in Proc, ResetStatus(p)
      PROVE  <<status[tk], status'[tk]>> \in ProfileMoves
  <2>1. job[p].task = tk /\ status'[tk] = "ready" /\ job[p].pc = "reset"
    BY <1>3 DEF ResetStatus, At
  <2>2. status[tk] \in {"ready", "running", "paused"}
    <3>1. job[p].op \in Recovery
      BY <1>0, <2>1 DEF Named
    <3> QED
      BY <1>0, <2>1, <3>1 DEF Knows
  <2> QED
    BY <2>1, <2>2 DEF ProfileMoves
<1>4. ASSUME NEW u \in Task, Promote(u) PROVE <<status[tk], status'[tk]>> \in ProfileMoves
  BY <1>4 DEF Promote, ProfileMoves
<1> QED
  BY <1>1, <1>2, <1>3, <1>4, StatusWriters

(* Commands that do not overlap move a task along the profile, but for the *)
(* pause after a halt and the rollback of a recovery.                      *)
THEOREM StatusMovesFollowProfile == Spec => StatusFollowsProfile
<1>1. IInv /\ [Next]_vars => [\A tk \in Task : status'[tk] # status[tk] =>
    \/ overlap
    \/ <<status[tk], status'[tk]>> \in ProfileMoves
    \/ \E p \in Proc : job[p].pc \in {"pause", "rollback"} /\ job[p].task = tk]_vars
  BY StatusMoves, ConstantsOK
<1> QED
  BY <1>1, Inductive, PTL DEF Spec, StatusFollowsProfile

(* The steps that change the claim rows.                                   *)
LEMMA ClaimWriters ==
  ASSUME ConstantsOK, [Next]_vars, claims' # claims
  PROVE  \/ \E p \in Proc : Reclaim(p) \/ Acquire(p) \/ Complete(p) \/ HaltRecovery(p)
         \/ \E p \in Proc, t \in Token, lockConflict \in BOOLEAN : ReleaseHalted(p, t, lockConflict)
         \/ \E t \in Token : ReleaseFailed(t)
BY DEF Next, Step, vars, store, CallClaim, CallRecover, CallTransition, ClaimGate,
   RecoverGate,
  AcquireConflict, LogConflict, LoadTask, Audit, WriteStatus, CompleteFails, PauseHalted, ResetStatus,
  RecoverAudit, Rollback, Crash, Expire, LockFile, UnlockFile, Promote, Tick

(* When a recovery that is alone on its task completes its claim, the task *)
(* is ready, and the entry it logs is the one that readiness looks at,     *)
(* since no entry is ahead of the clock.                                   *)
LEMMA RecoveryEnds ==
  ASSUME ConstantsOK, IInv, [Next]_vars, NEW p \in Proc, NEW tk \in Task, ~overlap,
         At(p, "finalize"), job[p].op \in Recovery, job[p].task = tk,
         claims' # claims, job'[p] # job[p]
  PROVE  Claimable(tk)'
<1> USE DEF IInv, TypeOK
<1>1. Complete(p)
  <2>1. ASSUME NEW q \in Proc, Reclaim(q) \/ Acquire(q) \/ Complete(q) \/ HaltRecovery(q)
        PROVE  Complete(p)
    <3>1. job[q] # job[p] => job'[p] = job[p]
      BY <2>1 DEF Reclaim, Acquire, Complete, HaltRecovery, Goto, Return, Continue
    <3> QED
      BY <2>1, <3>1 DEF Reclaim, Acquire, HaltRecovery, Complete, At, Goto, Return, Continue
  <2>2. ASSUME NEW q \in Proc, NEW t \in Token, NEW lockConflict \in BOOLEAN, ReleaseHalted(q, t, lockConflict)
        PROVE  FALSE
    BY <2>2 DEF ReleaseHalted, Start, Busy, At
  <2>3. ASSUME NEW t \in Token, ReleaseFailed(t) PROVE FALSE
    BY <2>3 DEF ReleaseFailed
  <2> QED
    BY <2>1, <2>2, <2>3, ClaimWriters
<1>2. status'[tk] = "ready"
  BY <1>1 DEF Complete, Informed, Knows, At
<1>3. latest[tk].at <= now /\ latest[tk].at \in Nat /\ now \in Nat
  BY DEF Clock, Entry, ConstantsOK
<1>4. latest'[tk].state = "completed"
  BY <1>1, <1>3 DEF Complete, Log, Newer
<1> QED
  BY <1>2, <1>4 DEF Claimable, Permits

(* A recovery that succeeds leaves the task claimable.                     *)
THEOREM RecoveredIsClaimable == Spec => RecoveryMakesClaimable
<1>1. IInv /\ [Next]_vars => [\A p \in Proc, tk \in Task :
    /\ At(p, "finalize") /\ job[p].op \in Recovery /\ job[p].task = tk
    /\ claims' # claims /\ job'[p] # job[p]
    => overlap \/ Claimable(tk)']_vars
  BY RecoveryEnds, ConstantsOK
<1> QED
  BY <1>1, Inductive, PTL DEF Spec, RecoveryMakesClaimable

(* Every step is a step of the abstract authority or leaves it alone.      *)
LEMMA StepRefines ==
  ASSUME ConstantsOK, IInv, [Next]_vars
  PROVE  [Authority!Next]_(Authority!authority)
<1> USE DEF IInv, TypeOK
<1>1. StoreStep
  BY StoreSteps DEF Calls
<1>2. CASE UNCHANGED <<claims, fileLock, ended>>
  BY <1>2 DEF Authority!authority
<1>3. ASSUME NEW t \in Token, Close(t) PROVE Authority!Next
  <2>1. Authority!End(t)
    BY <1>3 DEF Close, Authority!End
  <2> QED
    BY <2>1 DEF Authority!Next
<1>4. ASSUME NEW p \in Proc, Acquire(p) PROVE Authority!Next
  <2>1. /\ job[p].token \in Token /\ job[p].task \in Task
        /\ claims[job[p].token] = NoTask /\ job[p].token \notin ended
    BY <1>4 DEF Acquire, At, Calls, Named, OwnToken, Pending, Busy, Live
  <2>2. \A u \in Token : claims[u] # job[p].task
    BY <1>4 DEF Acquire, Blocked, Claims
  <2>3. CASE job[p].op \in Recovery
    <3>1. Authority!Grant(job[p].token, job[p].task, {job[p].task})
      BY <1>4, <2>1, <2>2, <2>3 DEF Acquire, Blocked, Authority!Grant
    <3> QED
      BY <2>1, <3>1 DEF Authority!Next
  <2>4. CASE job[p].op \notin Recovery
    <3>1. Authority!Grant(job[p].token, job[p].task, {})
      BY <1>4, <2>1, <2>2, <2>4 DEF Acquire, Authority!Grant
    <3> QED
      BY <2>1, <3>1 DEF Authority!Next
  <2> QED
    BY <2>3, <2>4
<1>5. ASSUME NEW p \in Proc, LogConflict(p) PROVE Authority!Next
  <2>1. job[p].token \in Token /\ claims[job[p].token] = NoTask
    BY <1>5 DEF LogConflict, At, Calls, Named, OwnToken, Pending, Live
  <2>2. Authority!Refuse(job[p].token)
    BY <1>5, <2>1 DEF LogConflict, Authority!Refuse
  <2> QED
    BY <2>1, <2>2 DEF Authority!Next
<1>6. ASSUME NEW t \in Token, NEW tk \in Task, LockFile(t, tk) PROVE Authority!Next
  <2>1. Authority!Extend(t, {tk})
    BY <1>6 DEF LockFile, Live, Authority!Extend
  <2> QED
    BY <2>1 DEF Authority!Next
<1>7. ASSUME NEW tk \in Task, UnlockFile(tk) PROVE Authority!Next
  <2>1. fileLock[tk] \in Token
    BY <1>7 DEF UnlockFile
  <2>2. Authority!Shrink(fileLock[tk], {tk})
    BY <1>7, <2>1 DEF UnlockFile, Authority!Shrink
  <2> QED
    BY <2>1, <2>2 DEF Authority!Next
<1> QED
  BY <1>1, <1>2, <1>3, <1>4, <1>5, <1>6, <1>7 DEF StoreStep

(* The lifecycle commands implement the abstract claim authority.          *)
THEOREM Refinement == Spec => ImplementsAuthority
<1>1. Init => Authority!Init
  BY DEF Init, Authority!Init
<1>2. IInv /\ [Next]_vars => [Authority!Next]_(Authority!authority)
  BY StepRefines, ConstantsOK
<1> QED
  BY <1>1, <1>2, Inductive, PTL DEF Spec, ImplementsAuthority, Authority!Spec

-----------------------------------------------------------------------------
(* Proofs about TaskLifecycle that relate a task's log to its status and   *)
(* its claims: whatever the commands do, are killed at or overtaken by, the*)
(* task is never left where no command gets hold of it again.              *)

(* A command that has a claim, or had it until another ended it.           *)
Holder(p) == job[p].pc \in {"load", "audit", "write", "finalize", "pause", "reset", "check",
                            "rollback", "undo"}
Placed(p) ==
  /\ Holder(p) /\ Live(job[p].token) => claims[job[p].token] = job[p].task
  /\ job[p].pc \in {"check", "rollback", "undo"} => job[p].op \in Recovery
  /\ job[p].pc = "finalize" => job[p].op \in Recovery \cup {"release"}

(* The entry that counts: the claim of a running one is there, the one of  *)
(* another is over, and without one nobody has ever claimed the task.      *)
Logged(tk) == LET e == latest[tk] IN
  /\ e.state = "running" => e.token \in Token /\ claims[e.token] = tk
  /\ e.state \notin {"none", "running"} => e.token \in ended
  /\ e.state = "none" => /\ e.at = 0 /\ status[tk] \in {"draft", "ready"} /\ Claims(tk) = {}
                         /\ \A p \in Proc : Holder(p) => job[p].task # tk

(* As long as commands on a task did not overlap: a task that is claimed is*)
(* logged as running or halted, one logged as completed is not at work, and*)
(* a command has the claim that it was called with.                        *)
Settled(tk) ==
  /\ Claims(tk) # {} => latest[tk].state \in {"running", "halted"}
  /\ latest[tk].state = "completed" => status[tk] \notin {"running", "paused"}
Minds(p) == LET j == job[p] e == latest[j.task] IN
  /\ j.pc \in {"gate", "reclaim"} => e.at <= j.at
  /\ j.pc = "acquire" => e.at <= j.at \/ e.state = "halted"
  /\ j.pc \in {"load", "audit", "write", "reset", "check", "finalize", "rollback", "undo"} =>
       Live(j.token)
  /\ j.pc = "finalize" /\ j.op = "release" => status[j.task] = "completed"
  /\ j.pc = "pause" => e.state = "halted"

OInv ==
  /\ \A p \in Proc : Placed(p)
  /\ \A tk \in Task : Logged(tk)
  /\ overlap \/ ((\A tk \in Task : Settled(tk)) /\ \A p \in Proc : Minds(p))
-----------------------------------------------------------------------------
(* A claim is over: a terminal entry is logged for its task, as completed  *)
(* by Complete alone, in a step of a command on the task, or of a command  *)
(* that begins.                                                            *)
Over(t) == LET tk == claims[t] IN
  /\ Live(t) /\ Close(t)
  /\ \E s \in {"halted", "failed", "completed"} :
       /\ Log(tk, t, s, now)
       /\ s = "completed" => \E p \in Proc : Complete(p) /\ job[p].task = tk
  /\ \/ \E p \in Proc : Busy(p) /\ job[p].task = tk /\ job'[p] # job[p]
     \/ \A q \in Proc : Busy(q) /\ job[q].task = tk => overlap'

(* What a step may do to the log.                                          *)
LogStep ==
  \/ UNCHANGED <<claims, latest, ended>>
  \/ \E p \in Proc : Acquire(p) \/ LogConflict(p)
  \/ \E t \in Token : Over(t)

(* Every step does one of these four things to the log.                    *)
LEMMA LogSteps ==
  ASSUME ConstantsOK, TypeOK, \A p \in Proc : Named(p), \A p \in Proc : Placed(p), [Next]_vars
  PROVE  LogStep
<1>1. ASSUME NEW p \in Proc, ClaimGate(p) PROVE LogStep
  BY <1>1 DEF ClaimGate, LogStep, store
<1>2. ASSUME NEW p \in Proc, RecoverGate(p) PROVE LogStep
  BY <1>2 DEF RecoverGate, LogStep, store
<1>3. ASSUME NEW p \in Proc, Reclaim(p) PROVE LogStep
  <2>1. CASE Claims(job[p].task) \cap expired = {}
    BY <1>3, <2>1 DEF Reclaim, store, LogStep
  <2>2. CASE Claims(job[p].task) \cap expired # {}
    <3>1. PICK t \in Claims(job[p].task) \cap expired :
            Close(t) /\ Log(job[p].task, t, "halted", now)
      BY <1>3, <2>2 DEF Reclaim
    <3>2. t \in Token /\ claims[t] = job[p].task /\ Live(t)
      BY <3>1 DEF Claims, TypeOK, Live
    <3>3. Busy(p) /\ job'[p] # job[p]
      BY <1>3, GotoEffect DEF Reclaim, At, Busy
    <3> QED
      BY <3>1, <3>2, <3>3 DEF LogStep, Over
  <2> QED
    BY <2>1, <2>2
<1>4. ASSUME NEW p \in Proc, Acquire(p) PROVE LogStep
  BY <1>4 DEF Acquire, LogStep
<1>5. ASSUME NEW p \in Proc, AcquireConflict(p) PROVE LogStep
  BY <1>5 DEF AcquireConflict, LogStep, store
<1>6. ASSUME NEW p \in Proc, LogConflict(p) PROVE LogStep
  BY <1>6 DEF LogConflict, LogStep
<1>7. ASSUME NEW p \in Proc, LoadTask(p) PROVE LogStep
  BY <1>7 DEF LoadTask, LogStep, store
<1>8. ASSUME NEW p \in Proc, Audit(p) PROVE LogStep
  BY <1>8 DEF Audit, LogStep, store
<1>9. ASSUME NEW p \in Proc, WriteStatus(p) PROVE LogStep
  BY <1>9 DEF WriteStatus, LogStep, store
<1>10. ASSUME NEW p \in Proc, Complete(p) PROVE LogStep
  <2>1. job[p].token \in Token /\ Live(job[p].token) /\ claims[job[p].token] = job[p].task
    BY <1>10 DEF Complete, At, Active, Live, Placed, Holder
  <2>2. Busy(p) /\ job'[p] # job[p]
    BY <1>10 DEF Complete, At, Busy, Return, Idle, Loading, TypeOK
  <2> QED
    BY <1>10, <2>1, <2>2 DEF Complete, LogStep, Over
<1>11. ASSUME NEW p \in Proc, CompleteFails(p) PROVE LogStep
  BY <1>11 DEF CompleteFails, LogStep, store
<1>12. ASSUME NEW p \in Proc, PauseHalted(p) PROVE LogStep
  BY <1>12 DEF PauseHalted, LogStep, store
<1>13. ASSUME NEW p \in Proc, ResetStatus(p) PROVE LogStep
  BY <1>13 DEF ResetStatus, LogStep, store
<1>14. ASSUME NEW p \in Proc, RecoverAudit(p) PROVE LogStep
  BY <1>14 DEF RecoverAudit, LogStep, store
<1>15. ASSUME NEW p \in Proc, Rollback(p) PROVE LogStep
  BY <1>15 DEF Rollback, LogStep, store
<1>16. ASSUME NEW p \in Proc, HaltRecovery(p) PROVE LogStep
  <2>1. CASE ~Live(job[p].token)
    BY <1>16, <2>1 DEF HaltRecovery, store, LogStep
  <2>2. CASE Live(job[p].token)
    <3>1. job[p].token \in Token /\ claims[job[p].token] = job[p].task
      BY <1>16, <2>2 DEF HaltRecovery, At, Live, Placed, Holder
    <3>2. Busy(p) /\ job'[p] # job[p]
      BY <1>16 DEF HaltRecovery, At, Busy, Return, Idle, TypeOK
    <3> QED
      BY <1>16, <2>2, <3>1, <3>2 DEF HaltRecovery, LogStep, Over
  <2> QED
    BY <2>1, <2>2
<1>17. ASSUME NEW p \in Proc, Crash(p) PROVE LogStep
  BY <1>17 DEF Crash, LogStep, store
<1>18. ASSUME NEW p \in Proc, NEW tk \in Task, CallClaim(p, tk) PROVE LogStep
  BY <1>18 DEF CallClaim, LogStep, store
<1>19. ASSUME NEW p \in Proc, NEW tk \in Task, CallRecover(p, tk) PROVE LogStep
  BY <1>19 DEF CallRecover, LogStep, store
<1>20. ASSUME NEW p \in Proc, NEW t \in Token, NEW op \in Verb \cup {"release"},
              CallTransition(p, op, t)
       PROVE  LogStep
  BY <1>20 DEF CallTransition, LogStep, store
<1>21. ASSUME NEW p \in Proc, NEW t \in Token, NEW lockConflict \in BOOLEAN,
              ReleaseHalted(p, t, lockConflict)
       PROVE  LogStep
  <2>1. Begin(claims[t])
    BY <1>21 DEF ReleaseHalted, Start, Holding
  <2> QED
    BY <1>21, <2>1 DEF ReleaseHalted, LogStep, Over, Begin
<1>22. ASSUME NEW t \in Token, ReleaseFailed(t) PROVE LogStep
  BY <1>22 DEF ReleaseFailed, LogStep, Over, Begin, Active
<1>23. ASSUME NEW t \in Token, Expire(t) PROVE LogStep
  BY <1>23 DEF Expire, LogStep, store
<1>24. ASSUME NEW t \in Token, NEW tk \in Task, LockFile(t, tk) PROVE LogStep
  BY <1>24 DEF LockFile, LogStep, store
<1>25. ASSUME NEW tk \in Task, UnlockFile(tk) PROVE LogStep
  BY <1>25 DEF UnlockFile, LogStep, store
<1>26. ASSUME NEW tk \in Task, Promote(tk) PROVE LogStep
  BY <1>26 DEF Promote, LogStep, store
<1>27. ASSUME Tick PROVE LogStep
  BY <1>27 DEF Tick, LogStep, store
<1>28. CASE UNCHANGED vars
  BY <1>28 DEF vars, LogStep
<1> QED
  BY <1>1, <1>2, <1>3, <1>4, <1>5, <1>6, <1>7, <1>8, <1>9, <1>10, <1>11, <1>12, <1>13,
     <1>14, <1>15, <1>16, <1>17, <1>18, <1>19, <1>20, <1>21, <1>22, <1>23, <1>24, <1>25,
     <1>26, <1>27, <1>28 DEF Next, Step

(* Where a holder comes from: it was one before, with the same task and    *)
(* claim, it is called with a live claim, or it has just acquired one.     *)
Comes(q) == Holder(q)' =>
  \/ Holder(q) /\ job'[q].task = job[q].task /\ job'[q].token = job[q].token
  \/ Live(job'[q].token) /\ claims[job'[q].token] = job'[q].task
  \/ Acquire(q) /\ job'[q].task = job[q].task /\ job'[q].token = job[q].token
Does(q) ==
  /\ job[q].pc \in {"check", "rollback", "undo"} => job[q].op \in Recovery
  /\ job[q].pc = "finalize" => job[q].op \in Recovery \cup {"release"}

(* Every step brings holders about in one of these ways, and a holder does *)
(* what its command is for.                                                *)
LEMMA HolderSteps ==
  ASSUME ConstantsOK, TypeOK, \A p \in Proc : Named(p), \A p \in Proc : Placed(p), [Next]_vars
  PROVE  \A q \in Proc : Comes(q) /\ Does(q)'
<1> USE DEF Holder, Comes, Does, Placed
<1>1. ASSUME NEW p \in Proc, ClaimGate(p) PROVE \A q \in Proc : Comes(q) /\ Does(q)'
  <2>0. job[p].task \in Task
    BY <1>1 DEF ClaimGate, At, Named, Busy
  <2>1. CASE \E t \in Token : Fresh(t) /\ Continue(p, "acquire", t, now)
    BY <1>1, <2>1, ContinueEffect, JobFacts DEF ClaimGate
  <2>2. CASE job' = [job EXCEPT ![p] = Loading("claimRecover", job[p].task)]
    BY <2>0, <2>2, LoadingIsJob, ReplaceEffect DEF Loading, Recovery
  <2>3. CASE Return(p)
    BY <2>3, IdleIsJob, ReplaceEffect DEF Return, Idle
  <2> QED
    BY <1>1, <2>1, <2>2, <2>3 DEF ClaimGate
<1>2. ASSUME NEW p \in Proc, RecoverGate(p) PROVE \A q \in Proc : Comes(q) /\ Does(q)'
  <2>1. CASE \E t \in Token : Fresh(t) /\ Continue(p, "reclaim", t, job[p].at)
    BY <1>2, <2>1, ContinueEffect, JobFacts DEF RecoverGate
  <2>2. CASE Return(p)
    BY <2>2, IdleIsJob, ReplaceEffect DEF Return, Idle
  <2> QED
    BY <1>2, <2>1, <2>2 DEF RecoverGate
<1>3. ASSUME NEW p \in Proc, Reclaim(p) PROVE \A q \in Proc : Comes(q) /\ Does(q)'
  BY <1>3, GotoEffect DEF Reclaim, At, Named, Busy
<1>4. ASSUME NEW p \in Proc, Acquire(p) PROVE \A q \in Proc : Comes(q) /\ Does(q)'
  <2>1. CASE job[p].op \in Recovery
    <3>1. /\ job'[p].pc = "reset" /\ job'[p].task = job[p].task /\ job'[p].token = job[p].token
          /\ \A q \in Proc \ {p} : job'[q] = job[q]
      BY <1>4, <2>1, ContinueEffect, JobFacts DEF Acquire, At, Named
    <3> QED
      BY <1>4, <3>1
  <2>2. CASE job[p].op \notin Recovery
    BY <1>4, <2>2, IdleIsJob, ReplaceEffect DEF Acquire, Return, Idle
  <2> QED
    BY <2>1, <2>2
<1>5. ASSUME NEW p \in Proc, AcquireConflict(p) PROVE \A q \in Proc : Comes(q) /\ Does(q)'
  BY <1>5, GotoEffect DEF AcquireConflict, At, Named, Busy
<1>6. ASSUME NEW p \in Proc, LogConflict(p) PROVE \A q \in Proc : Comes(q) /\ Does(q)'
  BY <1>6, IdleIsJob, ReplaceEffect DEF LogConflict, Return, Idle, At
<1>7. ASSUME NEW p \in Proc, LoadTask(p) PROVE \A q \in Proc : Comes(q) /\ Does(q)'
  BY <1>7, GotoEffect, IdleIsJob, ReplaceEffect DEF LoadTask, Return, Idle, At
<1>8. ASSUME NEW p \in Proc, Audit(p) PROVE \A q \in Proc : Comes(q) /\ Does(q)'
  BY <1>8, GotoEffect, IdleIsJob, ReplaceEffect DEF Audit, Return, Idle, At
<1>9. ASSUME NEW p \in Proc, WriteStatus(p) PROVE \A q \in Proc : Comes(q) /\ Does(q)'
  BY <1>9, GotoEffect, IdleIsJob, ReplaceEffect DEF WriteStatus, Return, Idle, At
<1>10. ASSUME NEW p \in Proc, Complete(p) PROVE \A q \in Proc : Comes(q) /\ Does(q)'
  <2>1. CASE job' = [job EXCEPT ![p] = Loading("claim", job[p].task)]
    BY <1>10, <2>1, LoadingIsJob, ReplaceEffect DEF Complete, Loading, Named, At, Busy
  <2>2. CASE Return(p)
    BY <2>2, IdleIsJob, ReplaceEffect DEF Return, Idle
  <2> QED
    BY <1>10, <2>1, <2>2 DEF Complete
<1>11. ASSUME NEW p \in Proc, CompleteFails(p) PROVE \A q \in Proc : Comes(q) /\ Does(q)'
  BY <1>11, GotoEffect, IdleIsJob, ReplaceEffect DEF CompleteFails, Return, Idle, At
<1>12. ASSUME NEW p \in Proc, PauseHalted(p) PROVE \A q \in Proc : Comes(q) /\ Does(q)'
  BY <1>12, IdleIsJob, ReplaceEffect DEF PauseHalted, Return, Idle, At
<1>13. ASSUME NEW p \in Proc, ResetStatus(p) PROVE \A q \in Proc : Comes(q) /\ Does(q)'
  BY <1>13, GotoEffect DEF ResetStatus, At, Named, Busy
<1>14. ASSUME NEW p \in Proc, RecoverAudit(p) PROVE \A q \in Proc : Comes(q) /\ Does(q)'
  BY <1>14, GotoEffect DEF RecoverAudit, At, Named, Busy
<1>15. ASSUME NEW p \in Proc, Rollback(p) PROVE \A q \in Proc : Comes(q) /\ Does(q)'
  BY <1>15, GotoEffect DEF Rollback, At, Named, Busy
<1>16. ASSUME NEW p \in Proc, HaltRecovery(p) PROVE \A q \in Proc : Comes(q) /\ Does(q)'
  BY <1>16, IdleIsJob, ReplaceEffect DEF HaltRecovery, Return, Idle, At
<1>17. ASSUME NEW p \in Proc, Crash(p) PROVE \A q \in Proc : Comes(q) /\ Does(q)'
  BY <1>17, IdleIsJob, ReplaceEffect DEF Crash, Return, Idle, At
<1>18. ASSUME NEW p \in Proc, NEW tk \in Task, CallClaim(p, tk)
       PROVE  \A q \in Proc : Comes(q) /\ Does(q)'
  BY <1>18, LoadingIsJob, ReplaceEffect DEF CallClaim, Recovery, Loading, Start
<1>19. ASSUME NEW p \in Proc, NEW tk \in Task, CallRecover(p, tk)
       PROVE  \A q \in Proc : Comes(q) /\ Does(q)'
  BY <1>19, LoadingIsJob, ReplaceEffect DEF CallRecover, Recovery, Loading, Start
<1>20. ASSUME NEW p \in Proc, NEW t \in Token, NEW op \in Verb \cup {"release"},
              CallTransition(p, op, t)
       PROVE  \A q \in Proc : Comes(q) /\ Does(q)'
  BY <1>20, HoldingIsJob, ReplaceEffect DEF CallTransition, Start, Active, Op, Holding
<1>21. ASSUME NEW p \in Proc, NEW t \in Token, NEW lockConflict \in BOOLEAN,
              ReleaseHalted(p, t, lockConflict)
       PROVE  \A q \in Proc : Comes(q) /\ Does(q)'
  <2>0. Live(t) /\ claims[t] \in Task
    BY <1>21 DEF ReleaseHalted, Live, TypeOK
  <2>1. CASE job' = [job EXCEPT ![p] = Holding("pause", "halt", t)]
    BY <2>0, <2>1, HoldingIsJob, ReplaceEffect DEF Holding, Op
  <2>2. CASE UNCHANGED job
    BY <2>2
  <2> QED
    BY <1>21, <2>1, <2>2 DEF ReleaseHalted, Start
<1>22. ASSUME NEW t \in Token, ReleaseFailed(t) PROVE \A q \in Proc : Comes(q) /\ Does(q)'
  BY <1>22 DEF ReleaseFailed
<1>23. ASSUME NEW t \in Token, Expire(t) PROVE \A q \in Proc : Comes(q) /\ Does(q)'
  BY <1>23 DEF Expire
<1>24. ASSUME NEW t \in Token, NEW tk \in Task, LockFile(t, tk)
       PROVE  \A q \in Proc : Comes(q) /\ Does(q)'
  BY <1>24 DEF LockFile
<1>25. ASSUME NEW tk \in Task, UnlockFile(tk) PROVE \A q \in Proc : Comes(q) /\ Does(q)'
  BY <1>25 DEF UnlockFile
<1>26. ASSUME NEW tk \in Task, Promote(tk) PROVE \A q \in Proc : Comes(q) /\ Does(q)'
  BY <1>26 DEF Promote
<1>27. ASSUME Tick PROVE \A q \in Proc : Comes(q) /\ Does(q)'
  BY <1>27 DEF Tick
<1>28. CASE UNCHANGED vars
  BY <1>28 DEF vars
<1> QED
  BY <1>1, <1>2, <1>3, <1>4, <1>5, <1>6, <1>7, <1>8, <1>9, <1>10, <1>11, <1>12, <1>13,
     <1>14, <1>15, <1>16, <1>17, <1>18, <1>19, <1>20, <1>21, <1>22, <1>23, <1>24, <1>25,
     <1>26, <1>27, <1>28 DEF Next, Step

(* A holder has the claim it was called with, as long as that is live: a   *)
(* token that a command has drawn is in no other hands.                    *)
LEMMA PlacedKept ==
  ASSUME ConstantsOK, IInv, \A p \in Proc : Placed(p), [Next]_vars
  PROVE  \A q \in Proc : Placed(q)'
<1> USE DEF IInv, Calls
<1>1. ASSUME NEW q \in Proc PROVE Comes(q) /\ Does(q)'
  BY HolderSteps
<1>2. LogStep
  BY LogSteps
<1>3. ASSUME NEW q \in Proc, Holder(q)', Live(job[q].token)'
      PROVE  claims'[job'[q].token] = job'[q].task
  <2>1. CASE Acquire(q) /\ job'[q].task = job[q].task /\ job'[q].token = job[q].token
    BY <1>3, <2>1 DEF Acquire, TypeOK, Live, At, Named, Busy
  <2>2. CASE /\ job'[q].token \in Token /\ claims[job'[q].token] = job'[q].task
             /\ claims[job'[q].token] # NoTask
    <3>1. CASE UNCHANGED claims
      BY <2>2, <3>1
    <3>2. ASSUME NEW p \in Proc, Acquire(p)
         PROVE  claims'[job'[q].token] = claims[job'[q].token]
      <4>1. job[p].token # job'[q].token
        BY <2>2, <3>2 DEF Acquire, At, OwnToken, Pending, Live
      <4> QED
        BY <3>2, <4>1 DEF Acquire, TypeOK
    <3>3. ASSUME NEW p \in Proc, LogConflict(p) PROVE UNCHANGED claims
      BY <3>3 DEF LogConflict
    <3>4. ASSUME NEW t \in Token, Close(t)
         PROVE  claims'[job'[q].token] = claims[job'[q].token]
      BY <1>3, <2>2, <3>4, CloseEffect DEF Live
    <3> QED
      BY <1>2, <2>2, <3>1, <3>2, <3>3, <3>4 DEF LogStep, Over
  <2>3. CASE /\ Holder(q) /\ job'[q].task = job[q].task /\ job'[q].token = job[q].token
             /\ ~Live(job[q].token)
    <3>1. CASE UNCHANGED claims
      BY <1>3, <2>3, <3>1 DEF Live
    <3>2. ASSUME NEW p \in Proc, Acquire(p) PROVE FALSE
      <4>1. /\ claims'[job[q].token] # NoTask /\ claims[job[q].token] = NoTask
            /\ job[q].token \in Token
        BY <1>3, <2>3 DEF Live
      <4>2. job[p].token = job[q].token
        BY <3>2, <4>1 DEF Acquire, TypeOK
      <4>3. p = q
        BY <3>2, <4>2 DEF Acquire, At, OwnToken, Pending
      <4> QED
        BY <2>3, <3>2, <4>3 DEF Acquire, At, Holder
    <3>3. ASSUME NEW p \in Proc, LogConflict(p) PROVE UNCHANGED claims
      BY <3>3 DEF LogConflict
    <3>4. ASSUME NEW t \in Token, Close(t) PROVE FALSE
      BY <1>3, <2>3, <3>4, CloseEffect DEF Live
    <3> QED
      BY <1>2, <3>1, <3>2, <3>3, <3>4 DEF LogStep, Over
  <2> QED
    BY <1>1, <1>3, <2>1, <2>2, <2>3 DEF Comes, Placed, Live
<1> QED
  BY <1>1, <1>3 DEF Placed, Does

(* A task that nobody ever claimed is changed by triage alone.             *)
LEMMA UntouchedStays ==
  ASSUME ConstantsOK, TypeOK, \A p \in Proc : Named(p), [Next]_vars, NEW tk \in Task,
         status[tk] \in {"draft", "ready"}, \A p \in Proc : Holder(p) => job[p].task # tk
  PROVE  status'[tk] \in {"draft", "ready"}
<1>1. ASSUME NEW p \in Proc, WriteStatus(p) \/ PauseHalted(p) \/ ResetStatus(p) \/ Rollback(p)
      PROVE  status'[tk] = status[tk]
  <2>1. Holder(p) /\ (UNCHANGED status \/ \E s : status' = [status EXCEPT ![job[p].task] = s])
    BY <1>1 DEF WriteStatus, PauseHalted, ResetStatus, Rollback, At, Holder
  <2> QED
    BY <2>1 DEF TypeOK
<1>2. ASSUME NEW u \in Task, Promote(u) PROVE status'[tk] \in {"draft", "ready"}
  BY <1>2 DEF Promote, TypeOK
<1> QED
  BY <1>1, <1>2, StatusWriters

(* The entry that counts of the task of a step that logs.                  *)
LEMMA LoggedKept ==
  ASSUME ConstantsOK, IInv, \A p \in Proc : Placed(p), \A tk \in Task : Logged(tk), [Next]_vars,
         NEW tk \in Task
  PROVE  Logged(tk)'
<1> USE DEF IInv, Calls
<1>0. /\ latest[tk].at \in Nat /\ latest[tk].at <= now /\ now \in Nat
      /\ latest[tk].state \in LogState /\ latest \in [Task -> Entry]
  BY DEF Clock, TypeOK, Entry, ConstantsOK
<1>1. \A q \in Proc : Comes(q)
  BY HolderSteps
<1>2. LogStep
  BY LogSteps
<1>3. ASSUME latest[tk].state = "none", UNCHANGED latest, Claims(tk)' = {},
             \A p \in Proc : Acquire(p) => job[p].task # tk
      PROVE  Logged(tk)'
  <2>1. \A p \in Proc : Holder(p) => job[p].task # tk
    BY <1>3 DEF Logged
  <2>2. status'[tk] \in {"draft", "ready"}
    BY <1>3, <2>1, UntouchedStays DEF Logged
  <2>3. ASSUME NEW q \in Proc, Holder(q)' PROVE job'[q].task # tk
    BY <1>1, <1>3, <2>1, <2>3 DEF Comes, Logged, Claims, Live
  <2> QED
    BY <1>3, <2>2, <2>3 DEF Logged
<1>4. CASE UNCHANGED <<claims, latest, ended>>
  <2>1. CASE latest[tk].state # "none"
    BY <1>4, <2>1 DEF Logged
  <2>2. CASE latest[tk].state = "none"
    <3>1. Claims(tk)' = {}
      BY <1>4, <2>2 DEF Logged, Claims
    <3>2. \A p \in Proc : ~Acquire(p)
      BY <1>4 DEF Acquire, At, OwnToken, Pending, Live, Named, Busy, TypeOK, ConstantsOK
    <3> QED
      BY <1>3, <1>4, <2>2, <3>1, <3>2
  <2> QED
    BY <2>1, <2>2
<1>5. ASSUME NEW p \in Proc, Acquire(p) PROVE Logged(tk)'
  <2>1. /\ job[p].task \in Task /\ job[p].token \in Token /\ job[p].at \in Nat
        /\ claims[job[p].token] = NoTask /\ job[p].token \notin ended
        /\ Claims(job[p].task) = {} /\ UNCHANGED ended
        /\ claims' = [claims EXCEPT ![job[p].token] = job[p].task]
    BY <1>5, JobFacts DEF Acquire, At, OwnToken, Pending, Live, Named, Busy, Blocked
  <2>2. CASE job[p].task = tk
    <3>1. CASE job[p].at >= latest[tk].at
      <4>1. latest'[tk].state = "running" /\ latest'[tk].token = job[p].token
        BY <1>0, <1>5, <2>2, <3>1 DEF Acquire, Log, Newer
      <4> QED
        BY <2>1, <2>2, <4>1 DEF Logged, TypeOK
    <3>2. CASE ~(job[p].at >= latest[tk].at)
      <4>1. latest'[tk] = latest[tk] /\ latest[tk].at # 0
        BY <1>0, <1>5, <2>1, <2>2, <3>2 DEF Acquire, Log, Newer
      <4>2. latest[tk].state \notin {"none", "running"}
        BY <2>1, <2>2, <4>1 DEF Logged, Claims
      <4> QED
        BY <2>1, <4>1, <4>2 DEF Logged
    <3> QED
      BY <3>1, <3>2
  <2>3. CASE job[p].task # tk
    <3>1. UNCHANGED latest \/ latest'[tk] = latest[tk]
      BY <1>0, <1>5, <2>1, <2>3 DEF Acquire, Log
    <3>2. latest'[tk] = latest[tk]
      BY <3>1
    <3>3. \A u \in Token : claims[u] = tk <=> claims'[u] = tk
      BY <2>1, <2>3 DEF TypeOK, ConstantsOK
    <3>4. CASE latest[tk].state # "none"
      BY <2>1, <3>2, <3>3, <3>4 DEF Logged
    <3>5. CASE latest[tk].state = "none"
      <4>1. \A q \in Proc : Holder(q) => job[q].task # tk
        BY <3>5 DEF Logged
      <4>2. status'[tk] \in {"draft", "ready"}
        BY <1>5, <3>5 DEF Acquire, Logged
      <4>3. ASSUME NEW q \in Proc, Holder(q)' PROVE job'[q].task # tk
        <5>1. Acquire(q) => q = p
          BY <1>5, <2>1 DEF Acquire, At, Named, OwnToken, Pending, TypeOK, Live,
             ConstantsOK
        <5> QED
          BY <1>1, <2>3, <3>5, <4>1, <4>3, <5>1 DEF Comes, Logged, Claims, Live
      <4> QED
        BY <3>2, <3>3, <3>5, <4>2, <4>3 DEF Logged, Claims
    <3> QED
      BY <3>4, <3>5
  <2> QED
    BY <2>2, <2>3
<1>6. ASSUME NEW p \in Proc, LogConflict(p) PROVE Logged(tk)'
  <2>1. /\ job[p].task \in Task /\ job[p].token \in Token /\ job[p].at \in Nat
        /\ UNCHANGED claims /\ ended' = ended \cup {job[p].token}
        /\ Log(job[p].task, job[p].token, "halted", job[p].at)
    BY <1>6, JobFacts DEF LogConflict, At, Named, Busy
  <2>2. CASE latest'[tk] = latest[tk]
    <3>1. CASE latest[tk].state # "none"
      BY <2>1, <2>2, <3>1 DEF Logged
    <3>2. CASE latest[tk].state = "none"
      <4>1. Claims(tk)' = {}
        BY <2>1, <3>2 DEF Logged, Claims
      <4>2. \A q \in Proc : ~Acquire(q)
        BY <2>1 DEF Acquire, At, OwnToken, Pending, Live, Named, Busy, TypeOK, ConstantsOK
      <4>3. \A q \in Proc : Holder(q) => job[q].task # tk
        BY <3>2 DEF Logged
      <4>4. \A q \in Proc : Holder(q)' => job'[q].task # tk
        BY <1>1, <3>2, <4>2, <4>3 DEF Comes, Logged, Claims, Live
      <4> QED
        BY <1>6, <2>2, <3>2, <4>1, <4>4 DEF Logged, LogConflict
    <3> QED
      BY <3>1, <3>2
  <2>3. CASE latest'[tk] # latest[tk]
    <3>1. latest'[tk].state = "halted" /\ latest'[tk].token = job[p].token
      BY <1>0, <2>1, <2>3 DEF Log
    <3> QED
      BY <2>1, <3>1 DEF Logged
  <2> QED
    BY <2>2, <2>3
<1>7. ASSUME NEW t \in Token, Over(t) PROVE Logged(tk)'
  <2>1. /\ /\ claims[t] \in Task /\ ended' = ended \cup {t}
        /\ claims' = [claims EXCEPT ![t] = NoTask]
    BY <1>7 DEF Over, Close, Live, TypeOK
  <2>2. PICK s \in {"halted", "failed", "completed"} : Log(claims[t], t, s, now)
    BY <1>7 DEF Over
  <2>3. CASE claims[t] = tk
    <3>1. latest'[tk].state = s /\ latest'[tk].token = t
      BY <1>0, <2>2, <2>3 DEF Log, Newer
    <3> QED
      BY <2>1, <3>1 DEF Logged
  <2>4. CASE claims[t] # tk
    <3>1. latest'[tk] = latest[tk]
      BY <1>0, <2>1, <2>2, <2>4 DEF Log
    <3>2. \A u \in Token : claims[u] = tk <=> claims'[u] = tk
      BY <2>1, <2>4 DEF TypeOK, ConstantsOK
    <3>3. CASE latest[tk].state # "none"
      BY <2>1, <3>1, <3>2, <3>3 DEF Logged
    <3>4. CASE latest[tk].state = "none"
      <4>1. \A q \in Proc : Holder(q) => job[q].task # tk
        BY <3>4 DEF Logged
      <4>2. status'[tk] \in {"draft", "ready"}
        BY <3>4, <4>1, UntouchedStays DEF Logged
      <4>3. \A q \in Proc : ~Acquire(q)
        BY <2>1 DEF Acquire, At, OwnToken, Pending, Live, Named, Busy, TypeOK, ConstantsOK
      <4>4. \A q \in Proc : Holder(q)' => job'[q].task # tk
        BY <1>1, <3>4, <4>1, <4>3 DEF Comes, Logged, Claims, Live
      <4> QED
        BY <3>1, <3>2, <3>4, <4>2, <4>4 DEF Logged, Claims
    <3> QED
      BY <3>3, <3>4
  <2> QED
    BY <2>3, <2>4
<1> QED
  BY <1>2, <1>4, <1>5, <1>6, <1>7 DEF LogStep

(* As long as commands did not overlap, claims are logged, and completed   *)
(* work stays off the board.                                               *)
LEMMA SettledKept ==
  ASSUME ConstantsOK, IInv, \A p \in Proc : Placed(p), [Next]_vars, Alone,
         \A p \in Proc : Knows(p) /\ Minds(p), \A tk \in Task : Settled(tk), NEW tk \in Task
  PROVE  Settled(tk)'
<1> USE DEF IInv, Calls
<1>0. /\ latest[tk].at \in Nat /\ latest[tk].at <= now /\ now \in Nat
      /\ latest[tk].state \in LogState /\ latest \in [Task -> Entry]
  BY DEF Clock, TypeOK, Entry, ConstantsOK
<1>1. LogStep
  BY LogSteps
<1>2. ASSUME latest[tk].state = "completed", status[tk] \notin {"running", "paused"}
      PROVE  status'[tk] \notin {"running", "paused"}
  <2>0. Claims(tk) = {}
    BY <1>2 DEF Settled
  <2>1. ASSUME NEW p \in Proc, WriteStatus(p) \/ PauseHalted(p) \/ Rollback(p)
        PROVE  status'[tk] = status[tk]
    <3>1. job[p].task # tk
      BY <1>2, <2>0, <2>1 DEF WriteStatus, PauseHalted, Rollback, At, Minds, Placed,
         Holder, Live, Claims
    <3> QED
      BY <2>1, <3>1 DEF WriteStatus, PauseHalted, Rollback, TypeOK
  <2>2. ASSUME NEW p \in Proc, ResetStatus(p) PROVE status'[tk] \in {status[tk], "ready"}
    BY <2>2 DEF ResetStatus, TypeOK
  <2>3. ASSUME NEW u \in Task, Promote(u) PROVE status'[tk] \in {status[tk], "ready"}
    BY <2>3 DEF Promote, TypeOK
  <2> QED
    BY <1>2, <2>1, <2>2, <2>3, StatusWriters
<1>3. CASE UNCHANGED <<claims, latest, ended>>
  BY <1>2, <1>3 DEF Settled, Claims
<1>4. ASSUME NEW p \in Proc, Acquire(p) PROVE Settled(tk)'
  <2>1. /\ job[p].task \in Task /\ job[p].token \in Token /\ job[p].at \in Nat
        /\ claims' = [claims EXCEPT ![job[p].token] = job[p].task] /\ UNCHANGED status
        /\ latest[job[p].task].at <= job[p].at \/ latest[job[p].task].state = "halted"
    BY <1>4, JobFacts DEF Acquire, At, Named, Busy, Minds
  <2>2. CASE job[p].task = tk
    <3>1. latest'[tk].state \in {"running", "halted"}
      BY <1>0, <1>4, <2>1, <2>2 DEF Acquire, Log, Newer
    <3> QED
      BY <3>1 DEF Settled
  <2>3. CASE job[p].task # tk
    <3>1. latest'[tk] = latest[tk]
      BY <1>0, <1>4, <2>1, <2>3 DEF Acquire, Log
    <3>2. Claims(tk)' # {} => Claims(tk) # {}
      BY <2>1, <2>3 DEF Claims, TypeOK
    <3> QED
      BY <2>1, <3>1, <3>2 DEF Settled
  <2> QED
    BY <2>2, <2>3
<1>5. ASSUME NEW p \in Proc, LogConflict(p) PROVE Settled(tk)'
  <2>1. /\ job[p].task \in Task /\ UNCHANGED <<claims, status>>
        /\ Log(job[p].task, job[p].token, "halted", job[p].at)
    BY <1>5 DEF LogConflict, At, Named, Busy
  <2>2. latest'[tk] = latest[tk] \/ latest'[tk].state = "halted"
    BY <1>0, <2>1 DEF Log
  <2> QED
    BY <2>1, <2>2 DEF Settled, Claims
<1>6. ASSUME NEW t \in Token, Over(t) PROVE Settled(tk)'
  <2>1. claims[t] \in Task /\ claims' = [claims EXCEPT ![t] = NoTask]
    BY <1>6 DEF Over, Close, Live, TypeOK
  <2>2. PICK s \in {"halted", "failed", "completed"} :
          /\ Log(claims[t], t, s, now)
          /\ s = "completed" => \E p \in Proc : Complete(p) /\ job[p].task = claims[t]
    BY <1>6 DEF Over
  <2>3. CASE claims[t] = tk
    <3>1. latest'[tk].state = s
      BY <1>0, <2>2, <2>3 DEF Log, Newer
    <3>2. Claims(tk)' = {}
      BY <1>6, <2>1, <2>3 DEF Claims, Over, Rows, OneClaimPerTask, TypeOK, ConstantsOK,
         Live
    <3>3. ASSUME NEW p \in Proc, Complete(p), job[p].task = tk
          PROVE  status'[tk] \notin {"running", "paused"}
      BY <3>3 DEF Complete, At, Minds, Knows, Placed, Holder
    <3> QED
      BY <2>2, <2>3, <3>1, <3>2, <3>3 DEF Settled
  <2>4. CASE claims[t] # tk
    <3>1. latest'[tk] = latest[tk]
      BY <1>0, <2>1, <2>2, <2>4 DEF Log
    <3>2. Claims(tk)' # {} => Claims(tk) # {}
      BY <2>1 DEF Claims, TypeOK, ConstantsOK
    <3> QED
      BY <1>2, <3>1, <3>2 DEF Settled
  <2> QED
    BY <2>3, <2>4
<1> QED
  BY <1>1, <1>3, <1>4, <1>5, <1>6 DEF LogStep

(* What a bystander minds stays: the step of another command is about      *)
(* another task.                                                           *)
LEMMA BystanderMinds ==
  ASSUME ConstantsOK, IInv, \A p \in Proc : Placed(p), [Next]_vars, Alone, ~overlap',
         NEW q \in Proc, Minds(q), Busy(q), job'[q] = job[q]
  PROVE  Minds(q)'
<1> USE DEF IInv, Calls
<1> DEFINE mine == job[q].task
<1>0. mine \in Task /\ latest \in [Task -> Entry]
  BY DEF Named, TypeOK
<1>1. LogStep
  BY LogSteps
<1>2. ASSUME NEW p \in Proc, Busy(p), job'[p] # job[p] PROVE job[p].task # mine
  BY <1>2 DEF Alone
<1>3. /\ latest'[mine] = latest[mine]
      /\ Live(job[q].token) /\ claims[job[q].token] = mine => Live(job[q].token)'
  <2>1. CASE UNCHANGED <<claims, latest, ended>>
    BY <2>1 DEF Live
  <2>2. ASSUME NEW p \in Proc, Acquire(p) \/ LogConflict(p)
       PROVE  latest'[mine] = latest[mine]
    <3>1. Busy(p) /\ job[p].task \in Task /\ job'[p] # job[p]
      BY <2>2 DEF Acquire, LogConflict, At, Busy, Named, Return, Continue, Idle, TypeOK
    <3> QED
      BY <1>0, <1>2, <2>2, <3>1 DEF Acquire, LogConflict, Log
  <2>3. ASSUME NEW p \in Proc, Acquire(p) \/ LogConflict(p), Live(job[q].token)
       PROVE  Live(job[q].token)'
    BY <2>3 DEF Acquire, LogConflict, Live, At, OwnToken, Pending, Named, TypeOK,
       ConstantsOK, Busy
  <2>4. ASSUME NEW t \in Token, Over(t)
        PROVE  /\ latest'[mine] = latest[mine]
               /\ claims[job[q].token] = mine => claims'[job[q].token] = claims[job[q].token]
    <3>1. claims[t] # mine
      BY <1>2, <2>4 DEF Over
    <3> QED
      BY <1>0, <2>4, <3>1 DEF Over, Log, Close, TypeOK, Live
  <2> QED
    BY <1>1, <2>1, <2>2, <2>3, <2>4 DEF LogStep, Live
<1>4. status[mine] = "completed" => status'[mine] = "completed"
  <2>1. ASSUME NEW p \in Proc, WriteStatus(p) \/ PauseHalted(p) \/ ResetStatus(p) \/ Rollback(p)
        PROVE  status'[mine] = status[mine]
    <3>0. job \in [Proc -> Job] /\ job[p].pc \in {"write", "pause", "reset", "rollback"}
      BY <2>1 DEF WriteStatus, PauseHalted, ResetStatus, Rollback, At, TypeOK
    <3>1. UNCHANGED status \/ \E s : status' = [status EXCEPT ![job[p].task] = s]
      BY <2>1 DEF WriteStatus, PauseHalted, ResetStatus, Rollback
    <3>2. \/ Return(p)
          \/ \E pc \in {"finalize", "check", "rollback", "undo"} : Goto(p, pc) /\ job[p].pc # pc
      BY <2>1 DEF WriteStatus, PauseHalted, ResetStatus, Rollback, At
    <3>3. Busy(p) /\ job'[p] # job[p]
      BY <3>0, <3>2 DEF Busy, Return, Goto, Idle, Job
    <3> QED
      BY <1>0, <1>2, <3>1, <3>3 DEF TypeOK
  <2>2. ASSUME NEW u \in Task, Promote(u)
       PROVE  status[mine] = "completed" => status'[mine] = "completed"
    BY <1>0, <2>2 DEF Promote, TypeOK
  <2> QED
    BY <2>1, <2>2, StatusWriters
<1> QED
  BY <1>3, <1>4 DEF Minds, Placed, Holder

(* What the command that moved minds.                                      *)
LEMMA MoverMinds ==
  ASSUME ConstantsOK, IInv, [Next]_vars, \A p \in Proc : Placed(p) /\ Minds(p)
  PROVE  \A q \in Proc : job'[q] # job[q] => Minds(q)'
<1> USE DEF IInv, Calls, Minds
<1>0. /\ latest \in [Task -> Entry] /\ now \in Nat
      /\ \A tk \in Task : latest[tk].at \in Nat /\ latest[tk].at <= now
  BY DEF Clock, TypeOK, Entry, ConstantsOK
<1>1. ASSUME NEW p \in Proc, ClaimGate(p)
       PROVE  \A q \in Proc : job'[q] # job[q] => Minds(q)'
  <2>0. job[p].task \in Task
    BY <1>1 DEF ClaimGate, At, Named, Busy
  <2>1. CASE \E t \in Token : Fresh(t) /\ Continue(p, "acquire", t, now)
    BY <1>0, <1>1, <2>0, <2>1, ContinueEffect, JobFacts DEF ClaimGate
  <2>2. CASE job' = [job EXCEPT ![p] = Loading("claimRecover", job[p].task)]
    BY <1>0, <1>1, <2>0, <2>2, LoadingIsJob, ReplaceEffect DEF ClaimGate, Loading,
       Recovery
  <2>3. CASE Return(p)
    BY <2>3, IdleIsJob, ReplaceEffect DEF Return, Idle
  <2> QED
    BY <1>1, <2>1, <2>2, <2>3 DEF ClaimGate
<1>2. ASSUME NEW p \in Proc, RecoverGate(p)
       PROVE  \A q \in Proc : job'[q] # job[q] => Minds(q)'
  <2>1. CASE \E t \in Token : Fresh(t) /\ Continue(p, "reclaim", t, job[p].at)
    BY <1>2, <2>1, ContinueEffect, JobFacts DEF RecoverGate, At
  <2>2. CASE Return(p)
    BY <2>2, IdleIsJob, ReplaceEffect DEF Return, Idle
  <2> QED
    BY <1>2, <2>1, <2>2 DEF RecoverGate
<1>3. ASSUME NEW p \in Proc, Reclaim(p)
       PROVE  \A q \in Proc : job'[q] # job[q] => Minds(q)'
  <2>0. job[p].task \in Task /\ latest[job[p].task].at <= job[p].at
    BY <1>3 DEF Reclaim, At, Named, Busy
  <2>1. /\ job'[p].pc = "acquire" /\ job'[p].task = job[p].task /\ job'[p].at = job[p].at
        /\ \A q \in Proc \ {p} : job'[q] = job[q]
    BY <1>3, GotoEffect DEF Reclaim
  <2>2. latest' = latest \/ \E t : Log(job[p].task, t, "halted", now)
    BY <1>3 DEF Reclaim
  <2>3. latest'[job[p].task] = latest[job[p].task] \/ latest'[job[p].task].state = "halted"
    <3>1. ASSUME NEW t, Log(job[p].task, t, "halted", now)
          PROVE  \/ latest'[job[p].task] = latest[job[p].task]
                 \/ latest'[job[p].task].state = "halted"
      <4> DEFINE e == [state |-> "halted", token |-> t, at |-> now]
      <4>1. latest'[job[p].task] = latest[job[p].task] \/ latest'[job[p].task] = e
        BY <1>0, <2>0, <3>1 DEF Log
      <4> QED
        BY <4>1
    <3> QED
      BY <2>2, <3>1
  <2> QED
    BY <2>0, <2>1, <2>3
<1>4. ASSUME NEW p \in Proc, Acquire(p)
       PROVE  \A q \in Proc : job'[q] # job[q] => Minds(q)'
  <2>1. CASE job[p].op \in Recovery
    <3>1. /\ /\ job'[p].pc = "reset" /\ job'[p].token = job[p].token
          /\ job[p].token \in Token
          /\ \A q \in Proc \ {p} : job'[q] = job[q]
      BY <1>4, <2>1, ContinueEffect, JobFacts DEF Acquire, At, Named
    <3>2. Live(job[p].token)'
      BY <1>4, <3>1 DEF Acquire, At, Named, Busy, Live, TypeOK, ConstantsOK
    <3> QED
      BY <3>1, <3>2 DEF Live
  <2>2. CASE job[p].op \notin Recovery
    BY <1>4, <2>2, IdleIsJob, ReplaceEffect DEF Acquire, Return, Idle
  <2> QED
    BY <2>1, <2>2
<1>5. ASSUME NEW p \in Proc, AcquireConflict(p)
       PROVE  \A q \in Proc : job'[q] # job[q] => Minds(q)'
  BY <1>5, <1>0, GotoEffect DEF AcquireConflict, At, Named, Busy, Placed, Holder, Live,
     store, TypeOK
<1>6. ASSUME NEW p \in Proc, LogConflict(p)
       PROVE  \A q \in Proc : job'[q] # job[q] => Minds(q)'
  BY <1>6, <1>0, IdleIsJob, ReplaceEffect DEF LogConflict, Return, Idle, At
<1>7. ASSUME NEW p \in Proc, LoadTask(p)
       PROVE  \A q \in Proc : job'[q] # job[q] => Minds(q)'
  BY <1>7, <1>0, GotoEffect, IdleIsJob, ReplaceEffect DEF LoadTask, Return, Idle, At,
     Named, Busy, Placed, Holder, Live, store, TypeOK
<1>8. ASSUME NEW p \in Proc, Audit(p) PROVE \A q \in Proc : job'[q] # job[q] => Minds(q)'
  BY <1>8, <1>0, GotoEffect, IdleIsJob, ReplaceEffect DEF Audit, Return, Idle, At,
     Named, Busy, Placed, Holder, Live, store, TypeOK
<1>9. ASSUME NEW p \in Proc, WriteStatus(p)
       PROVE  \A q \in Proc : job'[q] # job[q] => Minds(q)'
  <2>1. CASE Return(p)
    BY <2>1, IdleIsJob, ReplaceEffect DEF Return, Idle
  <2>2. CASE /\ job[p].op = "release" /\ Goto(p, "finalize")
             /\ status' = [status EXCEPT ![job[p].task] = MovesTo("release")]
    <3>1. job[p].task \in Task /\ Live(job[p].token) /\ UNCHANGED claims
      BY <1>9 DEF WriteStatus, At, Named, Busy, store
    <3>2. status'[job[p].task] = "completed"
      BY <2>2, <3>1 DEF MovesTo, TypeOK
    <3> QED
      BY <2>2, <3>1, <3>2, GotoEffect DEF Live
  <2> QED
    BY <1>9, <2>1, <2>2 DEF WriteStatus
<1>10. ASSUME NEW p \in Proc, Complete(p)
       PROVE  \A q \in Proc : job'[q] # job[q] => Minds(q)'
  <2>1. CASE job' = [job EXCEPT ![p] = Loading("claim", job[p].task)]
    <3>1. job[p].task \in Task
      BY <1>10 DEF Complete, At, Named, Busy
    <3>2. /\ job'[p] = Loading("claim", job[p].task)
          /\ \A q \in Proc \ {p} : job'[q] = job[q]
      BY <2>1, <3>1, LoadingIsJob, ReplaceEffect
    <3>3. latest'[job[p].task].at = now
      BY <1>0, <1>10, <3>1 DEF Complete, Log, Newer
    <3> QED
      BY <1>0, <3>2, <3>3 DEF Loading
  <2>2. CASE Return(p)
    BY <2>2, IdleIsJob, ReplaceEffect DEF Return, Idle
  <2> QED
    BY <1>10, <2>1, <2>2 DEF Complete
<1>11. ASSUME NEW p \in Proc, CompleteFails(p)
       PROVE  \A q \in Proc : job'[q] # job[q] => Minds(q)'
  BY <1>11, <1>0, GotoEffect, IdleIsJob, ReplaceEffect DEF CompleteFails, Return, Idle,
     At, Named, Busy, Placed, Holder, Live, store, TypeOK
<1>12. ASSUME NEW p \in Proc, PauseHalted(p)
       PROVE  \A q \in Proc : job'[q] # job[q] => Minds(q)'
  BY <1>12, <1>0, IdleIsJob, ReplaceEffect DEF PauseHalted, Return, Idle, At
<1>13. ASSUME NEW p \in Proc, ResetStatus(p)
       PROVE  \A q \in Proc : job'[q] # job[q] => Minds(q)'
  BY <1>13, <1>0, GotoEffect DEF ResetStatus, At, Named, Busy, Placed, Holder, Live,
     store, TypeOK
<1>14. ASSUME NEW p \in Proc, RecoverAudit(p)
       PROVE  \A q \in Proc : job'[q] # job[q] => Minds(q)'
  BY <1>14, <1>0, GotoEffect DEF RecoverAudit, At, Named, Busy, Placed, Holder, Live,
     store, TypeOK, Recovery
<1>15. ASSUME NEW p \in Proc, Rollback(p)
       PROVE  \A q \in Proc : job'[q] # job[q] => Minds(q)'
  BY <1>15, <1>0, GotoEffect DEF Rollback, At, Named, Busy, Placed, Holder, Live, store,
     TypeOK
<1>16. ASSUME NEW p \in Proc, HaltRecovery(p)
       PROVE  \A q \in Proc : job'[q] # job[q] => Minds(q)'
  BY <1>16, <1>0, IdleIsJob, ReplaceEffect DEF HaltRecovery, Return, Idle, At
<1>17. ASSUME NEW p \in Proc, Crash(p) PROVE \A q \in Proc : job'[q] # job[q] => Minds(q)'
  BY <1>17, <1>0, IdleIsJob, ReplaceEffect DEF Crash, Return, Idle, At
<1>18. ASSUME NEW p \in Proc, NEW tk \in Task, CallClaim(p, tk)
       PROVE  \A q \in Proc : job'[q] # job[q] => Minds(q)'
  BY <1>18, <1>0, LoadingIsJob, ReplaceEffect DEF CallClaim, Recovery, Loading, Start,
     store
<1>19. ASSUME NEW p \in Proc, NEW tk \in Task, CallRecover(p, tk)
       PROVE  \A q \in Proc : job'[q] # job[q] => Minds(q)'
  BY <1>19, <1>0, LoadingIsJob, ReplaceEffect DEF CallRecover, Recovery, Loading, Start,
     store
<1>20. ASSUME NEW p \in Proc, NEW t \in Token, NEW op \in Verb \cup {"release"},
              CallTransition(p, op, t)
       PROVE  \A q \in Proc : job'[q] # job[q] => Minds(q)'
  BY <1>20, HoldingIsJob, ReplaceEffect DEF CallTransition, Start, Active, Op, Holding,
     Live, store
<1>21. ASSUME NEW p \in Proc, NEW t \in Token, NEW lockConflict \in BOOLEAN,
              ReleaseHalted(p, t, lockConflict)
       PROVE  \A q \in Proc : job'[q] # job[q] => Minds(q)'
  <2>0. Live(t) /\ claims[t] \in Task
    BY <1>21 DEF ReleaseHalted, Live, TypeOK
  <2>1. CASE job' = [job EXCEPT ![p] = Holding("pause", "halt", t)]
    <3>1. latest'[claims[t]].state = "halted"
      BY <1>0, <1>21, <2>0 DEF ReleaseHalted, Log, Newer
    <3>2. job'[p] = Holding("pause", "halt", t) /\ \A q \in Proc \ {p} : job'[q] = job[q]
      BY <2>0, <2>1, HoldingIsJob, ReplaceEffect DEF Op
    <3> QED
      BY <3>1, <3>2 DEF Holding
  <2>2. CASE UNCHANGED job
    BY <2>2
  <2> QED
    BY <1>21, <2>1, <2>2 DEF ReleaseHalted, Start
<1>22. ASSUME NEW t \in Token, ReleaseFailed(t)
       PROVE  \A q \in Proc : job'[q] # job[q] => Minds(q)'
  BY <1>22 DEF ReleaseFailed
<1>23. ASSUME NEW t \in Token, Expire(t)
       PROVE  \A q \in Proc : job'[q] # job[q] => Minds(q)'
  BY <1>23 DEF Expire
<1>24. ASSUME NEW t \in Token, NEW tk \in Task, LockFile(t, tk)
       PROVE  \A q \in Proc : job'[q] # job[q] => Minds(q)'
  BY <1>24 DEF LockFile
<1>25. ASSUME NEW tk \in Task, UnlockFile(tk)
       PROVE  \A q \in Proc : job'[q] # job[q] => Minds(q)'
  BY <1>25 DEF UnlockFile
<1>26. ASSUME NEW tk \in Task, Promote(tk)
       PROVE  \A q \in Proc : job'[q] # job[q] => Minds(q)'
  BY <1>26 DEF Promote
<1>27. ASSUME Tick PROVE \A q \in Proc : job'[q] # job[q] => Minds(q)'
  BY <1>27 DEF Tick
<1>28. CASE UNCHANGED vars
  BY <1>28 DEF vars
<1> QED
  BY <1>1, <1>2, <1>3, <1>4, <1>5, <1>6, <1>7, <1>8, <1>9, <1>10, <1>11, <1>12, <1>13,
     <1>14, <1>15, <1>16, <1>17, <1>18, <1>19, <1>20, <1>21, <1>22, <1>23, <1>24, <1>25,
     <1>26, <1>27, <1>28 DEF Next, Step

(* The strengthening holds at first, when nobody ever claimed anything.    *)
LEMMA InitOutcome == ASSUME ConstantsOK, Init PROVE OInv
BY DEF ConstantsOK, Init, OInv, Placed, Logged, Settled, Minds, Holder, Claims, Idle,
   NoEntry

(* The strengthening is inductive, given the lifecycle's invariant.        *)
LEMMA OInvKept == ASSUME ConstantsOK, IInv, OInv, [Next]_vars PROVE OInv'
<1>1. \A p \in Proc : Placed(p)'
  BY PlacedKept DEF OInv
<1>2. \A tk \in Task : Logged(tk)'
  BY LoggedKept DEF OInv
<1>3. ASSUME ~overlap' PROVE (\A tk \in Task : Settled(tk)') /\ \A q \in Proc : Minds(q)'
  <2>1. ~overlap
    BY <1>3, OverlapStays DEF IInv
  <2>2. Alone /\ (\A p \in Proc : Knows(p) /\ Minds(p)) /\ \A tk \in Task : Settled(tk)
    BY <2>1 DEF IInv, Informed, OInv
  <2>3. \A tk \in Task : Settled(tk)'
    BY <2>2, SettledKept DEF OInv
  <2>4. ASSUME NEW q \in Proc PROVE Minds(q)'
    <3>1. CASE job'[q] # job[q]
      BY <2>2, <3>1, MoverMinds DEF OInv
    <3>2. CASE job'[q] = job[q] /\ Busy(q)
      BY <1>3, <2>2, <3>2, BystanderMinds DEF OInv
    <3>3. CASE job'[q] = job[q] /\ ~Busy(q)
      BY <3>3 DEF Minds, Busy
    <3> QED
      BY <3>1, <3>2, <3>3
  <2> QED
    BY <2>3, <2>4
<1> QED
  BY <1>1, <1>2, <1>3 DEF OInv

(* What the log says and what the status says leave no task behind.        *)
LEMMA NoneStranded == ASSUME ConstantsOK, IInv, OInv PROVE NoTaskStranded
<1> USE DEF IInv
<1> SUFFICES ASSUME NEW tk \in Task,
                    \A p \in Proc : ~(Busy(p) /\ job[p].task = tk),
                    status[tk] \notin {"draft", "completed", "aborted"},
                    Claims(tk) = {},
                    ~(status[tk] \in {"running", "paused"} /\ latest[tk].state = "failed"),
                    ~(/\ status[tk] \in {"running", "paused"} /\ latest[tk].state = "completed"
                      /\ overlap)
             PROVE  Claimable(tk) \/ Recoverable(status[tk], tk)
  BY DEF NoTaskStranded
<1>1. /\ Logged(tk) /\ status[tk] \in {"ready", "running", "paused"}
      /\ latest[tk].state \in LogState
  BY DEF OInv, TypeOK, Status, Entry
<1>2. CASE latest[tk].state = "none"
  BY <1>1, <1>2 DEF Logged, Claimable, Permits
<1>3. CASE latest[tk].state = "running"
  BY <1>1, <1>3 DEF Logged, Claims
<1>4. CASE latest[tk].state \in {"halted", "failed"}
  <2>1. CASE status[tk] = "ready"
    <3>1. latest[tk].token \in Token /\ ~Live(latest[tk].token)
      BY <1>1, <1>4 DEF Logged, Rows, EndedIsOver, TypeOK
    <3>2. latest[tk].token \notin {fileLock[u] : u \in Task}
      BY <3>1 DEF Rows, LocksAreOwned, ConstantsOK
    <3> QED
      BY <1>4, <2>1, <3>1, <3>2 DEF Recoverable, Permits, Active
  <2>2. CASE status[tk] \in {"running", "paused"}
    BY <1>4, <2>2 DEF Recoverable
  <2> QED
    BY <1>1, <2>1, <2>2
<1>5. CASE latest[tk].state = "completed"
  <2>1. CASE status[tk] = "ready"
    BY <1>5, <2>1 DEF Claimable, Permits
  <2>2. CASE status[tk] \in {"running", "paused"}
    BY <1>5, <2>2 DEF OInv, Settled
  <2> QED
    BY <1>1, <2>1, <2>2
<1> QED
  BY <1>1, <1>2, <1>3, <1>4, <1>5 DEF LogState

(* No task is stranded: when no command is at work on it, a task that is   *)
(* not done is claimable, recoverable or claimed; but for work logged as   *)
(* failed, or as completed while another command overtook it.              *)
THEOREM NoTaskIsStranded == Spec => []NoTaskStranded
<1>1. Init => OInv
  BY InitOutcome, ConstantsOK
<1>2. IInv /\ OInv /\ [Next]_vars => OInv'
  BY OInvKept, ConstantsOK
<1>3. IInv /\ OInv => NoTaskStranded
  BY NoneStranded, ConstantsOK
<1> QED
  BY <1>1, <1>2, <1>3, Inductive, PTL DEF Spec
=============================================================================
