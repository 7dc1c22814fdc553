--------------------------- MODULE TaskLifecycle ----------------------------
(***************************************************************************)
(* The commands that take a task through its life: dv work claim, recover, *)
(* start, pause, resume, complete and abort, and dv claim release.  They   *)
(* keep a task's status in a Markdown file and its execution attempts in   *)
(* the runtime store, two stores without a common transaction.  Here a     *)
(* transaction of the runtime store is a step (RuntimeStore looks inside), *)
(* and so is each awaited read or write of a Markdown file.                *)
(***************************************************************************)
EXTENDS Naturals

CONSTANTS
  Proc,      \* command invocations in flight
  Token, NoToken,
  Task, NoTask,
  MaxNow     \* bound on the clock

ASSUME ConstantsOK ==
  /\ NoToken \notin Token /\ NoTask \notin Task /\ MaxNow \in Nat

VARIABLES
  status,    \* [Task -> status in the frontmatter of its file]
  claims,    \* [Token -> the task of its claim row, or NoTask]
  expired,   \* claims whose lease is over
  fileLock,  \* [Task -> the claim that locks the task's own file]
  latest,    \* [Task -> the entry of its log that readiness looks at]
  ended,     \* attempts with a terminal entry
  now,       \* the wall clock
  job,       \* [Proc -> what a command in flight remembers]
  handed,    \* history: claims given to an agent, or left by a killed command
  overlap    \* history: two commands on one task were in flight together

vars == <<status, claims, expired, fileLock, latest, ended, now, job,
          handed, overlap>>

Status == {"draft", "ready", "running", "paused", "completed", "aborted"}
LogState == {"none", "running", "completed", "failed", "halted"}
Verb == {"start", "pause", "resume", "complete", "abort"}
Recovery == {"recover", "claimRecover"}
Op == Verb \cup Recovery \cup {"claim", "release", "halt"}

NoEntry == [state |-> "none", token |-> NoToken, at |-> 0]
Entry == [state : LogState, token : Token \cup {NoToken}, at : Nat]
Idle == [pc |-> "idle", op |-> "claim", task |-> NoTask, token |-> NoToken,
         read |-> "draft", at |-> 0]
Job == [pc : {"idle", "gate", "reclaim", "acquire", "refused", "load", "audit",
              "write", "finalize", "pause", "reset", "check", "rollback", "undo"},
        op : Op, task : Task \cup {NoTask}, token : Token \cup {NoToken},
        read : Status, at : Nat]

Init ==
  /\ status \in [Task -> {"draft", "ready"}]
  /\ claims = [t \in Token |-> NoTask]
  /\ expired = {}
  /\ fileLock = [tk \in Task |-> NoToken]
  /\ latest = [tk \in Task |-> NoEntry]
  /\ ended = {}
  /\ now = 0
  /\ job = [p \in Proc |-> Idle]
  /\ handed = {} /\ overlap = FALSE

-----------------------------------------------------------------------------
Live(t) == t \in Token /\ claims[t] # NoTask
Active(t) == Live(t) /\ t \notin expired
Claims(tk) == {t \in Token : claims[t] = tk}
Busy(p) == job[p].pc # "idle"
Fresh(t) == claims[t] = NoTask /\ t \notin ended /\ \A p \in Proc : job[p].token # t

At(p, pc) == job[p].pc = pc
Goto(p, pc) == job' = [job EXCEPT ![p].pc = pc]
Return(p) == job' = [job EXCEPT ![p] = Idle]
Continue(p, pc, t, at) == job' = [job EXCEPT ![p] =
  [pc |-> pc, op |-> @.op, task |-> @.task, token |-> t, read |-> @.read, at |-> at]]

(* Mutant of Newer: of two entries of one millisecond the first one counts.*)
NewerStrictly(e, at) == at > e.at

(* loadTaskExecutionLogSummaries: the latest created_at, then the last id. *)
Newer(e, at) == at >= e.at
Log(tk, t, state, at) ==
  latest' = [latest EXCEPT ![tk] =
    IF Newer(@, at) THEN [state |-> state, token |-> t, at |-> at] ELSE @]

(* Mutant of Close: the locks of the claim stay behind.                    *)
CloseKeepingLocks(t) ==
  /\ claims' = [claims EXCEPT ![t] = NoTask]
  /\ expired' = expired \ {t}
  /\ ended' = ended \cup {t}
  /\ handed' = handed \ {t}
  /\ UNCHANGED fileLock

(* A terminal entry is logged, the claim and its locks are deleted.        *)
Close(t) ==
  /\ claims' = [claims EXCEPT ![t] = NoTask]
  /\ expired' = expired \ {t}
  /\ fileLock' = [tk \in Task |-> IF fileLock[tk] = t THEN NoToken ELSE fileLock[tk]]
  /\ ended' = ended \cup {t}
  /\ handed' = handed \ {t}
store == <<claims, expired, fileLock, ended, handed>>

(* A command on a task begins.                                             *)
Begin(tk) == overlap' = (overlap \/ \E q \in Proc : Busy(q) /\ job[q].task = tk)
Start(p, j) ==
  /\ ~Busy(p)
  /\ Begin(j.task)
  /\ job' = [job EXCEPT ![p] = j]
Holding(pc, op, t) == [pc |-> pc, op |-> op, task |-> claims[t], token |-> t,
                       read |-> "draft", at |-> 0]

-----------------------------------------------------------------------------
(* readyPermitting, or nothing logged.                                     *)
Permits(tk) == latest[tk].state \in {"none", "completed"}

(* recoverTaskIfSafelyRecoverable: the claim of the running attempt is gone*)
(* or expired and holds no lock.                                           *)
LeftBehind(tk) == LET e == latest[tk] IN
  e.state = "running" /\ ~Active(e.token) /\ e.token \notin {fileLock[u] : u \in Task}

(* Mutant of Recoverable: only paused work is recovered.                   *)
RecoverablePaused(read, tk) == LET e == latest[tk] IN
  \/ read = "paused" /\ e.state = "halted"
  \/ /\ read = "ready" /\ e.state # "none" /\ ~Permits(tk)
     /\ ~Active(e.token) /\ e.token \notin {fileLock[u] : u \in Task}

(* assertRecoverySafe and assertRecoverableStatus, given a clean worktree. *)
Recoverable(read, tk) == LET e == latest[tk] IN
  \/ read \in {"running", "paused"} /\ e.state = "halted"
  \/ /\ read = "ready" /\ e.state # "none" /\ ~Permits(tk)
     /\ ~Active(e.token) /\ e.token \notin {fileLock[u] : u \in Task}

(* A command that claims or recovers loads the task: first its Markdown ... *)
Loading(op, tk) == [pc |-> "gate", op |-> op, task |-> tk, token |-> NoToken,
                    read |-> status[tk], at |-> now]
CallClaim(p, tk) ==
  /\ Start(p, Loading("claim", tk))
  /\ UNCHANGED <<status, store, latest, now>>
CallRecover(p, tk) ==
  /\ Start(p, Loading("recover", tk))
  /\ UNCHANGED <<status, store, latest, now>>

(* ... then the execution log.  A claimable task gets a claim record, one  *)
(* left behind is recovered first, unless git says no.                     *)
ClaimGate(p) == LET j == job[p] claimable == j.read = "ready" /\ Permits(j.task) IN
  /\ At(p, "gate") /\ j.op = "claim"
  /\ \/ claimable /\ \E t \in Token :
          /\ Fresh(t)
          /\ Continue(p, "acquire", t, now)
     \/ LeftBehind(j.task)
          /\ job' = [job EXCEPT ![p] = Loading("claimRecover", j.task)]
     \/ ~claimable /\ Return(p)
  /\ UNCHANGED <<status, store, latest, now, overlap>>

RecoverGate(p) == LET j == job[p] IN
  /\ At(p, "gate") /\ j.op \in Recovery
  /\ \/ /\ Recoverable(j.read, j.task)
        /\ \E t \in Token :
             /\ Fresh(t)
             /\ Continue(p, "reclaim", t, j.at)
     \/ Return(p)
  /\ UNCHANGED <<status, store, latest, now, overlap>>

(* reclaimExpiredRuntimeClaimForRecovery                                   *)
Reclaim(p) == LET tk == job[p].task dead == Claims(tk) \cap expired IN
  /\ At(p, "reclaim")
  /\ Goto(p, "acquire")
  /\ IF dead = {} THEN UNCHANGED <<store, latest>>
     ELSE \E t \in dead : Close(t) /\ Log(tk, t, "halted", now)
  /\ UNCHANGED <<status, now, overlap>>

(* Mutant of Blocked: an expired claim blocks nobody.                      *)
BlockedByActive(j) ==
  \/ \E t \in Claims(j.task) : Active(t)
  \/ j.op \in Recovery /\ fileLock[j.task] # NoToken

(* acquireRuntimeClaim: the task has no claim, and a recovery, which locks *)
(* the task's file with it, finds the file unlocked.                       *)
Blocked(j) ==
  \/ Claims(j.task) # {}
  \/ j.op \in Recovery /\ fileLock[j.task] # NoToken

Acquire(p) == LET j == job[p] IN
  /\ At(p, "acquire")
  /\ ~Blocked(j)
  /\ claims' = [claims EXCEPT ![j.token] = j.task]
  /\ Log(j.task, j.token, "running", j.at)
  /\ IF j.op \in Recovery
       THEN /\ fileLock' = [fileLock EXCEPT ![j.task] = j.token]
            /\ Continue(p, "reset", j.token, 0)
            /\ UNCHANGED handed
       ELSE handed' = handed \cup {j.token} /\ Return(p) /\ UNCHANGED fileLock
  /\ UNCHANGED <<status, expired, ended, now, overlap>>

AcquireConflict(p) ==
  /\ At(p, "acquire") /\ Blocked(job[p])
  /\ Goto(p, "refused")
  /\ UNCHANGED <<status, store, latest, now, overlap>>

LogConflict(p) == LET j == job[p] IN
  /\ At(p, "refused")
  /\ Log(j.task, j.token, "halted", j.at)
  /\ ended' = ended \cup {j.token}
  /\ Return(p)
  /\ UNCHANGED <<status, claims, expired, fileLock, now, handed, overlap>>

-----------------------------------------------------------------------------
(* Mutant of MovesTo: one verb is taken for the name of a status.          *)
MovesToVerb(op) == CASE op \in {"start", "resume"} -> "running"
                     [] op = "pause" -> "paused"
                     [] op = "abort" -> "abort"
                     [] OTHER -> "completed"

(* The actions of the workflow profile, and the move that a successful     *)
(* release makes, which the rules allow to completed work as well.         *)
MovesTo(op) == CASE op \in {"start", "resume"} -> "running"
                [] op = "pause" -> "paused"
                [] op = "abort" -> "aborted"
                [] OTHER -> "completed"
MovesFrom(op) == CASE op = "start" -> {"ready"}
                 [] op = "pause" -> {"running"}
                 [] op = "resume" -> {"paused"}
                 [] op = "complete" -> {"ready", "running"}
                 [] op = "release" -> {"ready", "running", "completed"}
                 [] OTHER -> {"draft", "ready", "running", "paused"}

(* transitionTask: the claim is active ...                                 *)
CallTransition(p, op, t) ==
  /\ Active(t)
  /\ Start(p, Holding("load", op, t))
  /\ UNCHANGED <<status, store, latest, now>>

(* Mutant of LoadTask: the from-status of the action is not looked at.     *)
LoadTaskFromAny(p) == LET j == job[p] IN
  /\ At(p, "load")
  /\ \/ Goto(p, IF MovesTo(j.op) = "completed" THEN "audit" ELSE "write")
     \/ Return(p)
  /\ UNCHANGED <<status, store, latest, now, overlap>>

(* ... the task is loaded and the move evaluated, with a reason that the   *)
(* profile may refuse.                                                     *)
LoadTask(p) == LET j == job[p] IN
  /\ At(p, "load")
  /\ \/ /\ status[j.task] \in MovesFrom(j.op)
        /\ Goto(p, IF MovesTo(j.op) = "completed" THEN "audit" ELSE "write")
     \/ Return(p)
  /\ UNCHANGED <<status, store, latest, now, overlap>>

(* assertCompletedHasEvidence, and the audit: the claim that the task has  *)
(* by now locks the task's file; other changed files may fail it.          *)
Audited(tk) == fileLock[tk] \in Claims(tk)
Audit(p) == LET tk == job[p].task IN
  /\ At(p, "audit")
  /\ (Audited(tk) /\ Goto(p, "write")) \/ Return(p)
  /\ UNCHANGED <<status, store, latest, now, overlap>>

(* transitionWorkItem reads the file again and writes the new status over  *)
(* whatever it is by now; open tasks in the text make a completion fail.   *)
WriteStatus(p) == LET j == job[p] IN
  /\ At(p, "write")
  /\ \/ /\ status' = [status EXCEPT ![j.task] = MovesTo(j.op)]
        /\ IF j.op = "release" THEN Goto(p, "finalize") ELSE Return(p)
     \/ UNCHANGED status /\ Return(p)
  /\ UNCHANGED <<store, latest, now, overlap>>

(* completeRuntimeExecution, of a release or of a recovery.  When it throws*)
(* a release is over, and a recovery is undone.                            *)
Complete(p) == LET j == job[p] IN
  /\ At(p, "finalize")
  /\ Active(j.token)
  /\ Close(j.token)
  /\ Log(j.task, j.token, "completed", now)
  /\ IF j.op = "claimRecover"
       THEN job' = [job EXCEPT ![p] = Loading("claim", j.task)]
       ELSE Return(p)
  /\ UNCHANGED <<status, now, overlap>>
CompleteFails(p) ==
  /\ At(p, "finalize")
  /\ ~Active(job[p].token)
  /\ IF job[p].op = "release" THEN Return(p) ELSE Goto(p, "rollback")
  /\ UNCHANGED <<status, store, latest, now, overlap>>

-----------------------------------------------------------------------------
(* dv claim release --outcome failed                                       *)
ReleaseFailed(t) == LET tk == claims[t] IN
  /\ Active(t)
  /\ Begin(tk)
  /\ Close(t) /\ Log(tk, t, "failed", now)
  /\ UNCHANGED <<status, now, job>>

(* dv claim release with a halt reason, of an expired claim too.  After a  *)
(* lock conflict the work item is paused, whatever its status.             *)
ReleaseHalted(p, t, lockConflict) == LET tk == claims[t] IN
  /\ Live(t) /\ ~Busy(p)
  /\ IF lockConflict THEN Start(p, Holding("pause", "halt", t))
     ELSE Begin(tk) /\ UNCHANGED job
  /\ Close(t) /\ Log(tk, t, "halted", now)
  /\ UNCHANGED <<status, now>>

(* The error of this write is swallowed.                                   *)
PauseHalted(p) ==
  /\ At(p, "pause")
  /\ status' \in {status, [status EXCEPT ![job[p].task] = "paused"]}
  /\ Return(p)
  /\ UNCHANGED <<store, latest, now, overlap>>

-----------------------------------------------------------------------------
(* A recovery makes the task ready, unless cleaning the worktree or the    *)
(* trial write fails ...                                                   *)
ResetStatus(p) ==
  /\ At(p, "reset")
  /\ \/ status' = [status EXCEPT ![job[p].task] = "ready"] /\ Goto(p, "check")
     \/ UNCHANGED status /\ Goto(p, "rollback")
  /\ UNCHANGED <<store, latest, now, overlap>>

(* ... audits its locks by its own claim or by the one the task has ...    *)
RecoverAudit(p) == LET j == job[p] IN
  /\ At(p, "check")
  /\ \/ /\ IF j.read = "ready" THEN fileLock[j.task] = j.token ELSE Audited(j.task)
        /\ Goto(p, "finalize")
     \/ Goto(p, "rollback")
  /\ UNCHANGED <<status, store, latest, now, overlap>>

(* ... and on failure writes back the status it once read, if it can, and  *)
(* halts its claim.                                                        *)
Rollback(p) == LET j == job[p] IN
  /\ At(p, "rollback")
  /\ status' \in {status, [status EXCEPT ![j.task] = j.read]}
  /\ Goto(p, "undo")
  /\ UNCHANGED <<store, latest, now, overlap>>

(* Mutant of HaltRecovery: an expired claim is left as it is.              *)
HaltRecoveryActive(p) == LET j == job[p] IN
  /\ At(p, "undo")
  /\ Return(p)
  /\ IF Active(j.token) THEN Close(j.token) /\ Log(j.task, j.token, "halted", now)
     ELSE UNCHANGED <<store, latest>>
  /\ UNCHANGED <<status, now, overlap>>

HaltRecovery(p) == LET j == job[p] IN
  /\ At(p, "undo")
  /\ Return(p)
  /\ IF Live(j.token) THEN Close(j.token) /\ Log(j.task, j.token, "halted", now)
     ELSE UNCHANGED <<store, latest>>
  /\ UNCHANGED <<status, now, overlap>>

-----------------------------------------------------------------------------
(* dv lock create and dv lock rm, on the file of a task; the lease may run *)
(* out between the check of it and the insertion.                          *)
LockFile(t, tk) ==
  /\ Live(t) /\ fileLock[tk] = NoToken
  /\ fileLock' = [fileLock EXCEPT ![tk] = t]
  /\ UNCHANGED <<status, claims, expired, latest, ended, now, job, handed, overlap>>
UnlockFile(tk) ==
  /\ fileLock[tk] # NoToken
  /\ fileLock' = [fileLock EXCEPT ![tk] = NoToken]
  /\ UNCHANGED <<status, claims, expired, latest, ended, now, job, handed, overlap>>

Expire(t) ==
  /\ Active(t)
  /\ expired' = expired \cup {t}
  /\ UNCHANGED <<status, claims, fileLock, latest, ended, now, job, handed, overlap>>

(* A process is killed between two of its steps.                           *)
Crash(p) ==
  /\ Busy(p)
  /\ handed' = handed \cup ({job[p].token} \cap {t \in Token : Live(t)})
  /\ Return(p)
  /\ UNCHANGED <<status, claims, expired, fileLock, ended, latest, now, overlap>>

(* External: a draft is made ready by hand.                                *)
Promote(tk) ==
  /\ status[tk] = "draft"
  /\ status' = [status EXCEPT ![tk] = "ready"]
  /\ UNCHANGED <<store, latest, now, job, overlap>>

Tick == now < MaxNow /\ now' = now + 1
        /\ UNCHANGED <<status, store, latest, job, overlap>>

Step(p) ==
  \/ ClaimGate(p) \/ RecoverGate(p) \/ Reclaim(p)
  \/ Acquire(p) \/ AcquireConflict(p) \/ LogConflict(p)
  \/ LoadTask(p) \/ Audit(p) \/ WriteStatus(p) \/ Complete(p) \/ CompleteFails(p)
  \/ PauseHalted(p) \/ ResetStatus(p) \/ RecoverAudit(p) \/ Rollback(p) \/ HaltRecovery(p)

Next ==
  \/ Tick
  \/ \E p \in Proc : Step(p) \/ Crash(p)
  \/ \E p \in Proc, tk \in Task : CallClaim(p, tk) \/ CallRecover(p, tk)
  \/ \E p \in Proc, t \in Token :
       \/ \E op \in Verb \cup {"release"} : CallTransition(p, op, t)
       \/ \E lockConflict \in BOOLEAN : ReleaseHalted(p, t, lockConflict)
  \/ \E t \in Token : ReleaseFailed(t) \/ Expire(t)
  \/ \E t \in Token, tk \in Task : LockFile(t, tk)
  \/ \E tk \in Task : UnlockFile(tk) \/ Promote(tk)

Spec == Init /\ [][Next]_vars

-----------------------------------------------------------------------------
TypeOK ==
  /\ status \in [Task -> Status]
  /\ claims \in [Token -> Task \cup {NoTask}]
  /\ expired \subseteq {t \in Token : claims[t] # NoTask}
  /\ fileLock \in [Task -> Token \cup {NoToken}]
  /\ latest \in [Task -> Entry]
  /\ ended \subseteq Token /\ handed \subseteq Token
  /\ now \in 0..MaxNow
  /\ job \in [Proc -> Job]
  /\ overlap \in BOOLEAN

Claimable(tk) == status[tk] = "ready" /\ Permits(tk)

(* "Any halted reason is recoverable in principle": when no command is in  *)
(* flight, a task that is not done is claimable, or recoverable, or has a  *)
(* claim that can be released; except that work logged as failed, or as    *)
(* completed while another command overtook it, stays where it is.         *)
NoTaskStranded == \A tk \in Task :
  \/ \E p \in Proc : Busy(p) /\ job[p].task = tk
  \/ status[tk] \in {"draft", "completed", "aborted"}
  \/ Claims(tk) # {} \/ Claimable(tk) \/ Recoverable(status[tk], tk)
  \/ status[tk] \in {"running", "paused"} /\ latest[tk].state = "failed"
  \/ status[tk] \in {"running", "paused"} /\ latest[tk].state = "completed" /\ overlap

(* A claim is in the hands of an agent, or of a running command; a command *)
(* that was killed may leave one behind, one that failed does not, even    *)
(* when its lease ran out or its rollback failed.                          *)
NoClaimLeftBehind == \A t \in Token :
  Live(t) => t \in handed \/ \E p \in Proc : Busy(p) /\ job[p].token = t

(* The moves of the profile's actions, of triage and of a recovery, each   *)
(* of which a rule of the profile allows.                                  *)
ProfileMoves ==
  {<<"draft", "ready">>, <<"ready", "running">>, <<"running", "paused">>,
   <<"paused", "running">>, <<"ready", "completed">>, <<"running", "completed">>,
   <<"running", "ready">>, <<"paused", "ready">>}
  \cup {<<s, "aborted">> : s \in {"draft", "ready", "running", "paused"}}

(* As long as commands on a task do not overlap, each of them moves the    *)
(* task along the profile, through crashes and expired leases; the two     *)
(* that do not ask the profile are the pause after a halt and the rollback *)
(* of a recovery.                                                          *)
StatusFollowsProfile == [][
  \A tk \in Task : status'[tk] # status[tk] =>
    \/ overlap
    \/ <<status[tk], status'[tk]>> \in ProfileMoves
    \/ \E p \in Proc : job[p].pc \in {"pause", "rollback"} /\ job[p].task = tk]_vars

(* A recovery that succeeds leaves the task claimable, unless another      *)
(* command overlapped it.                                                  *)
RecoveryMakesClaimable == [][
  \A p \in Proc, tk \in Task :
    /\ At(p, "finalize") /\ job[p].op \in Recovery /\ job[p].task = tk
    /\ claims' # claims /\ job'[p] # job[p]
    => overlap \/ Claimable(tk)']_vars

(* Attempts come and go as the abstract claim authority says, now with the *)
(* commands that use the store: a task has one attempt, a file one owner.  *)
Authority == INSTANCE ClaimAuthority WITH
  Target <- Task, NoTarget <- NoTask, Path <- Task,
  holds <- claims, guard <- fileLock
ImplementsAuthority == Authority!Spec

(* After a lock conflict the work item is paused "through normal           *)
(* validation": the profile lets ready and running work become paused, and *)
(* nothing else. (The rollback of a recovery restores what was there.)     *)
HaltPausesByProfile == [][
  \A tk \in Task : status'[tk] = "paused" /\ status[tk] # "paused" =>
    \/ status[tk] \in {"ready", "running"}
    \/ \E p \in Proc : At(p, "rollback")]_vars
=============================================================================
