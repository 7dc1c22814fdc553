-------------------------- MODULE RecoveryDecision --------------------------
(***************************************************************************)
(* Whether an interrupted task may be recovered, as the status command     *)
(* reports it and as the recovery command decides it.  A checkout is the   *)
(* branch and worktree it is, those the recovery expects ("" if unknown),  *)
(* the git operations that are under way in it and its dirty paths.        *)
(***************************************************************************)
EXTENDS Readiness

(* collectTaskRecoveryGitState: resumeBlockedReasons and resumeWarnings.   *)
BranchKnown(git) == git.expectedBranch # Absent /\ git.branch = git.expectedBranch
WorktreeKnown(git) == git.expectedWorktree # "" /\ git.worktree = git.expectedWorktree
BlockedReasons(git) == git.underway \cup Holding(
  [branch_mismatch |-> git.expectedBranch # Absent /\ git.branch \notin {Absent, git.expectedBranch},
   worktree_mismatch |-> git.expectedWorktree \notin {"", git.worktree}])
Warnings(git) == Holding(
  [lineage_unknown |-> ~BranchKnown(git) /\ ~WorktreeKnown(git),
   current_branch_unknown |-> git.expectedBranch # Absent /\ git.branch = Absent])

(* isRecoverableReadyRuntimeState; uncertain is allowUncertainLineage.     *)
Recoverable(task, git, uncertain) == LET run == task.runtime IN
  /\ task.status = "ready" /\ run.markdownReady /\ ~run.executionReady /\ run.sourceDisagreement
  /\ run.log # NoLog /\ ~ReadyPermitting(run.log)
  /\ run.log.claim # "active" /\ run.log.locks = 0
  /\ BlockedReasons(git) = {}
  /\ uncertain \/ Warnings(git) = {}

(* buildTaskRecoveryReport.                                                *)
RecoveryState(task, git) ==
  IF task.runtime.ready THEN "ready"
  ELSE IF task.runtime.log = NoLog THEN "not-needed"
  ELSE IF Recoverable(task, git, FALSE) THEN "recoverable"
  ELSE IF Recoverable(task, git, TRUE) THEN "force-required"
  ELSE IF BlockedReasons(git) # {} \/ task.runtime.log.claim = "active" \/ task.runtime.log.locks > 0
  THEN "blocked" ELSE "not-recoverable"

(* Mutant of RecoverySafe: a task that is ready must be halted, too.       *)
RecoverySafeOnlyHalted(task) ==
  /\ task.active /\ task.afk /\ ~task.hitl /\ task.satisfied
  /\ task.runtime.log # NoLog /\ task.runtime.log.state = "halted"

(* assertRecoverySafe.                                                     *)
RecoverySafe(task) ==
  /\ task.active /\ task.afk /\ ~task.hitl /\ task.satisfied
  /\ task.runtime.log # NoLog
  /\ task.status = "ready" \/ task.runtime.log.state = "halted"

(* recoverTaskClaim up to its claim: what it answers, or that it goes on;  *)
(* scope is what the latest halt said of the paths, AnyPath if nothing.    *)
AnyPath == {"any"}
RecoveryAnswer(task, git, force, scope) == LET dirty == git.dirty \ {"internal"} IN
  IF ~RecoverySafe(task) THEN "TASK_RECOVERY_NOT_SAFE"
  ELSE IF ~force /\ Recoverable(task, git, TRUE) /\ ~Recoverable(task, git, FALSE)
  THEN "TASK_RECOVERY_FORCE_REQUIRED"
  ELSE IF task.status \notin {"running", "paused"} /\ ~Recoverable(task, git, force)
  THEN "TASK_RECOVERY_INVALID_STATUS"
  ELSE IF force /\ scope # AnyPath /\ dirty \ scope # {} THEN "TASK_RECOVERY_UNRELATED_DIRTY_PATHS"
  ELSE IF dirty # {} /\ ~force /\ ~Recoverable(task, git, force) THEN "TASK_RECOVERY_DIRTY_WORKTREE"
  ELSE "goes on"
=============================================================================
