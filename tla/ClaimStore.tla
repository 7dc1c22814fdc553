----------------------------- MODULE ClaimStore -----------------------------
(***************************************************************************)
(* The local JSON claim store (src/lib/task/claims.ts).  Every update reads*)
(* the whole file and writes it back under a lock file that is created     *)
(* exclusively, taken over when it is stale, and waited for with a timeout.*)
(* Each awaited file operation is a step: another process runs in between. *)
(***************************************************************************)
EXTENDS Naturals

CONSTANTS
  Proc,      \* processes that update the store
  Claim,     \* claim ids (random UUIDs: each is drawn once)
  NoClaim,
  Task,
  NoTask,
  Stale,     \* CLAIM_LOCK_STALE_MS
  Timeout,   \* CLAIM_LOCK_TIMEOUT_MS
  Lease,     \* ttlMinutes
  MaxNow,    \* bound on the clock
  Commands   \* the operations the processes of an instance call

ASSUME ConstantsOK ==
  /\ NoClaim \notin Claim /\ NoTask \notin Task
  /\ Stale \in Nat /\ Timeout \in Nat /\ Lease \in Nat \ {0} /\ MaxNow \in Nat

VARIABLES
  claims,    \* [Claim -> row]: what the file says when it can be parsed
  text,      \* the file as JSON.parse sees it: whole, empty or garbled
  lock,      \* the lock file: {} when there is none, else {its mtime}
  runtime,   \* tasks that have a claim row in the SQLite runtime store
  granted,   \* history: [Claim -> task] that claimTask returned to a caller
  taken,     \* history: some lock file has been taken over
  failed,    \* history: some fs.writeFile of the store has thrown
  now,       \* the wall clock
  job        \* [Proc -> the update in progress]

vars == <<claims, text, lock, runtime, granted, taken, failed, now, job>>

Row == [task : Task \cup {NoTask}, until : Nat,
        closed : SUBSET {"released", "abandoned"}]
OpenRow(tk, time) == [task |-> tk, until |-> time, closed |-> {}]
NoRow == OpenRow(NoTask, 0)
Store == [Claim -> Row]
NoClaims == [c \in Claim |-> NoRow]

Update == {"claim", "release", "recoverRelease", "adopt", "abandon"}
Idle == [pc |-> "idle", op |-> "claim", claim |-> NoClaim, task |-> NoTask,
         at |-> 0, seen |-> NoClaims]
Job == [pc : {"idle", "open", "stat", "takeover", "update", "truncate",
              "write", "unlock", "return"},
        op : Update, claim : Claim \cup {NoClaim}, task : Task \cup {NoTask},
        at : Nat, seen : Store]

Init ==
  /\ claims = NoClaims
  /\ text = "whole"
  /\ lock = {}
  /\ runtime \in SUBSET Task
  /\ granted = [c \in Claim |-> NoTask]
  /\ taken = FALSE
  /\ failed = FALSE
  /\ now = 0
  /\ job = [p \in Proc |-> Idle]

-----------------------------------------------------------------------------
(* getState: released before abandoned before expired.                     *)
StateOf(r, time) ==
  IF "released" \in r.closed THEN "released" ELSE
  IF "abandoned" \in r.closed THEN "abandoned" ELSE
  IF r.until <= time THEN "expired" ELSE "active"

(* The claims of a task that were neither released nor abandoned.          *)
Open(store, tk) ==
  {c \in Claim : store[c].task = tk /\ store[c].closed = {}}

At(p, pc) == job[p].pc = pc
Goto(p, pc) == job' = [job EXCEPT ![p].pc = pc]
file == <<claims, text>>

(* A call reads the clock first (options.now ?? new Date()) and then waits.*)
Call(p, op, c, tk) ==
  /\ op \in Commands
  /\ At(p, "idle")
  /\ now + Timeout <= MaxNow
  /\ op = "claim" => /\ claims[c].task = NoTask /\ granted[c] = NoTask
                     /\ \A q \in Proc : job[q].claim # c
  /\ job' = [job EXCEPT ![p] = [pc |-> "open", op |-> op, claim |-> c, task |-> tk,
                                 at |-> now, seen |-> NoClaims]]
  /\ UNCHANGED <<file, lock, runtime, granted, taken, failed, now>>

(* Mutant of OpenLock: the lock file is created whether it exists or not.  *)
OpenLockAnyway(p) ==
  /\ At(p, "open")
  /\ lock' = {now} /\ Goto(p, "update")
  /\ UNCHANGED <<file, runtime, granted, taken, failed, now>>

(* Mutant of OpenLock: a second lock file next to a stale one.             *)
OpenSecondLock(p) ==
  /\ At(p, "open")
  /\ IF now \notin lock
       THEN lock' = lock \cup {now} /\ Goto(p, "update")
       ELSE Goto(p, "stat") /\ UNCHANGED lock
  /\ UNCHANGED <<file, runtime, granted, taken, failed, now>>

(* fs.open(lockPath, "wx")                                                 *)
OpenLock(p) ==
  /\ At(p, "open")
  /\ IF lock = {}
       THEN lock' = {now} /\ Goto(p, "update")
       ELSE Goto(p, "stat") /\ UNCHANGED lock
  /\ UNCHANGED <<file, runtime, granted, taken, failed, now>>

(* Mutant of StatLock: the timeout is not looked at.                       *)
StatLockForever(p) ==
  /\ At(p, "stat")
  /\ Goto(p, IF \E m \in lock : now > m + Stale THEN "takeover" ELSE "open")
  /\ UNCHANGED <<file, lock, runtime, granted, taken, failed, now>>

(* The lock file exists: it is stale, or the caller has waited for too     *)
(* long, or it waits and tries again.                                      *)
StatLock(p) ==
  /\ At(p, "stat")
  /\ IF \E m \in lock : now > m + Stale
       THEN Goto(p, "takeover")
       ELSE IF now >= job[p].at + Timeout
              THEN job' = [job EXCEPT ![p] = Idle]
              ELSE Goto(p, "open")
  /\ UNCHANGED <<file, lock, runtime, granted, taken, failed, now>>

(* fs.unlink of the stale lock file, whichever file has that name by now.  *)
TakeOver(p) ==
  /\ At(p, "takeover")
  /\ lock' = {}
  /\ taken' = TRUE
  /\ Goto(p, "open")
  /\ UNCHANGED <<file, runtime, granted, failed, now>>

(* The unlink fails, which is ignored: the caller tries to create the lock *)
(* file again at once, and does not look at its timeout.                   *)
TakeOverFails(p) ==
  /\ "fail" \in Commands
  /\ At(p, "takeover")
  /\ Goto(p, "open")
  /\ UNCHANGED <<file, lock, runtime, granted, taken, failed, now>>

-----------------------------------------------------------------------------
(* The result of an update callback on the store it read: the store to     *)
(* write, or a thrown error (the lock is released, nothing is written).    *)
Save(p, store) ==
  job' = [job EXCEPT ![p] = [@ EXCEPT !.pc = "truncate", !.seen = store]]
Throw(p) == Goto(p, "unlock")

(* Mutant of MayClaim: an expired claim is in nobody's way.                *)
MayClaimExpired(store, tk, time) ==
  \A c \in Open(store, tk) : StateOf(store[c], time) # "active"

(* claimTask: no active claim, and no expired one that nobody closed.      *)
MayClaim(store, tk, time) ==
  \A c \in Claim : store[c].task = tk =>
    StateOf(store[c], time) \notin {"active", "expired"}

ClaimTask(p, store) == LET j == job[p] IN
  /\ j.op = "claim"
  /\ IF MayClaim(store, j.task, j.at)
       THEN Save(p, [store EXCEPT ![j.claim] = OpenRow(j.task, j.at + Lease)])
       ELSE Throw(p)
  /\ UNCHANGED runtime

(* The row of a claim after it was released, abandoned or adopted.         *)
Recovered(r, op, time) ==
  [task |-> r.task,
   until |-> IF op = "adopt" THEN time + Lease ELSE r.until,
   closed |-> IF op = "adopt" THEN r.closed \ {"released"} ELSE
              r.closed \cup {IF op = "abandon" THEN "abandoned" ELSE "released"}]

(* releaseClaim also deletes the runtime claim of the task and its locks.  *)
ReleaseClaim(p, store) == LET c == job[p].claim IN
  /\ job[p].op = "release"
  /\ IF store[c].task = NoTask
       THEN Save(p, store) /\ UNCHANGED runtime
       ELSE /\ Save(p, [store EXCEPT ![c] = Recovered(store[c], "release", 0)])
            /\ runtime' = runtime \ {store[c].task}

(* classify: what an expired claim is good for depends on whether its     *)
(* branch is known and has commits of its own, read when the callback runs.*)
Classifications(r, time) ==
  IF StateOf(r, time) \in {"released", "abandoned"} THEN {"terminal"} ELSE
  IF StateOf(r, time) = "active" THEN {"manual_review_required"} ELSE
  {"release_safe", "adopt_recommended", "manual_review_required"}

(* recoverClaim with an action: release, adopt and abandon.  The first two *)
(* need a fitting classification or force, and adopt also needs the locks  *)
(* of the task's runtime claim, if it has one, to cover the changed files. *)
Fits(op) == CASE op = "recoverRelease" -> {"release_safe"}
              [] op = "adopt" -> {"adopt_recommended"}
              [] OTHER -> {"terminal", "manual_review_required", "release_safe",
                           "adopt_recommended"}

MayRecover(r, op, time) ==
  "force" \in Commands \/ Classifications(r, time) \cap Fits(op) # {}
MayRefuse(r, op, time) ==
  ~(Classifications(r, time) \subseteq Fits(op)) \/ (op = "adopt" /\ r.task \in runtime)

RecoverClaim(p, store) == LET c == job[p].claim op == job[p].op time == job[p].at IN
  /\ op \in {"recoverRelease", "adopt", "abandon"}
  /\ \/ store[c].task = NoTask /\ Save(p, store)
     \/ /\ store[c].task # NoTask /\ MayRecover(store[c], op, time)
        /\ Save(p, [store EXCEPT ![c] = Recovered(store[c], op, time)])
     \/ store[c].task # NoTask /\ MayRefuse(store[c], op, time) /\ Throw(p)
  /\ UNCHANGED runtime

(* Mutant of ReadAndUpdate: claimTask works on a store read before it had  *)
(* the lock, here the empty one of a first use.                            *)
ReadAndUpdateStale(p) ==
  /\ At(p, "update")
  /\ IF text # "whole"
       THEN Throw(p) /\ UNCHANGED runtime
       ELSE ClaimTask(p, job[p].seen) \/ ReleaseClaim(p, claims) \/ RecoverClaim(p, claims)
  /\ UNCHANGED <<file, lock, granted, taken, failed, now>>

(* updateStore under the lock: readStore, then the callback.  A file that  *)
(* is not JSON makes readStore throw.                                      *)
ReadAndUpdate(p) ==
  /\ At(p, "update")
  /\ IF text # "whole"
       THEN Throw(p) /\ UNCHANGED runtime
       ELSE ClaimTask(p, claims) \/ ReleaseClaim(p, claims) \/ RecoverClaim(p, claims)
  /\ UNCHANGED <<file, lock, granted, taken, failed, now>>

(* Mutant of Truncate: the lock is released when the data is on its way, not *)
(* when it is written (a missing await).                                   *)
TruncateUnlocked(p) ==
  /\ At(p, "truncate")
  /\ text' = "empty"
  /\ lock' = {}
  /\ Goto(p, "write")
  /\ UNCHANGED <<claims, runtime, granted, taken, failed, now>>

(* fs.writeFile truncates the file ...                                     *)
Truncate(p) ==
  /\ At(p, "truncate")
  /\ text' = "empty"
  /\ Goto(p, "write")
  /\ UNCHANGED <<claims, lock, runtime, granted, taken, failed, now>>

(* ... and writes from its start.  When another process has written since, *)
(* the longer of the two texts keeps its tail.                             *)
Write(p) ==
  /\ At(p, "write")
  /\ text' \in IF text = "empty" THEN {"whole"} ELSE {"whole", "garbled"}
  /\ claims' = job[p].seen
  /\ job' = [job EXCEPT ![p].pc = "return"]
  /\ UNCHANGED <<lock, runtime, granted, taken, failed, now>>

(* A file operation under the lock throws: reading the store, opening it,  *)
(* or writing it, which leaves a part of the text.  The lock file is       *)
(* unlinked all the same.                                                  *)
UpdateFails(p) ==
  /\ "fail" \in Commands
  /\ At(p, "update") \/ At(p, "truncate") \/ At(p, "write")
  /\ text' \in IF At(p, "write") THEN {text, "garbled"} ELSE {text}
  /\ failed' = (failed \/ At(p, "write"))
  /\ Throw(p)
  /\ UNCHANGED <<claims, lock, runtime, granted, taken, now>>

(* The lock file is unlinked, whoever created it; then the call returns.   *)
Unlock(p) == LET j == job[p] IN
  /\ At(p, "unlock") \/ At(p, "return")
  /\ lock' = {}
  /\ granted' = IF At(p, "return") /\ j.op = "claim"
                  THEN [granted EXCEPT ![j.claim] = j.task] ELSE granted
  /\ job' = [job EXCEPT ![p] = Idle]
  /\ UNCHANGED <<file, runtime, taken, failed, now>>

-----------------------------------------------------------------------------
(* A process is killed: its lock file stays, a truncated file stays empty. *)
(* A call whose lock file cannot be written or unlinked ends like this too.*)
Crash(p) ==
  /\ "crash" \in Commands
  /\ ~At(p, "idle")
  /\ job' = [job EXCEPT ![p] = Idle]
  /\ UNCHANGED <<file, lock, runtime, granted, taken, failed, now>>

(* External: an agent acquires the runtime claim of a task.                *)
RuntimeClaimed(tk) ==
  /\ "runtime" \in Commands
  /\ runtime' = runtime \cup {tk}
  /\ UNCHANGED <<file, lock, granted, taken, failed, now, job>>

Tick == now < MaxNow /\ now' = now + 1
        /\ UNCHANGED <<file, lock, runtime, granted, taken, failed, job>>

Step(p) ==
  \/ OpenLock(p) \/ StatLock(p) \/ TakeOver(p)
  \/ ReadAndUpdate(p) \/ Truncate(p) \/ Write(p) \/ Unlock(p)

Next ==
  \/ Tick
  \/ \E tk \in Task : RuntimeClaimed(tk)
  \/ \E p \in Proc :
       \/ \E c \in Claim, tk \in Task : Call(p, "claim", c, tk)
       \/ \E c \in Claim, op \in Update \ {"claim"} :
            (granted[c] # NoTask \/ claims[c].task # NoTask) /\ Call(p, op, c, NoTask)
       \/ Step(p) \/ TakeOverFails(p) \/ UpdateFails(p) \/ Crash(p)

Spec == Init /\ [][Next]_vars
(* A running process gets its next turn, and time passes.                  *)
FairSpec == Spec /\ WF_vars(Tick) /\ \A p \in Proc : WF_vars(Step(p))

-----------------------------------------------------------------------------
TypeOK ==
  /\ claims \in Store
  /\ text \in {"whole", "empty", "garbled"}
  /\ lock \in SUBSET Nat /\ \A m, n \in lock : m = n
  /\ runtime \in SUBSET Task
  /\ granted \in [Claim -> Task \cup {NoTask}]
  /\ taken \in BOOLEAN /\ failed \in BOOLEAN /\ now \in Nat
  /\ job \in [Proc -> Job]

(* A process between the creation and the removal of its lock file.        *)
Inside(p) == job[p].pc \in {"update", "truncate", "write", "return", "unlock"}

(* Updates exclude one another as long as no lock file is taken over for   *)
(* being stale: a process inside has its lock file, and the only one.      *)
UpdatesExclude == taken \/ \A p, q \in Proc :
  Inside(p) => lock # {} /\ (Inside(q) => p = q)

(* A claim that claimTask returned to its caller stays in the store under  *)
(* its task, whatever other processes write afterwards: no lost update.    *)
GrantsAreRecorded == taken \/ \A c \in Claim :
  granted[c] # NoTask => claims[c].task = granted[c]

(* A task never has two claims that nobody closed, be they active or       *)
(* expired, unless a closed one was adopted by force ("Expired claim       *)
(* behavior ... does not silently authorize unsafe work"); although a call *)
(* judges expiry by the time it started at.                                *)
OneOpenClaim == "force" \in Commands \/ taken \/
  \A tk \in Task : \A c, d \in Open(claims, tk) : c = d

(* A store that cannot be parsed is locked, by its writer or by the lock   *)
(* file of a writer that was killed, unless writing it failed; and until   *)
(* it is repaired no call succeeds, so nobody goes by half a file.         *)
UnreadableIsNoticed == text # "whole" => taken \/
  /\ lock # {} \/ failed
  /\ \A p \in Proc : ~At(p, "return")

(* Every call ends, with a result or an error, also when the holder of the *)
(* lock was killed; but a caller that finds a stale lock file which cannot *)
(* be unlinked comes back to it again and again, whatever its timeout.     *)
CallsEnd == \A p \in Proc :
  job[p].pc # "idle" ~> (job[p].pc = "idle" \/ []<>At(p, "takeover"))

(* No two callers are told that they claimed the same task ("Concurrent    *)
(* claim attempts for the same non-expired task claim fail closed"), in an *)
(* instance where claims neither expire nor are closed.                    *)
OneGrantPerTask == \A c, d \in Claim :
  granted[c] # NoTask /\ granted[c] = granted[d] => c = d
=============================================================================
