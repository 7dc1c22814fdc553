---------------------------- MODULE RuntimeStore ----------------------------
(***************************************************************************)
(* The SQLite runtime store (src/lib/runtime/sqlite-store.ts): claims, the *)
(* file locks and scope locks they own, reconciliation manifests and the   *)
(* append-only execution log.                                              *)
(*                                                                         *)
(* The processes are separate command invocations that open the same       *)
(* database.  A store method is a call: the reads it makes before its      *)
(* BEGIN IMMEDIATE transaction are one step, which leaves what it read in  *)
(* job[p]; each autocommitted statement and each transaction is a later    *)
(* step.  SQLite serialises writers, so a transaction is one step.         *)
(***************************************************************************)
EXTENDS Naturals, Sequences

CONSTANTS
  Proc,        \* command invocations running at the same time
  Token,       \* claim tokens (each drawn once: the seed carries entropy)
  NoToken,
  Target,      \* claimable targets (target_type, target_id)
  NoTarget,
  Path,        \* normalised repository paths
  Scope,       \* canonical scope references
  ScopeOf,     \* ScopeOf[tg]: the canonical scope of a claim target
  ClaimTtls,   \* lease lengths a caller asks for when it creates a claim
  RenewTtl,    \* getRuntimeClaimDefaultTtlMilliseconds()
  MaxNow,      \* bound on the clock
  Commands     \* the store methods the processes of an instance call

Mode == {"read", "write", "execute"}
ScopeRequest == [scope : Scope, mode : Mode]
ScopeLock == [token : Token, scope : Scope, mode : Mode]
LogState == {"running", "completed", "failed", "halted"}
LogEntry == [token : Token, target : Target, state : LogState, at : Nat]

ASSUME ConstantsOK ==
  /\ NoToken \notin Token
  /\ NoTarget \notin Target
  /\ ScopeOf \in [Target -> Scope]
  /\ ClaimTtls \subseteq Nat \ {0}
  /\ RenewTtl \in Nat \ {0}
  /\ MaxNow \in Nat

VARIABLES
  claimTarget, \* [Token -> target]: the rows of claims; NoTarget is no row
  expiresAt,   \* [Token -> time]: expires_at of the row
  locks,       \* [Path -> Token]: the rows of locks; NoToken is no row
  scopeLocks,  \* the rows of claim_scope_locks whose lifecycle is active
  manifests,   \* claim tokens with a row in historical_merge_manifests
  log,         \* execution_log in id order
  now,         \* the wall clock every process reads
  job          \* [Proc -> what the method in progress read and has yet to do]

db == <<claimTarget, expiresAt, locks, scopeLocks, manifests, log>>
vars == <<claimTarget, expiresAt, locks, scopeLocks, manifests, log, now, job>>

(* A process between two method calls, and the fields of a call.           *)
Idle == [op |-> "idle", token |-> NoToken, target |-> NoTarget, paths |-> {},
         scopes |-> {}, tokens |-> {}, state |-> "running", at |-> 0, until |-> 0]

Op == {"idle", "acquire", "conflict", "lockTouch", "lock", "unlockTouch",
       "unlockCheck", "unlock", "touch", "scopes", "unscope", "finalize",
       "cleanup", "reclaim", "reconcile", "manifest"}

Job == [op : Op, token : Token \cup {NoToken}, target : Target \cup {NoTarget},
        paths : SUBSET Path, scopes : SUBSET ScopeRequest,
        tokens : SUBSET Token, state : LogState, at : Nat, until : Nat]

Init ==
  /\ claimTarget = [t \in Token |-> NoTarget]
  /\ expiresAt = [t \in Token |-> 0]
  /\ locks = [f \in Path |-> NoToken]
  /\ scopeLocks = {}
  /\ manifests = {}
  /\ log = <<>>
  /\ now = 0
  /\ job = [p \in Proc |-> Idle]

-----------------------------------------------------------------------------
(* The view runtime_claims: a row is expired when expires_at <= now.       *)
Live(t) == claimTarget[t] # NoTarget
Active(t) == Live(t) /\ expiresAt[t] > now
Expired(t) == Live(t) /\ expiresAt[t] <= now

LogOf(t) == {i \in DOMAIN log : log[i].token = t}

(* The latest entry of a token: ORDER BY created_at DESC, id DESC.         *)
LatestIn(S) == CHOOSE i \in S : \A k \in S :
  log[k].at < log[i].at \/ (log[k].at = log[i].at /\ k <= i)

(* A token no claim record carries yet.                                    *)
Fresh(t) == LogOf(t) = {} /\ \A p \in Proc : job[p].token # t

Compatible(m1, m2) == <<m1, m2>> \in
  {<<"read", "read">>, <<"read", "execute">>, <<"execute", "read">>}

(* Mutant of ScopeConflict: the locks of an expired claim no longer count. *)
ScopeConflictActive(t, requests) == \E r \in requests, l \in scopeLocks :
  l.token # t /\ Active(l.token) /\ l.scope = r.scope /\ ~Compatible(l.mode, r.mode)

(* Some other claim holds an active lock that excludes one of the requests *)
(* (expired claims still count: only rows are looked at).                  *)
ScopeConflict(t, requests) == \E r \in requests, l \in scopeLocks :
  l.token # t /\ l.scope = r.scope /\ ~Compatible(l.mode, r.mode)

OwnScopes(t) ==
  {r \in ScopeRequest : [token |-> t, scope |-> r.scope, mode |-> r.mode] \in scopeLocks}

(* Mutant of LockConflict: the lock of an expired claim may be taken over. *)
LockConflictActive(t, fs) ==
  \E f \in fs : locks[f] \notin {NoToken, t} /\ Active(locks[f])

(* Some path of fs is locked by a claim other than t.                      *)
LockConflict(t, fs) == \E f \in fs : locks[f] \notin {NoToken, t}

(* DELETE FROM claims with its ON DELETE CASCADE children, after           *)
(* deleteLocksByClaimToken.                                                *)
DeleteClaims(T) ==
  /\ claimTarget' = [t \in Token |-> IF t \in T THEN NoTarget ELSE claimTarget[t]]
  /\ expiresAt' = [t \in Token |-> IF t \in T THEN 0 ELSE expiresAt[t]]
  /\ locks' = [f \in Path |-> IF locks[f] \in T THEN NoToken ELSE locks[f]]
  /\ scopeLocks' = {l \in scopeLocks : l.token \notin T}
  /\ manifests' = manifests \ T

Append1(t, tg, s, time) ==
  log' = Append(log, [token |-> t, target |-> tg, state |-> s, at |-> time])

(* Start a call: record what it read.  Return ends it, with or without     *)
(* effect (a structured conflict, a thrown error and a success all end it).*)
Start(p, command, j) ==
  /\ command \in Commands
  /\ job[p] = Idle
  /\ job' = [job EXCEPT ![p] = j]
  /\ UNCHANGED <<db, now>>
Return(p) == job' = [job EXCEPT ![p] = Idle] /\ UNCHANGED now
Continue(p, op) == job' = [job EXCEPT ![p].op = op] /\ UNCHANGED now

-----------------------------------------------------------------------------
(* acquireRuntimeClaim: the claim record, its token and its created_at are *)
(* made before the transaction starts (and may wait for the database).     *)
CallAcquireClaim(p, t, tg, fs, ttl) ==
  /\ Fresh(t)
  /\ Start(p, "acquireClaim",
       [Idle EXCEPT !.op = "acquire", !.token = t, !.target = tg, !.paths = fs,
                    !.at = now, !.until = now + ttl])

(* Mutant of AcquireRefused: an expired claim no longer blocks its target. *)
AcquireRefusedByActive(j) ==
  \/ \E t \in Token : Active(t) /\ claimTarget[t] = j.target
  \/ \E f \in j.paths : locks[f] # NoToken

AcquireRefused(j) ==
  \/ \E t \in Token : claimTarget[t] = j.target
  \/ \E f \in j.paths : locks[f] # NoToken

(* The transaction: claim row, execute lock on the target's own scope (no  *)
(* policy is evaluated for it), the initial locks, the running entry.      *)
AcquireRuntimeClaim(p) == LET j == job[p] IN
  /\ j.op = "acquire"
  /\ ~AcquireRefused(j)
  /\ claimTarget' = [claimTarget EXCEPT ![j.token] = j.target]
  /\ expiresAt' = [expiresAt EXCEPT ![j.token] = j.until]
  /\ locks' = [f \in Path |-> IF f \in j.paths THEN j.token ELSE locks[f]]
  /\ scopeLocks' = scopeLocks \cup
       {[token |-> j.token, scope |-> ScopeOf[j.target], mode |-> "execute"]}
  /\ Append1(j.token, j.target, "running", j.at)
  /\ Return(p)
  /\ UNCHANGED manifests

(* The transaction is rolled back; the conflict is logged by a statement   *)
(* of its own, under the attempted token and the record's created_at.      *)
AcquireConflict(p) ==
  /\ job[p].op = "acquire"
  /\ AcquireRefused(job[p])
  /\ Continue(p, "conflict")
  /\ UNCHANGED db

LogAcquireConflict(p) == LET j == job[p] IN
  /\ j.op = "conflict"
  /\ Append1(j.token, j.target, "halted", j.at)
  /\ Return(p)
  /\ UNCHANGED <<claimTarget, expiresAt, locks, scopeLocks, manifests>>

-----------------------------------------------------------------------------
(* touchClaimContext(renew: true) as acquireRuntimeLocks and               *)
(* removeRuntimeLocks call it: outside any transaction, with neither an    *)
(* expiry nor a scope check.  An unknown token throws.                     *)
TouchRenew(p, next) == LET t == job[p].token IN
  /\ IF Live(t)
       THEN /\ expiresAt' = [expiresAt EXCEPT ![t] = now + RenewTtl]
            /\ Continue(p, next)
       ELSE Return(p) /\ UNCHANGED expiresAt
  /\ UNCHANGED <<claimTarget, locks, scopeLocks, manifests, log>>

(* acquireRuntimeLocks: an expired claim is refused with no effect.        *)
CallAcquireLocks(p, t, fs) ==
  /\ Active(t)
  /\ Start(p, "acquireLocks",
       [Idle EXCEPT !.op = "lockTouch", !.token = t, !.paths = fs])

AcquireLocksTouch(p) == job[p].op = "lockTouch" /\ TouchRenew(p, "lock")

(* Mutant of AcquireRuntimeLocks: no foreign key from locks to claims.     *)
AcquireLocksUnkeyed(p) == LET j == job[p] IN
  /\ j.op = "lock"
  /\ locks' = IF LockConflict(j.token, j.paths) THEN locks
              ELSE [f \in Path |-> IF f \in j.paths THEN j.token ELSE locks[f]]
  /\ Return(p)
  /\ UNCHANGED <<claimTarget, expiresAt, scopeLocks, manifests, log>>

(* The transaction: a conflict inserts nothing; inserting for a claim that *)
(* is gone breaks the foreign key and rolls back.                          *)
AcquireRuntimeLocks(p) == LET j == job[p] IN
  /\ j.op = "lock"
  /\ locks' = IF LockConflict(j.token, j.paths) \/ ~Live(j.token) THEN locks
              ELSE [f \in Path |-> IF f \in j.paths THEN j.token ELSE locks[f]]
  /\ Return(p)
  /\ UNCHANGED <<claimTarget, expiresAt, scopeLocks, manifests, log>>

(* removeRuntimeLocks: works for an expired claim too, without the touch.  *)
CallRemoveLocks(p, t, fs) ==
  /\ Live(t)
  /\ Start(p, "removeLocks",
       [Idle EXCEPT !.op = IF Active(t) THEN "unlockTouch" ELSE "unlockCheck",
                    !.token = t, !.paths = fs])

RemoveLocksTouch(p) == job[p].op = "unlockTouch" /\ TouchRenew(p, "unlockCheck")

(* The conflict check reads the rows and the worktree outside the          *)
(* transaction: a path that is not owned, or modified, ends the call.      *)
RemoveLocksCheck(p) == LET j == job[p] IN
  /\ j.op = "unlockCheck"
  /\ \/ (\A f \in j.paths : locks[f] = j.token) /\ Continue(p, "unlock")
     \/ Return(p)
  /\ UNCHANGED db

RemoveRuntimeLocks(p) == LET j == job[p] IN
  /\ j.op = "unlock"
  /\ locks' = [f \in Path |->
                 IF f \in j.paths /\ locks[f] = j.token THEN NoToken ELSE locks[f]]
  /\ Return(p)
  /\ UNCHANGED <<claimTarget, expiresAt, scopeLocks, manifests, log>>

(* touchClaimContext without renew (claim status): writes last_seen_at and *)
(* the expires_at it read, in two autocommitted statements.                *)
CallTouch(p, t) ==
  /\ Live(t)
  /\ Start(p, "touch", [Idle EXCEPT !.op = "touch", !.token = t, !.until = expiresAt[t]])

TouchClaimContext(p) == LET j == job[p] IN
  /\ j.op = "touch"
  /\ expiresAt' = IF Live(j.token) THEN [expiresAt EXCEPT ![j.token] = j.until]
                  ELSE expiresAt
  /\ Return(p)
  /\ UNCHANGED <<claimTarget, locks, scopeLocks, manifests, log>>

-----------------------------------------------------------------------------
(* renewRuntimeClaimWithinTransaction: the claim must be active and each   *)
(* of its active scope locks still admitted beside those of other claims.  *)
Renewable(t) == Active(t) /\ ~ScopeConflict(t, OwnScopes(t))

RenewRuntimeClaim(p, t, ttl) ==
  /\ "renew" \in Commands
  /\ job[p] = Idle
  /\ Renewable(t)
  /\ expiresAt' = [expiresAt EXCEPT ![t] = now + ttl]
  /\ UNCHANGED <<claimTarget, locks, scopeLocks, manifests, log, now, job>>

(* acquireRuntimeScopeLocks: renewal and requests in one transaction.  A   *)
(* conflict on the requests is returned, not thrown: the renewal commits.  *)
CallAcquireScopeLocks(p, t, requests) ==
  /\ Active(t)
  /\ Start(p, "acquireScopes",
       [Idle EXCEPT !.op = "scopes", !.token = t, !.scopes = requests])

AcquireRuntimeScopeLocks(p) == LET j == job[p] IN
  /\ j.op = "scopes"
  /\ expiresAt' = IF Renewable(j.token)
                    THEN [expiresAt EXCEPT ![j.token] = now + RenewTtl]
                    ELSE expiresAt
  /\ scopeLocks' = IF Renewable(j.token) /\ ~ScopeConflict(j.token, j.scopes)
                     THEN scopeLocks \cup {[token |-> j.token, scope |-> r.scope,
                                            mode |-> r.mode] : r \in j.scopes}
                     ELSE scopeLocks
  /\ Return(p)
  /\ UNCHANGED <<claimTarget, locks, manifests, log>>

(* removeRuntimeScopeLocks: every mode of each scope, the claim's own      *)
(* execute lock included.                                                  *)
CallRemoveScopeLocks(p, t, requests) ==
  /\ Active(t)
  /\ Start(p, "removeScopes",
       [Idle EXCEPT !.op = "unscope", !.token = t, !.scopes = requests])

RemoveRuntimeScopeLocks(p) == LET j == job[p] IN
  /\ j.op = "unscope"
  /\ scopeLocks' = {l \in scopeLocks :
       ~(l.token = j.token /\ \E r \in j.scopes : r.scope = l.scope)}
  /\ Return(p)
  /\ UNCHANGED <<claimTarget, expiresAt, locks, manifests, log>>

-----------------------------------------------------------------------------
(* completeRuntimeExecution and failRuntimeExecution read an active claim, *)
(* haltRuntimeExecution any claim; nothing is re-read in the transaction.  *)
CallFinalize(p, t, s) ==
  /\ IF s = "halted" THEN Live(t) ELSE Active(t)
  /\ Start(p, IF s = "halted" THEN "halt" ELSE "finalize",
       [Idle EXCEPT !.op = "finalize", !.token = t, !.target = claimTarget[t],
                    !.state = s])

(* Mutants of FinalizeRuntimeExecution: the entry takes its target from the*)
(* row as it is in the transaction; the row is left behind.                *)
FinalizeReadingAgain(p) == LET j == job[p] IN
  /\ j.op = "finalize"
  /\ Append1(j.token, claimTarget[j.token], j.state, now)
  /\ DeleteClaims({j.token})
  /\ Return(p)
FinalizeKeepingRow(p) == LET j == job[p] IN
  /\ j.op = "finalize"
  /\ Append1(j.token, j.target, j.state, now)
  /\ Return(p)
  /\ UNCHANGED <<claimTarget, expiresAt, locks, scopeLocks, manifests>>

FinalizeRuntimeExecution(p) == LET j == job[p] IN
  /\ j.op = "finalize"
  /\ Append1(j.token, j.target, j.state, now)
  /\ DeleteClaims({j.token})
  /\ Return(p)

(* removeRuntimeClaim and pruneRuntimeClaims: conflicts are read first, any*)
(* one stops the cleanup; the transaction deletes without reading again.   *)
CleanupConflict(t) ==
  \/ ~Live(t) /\ \E f \in Path : locks[f] = t
  \/ Active(t)
  \/ Live(t) /\ LogOf(t) # {} /\ log[LatestIn(LogOf(t))].state = "running"

CallCleanup(p, T) ==
  /\ \A t \in T : ~CleanupConflict(t)
  /\ Start(p, "cleanup", [Idle EXCEPT !.op = "cleanup", !.tokens = T])

CleanupRuntimeClaims(p) ==
  /\ job[p].op = "cleanup"
  /\ DeleteClaims(job[p].tokens)
  /\ Return(p)
  /\ UNCHANGED log

(* reclaimExpiredRuntimeClaimForRecovery: expired before the transaction   *)
(* and still expired in it.                                                *)
CallReclaim(p, t) ==
  /\ Expired(t)
  /\ Start(p, "reclaim", [Idle EXCEPT !.op = "reclaim", !.token = t])

(* Mutants of ReclaimExpiredRuntimeClaim: not re-read in the transaction;  *)
(* not logged.                                                             *)
ReclaimUnchecked(p) == LET t == job[p].token IN
  /\ job[p].op = "reclaim"
  /\ IF Live(t)
       THEN /\ Append1(t, claimTarget[t], "halted", now)
            /\ DeleteClaims({t})
       ELSE UNCHANGED db
  /\ Return(p)
ReclaimUnlogged(p) == LET t == job[p].token IN
  /\ job[p].op = "reclaim"
  /\ IF Expired(t) THEN DeleteClaims({t}) /\ UNCHANGED log ELSE UNCHANGED db
  /\ Return(p)

ReclaimExpiredRuntimeClaim(p) == LET t == job[p].token IN
  /\ job[p].op = "reclaim"
  /\ IF Expired(t)
       THEN /\ Append1(t, claimTarget[t], "halted", now)
            /\ DeleteClaims({t})
       ELSE UNCHANGED db
  /\ Return(p)

(* recordVerifiedHistoricalMerge: for an active claim, once.               *)
CallRecordManifest(p, t) ==
  /\ Active(t)
  /\ Start(p, "manifest", [Idle EXCEPT !.op = "manifest", !.token = t])

RecordVerifiedHistoricalMerge(p) == LET t == job[p].token IN
  /\ job[p].op = "manifest"
  /\ manifests' = IF Live(t) THEN manifests \cup {t} ELSE manifests
  /\ Return(p)
  /\ UNCHANGED <<claimTarget, expiresAt, locks, scopeLocks, log>>

(* releaseReconciledExpiredRuntimeClaim: expired, with a verified manifest,*)
(* checked before and again in the transaction.                            *)
CallReleaseReconciled(p, t) ==
  /\ Expired(t) /\ t \in manifests
  /\ Start(p, "reconcile", [Idle EXCEPT !.op = "reconcile", !.token = t])

ReleaseReconciledClaim(p) == LET t == job[p].token IN
  /\ job[p].op = "reconcile"
  /\ IF Expired(t) /\ t \in manifests
       THEN /\ Append1(t, claimTarget[t], "completed", now)
            /\ DeleteClaims({t})
       ELSE UNCHANGED db
  /\ Return(p)

-----------------------------------------------------------------------------
(* A process is killed between two statements: what it held in memory is   *)
(* lost, an open transaction is rolled back by SQLite.                     *)
Crash(p) == "crash" \in Commands /\ job[p] # Idle /\ Return(p) /\ UNCHANGED db

Tick == now < MaxNow /\ now' = now + 1 /\ UNCHANGED <<db, job>>

Call(p) ==
  \/ \E t \in Token :
       \/ \E tg \in Target, fs \in SUBSET Path, ttl \in ClaimTtls :
            CallAcquireClaim(p, t, tg, fs, ttl)
       \/ \E fs \in SUBSET Path \ {{}} : CallAcquireLocks(p, t, fs)
       \/ \E fs \in SUBSET Path \ {{}} : CallRemoveLocks(p, t, fs)
       \/ CallTouch(p, t)
       \/ \E r \in ScopeRequest : CallAcquireScopeLocks(p, t, {r})
       \/ \E r \in ScopeRequest : CallRemoveScopeLocks(p, t, {r})
       \/ \E s \in {"completed", "failed", "halted"} : CallFinalize(p, t, s)
       \/ CallReclaim(p, t)
       \/ CallRecordManifest(p, t)
       \/ CallReleaseReconciled(p, t)
       \/ LogOf(t) # {} /\ CallCleanup(p, {t})
  \/ \E cutoff \in 0..MaxNow :
       CallCleanup(p, {t \in Token : Live(t) /\ expiresAt[t] <= cutoff})

Step(p) ==
  \/ AcquireRuntimeClaim(p) \/ AcquireConflict(p) \/ LogAcquireConflict(p)
  \/ AcquireLocksTouch(p) \/ AcquireRuntimeLocks(p)
  \/ RemoveLocksTouch(p) \/ RemoveLocksCheck(p) \/ RemoveRuntimeLocks(p)
  \/ TouchClaimContext(p)
  \/ AcquireRuntimeScopeLocks(p) \/ RemoveRuntimeScopeLocks(p)
  \/ FinalizeRuntimeExecution(p) \/ CleanupRuntimeClaims(p)
  \/ ReclaimExpiredRuntimeClaim(p)
  \/ RecordVerifiedHistoricalMerge(p) \/ ReleaseReconciledClaim(p)

Renew(p) == \E t \in Token, ttl \in ClaimTtls \cup {RenewTtl} : RenewRuntimeClaim(p, t, ttl)

Next == Tick \/ \E p \in Proc : Call(p) \/ Step(p) \/ Renew(p) \/ Crash(p)

Spec == Init /\ [][Next]_vars

-----------------------------------------------------------------------------
(* Properties.                                                             *)

TypeOK ==
  /\ claimTarget \in [Token -> Target \cup {NoTarget}]
  /\ expiresAt \in [Token -> Nat]
  /\ locks \in [Path -> Token \cup {NoToken}]
  /\ scopeLocks \in SUBSET ScopeLock
  /\ manifests \in SUBSET Token
  /\ log \in Seq(LogEntry)
  /\ now \in Nat
  /\ job \in [Proc -> Job]

(* A lock, a scope lock or a manifest never outlives the claim that owns   *)
(* it: a lock without a claim blocks its path for every other agent and    *)
(* no command would find it ("A lock without a claim is invalid runtime    *)
(* corruption").  Calls in flight for a claim another process has ended    *)
(* are what could leave one behind.                                        *)
NoOrphans ==
  /\ \A f \in Path : locks[f] # NoToken => Live(locks[f])
  /\ \A l \in scopeLocks : Live(l.token)
  /\ \A t \in manifests : Live(t)

(* Two claims never hold the same target.                                  *)
OneClaimPerTarget == \A t, u \in Token :
  Live(t) /\ claimTarget[t] = claimTarget[u] => t = u

(* The log of a live claim is its running entry and nothing else: a row    *)
(* never survives a terminal entry of its token, never exists without its  *)
(* start being logged, and no token is used for two attempts.              *)
LiveMeansRunning == \A t \in Token : Live(t) =>
  \E i \in DOMAIN log :
    /\ LogOf(t) = {i}
    /\ log[i].state = "running" /\ log[i].target = claimTarget[t]

(* What a call in flight holds in memory stays true until it uses it, in   *)
(* the respects the transactions do not check again: the token of a pending*)
(* claim is nobody else's and unlogged, a cleanup names no live claim, any *)
(* other call names a token the log knows, and a pending terminal entry has*)
(* the target its claim has (were it still there).                         *)
CallInFlight(p) == LET j == job[p] IN
  /\ j.op \in {"acquire", "conflict"} =>
       /\ j.token \in Token /\ j.target \in Target /\ LogOf(j.token) = {}
       /\ \A q \in Proc : job[q].token = j.token => q = p
  /\ j.op = "cleanup" => \A t \in j.tokens : ~Live(t) /\ LogOf(t) # {}
  /\ j.op \in Op \ {"idle", "acquire", "conflict", "cleanup"} =>
       j.token \in Token /\ LogOf(j.token) # {}
  /\ j.op = "finalize" =>
       /\ j.target \in Target /\ j.state # "running"
       /\ Live(j.token) => claimTarget[j.token] = j.target
CallsInFlight == \A p \in Proc : CallInFlight(p)

(* The inductive invariant the proofs rest on.                             *)
IInv == TypeOK /\ NoOrphans /\ OneClaimPerTarget /\ LiveMeansRunning /\ CallsInFlight

(* A claim row only disappears together with the terminal entry that says  *)
(* why, in the same step, and takes its locks with it.                     *)
EndingIsLogged == [][\A t \in Token : Live(t) /\ ~Live(t)' =>
  /\ Len(log') = Len(log) + 1
  /\ log'[Len(log')].token = t
  /\ log'[Len(log')].target = claimTarget[t]
  /\ log'[Len(log')].state # "running"]_vars

(* A claim that is active is only ended by a process that asked to end     *)
(* that claim by name; recovery, reconciliation and cleanup only end a     *)
(* claim that is expired in the very step that deletes it, even when the   *)
(* owner renewed it after they looked.                                     *)
OnlyOwnerEndsActive == [][\A t \in Token : Active(t) /\ ~Live(t)' =>
  \E p \in Proc : job[p].op = "finalize" /\ job[p].token = t /\ job'[p] = Idle]_vars

(* Two scope locks of different claims that exclude each other always      *)
(* include the execute lock a claim took on its own target's scope: every  *)
(* lock that went through the lock policy is compatible with all others.   *)
OwnTargetLock(l) ==
  l.mode = "execute" /\ Live(l.token) /\ l.scope = ScopeOf[claimTarget[l.token]]
Clash(l, m) == l.token # m.token /\ l.scope = m.scope /\ ~Compatible(l.mode, m.mode)
PolicyLocksCompatible == \A l, m \in scopeLocks :
  Clash(l, m) => OwnTargetLock(l) \/ OwnTargetLock(m)

(* A terminal entry is the last entry of its execution attempt             *)
(* ("completed, failed, and halted are terminal for the execution          *)
(* attempt"): nothing is logged for a token after it.                      *)
TerminalEntriesAreLast == \A i, k \in DOMAIN log :
  i < k /\ log[i].token = log[k].token => log[i].state = "running"

(* Active scope locks of different claims never exclude each other         *)
(* ("Execute locks conflict with existing execute or write locks on the    *)
(* same scope").                                                           *)
ScopeLocksCompatible == \A l, m \in scopeLocks : ~Clash(l, m)

-----------------------------------------------------------------------------
(* The store implements the authority the agents rely on: rows of claims   *)
(* are what an attempt holds, rows of locks guard paths, and an attempt has*)
(* ended once a terminal entry is logged for its token.                    *)
Ended == {log[i].token : i \in {k \in DOMAIN log : log[k].state # "running"}}
Authority == INSTANCE ClaimAuthority
               WITH holds <- claimTarget, guard <- locks, ended <- Ended
ImplementsAuthority == Authority!Spec
=============================================================================
