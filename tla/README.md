# A formal model of doc-vader

doc-vader keeps a backlog of work items as Markdown files and lets several
agents work on it at the same time. An agent claims a task, locks the files it
changes, moves the task through its workflow and releases the claim; everything
happens in short command invocations (`dv claim ...`, `dv work ...`,
`dv lock ...`, `dv work-item ...`, `dv backlog ...`) that share a git checkout, a
SQLite database and some JSON files. This directory models two kinds of things:
what happens where such invocations meet (state machines, in which every awaited
read or write is a step of its own), and what the program decides from what it
has read (pure operators, asked over all inputs of a small size).

## Inventory

| Component | State it keeps | Operations | What is hard |
|---|---|---|---|
| SQLite runtime store (`src/lib/runtime/sqlite-store.ts`) | rows of `claims`, `locks`, `claim_scope_locks`, `historical_merge_manifests`, append-only `execution_log` | acquire, renew, lock, unlock, scope lock, complete/fail/halt, cleanup, reclaim, reconcile; audit of the changed files | several processes, reads made before `BEGIN IMMEDIATE`, leases that expire, crashes between statements; git's names for one path |
| Local JSON claim store (`src/lib/task/claims.ts`) | `local-agent-claims.json`, its `.lock` file | claim, status, release, recover (inspect, adopt, release, abandon) | a lock file that is taken over when stale, whole-file rewrites |
| Task lifecycle commands (`src/lib/task/*.ts`, `src/cli/doc-vader.ts`) | none of their own: they read and write the Markdown status and the runtime store | claim gate, workflow transitions, complete, halt, fail, recover | two stores without a common transaction |
| Workflow profile (`src/lib/work-management/transition-profile.ts`, `state-transition-evaluator.ts`) | the compiled profile | compile, evaluate a transition, list actions | precedence of rules, totality and reachability checks, the generated schema |
| Work item files (`src/lib/work-management/index.ts`, `src/lib/task/record.ts`) | Markdown frontmatter, evidence records | transition, link, record commit, create record, finalize, ingest events, migrate | read, change and write of whole files without a lock; two copies while archiving |
| Readiness (`src/lib/task/ready.ts`, `model.ts`, `src/lib/work-management/kernel.ts`, `authority.ts`, `src/lib/work/selection.ts`) | none | which tasks are offered, which can be claimed | several readers of the same files that must agree |
| Reconciliation (`src/lib/task/historical-merge.ts`, `direct-push.ts`) | manifests in the runtime store, Markdown | complete a merged item, release its expired claim | partial failure between the two stores |
| Work graph (`src/lib/work/`) | none | project, trace, neighbourhood; verify a renewal | references resolved in passes, aliases, order of files |
| Backlog scan (`src/lib/backlog/scan-*.ts`, `backlog.ts`) | Markdown, evidence records | scan (evidence, links, archiving, demotion), renumber | several writes per item, a scan repeated after a crash |
| Backlog review, synthesis, audit, archive validation (`src/lib/backlog/`) | none | findings, batch of proposals, diagnostics | agreement with the other readers |
| Frontmatter lint (`src/lib/work-management/frontmatter-lint.ts`) | none | compare base and head of a change | configured severities and exemptions, references by leaf |
| Gates (`src/lib/work/merge-gate.ts`, `src/scripts/`) | none | merge gate, pre-push, changesets | several gates that judge one item |
| Documents, packs, templates, configuration | none | validation, rendering | stateless |

Interaction: every command opens the store, calls one or a few of its methods
and closes it. `work claim` loads the task (Markdown, log, dependencies),
recovers it if that is safe, checks that it is claimable and calls
`acquireRuntimeClaim`. `work start|pause|resume|complete|abort` check the claim
and rewrite the Markdown. `claim release` writes Markdown and then a terminal
log entry (success), only the entry (failed), or the entry and then perhaps the
Markdown (halted). `work recover` reclaims an expired claim, acquires one of its
own, rewrites the Markdown, audits and completes its claim. `record create` and
`task record` write a record and link it to its item; `finalize` writes an archive
copy and unlinks the active file; a reconciliation or an ingested event makes
several of these calls in a row. The JSON claim store is the older authority
that `getClaimStatus` still looks at first.

What makes each part correct:

- Runtime store: no target and no path has two holders; what a claim owns dies
  with it; the log tells for every claim how it began and how it ended; an
  active claim is ended by nobody but the one who named it; leases are not cut
  short; scope locks that went through the policy are compatible; an audit that
  passes means that the claim has locked what changed.
- JSON claim store: updates exclude one another; a task has one active claim; a
  crashed holder does not block the others for ever.
- Task lifecycle: a task has one attempt at a time; Markdown changes only
  during an attempt; whatever is interrupted can be recovered.
- Work item files: an item is never lost, keeps what finished calls put in it,
  is archived only when it is done, and never points to a record that is not there.
- Workflow profile: what compiles is deterministic and total, and its schema
  agrees with its evaluator.
- Readiness: what is offered can be claimed, and every refusal has a finding.
- Graph: everything the files and rows say is in it, in whatever order they are read.
- Scan, rewrites: repeated after a crash they lose nothing and arrive where one
  run would have.
- Lint, audit and gates: passing means something, and what one gate has let
  through the next does not refuse.

## Modules

State machines:

| Module | Models | With |
|---|---|---|
| `ClaimAuthority` | what the runtime authority promises, abstractly | implemented by the next and by `TaskLifecycle` |
| `RuntimeStore` | `sqlite-store.ts` | `RuntimeStoreProofs`, `MCRuntimeStore` |
| `ClaimStore` | `claims.ts` | `ClaimStoreProofs`, `MCClaimStore` |
| `TaskLifecycle` | the commands that use the runtime store together with the Markdown files | `TaskLifecycleProofs`, `MCTaskLifecycle` |
| `WorkItemFiles` | the commands that rewrite work items and records | `WorkItemFilesProofs`, `MCWorkItemFiles` |

Pure decisions, each with a module that enumerates questions about it:

| Module | Models | Asked by |
|---|---|---|
| `WorkflowProfile`, `ProfileCompiler` | the default profile as data, the evaluator; the compiler's checks and the generated schema | `ProfileQuestions` |
| `WorkGraph`, `StatusFacts` | `projectWorkGraph`, path trace, neighbourhood, what a renewal verifies; what `status` says of references | `GraphQuestions` |
| `Readiness`, `RecoveryDecision`, `BacklogReview` | ready, claim, select, authority and the kernel; what recovery asks of a checkout; review's candidates | `ReadyQuestions` |
| `BacklogScan` | the scan with its writes | `ScanQuestions` |
| `FrontmatterLint` | the lint of a change and of a whole backlog | `LintQuestions` |
| `LockAudit` | the changed-file lock audit | `AuditQuestions` |
| `BacklogRewrite` | migration and renumbering | `RewriteQuestions` |
| `Gates` | finalize's, the merge gate's, the pre-push script's and the archive validation's judgement of one item | `GateQuestions` |
| `BacklogAudit`, `ProposalBatch` | `backlog audit` and the lookup of a task; the synthesis of proposals, with `Sorting` for its lists | `BacklogQuestions` |

`Question` is the one variable they share, and `Decisions` extends them all.
`BacklogProofs`, `DecisionsProofs` and `ReadinessProofs` prove about them, with
`FoldTheory` for what goes over lists.

### RuntimeStore

State: `claimTarget` and `expiresAt` are the rows of `claims` (the view
`runtime_claims` derives active and expired from them), `locks` the rows of
`locks`, `scopeLocks` the rows of `claim_scope_locks` whose lifecycle is active,
`manifests` the claims with a row in `historical_merge_manifests`, `log` is
`execution_log` in id order, `now` the clock. `job[p]` is what process `p` holds in
memory inside a store method.

A method is a `Call...` action (the reads it makes before its transaction, with
the early returns and thrown errors as its guard) followed by one action per
autocommitted statement or transaction: SQLite serialises writers, so a
transaction is a step. `acquireRuntimeClaim` is `CallAcquireClaim`, then
`AcquireRuntimeClaim` or `AcquireConflict` (rolled back), then
`LogAcquireConflict`, a second transaction. `acquireRuntimeLocks` is
`CallAcquireLocks`, `AcquireLocksTouch` (the renewal in a statement of its own),
`AcquireRuntimeLocks`. `complete-`, `fail-` and `haltRuntimeExecution` are
`CallFinalize` and `FinalizeRuntimeExecution`. `Crash` forgets what a process
holds; an open transaction is never visible, so it needs no step.

Tokens are drawn with a random part, so a token is used once; `CallAcquireClaim`
has that as a guard, and a mutant drops it.

### ClaimAuthority

Attempts hold a target and paths, are granted all they ask for or refused, and
once ended never hold anything again. The refinement maps `claimTarget`, `locks`
and the tokens with a terminal log entry to `holds`, `guard` and `ended`.

### ClaimStore

State: `claims` is what the file says, `text` whether it can be parsed (`whole`),
is truncated (`empty`) or was cut off or written by two processes at once (`garbled`),
`lock` the lock file with its modification time, `runtime` the tasks that have a
claim in the runtime store. `granted`, `taken` and `failed` are history: what
`claimTask` returned to its callers, whether any lock file was ever taken over, and
whether a write of the file ever threw.

`updateStore` is a loop over awaited file operations, and each is an action:
`OpenLock` (exclusive creation), `StatLock` (stale, timed out, or wait),
`TakeOver` (unlink a stale lock file), `ReadAndUpdate` (parse the file and run the
callback: `ClaimTask`, `ReleaseClaim` or `RecoverClaim`), `Truncate` and `Write`
(the two halves of `fs.writeFile`), `Unlock`. A process may be killed between any two
(`Crash`); reading or writing the store may throw, after which the lock file is
unlinked although the file may be half a one (`UpdateFails`); and a stale lock file may
refuse to be unlinked, which the loop ignores (`TakeOverFails`). The clock is read by `Call`, before
the wait, as in the code. What `classify` finds in git is a choice.

### TaskLifecycle

State: `status` is the status in the frontmatter of each task's file; `claims`,
`expired` and `fileLock` are what the commands see of the runtime store's rows
(`fileLock` is the lock on the task's own file, the one that its audits ask for);
`latest` is the log entry of a task with the latest time, and among equals the
last id, which is the one `loadTaskExecutionLogSummaries` finds; `ended` the
attempts with a terminal entry. `job[p]` is what a command in flight remembers,
above all the status it `read` and the time `at` which it read the clock.
`handed` and `overlap` are history: the claims that an agent was given (or that a
killed command left behind), and whether two commands on one task were ever in
flight together.

`RuntimeStore` looks inside the store's methods. Here a transaction of the store
is a step, and so is each awaited read or write of a Markdown file:

| Command | Steps |
|---|---|
| `work claim` | `CallClaim` (Markdown), `ClaimGate` (log, and the decision), `Acquire` or `AcquireConflict` and `LogConflict`; a task left behind goes through a recovery and then comes back |
| `work recover` | `CallRecover`, `RecoverGate`, `Reclaim`, `Acquire`, `ResetStatus`, `RecoverAudit`, `Complete`; on failure `Rollback` and `HaltRecovery` |
| `work start`, `pause`, `resume`, `complete`, `abort` | `CallTransition`, `LoadTask`, `Audit` (to completed only), `WriteStatus` |
| `claim release`, successful | the same with `release`, then `Complete` or `CompleteFails` |
| `claim release`, failed or halted | `ReleaseFailed`; `ReleaseHalted`, and after a lock conflict `PauseHalted` |
| `lock create`, `lock rm` | `LockFile`, `UnlockFile` |

`Crash` kills a command between two steps, `Expire` ends a lease, `Tick` advances
the clock, and `Promote` is a person who makes a draft ready. What git says of
the worktree, whether a reason satisfies a rule and whether other changed files
are locked are choices that let a step fail.

Recovery is modelled with a clean worktree: `--force` only adds a cleaning step,
which may fail where `ResetStatus` may. Renewal of a lease is in `RuntimeStore` and
left out here (a claim that did not expire yet stands for one that was renewed).
The free-form `work-management transition` is an edit of the file like any other
and is not modelled, nor are claims of the older JSON store.

### WorkItemFiles

State: `file` is what is at the two paths of an item, active and archive: nothing,
a truncated file, or a document; `records` the record files, `manifests` the items
certified in the runtime store, `claimed` the items an active claim has locked,
`merged` the pull requests of the forge. `job[p]` holds the calls that a command
has still to make; `accepted` (what finished calls have put in an item),
`overlap` (items that two commands worked on at once) and `hurt` (items whose
writer was killed with the file truncated) are history.

A call looks for its item root by root (`findWorkItemPath`), reads it, checks,
truncates and writes it, and a finalization unlinks the active file, each in a
step of its own; `Killed` ends a command between any two. A truncated file parses
as an empty document without an id, which is what `Blank` is. Commands are
sequences of such calls: `record create` writes the record and then links it,
a reconciliation completes the item, records evidence and then the manifest, and
`IngestAll` is the loop of the event ingestion.

### The decision modules

The input of a decision is a small document: what it looks at and nothing else.
Ids and names are pairs (a specifier and an id, or a front and a back), so that the
program's different ways of normalising a reference lead to different results
without modelling text. What git, a JSON schema or a text pattern says is an input.
A rewrite or scan is a function of the files and of the number of writes it gets to
make, so that "killed after n writes and then run again" is an expression.

## Runs

| Run | Asks | Bounds |
|---|---|---|
| `RuntimeStoreOwnership` | who owns what under claims, file locks, endings, recovery, reconciliation, cleanup and crashes; refinement | 2 processes, 2 tokens, 2 targets, 1 path, clock 0..1 |
| `RuntimeStoreLeases` | may policy locks meet while leases are renewed, shortened, written back and run out | 2 processes, 2 tokens, lease lengths 1 and 2, clock 0..1 |
| `RuntimeStoreTerminal` (violation) | is a terminal entry the last of its attempt | |
| `RuntimeStoreScopes` (violation) | are active scope locks always compatible | |
| `ClaimStoreUpdates` | what the lock file protects, with kills, failing file operations, takeovers and every operation but forced recovery | 2 processes, 2 claims, 1 task, staleness, timeout and lease 1, clock 0..2 |
| `ClaimStoreProgress` | does every call end | 2 processes that claim, are killed and fail, clock 0..3 |
| `ClaimStoreRace` (violation) | are two callers ever told they claimed one task | a lease longer than the staleness limit |
| `TaskLifecycle` | do Markdown and store stay in step: is every task that is not done claimable, recoverable or claimed, is every claim answered for, do statuses follow the profile, does a recovery make claimable; refinement | 2 processes, 3 tokens, 1 task, clock 0..1 |
| `TaskLifecyclePause` (violation) | does the pause after a lock conflict ask the profile | 1 process, 1 token |
| `WorkItems` | what is left of an item when commands overlap, are killed anywhere and are given again | 2 processes, 3 commands, 1 item, 1 pull request, 1 record |
| `Decisions` | all questions about pure decisions, below | see below |
| `ReadinessPromise` (violation) | can what is offered be claimed | one dependency |

Two processes are enough for every hazard listed: each is about one command
overtaken by another. Two tokens and two targets give a second claimant and a
second holder, one path gives contention, one clock step gives expiry before and
after every statement.

The lifecycle's steps touch one task each, so one task is enough; three tokens let
an attempt be taken over by a recovery and that one by a second. Its run fires
every action, a recovery that loses its lease half-way and a command that is
overtaken at every write included. `WorkItems` gives three commands: one that is
killed, its repetition, and one that overlaps either of them; calls name one item,
so one item shows what happens to it (the proofs are for any number).

`Decisions` asks one question per behaviour; its initial states are two halves of
the questions, so that two workers share them. What it checks:

| Property | Says |
|---|---|
| `CompiledIsTrusted` | a profile that compiles is deterministic by its precedence, places every state, reaches what it must, and its generated schema accepts what the evaluator resolves |
| `GraphShowsAll` | what documents and rows say is in the graph, traces and neighbourhoods are complete, and `status` diagnoses exactly what leads nowhere |
| `OrderIndependent` | neither the graph nor a batch of proposals depends on the order of files or drafts, unless two share a name |
| `RenewalVerifies` | a renewal is not made and then reported as failed |
| `SelectedIsClaimable`, `FindingsExplain` | what is published as the next task can be claimed, with the exceptions the property names; ready, review and the findings agree |
| `RecoverableMeansRecovers` | what the status report says of a recovery is what the recovery does |
| `RescanRecovers`, `DryRunForetells` | a killed scan is made up for by the next; a dry run writes nothing and reports exactly the archivings of the run |
| `ReopeningFailsLint` | no configuration but an archive exemption lets a finished item be reopened |
| `PassedMeansSettled` | a backlog that passes the lint has its dependencies settled, but for a file that a flat one of its name hides; one that passes the audit has its tasks found |
| `AuditMeansLocked` | a passing lock audit means locked, under whatever spelling and both names of a rename |
| `RewritesKeepItems` | a migration or renumbering killed after any write loses no item; a whole migration loses no way to one, and a whole renumbering points no link at another item and keeps the one it rewrites |
| `MergedStaysAccepted` | what a gate has let through is not refused further on, wherever their configurations lie, if the archive's can be read and asks for no more |

Each enumerates documents over every value its decision tells apart (all statuses,
every kind of reference, one or two dependencies, both copies of an item), two or
three documents at a time: the disagreements these questions are about need one
document, one it refers to and one that has the same name. `MaxPaths`, `MaxLinks`,
`MaxDepends`, `MaxWrites`, `Joint` and `Oddities` bound the rest; they are constants.

The runtime store promises no progress (a command that finds a conflict returns
it), so its runs check safety only and assume no fairness. `ClaimStoreProgress`
assumes that time passes and that a process which can take its next step takes
it: the event loop of a live process resumes an awaited operation, and the
polling loop of `acquireStoreLock` is bounded by the clock alone. Nothing is
assumed of a killed process, nor that an unlink succeeds: `CallsEnd` says that a call
ends or comes back for ever to a stale lock file that it cannot unlink. A call starts only when its timeout still lies
within the clock's bound. Deadlock checking is off because commands stop when
tokens or commands, which the instance bounds, are used up, and a question is
asked once.

In `ClaimStore` the safety properties are about executions in which no lock file
was taken over yet (`taken`); a takeover voids them, since neither it nor the
unlock checks whose lock file it removes. `ClaimStoreRace` shows how.

In `TaskLifecycle` two properties exempt executions in which two commands on one
task overlapped (`overlap`): a command evaluates its move on a status that it read
before an await, and `transitionWorkItem` writes over whatever is there by then,
so an overtaken command may move a task anywhere. That is the exemption's whole
extent: crashes, failures and expired leases do not need it. `NoTaskStranded` names
what does stay where it is: work whose last attempt is logged as failed (no command
recovers it: `assertRecoverableStatus` wants a halted attempt), and work whose
attempt is logged as completed while its status was overwritten by an overlapping
command.

In `WorkItems` four properties are about items that one command at a time has
worked on and whose own file no killed command left truncated (`Sole`): the code
locks no file and promises nothing else. `EvidenceHasRecord` needs no exemption.

### Findings

- `RuntimeStoreTerminal`: two terminal commands for one claim both append their
  entry, since the claim is read before the transaction and not looked at again.
- `RuntimeStoreScopes`: an acquisition inserts the execute lock of its target's
  scope without asking the lock policy, so it may meet a write lock.
- `ClaimStoreRace`: a holder slower than the staleness limit goes on after its
  lock file was taken over, and two callers claim the same task.
- `TaskLifecyclePause`: a release that is halted after a lock conflict pauses the
  work item through `transitionWorkItem`, which asks no rule of the profile, so
  work that was completed or aborted under a claim becomes paused.
- `ReadinessPromise`: ready passes over a dependency that is archived, claim judges
  it by its status, so a task that depends on an aborted and archived item is
  offered and refused.

### Observations

Things the code does that the models contain, that are exceptions in a property, or
that are left out on purpose, without a run of their own. Paths are below `src/lib`.

Runtime and claims

- A status read writes back the `expires_at` it read, in a statement of its own: a
  renewal in between is lost, and a shorter one is undone, although "read-only status
  does not extend expiry" (`runtime/sqlite-store.ts:2697`;
  `src/backlog/60343-task-claim-store-and-lifecycle.md:69`).
- The renewal by a file-lock command does not validate the scope locks of its claim
  (`runtime/sqlite-store.ts:2010`; `src/backlog/60388-scope-gated-renewal.md:73`
  asks every renewal to).
- A stale lock file that cannot be unlinked makes the loop go round for ever, without a
  wait: the failure is swallowed and the timeout, which is looked at further down, is
  never reached (`task/claims.ts:224`).
- A write of the claim store that fails half-way (a full disk) unlocks a file that no
  later call can parse, and nothing repairs it (`task/claims.ts:248`).
- `releaseClaim` deletes the task's runtime claim, whoever holds it, without a terminal
  log entry, before it writes the JSON store; no `dv` command calls it
  (`task/claims.ts:517`). `ClaimStore` has the deletion but no log.
- `gitOutput` swallows a git call that fails or says too much, and the audit of
  changed files then passes (`runtime/sqlite-store.ts:1310`). A file that is moved
  into the runtime's internal directory passes too. On a git that ignores case a
  new file keeps the spelling of the caller, so two claims can lock it.

Work item files

- A merge event that was processed before throws when it comes again
  (`work-management/index.ts:1144`).
- gray-matter caches a file that failed to parse, and returns it blank next time.
- It hands out the data it cached: the link that a dry scan does not write
  (`work-management/index.ts:1051-1062`) is seen when the item is read again. That is
  why a dry scan foretells archivings that depend on evidence it would make;
  `BacklogScan` keeps what is read (`seen`) apart from what is on the disk.
- The merge gate asks for no actual effort when there is no estimate, finalize and
  the scan do. Finalize reads headings in code blocks, swallows the section after an
  empty one and ignores `*` bullets.

Ready, claim, review, recovery

- A malformed file anywhere makes every claim fail, not every offer. Ready, review
  and claim normalise a reference in three ways (`task/ready.ts:389`,
  `backlog/review.ts:206`, `task/model.ts:168`): what is in code ready alone reads;
  an id with a label, a section or a slug behind it is unknown to claim, so that a
  task whose dependency is completed is offered and refused; bare numbers,
  relationships in a body, and file names whose number is not the item's id also
  mean different things to them. `SeenByClaim` and `Explained` name these cases.
- Review accepts an item without an id (its path becomes the id), and looks neither
  at claims nor at missing titles. Ready reports missing status reasons and
  completion dates for every completed item.
- Ready's list of recoverable tasks does not look at the worktree.

Graph and status command

- A dependency that is written as an object, or a relationship below a smaller
  heading, that leads nowhere is never diagnosed; a wiki link with the dash form of
  an id is shown both as a relationship and as unresolved; `wi:2` does not reach an
  item whose id is `wi-2` (`task/canonical.ts:276`, `work/projection.ts:141`,
  `task/status.ts:341`).

Scan, lint, gates

- A scan over two files of one id is not idempotent, and a demotion gives the reason
  `validation-failed`, which is in no reason domain.
- The lint compares base and head only: several legal steps may be one illegal jump,
  and the reverse; moving a file escapes its transition check; an aborted dependency
  satisfies it but never readiness; a partial lint does not look at dependents.
- Two files of one leaf are an error, "use a unique file name", but not if the later
  one is right in the backlog: it takes its own leaf before it looks whether somebody
  has it (`frontmatter-lint.ts:966-968`), and a completed item may then depend on a
  file that is not the one its reference meant.
- The pre-push script takes its settings from `automation.prePushValidation` or
  `automation.validation.prePush`, in a file the environment may name
  (`validate-work-items-pre-push.ts:76-112`), and does without; the archive validation
  reads `automation.prePushValidation` alone, in a file its caller may name, and
  refuses to work without that file or its roots (`archive-validation.ts:223-264`): a
  repository that configured the one need not have configured the other.
- The pre-push script asks for dependencies that are `closed`, a status of former
  days, and takes the severity for the archive from a setting that the archive
  validation ignores for schema violations. Deletions escape it and the changeset
  check.

Audit, lookup, synthesis

- The audit skips directories that the lookup of a task reads, and the reverse; ids
  that differ in case, a file named by another item's number and a numeric YAML id
  pass the audit and are ambiguous or unknown to the lookup. A link with a path
  counts as no inbound link, a self-link as one. `running` and `paused` are not
  among its active statuses.
- The synthesis sorts and dedupes its references before it normalises their white
  space, so that two spellings of one stay and the batch fails its own schema.
  Which of two proposals of one slug has the id without a hash depends on their order.

Rewrites of the backlog

- A second migration after a file was skipped may overwrite another item if the
  active root is the backlog itself; a file that already has a target's name is
  overwritten before it is migrated; after a kill, links to migrated items dangle,
  records are migrated into work items and names get their prefix twice; links of
  skipped files, and those to test results and evidence, are not carried over.
- `startsWith(legacyArchive)` takes `backlog/archive-notes/` for the archive.
- The renumbering rewrites only the first entry of `links`, only if it is a bare name
  right behind its dash, and wrongly names that begin like another
  (`backlog.ts:174-178`). A wiki link in quotes or a link in an object dangles, which
  the two tests that are skipped expect otherwise (`tests/backlog.test.ts:82-99`,
  `:124-149`). Killed between write and unlink it duplicates an item.

## Proofs

`RuntimeStoreProofs` proves for all constants that satisfy `ConstantsOK`:

- `Invariance`: `IInv == TypeOK /\ NoOrphans /\ OneClaimPerTarget /\
  LiveMeansRunning /\ CallsInFlight` is inductive. `CallsInFlight` says what the
  calls in flight may still rely on; without it the ownership invariants are not
  inductive, because a pending call could name any token. `TypeCorrect`,
  `NoOrphanRows`, `TargetExclusion` and `RowsMatchLog` follow.
- `EndingsAreLogged`, `ActiveClaimsAreSafe`: action properties, from the effects of
  the deleting actions.
- `PolicyHolds`: a second induction over `PolicyLocksCompatible`.
- `Refinement`: the store implements `ClaimAuthority`.

`ClaimStoreProofs` proves `Inductive`, `Spec => []IInv`, with

- `TypeOK` and `Named` (what each call is about);
- `Orderly`, until a lock file is taken over: one process inside, the text whole
  unless that process is between truncating and writing or a write failed, what it is going to
  write equal to the file but for the row of its own claim, and every running
  `claimTask` the only one with its id, absent from the file before it writes
  and present after. Without the last two parts `GrantsAreRecorded` is not
  inductive: some other process could be about to write an old file;
- `OneOpen`, until a takeover and without force: one open claim per task in the
  file and in what is about to be written.

`Typed`, `Exclusion`, `NoLostGrant`, `HalfFilesNoticed` and `OneOpenPerTask`
follow, for any number of processes, claims and tasks.

`TaskLifecycleProofs` proves `Inductive`, `Spec => []IInv`, for all processes, tokens
and tasks, with

- `Rows`: one claim per task, locks of live claims only, ended attempts are over;
- `Calls`: every command knows its task, and a token that was drawn and not stored
  yet belongs to nobody else (without it `Acquire` could revive an ended attempt);
- `Answered`: a live claim was handed out, or a recovery is on its way to end it:
  this names the places from which each failure leads to `HaltRecovery`;
- `Clock`: neither the log nor a command is ahead of the clock, so that a terminal
  entry that is logged now is the one readiness looks at;
- `Informed`: until commands overlap, each is alone on its task, and the status it
  has read, or has just written, is still there.

`Typed`, `ClaimsAreAnswered`, `StatusMovesFollowProfile`, `RecoveredIsClaimable` and
`Refinement` (to `ClaimAuthority`) follow.

The last part of the module proves `NoTaskIsStranded`, `Spec => []NoTaskStranded`, with a second
induction on top of the first. `OInv` relates the three places that say how far a
task is:

- `Placed`: a command's live claim is a claim on the task it was called for;
- `Logged`: the entry that counts is true: a running one has its claim, a claim with
  any other has ended, and a task without entry was never touched;
- `Settled` and `Minds`, until commands overlap: a claimed task is logged as running
  or halted, and one that is logged as completed is not at work, because the
  commands that would write `running` or `paused` have a claim, or have just halted
  one. The proof goes by what a step does to the log (`LogSteps`): nothing, an
  acquisition, a refusal or the end of a claim.

`WorkItemFilesProofs` proves `WorkItemTypes` and `EvidenceIsRecorded`. `IInv` adds to the
types what each command may link: a record that is in the document a command is
about to write, or in one of its later calls, is there already (`FilesKnown`,
`JobFine`), since the call that writes the record comes first.

Its second part proves `NoItemIsLost`, `NoEditIsLost`, `OnlyTheDoneIsArchived` and
`ManifestComesLast`. `SInv` says of an item that one command at a time has worked on,
and for each step of that command (`Phase`), which of the two files it has chosen,
that what it is about to write contains all that was accepted, and that a
finalization which is about to unlink has left a copy in the archive that is
closed and complete; the item is `Safe` except while its only copy is being written.
A command that is killed leaves any of these states, and a later one starts in it:
that is why `Safe` speaks of the file a search finds and not of the active one.

The proofs assume nothing but the named assumption on the constants of each module
(null values are no members of the sets, bounds are numbers, `MaxLinks` of the graph
among them, statuses asked for are statuses), which TLC evaluates on every run.

Three modules are about the pure decisions: `BacklogProofs` (what is made of a whole
backlog: work graph, status command, batches of proposals, migration and renumbering),
and on it `DecisionsProofs` (one task or file: profile, recovery, lint, the audit of a
backlog, gates, and the scan) and `ReadinessProofs` (readiness, the review and the lock
audit of a claim's changes). Their theorems come in two kinds: a general one, about any
input that meets its hypotheses, and `Spec => []P` for the property TLC asks over its
questions, which the general one implies because every question meets them.

| Theorems | Say | Because |
| --- | --- | --- |
| `RecoveryIsAsReported`, `RecoveryStatusIsTrue` | a recovery does what the status command says of it | both decide by the same conditions, in two orders |
| `CompiledProfilesAreTrue` | a profile that compiles evaluates, and its schema accepts what resolves | each rule of the compiler covers one way to fail |
| `ReopeningNeverPasses`, `ReopeningFails` | no finished item is reopened past the lint | no configuration reaches the rule of the base status |
| `LintedIsSettled`, `AuditedIsFound`, `PassedBacklogsAreSettled` | what passes the lint or the audit as a whole is settled and is found | what is not has a finding that the threshold counts, if no flat file that is read later hides it |
| `AuditCovers`, `LocksSuffice`, `AuditsMeanLocked` | a claim passes the lock audit exactly if its locks cover the paths that count | the audit's merge keeps one entry per path, with both names of a rename |
| `GraphIsClosed`, `GraphsAreClosed` | edges have ends, nodes and edges are there once | each step of each pass keeps it so |
| `GraphIsOrderless`, `GraphsAreOrderless` | the graph is that of the set of documents, claims and locks | each pass adds what its elements say about the graph before it |
| `BatchesAreOrderless`, `DecisionsAreOrderless` | keys and approvals decide whether drafts make a batch, their order neither that nor what is proposed; what is built is valid | each draft adds one proposal, whose key comes from the draft and whose id is free; a sorted list is known by what is before each element |
| `MergedIsFinalizable`, `PushedStaysAccepted`, `ValidationsAgree`, `MergedIsAccepted` | what one gate lets through no later one refuses, if the later one can be made | the readers of checklists agree on plain headings, the two validations on the schema if they read one section |
| `DryScansForetell`, `RescansRecover` | a dry scan changes nothing and says what the scan archives; a killed scan is made up for by the next | a visit takes the two files of an item some way and stops only when killed; what it adds it adds once |
| `StatusIsHonest`, `GraphsShowAll` | the status command hides no reference that leads nowhere, and reports none that leads somewhere | the edges that leave a work item say where they were written |
| `MigrationKeeps`, `RenumberItemsKeeps`, `RenumberItemsArrive`, `RewritesAlwaysKeep` | a migration or a renumbering, killed at any write, loses no item, unless an item already had the name another is given; after a whole one no link leads to another item, and one that was rewritten leads to its own | the new file is there before the old one goes, and its name is no other item's |
| `SelectionIsKept`, `SelectionsAreKept` | what is published as the next task can be claimed, if claim sees the number in each reference | the dependencies the graph gives a task are those its references mean, an unknown one is a reason, and an item that alone has its number is what claim finds by it |
| `FindingsAreReasons`, `FindingsAlwaysExplain` | findings, ready, review and claim agree on an item | all ask the same kernel, and in a plain backlog find the same dependencies in three ways |
| `RenewalIsVerified`, `RenewalsAreVerified` | no renewal is made and then reported as failed | what a pass adds stays, and locks follow claims |

The hypotheses are what the code needs and does not check; each is named and stated in
the module. References tell files apart (`Distinguishable`), a backlog is `Tidy` and
`WellNamed`, a lock list has one lock per path (`WellListed`), no work item's scope has
a document of its own, scopes of locks are canonical. For the order, besides
`Unambiguous`, ids of scopes must be canonical (`WellIdentified`): a scope document with
another id is linked only if some earlier document happened to refer to it. For the
gates: both readers of bodies find the same headings (`BothRead`), the item has an
estimate, it need not name its schema or names the one it was pushed under, and the
archive validation has a configuration to go by (`ArchiveReads`). For the
status command (`WellKeyed`, `StatusReadable`): the name of a record says that it is one,
no link has a relationship's name for its key, and a section of relationships on another
level is written in wiki links. For readiness (`FileOf`, `OwnNames`): only work items have
ids of their kind, none lies among the records, and an item with another id than the
task has the number of its file and shares it with none; two files of the task itself
are allowed. For the findings (`NamedFiles`): an id nobody else has is the number of its
file; that a reference by bare number is met for claim and unknown to ready, and one
with a label behind its id the reverse, are exceptions the properties name
(`WrittenForClaim`, `AllSeen`).

For the scan (`WellScanned`, `ScanAsked`): an id leads to one item, what is linked is
recorded, an item has one file before the first scan, and the status for invalid
candidates is not `completed`. The argument goes by what a scan makes of the pair of
files of each item (`PairDone`): with no writes left it is one of the states `Underway`
lists, and otherwise the last of them (`Through`). A file that was copied to the archive
and not yet removed is such a state (`Resumable`), from which the next scan comes to the
same end: preparing an item twice, at two times, is preparing it once (`AlikeItems`).

For the rewrites, a backlog lists each of its files once (`ListsEach`,
`LegacyFilesAre`), names are not empty, and an id that is there is the number of the
name (`NumberedDoc`). A migration keeps, for every owner of files, that all of them are
of its item (`KeepsAll`): what one item's writes and removal make of the files
(`MovedItem`, with each place they can be killed at) touches no file of another owner.
Two items that would be given one name have one owner, and there the second is skipped.
Of a whole migration `Ended` says where each of two items is and what it says of the
other; links are renamed by names given before the first file is moved. In a renumbering
each new number is greater than all there are, so a renaming meets no other file and a
number is shared only by files not yet renamed (`RenumberIs`, and `Placed` with the
place `P` of every file after so many renamings); following a link goes through the
notes of the renamings in turn, and at most one of them is about it if the names are
`Distinct`. A link that is not a bare name is not followed: the name it has is then no
file's any more, since no file takes a name that another had. A killed rewrite leaves a backlog that meets the same hypotheses, hence what
is said of the one made after it. The questions let a whole rewrite make 99 writes,
which for their at most five files is more than it can make (`FewNumbered`).

Lists need induction, which is done by hand. `FoldTheory` has the operator of a fold as
a CONSTANT and is instantiated for the audit's merge, the visits of a scan, the drafts
of a batch, the passes of the projection and the rewrites: a fold is the last of a
series `h[0..n]`, one step apart, and what holds of `h[0]` and survives a step is a set
of numbers with no least one outside (`SetInduction`). `PassIsExact` says on top of that
which nodes and edges a pass adds. Sorted lists are `Sorting.Sorted`, by rank, because
the libraries' sorting is recursive.

Only model-checked are `CallsEnd`, as liveness is beyond the proof system, and the
properties that are violated.

## Plan

1. `RuntimeStore`, `ClaimAuthority`, `ClaimStore`, `TaskLifecycle`, each with proofs (done).
2. `WorkItemFiles`, reconciliation and event ingestion included, with proofs (done).
3. The pure decisions: profile, graph, readiness, recovery, review, scan, lint, lock
   audit, rewrites, gates, backlog audit, synthesis (done).
4. Open: the composition of `WorkItemFiles` with `TaskLifecycle` (both have the status
   of a task; here each is checked by itself), `TaskLifecycle`'s moves taken from
   `WorkflowProfile`, the filters of the graph explorer, the creation of work items.

## Not modelled

- Documents, packs, templates and configuration; the remark plugins; show, prompt and
  render: stateless code that validates or formats one text, whose mistakes tests reach.
- The creation of a work item from a template, the HTML graph viewer, the filters of
  the explorer and of `list`, the condition language of the scan and its reports,
  remote issue providers.
- The command line itself, and the reading of commits from git (ancestry, remotes,
  canonical URLs): git and the file system enter only as what the code reads from
  them.
