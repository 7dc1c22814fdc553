-------------------------- MODULE ClaimStoreProofs --------------------------
(***************************************************************************)
(* Proofs about ClaimStore, for any number of processes, claims and tasks: *)
(* while no lock file is taken over, updates exclude one another, no grant *)
(* is lost, half-written stores are noticed, and no task has two open      *)
(* claims.                                                                 *)
(***************************************************************************)
EXTENDS ClaimStore, TLAPS

(* A process that has computed what it is going to write.                  *)
Pending(p) == job[p].pc \in {"truncate", "write"}

Claiming(p) == job[p].pc # "idle" /\ job[p].op = "claim"

(* A call is about a claim, and claimTask about a task.                    *)
Named == \A p \in Proc : job[p].pc # "idle" =>
  job[p].claim \in Claim /\ (job[p].op = "claim" => job[p].task \in Task)

(* The history of a call of claimTask: its id is nobody else's and not yet *)
(* granted; it is absent from the file before it is written, there after.  *)
ClaimCall(p) == LET j == job[p] IN
  /\ granted[j.claim] = NoTask
  /\ \A q \in Proc : job[q].claim = j.claim /\ Claiming(q) => q = p
  /\ j.pc \in {"open", "stat", "takeover", "update", "truncate", "write"} =>
       claims[j.claim].task = NoTask
  /\ j.pc \in {"truncate", "write"} => j.seen[j.claim].task = j.task
  /\ j.pc = "return" => claims[j.claim].task = j.task

(* What holds while no lock file has been taken over: one process inside,  *)
(* which alone sees half a file, and writes back what it does not change.  *)
InsideAlone == \A p, q \in Proc : Inside(p) => lock # {} /\ (Inside(q) => p = q)
TextInside == \A p \in Proc :
  /\ Inside(p) /\ job[p].pc # "write" => text = "whole" \/ failed
  /\ job[p].pc \in {"truncate", "return"} => text = "whole"
  /\ job[p].pc = "write" => text = "empty"
WritesBack == \A p \in Proc, c \in Claim : Pending(p) =>
  \/ job[p].seen[c].task = claims[c].task
  \/ job[p].op = "claim" /\ job[p].claim = c
Granted == \A c \in Claim : granted[c] # NoTask => claims[c].task = granted[c]
Orderly ==
  /\ InsideAlone /\ TextInside /\ WritesBack /\ Granted
  /\ text # "whole" => lock # {} \/ failed
  /\ \A p \in Proc : Claiming(p) => ClaimCall(p)

(* No task has two open claims, in the file or in what is to be written.   *)
OneOpenIn(store) == \A tk \in Task : \A c, d \in Open(store, tk) : c = d
OneOpen ==
  /\ OneOpenIn(claims)
  /\ \A p \in Proc : Pending(p) => OneOpenIn(job[p].seen)

(* The inductive invariant.                                                *)
IInv == /\ TypeOK /\ Named
        /\ taken \/ Orderly
        /\ "force" \in Commands \/ taken \/ OneOpen

-----------------------------------------------------------------------------
(* A job whose program counter moves is a job, and so is the idle one.     *)
LEMMA IdleIsJob == Idle \in Job /\ NoClaims \in Store
BY DEF Idle, Job, Update, NoClaims, NoRow, OpenRow, Store, Row

(* Moving on,                                                              *)
LEMMA GotoEffect ==
  ASSUME TypeOK, NEW p \in Proc,
         NEW pc \in {"open", "stat", "takeover", "update", "write", "unlock", "return"},
         job' = [job EXCEPT ![p].pc = pc]
  PROVE  /\ job' \in [Proc -> Job]
         /\ job'[p].pc = pc /\ job'[p].op = job[p].op /\ job'[p].claim = job[p].claim
         /\ job'[p].task = job[p].task /\ job'[p].seen = job[p].seen
         /\ \A q \in Proc \ {p} : job'[q] = job[q]
BY DEF TypeOK, Job

(* saving a store for the write that follows,                              *)
LEMMA SaveEffect ==
  ASSUME TypeOK, NEW p \in Proc, NEW store \in Store, Save(p, store)
  PROVE  /\ job' \in [Proc -> Job]
         /\ job'[p].pc = "truncate" /\ job'[p].op = job[p].op
         /\ job'[p].claim = job[p].claim /\ job'[p].task = job[p].task
         /\ job'[p].seen = store
         /\ \A q \in Proc \ {p} : job'[q] = job[q]
BY DEF TypeOK, Save, Job

(* and returning to the caller.                                            *)
LEMMA ReturnEffect ==
  ASSUME TypeOK, NEW p \in Proc, job' = [job EXCEPT ![p] = Idle]
  PROVE  /\ job' \in [Proc -> Job]
         /\ job'[p].pc = "idle"
         /\ \A q \in Proc \ {p} : job'[q] = job[q]
BY IdleIsJob DEF TypeOK, Idle

(* What the update callbacks may save is a store.                          *)
LEMMA RowsAreRows ==
  ASSUME ConstantsOK
  PROVE  /\ \A tk \in Task, time \in Nat : OpenRow(tk, time + Lease) \in Row
         /\ \A r \in Row, op \in Update, time \in Nat : Recovered(r, op, time) \in Row
BY DEF OpenRow, Recovered, Row, ConstantsOK

(* And so is a store with one row replaced.                                *)
LEMMA StoreUpdated ==
  ASSUME NEW store \in Store, NEW c \in Claim, NEW r \in Row
  PROVE  [store EXCEPT ![c] = r] \in Store
BY DEF Store

(* A claim call saves the file with one more open claim, of a task that    *)
(* had none; the other calls save a file that opens no claim.              *)
LEMMA ClaimSaves ==
  ASSUME ConstantsOK, TypeOK, Named, NEW p \in Proc, At(p, "update"), ClaimTask(p, claims)
  PROVE  \/ Throw(p)
         \/ \E store \in Store :
              /\ Save(p, store)
              /\ \A c \in Claim \ {job[p].claim} : store[c] = claims[c]
              /\ store[job[p].claim].task = job[p].task
              /\ Open(claims, job[p].task) = {}
<1> DEFINE j == job[p]
           new == [claims EXCEPT ![j.claim] = OpenRow(j.task, j.at + Lease)]
<1>1. j.claim \in Claim /\ j.task \in Task /\ j.at \in Nat /\ claims \in Store
  BY DEF At, ClaimTask, Named, TypeOK, Job
<1>2. new \in Store
  BY <1>1, RowsAreRows, StoreUpdated
<1>3. new[j.claim].task = j.task /\ \A c \in Claim \ {j.claim} : new[c] = claims[c]
  BY <1>1 DEF Store, OpenRow
<1>4. ASSUME MayClaim(claims, j.task, j.at)
      PROVE  Open(claims, j.task) = {}
  BY <1>4 DEF MayClaim, Open, StateOf
<1> QED BY <1>2, <1>3, <1>4 DEF ClaimTask

(* The calls that close or adopt a claim.                                  *)
LEMMA OthersSave ==
  ASSUME ConstantsOK, TypeOK, Named, NEW p \in Proc, At(p, "update"),
         ReleaseClaim(p, claims) \/ RecoverClaim(p, claims)
  PROVE  \/ Throw(p)
         \/ \E store \in Store :
              /\ Save(p, store)
              /\ \A c \in Claim : store[c].task = claims[c].task
              /\ "force" \notin Commands =>
                   \A c \in Claim : claims[c].closed # {} => store[c].closed # {}
<1> DEFINE c == job[p].claim  op == job[p].op  time == job[p].at
           new(o, t) == [claims EXCEPT ![c] = Recovered(claims[c], o, t)]
<1>1. /\ c \in Claim /\ time \in Nat /\ claims \in Store /\ claims[c] \in Row
      /\ op \in Update /\ "release" \in Update
  BY DEF At, Named, TypeOK, Job, Store, Update
<1>2. \A o \in Update, t \in Nat : new(o, t) \in Store
  BY <1>1, RowsAreRows, StoreUpdated
<1>3. \A o \in Update, t \in Nat : \A d \in Claim :
        /\ new(o, t)[d].task = claims[d].task
        /\ o # "adopt" /\ claims[d].closed # {} => new(o, t)[d].closed # {}
        /\ d # c => new(o, t)[d] = claims[d]
  BY <1>1 DEF Recovered, Store
<1> DEFINE Fine(store) ==
             /\ store \in Store
             /\ \A d \in Claim : store[d].task = claims[d].task
             /\ "force" \notin Commands =>
                  \A d \in Claim : claims[d].closed # {} => store[d].closed # {}
<1>4. Fine(claims) /\ Fine(new("release", 0))
  BY <1>1, <1>2, <1>3
<1>5. ASSUME MayRecover(claims[c], op, time)
      PROVE  Fine(new(op, time))
  <2>1. ASSUME "force" \notin Commands, op = "adopt"
        PROVE  claims[c].closed = {}
    <3>1. "terminal" \notin Classifications(claims[c], time) \cap Fits(op)
      BY <2>1 DEF Fits
    <3>2. Classifications(claims[c], time) # {"terminal"}
      BY <1>5, <2>1, <3>1 DEF MayRecover
    <3>3. "released" \notin claims[c].closed /\ "abandoned" \notin claims[c].closed
      BY <3>2 DEF Classifications, StateOf
    <3> QED BY <3>3, <1>1 DEF Row
  <2>2. ASSUME "force" \notin Commands, NEW d \in Claim, claims[d].closed # {}
        PROVE  new(op, time)[d].closed # {}
    <3>1. CASE op # "adopt"
      BY <3>1, <2>2, <1>1, <1>3
    <3>2. CASE op = "adopt"
      BY <3>2, <2>1, <2>2, <1>1, <1>3
    <3> QED BY <3>1, <3>2
  <2> QED BY <2>2, <1>1, <1>2, <1>3
<1>6. \/ Throw(p) \/ Save(p, claims) \/ Save(p, new("release", 0))
      \/ Save(p, new(op, time)) /\ MayRecover(claims[c], op, time)
  BY DEF ReleaseClaim, RecoverClaim
<1>7. Throw(p) \/ \E store \in Store : Save(p, store) /\ Fine(store)
  <2>1. CASE Throw(p)
    BY <2>1
  <2>2. CASE Save(p, claims)
    <3>1. \E store \in Store : store = claims
      BY <1>1
    <3> QED BY <2>2, <1>4, <3>1
  <2>3. CASE Save(p, new("release", 0))
    <3> HIDE DEF new
    <3>1. new("release", 0) \in Store
      BY <1>4
    <3>2. \E store \in Store : store = new("release", 0)
      BY <3>1
    <3> QED BY <2>3, <1>4, <3>2
  <2>4. CASE Save(p, new(op, time)) /\ MayRecover(claims[c], op, time)
    <3> HIDE DEF new
    <3>1. Fine(new(op, time))
      BY <2>4, <1>5
    <3> QED BY <2>4, <3>1
  <2> QED BY <1>6, <2>1, <2>2, <2>3, <2>4
<1> QED BY <1>7

-----------------------------------------------------------------------------
(* Initially.                                                              *)
LEMMA InitGood == ASSUME ConstantsOK, Init PROVE IInv
<1> USE IdleIsJob DEF Init, Idle
<1>1. TypeOK
  BY DEF TypeOK
<1>2. Named
  BY DEF Named
<1>3. Orderly
  BY DEF Orderly, InsideAlone, TextInside, WritesBack, Granted, Inside, Pending,
         Claiming
<1>4. OneOpen
  BY DEF OneOpen, OneOpenIn, Open, NoClaims, NoRow, OpenRow, Pending, ConstantsOK
<1> QED BY <1>1, <1>2, <1>3, <1>4 DEF IInv

(* A call starts a job.                                                    *)
LEMMA CallEffect ==
  ASSUME TypeOK, NEW p \in Proc, NEW op \in Update, NEW c \in Claim,
         NEW tk \in Task \cup {NoTask}, Call(p, op, c, tk)
  PROVE  /\ job' \in [Proc -> Job]
         /\ job'[p].pc = "open" /\ job'[p].op = op /\ job'[p].claim = c
         /\ job'[p].task = tk
         /\ \A q \in Proc \ {p} : job'[q] = job[q]
BY IdleIsJob DEF TypeOK, Call, Job

(* The effect of an update callback on the job, for all three operations.  *)
LEMMA UpdateEffect ==
  ASSUME ConstantsOK, TypeOK, Named, NEW p \in Proc, ReadAndUpdate(p)
  PROVE  /\ job' \in [Proc -> Job]
         /\ job'[p].pc \in {"truncate", "unlock"}
         /\ job'[p].op = job[p].op /\ job'[p].claim = job[p].claim
         /\ job'[p].task = job[p].task
         /\ \A q \in Proc \ {p} : job'[q] = job[q]
<1>1. CASE Throw(p)
  BY <1>1, GotoEffect DEF Throw, Goto
<1>2. CASE \E store \in Store : Save(p, store)
  BY <1>2, SaveEffect
<1>3. At(p, "update")
  BY DEF ReadAndUpdate
<1>4. CASE text # "whole"
  BY <1>4, <1>1 DEF ReadAndUpdate
<1>5. CASE ClaimTask(p, claims)
  BY <1>5, <1>1, <1>2, <1>3, ClaimSaves
<1>6. CASE ReleaseClaim(p, claims) \/ RecoverClaim(p, claims)
  BY <1>6, <1>1, <1>2, <1>3, OthersSave
<1> QED BY <1>4, <1>5, <1>6 DEF ReadAndUpdate

(* Every step of a process moves its own job only: to its end, or on with  *)
(* the same call.                                                          *)
Moves(p) ==
  /\ job' \in [Proc -> Job]
  /\ \A q \in Proc \ {p} : job'[q] = job[q]
  /\ \/ job'[p].pc = "idle"
     \/ /\ job[p].pc # "idle"
        /\ job'[p].op = job[p].op /\ job'[p].claim = job[p].claim
        /\ job'[p].task = job[p].task

(* What may go wrong with a process.                                       *)
Fault(p) == TakeOverFails(p) \/ UpdateFails(p) \/ Crash(p)

(* Every action of a process does so.                                      *)
LEMMA StepMoves ==
  ASSUME ConstantsOK, TypeOK, Named, NEW p \in Proc, Step(p) \/ Fault(p)
  PROVE  Moves(p)
<1>1. CASE OpenLock(p)
  BY <1>1, GotoEffect DEF OpenLock, Goto, At, Moves
<1>2. CASE StatLock(p)
  BY <1>2, GotoEffect, ReturnEffect DEF StatLock, Goto, At, Moves
<1>3. CASE TakeOver(p)
  BY <1>3, GotoEffect DEF TakeOver, Goto, At, Moves
<1>4. CASE ReadAndUpdate(p)
  BY <1>4, UpdateEffect DEF ReadAndUpdate, At, Moves
<1>5. CASE Truncate(p)
  BY <1>5, GotoEffect DEF Truncate, Goto, At, Moves
<1>6. CASE Write(p)
  BY <1>6, GotoEffect DEF Write, At, Moves, TypeOK, Job
<1>7. CASE Unlock(p)
  BY <1>7, ReturnEffect DEF Unlock, Moves
<1>8. CASE Crash(p)
  BY <1>8, ReturnEffect DEF Crash, Moves
<1>9. CASE TakeOverFails(p)
  BY <1>9, GotoEffect DEF TakeOverFails, Goto, At, Moves
<1>10. CASE UpdateFails(p)
  BY <1>10, GotoEffect DEF UpdateFails, Throw, Goto, At, Moves
<1> QED BY <1>1, <1>2, <1>3, <1>4, <1>5, <1>6, <1>7, <1>8, <1>9, <1>10 DEF Step, Fault

(* So it stays clear what each call is about.                              *)
LEMMA NamedKept ==
  ASSUME Named, NEW p \in Proc, Moves(p)
  PROVE  Named'
BY DEF Named, Moves

(* The types, and what a call is about, are kept by every step.            *)
LEMMA TypeKept ==
  ASSUME ConstantsOK, TypeOK, Named, [Next]_vars
  PROVE  TypeOK' /\ Named'
<1>1. CASE UNCHANGED vars
  BY <1>1 DEF vars, TypeOK, Named
<1>2. CASE Tick
  <2>1. now' \in Nat /\ UNCHANGED <<claims, text, lock, runtime, granted, taken, failed, job>>
    BY <1>2 DEF Tick, TypeOK, file
  <2> QED BY <2>1 DEF TypeOK, Named
<1>3. ASSUME NEW tk \in Task, RuntimeClaimed(tk)
      PROVE  TypeOK' /\ Named'
  BY <1>3 DEF RuntimeClaimed, TypeOK, Named, file
<1>4. ASSUME NEW p \in Proc, NEW op \in Update, NEW c \in Claim,
             NEW tk \in Task \cup {NoTask}, op = "claim" => tk \in Task,
             Call(p, op, c, tk)
      PROVE  TypeOK' /\ Named'
  <2>1. UNCHANGED <<claims, text, lock, runtime, granted, taken, failed, now>>
    BY <1>4 DEF Call, file
  <2>2. TypeOK'
    BY <2>1, <1>4, CallEffect DEF TypeOK
  <2>3. Named'
    BY <1>4, CallEffect DEF Named
  <2> QED BY <2>2, <2>3
<1>5. ASSUME NEW p \in Proc, Step(p) \/ Fault(p)
      PROVE  TypeOK' /\ Named'
  <2>1. Moves(p) /\ Named'
    BY <1>5, StepMoves, NamedKept
  <2>2. claims' \in Store
    BY <1>5 DEF Step, OpenLock, StatLock, TakeOver, ReadAndUpdate, Truncate, Write,
                Unlock, Fault, TakeOverFails, UpdateFails, Crash, TypeOK, Job, file
  <2>3. text' \in {"whole", "empty", "garbled"}
    BY <1>5 DEF Step, OpenLock, StatLock, TakeOver, ReadAndUpdate, Truncate, Write,
                Unlock, Fault, TakeOverFails, UpdateFails, Crash, TypeOK, file
  <2>4. lock' \in SUBSET Nat /\ \A m, n \in lock' : m = n
    BY <1>5 DEF Step, OpenLock, StatLock, TakeOver, ReadAndUpdate, Truncate, Write,
                Unlock, Fault, TakeOverFails, UpdateFails, Crash, TypeOK
  <2>5. runtime' \in SUBSET Task
    BY <1>5 DEF Step, OpenLock, StatLock, TakeOver, ReadAndUpdate, Truncate, Write,
                Unlock, Fault, TakeOverFails, UpdateFails, Crash,
                ClaimTask, ReleaseClaim, RecoverClaim, TypeOK
  <2>6. granted' \in [Claim -> Task \cup {NoTask}]
    BY <1>5 DEF Step, OpenLock, StatLock, TakeOver, ReadAndUpdate, Truncate, Write,
                Unlock, Fault, TakeOverFails, UpdateFails, Crash, TypeOK, Named, At, Job
  <2>7. now' \in Nat /\ taken' \in BOOLEAN /\ failed' \in BOOLEAN
    BY <1>5 DEF Step, OpenLock, StatLock, TakeOver, ReadAndUpdate, Truncate, Write,
                Unlock, Fault, TakeOverFails, UpdateFails, Crash, TypeOK
  <2> QED BY <2>1, <2>2, <2>3, <2>4, <2>5, <2>6, <2>7 DEF TypeOK, Moves
<1> QED BY <1>1, <1>2, <1>3, <1>4, <1>5 DEF Next, Update, Fault

-----------------------------------------------------------------------------
(* What the order of the updates rests on does not mention the clock or    *)
(* the runtime store.                                                      *)
LEMMA OrderlyStutters ==
  ASSUME Orderly, UNCHANGED <<claims, text, lock, granted, failed, job>>
  PROVE  Orderly'
BY DEF Orderly, InsideAlone, TextInside, WritesBack, Granted, Inside, Pending,
       Claiming, ClaimCall

(* A new call of claimTask draws an id that nobody has.                    *)
LEMMA CallOrderly ==
  ASSUME TypeOK, Orderly, NEW p \in Proc, NEW op \in Update, NEW c \in Claim,
         NEW tk \in Task \cup {NoTask}, Call(p, op, c, tk)
  PROVE  Orderly'
<1> USE CallEffect
<1>1. UNCHANGED <<claims, text, lock, granted, failed>> /\ ~Inside(p) /\ ~Inside(p)'
  BY DEF Call, file, At, Inside
<1>2. InsideAlone' /\ TextInside' /\ WritesBack' /\ Granted'
  BY <1>1 DEF Orderly, InsideAlone, TextInside, WritesBack, Granted, Inside, Pending
<1>3. ASSUME NEW q \in Proc, Claiming(q)'
      PROVE  ClaimCall(q)'
  <2>1. CASE q = p
    BY <2>1, <1>1, <1>3 DEF Call, Claiming, ClaimCall
  <2>2. CASE q # p
    <3>1. Claiming(q) /\ ClaimCall(q)
      BY <2>2, <1>3 DEF Claiming, Orderly
    <3>2. Claiming(p)' => job'[p].claim # job[q].claim
      BY <2>2 DEF Call, Claiming
    <3> QED BY <2>2, <1>1, <3>1, <3>2 DEF ClaimCall, Claiming
  <2> QED BY <2>1, <2>2
<1> QED BY <1>1, <1>2, <1>3 DEF Orderly

(* The other calls of claimTask, as long as a step leaves alone the file's *)
(* row of their claim and what was granted under its id.                   *)
LEMMA OthersClaim ==
  ASSUME Named, Orderly, NEW p \in Proc, Moves(p), NEW q \in Proc \ {p}, Claiming(q)',
         granted'[job[q].claim] = granted[job[q].claim],
         claims'[job[q].claim].task = claims[job[q].claim].task
  PROVE  ClaimCall(q)'
<1>1. Claiming(q) /\ ClaimCall(q) /\ job'[q] = job[q]
  BY DEF Moves, Claiming, Orderly
<1>2. \A r \in Proc : job'[r].claim = job'[q].claim /\ Claiming(r)' => r = q
  BY <1>1 DEF Moves, Claiming, ClaimCall
<1> QED BY <1>1, <1>2 DEF ClaimCall

(* The lock file is created when nobody is inside; waiting changes nothing,*)
(* and neither does a stale lock file that cannot be unlinked.             *)
LEMMA WaitOrderly ==
  ASSUME ConstantsOK, TypeOK, Named, Orderly, NEW p \in Proc,
         OpenLock(p) \/ StatLock(p) \/ TakeOverFails(p)
  PROVE  Orderly'
<1>1. Moves(p)
  BY StepMoves DEF Step, Fault
<1>2. /\ UNCHANGED <<claims, text, granted, failed>> /\ ~Inside(p) /\ ~Pending(p)
      /\ job[p].pc \in {"open", "stat", "takeover"}
  BY DEF OpenLock, StatLock, TakeOverFails, file, At, Inside, Pending
<1>3. \/ lock' = lock /\ job'[p].pc \in {"idle", "open", "stat", "takeover"}
      \/ lock = {} /\ lock' # {} /\ job'[p].pc = "update"
  BY GotoEffect, ReturnEffect DEF OpenLock, StatLock, TakeOverFails, Goto
<1>4. InsideAlone'
  BY <1>1, <1>2, <1>3 DEF Orderly, InsideAlone, Inside, Moves
<1>5. TextInside' /\ (text # "whole" => lock # {} \/ failed)'
  BY <1>1, <1>2, <1>3 DEF Orderly, TextInside, Inside, Moves
<1>6. WritesBack' /\ Granted'
  BY <1>1, <1>2, <1>3 DEF Orderly, WritesBack, Pending, Moves, Granted
<1>7. ASSUME NEW q \in Proc, Claiming(q)'
      PROVE  ClaimCall(q)'
  <2>1. CASE q = p
    <3>1. Claiming(p) /\ ClaimCall(p) /\ job'[p].pc # "idle"
      BY <1>1, <1>7, <2>1 DEF Claiming, Moves, Orderly
    <3>2. \A r \in Proc : job'[r].claim = job'[p].claim /\ Claiming(r)' => r = p
      BY <1>1, <3>1 DEF Moves, Claiming, ClaimCall
    <3> QED BY <1>1, <1>2, <1>3, <2>1, <3>1, <3>2 DEF Moves, ClaimCall
  <2>2. CASE q # p
    BY <1>1, <1>2, <1>7, <2>2, OthersClaim
  <2> QED BY <2>1, <2>2
<1> QED BY <1>4, <1>5, <1>6, <1>7 DEF Orderly

(* The callback runs inside, on a whole file; it throws on half a one.     *)
LEMMA UpdateOrderly ==
  ASSUME ConstantsOK, TypeOK, Named, Orderly, NEW p \in Proc, ReadAndUpdate(p)
  PROVE  Orderly'
<1>1. Moves(p) /\ job'[p].pc \in {"truncate", "unlock"}
  BY StepMoves, UpdateEffect DEF Step
<1>2. UNCHANGED <<claims, text, granted, failed, lock>> /\ Inside(p) /\ job[p].pc = "update"
  BY DEF ReadAndUpdate, file, At, Inside
<1>6. job'[p].pc = "truncate" => text = "whole"
  BY GotoEffect DEF ReadAndUpdate, Throw, Goto
<1>3. InsideAlone' /\ TextInside' /\ Granted' /\ (text # "whole" => lock # {} \/ failed)'
  BY <1>1, <1>2, <1>6 DEF Orderly, InsideAlone, TextInside, Granted, Inside, Moves
<1>4. /\ WritesBack'
      /\ Claiming(p)' /\ job'[p].pc = "truncate" =>
           job'[p].seen[job[p].claim].task = job[p].task
  <2>1. \A q \in Proc \ {p} : ~Pending(q)'
    BY <1>1, <1>2 DEF Orderly, InsideAlone, Inside, Pending, Moves
  <2>2. CASE Throw(p)
    <3>1. ~Pending(p)' /\ job'[p].pc = "unlock"
      BY <2>2, GotoEffect DEF Throw, Goto, Pending
    <3> QED BY <2>1, <3>1 DEF WritesBack
  <2>3. CASE ~Throw(p) /\ ClaimTask(p, claims)
    <3>1. PICK store \in Store :
            /\ Save(p, store)
            /\ \A c \in Claim \ {job[p].claim} : store[c] = claims[c]
            /\ store[job[p].claim].task = job[p].task
      BY <1>2, <2>3, ClaimSaves DEF At
    <3>2. job[p].op = "claim"
      BY <2>3 DEF ClaimTask
    <3> QED BY <1>2, <2>1, <3>1, <3>2, SaveEffect DEF WritesBack
  <2>4. CASE ~Throw(p) /\ (ReleaseClaim(p, claims) \/ RecoverClaim(p, claims))
    <3>1. PICK store \in Store :
            Save(p, store) /\ \A c \in Claim : store[c].task = claims[c].task
      BY <1>2, <2>4, OthersSave DEF At
    <3>2. job[p].op # "claim"
      BY <2>4 DEF ReleaseClaim, RecoverClaim
    <3> QED BY <1>2, <2>1, <3>1, <3>2, SaveEffect DEF WritesBack, Claiming
  <2> QED BY <2>2, <2>3, <2>4 DEF ReadAndUpdate
<1>5. ASSUME NEW q \in Proc, Claiming(q)'
      PROVE  ClaimCall(q)'
  <2>1. CASE q = p
    <3>1. Claiming(p) /\ ClaimCall(p)
      BY <1>1, <1>5, <2>1 DEF Claiming, Moves, Orderly
    <3>2. \A r \in Proc : job'[r].claim = job'[p].claim /\ Claiming(r)' => r = p
      BY <1>1, <3>1 DEF Moves, Claiming, ClaimCall
    <3> QED BY <1>1, <1>2, <1>4, <1>5, <2>1, <3>1, <3>2 DEF Moves, ClaimCall
  <2>2. CASE q # p
    BY <1>1, <1>2, <1>5, <2>2, OthersClaim
  <2> QED BY <2>1, <2>2
<1> QED BY <1>3, <1>4, <1>5 DEF Orderly

(* The one process inside truncates the file,                              *)
LEMMA TruncateOrderly ==
  ASSUME ConstantsOK, TypeOK, Named, Orderly, NEW p \in Proc, Truncate(p)
  PROVE  Orderly'
<1>1. Moves(p) /\ job'[p].pc = "write" /\ job'[p].seen = job[p].seen
  BY StepMoves, GotoEffect DEF Step, Truncate, Goto
<1>2. /\ UNCHANGED <<claims, granted, failed, lock>> /\ text' = "empty" /\ Inside(p)
      /\ job[p].pc = "truncate" /\ Pending(p)
  BY DEF Truncate, At, Inside, Pending
<1>3. \A q \in Proc \ {p} : ~Inside(q) /\ ~Inside(q)'
  BY <1>1, <1>2 DEF Orderly, InsideAlone, Moves, Inside
<1>4. InsideAlone' /\ TextInside' /\ Granted' /\ (text # "whole" => lock # {} \/ failed)'
  BY <1>1, <1>2, <1>3 DEF Orderly, InsideAlone, TextInside, Granted, Inside
<1>5. WritesBack'
  BY <1>1, <1>2, <1>3 DEF Orderly, WritesBack, Pending, Inside, Moves
<1>6. ASSUME NEW q \in Proc, Claiming(q)'
      PROVE  ClaimCall(q)'
  <2>1. CASE q = p
    <3>1. Claiming(p) /\ ClaimCall(p)
      BY <1>1, <1>6, <2>1 DEF Claiming, Moves, Orderly
    <3>2. \A r \in Proc : job'[r].claim = job'[p].claim /\ Claiming(r)' => r = p
      BY <1>1, <3>1 DEF Moves, Claiming, ClaimCall
    <3> QED BY <1>1, <1>2, <2>1, <3>1, <3>2 DEF Moves, ClaimCall
  <2>2. CASE q # p
    BY <1>1, <1>2, <1>6, <2>2, OthersClaim
  <2> QED BY <2>1, <2>2
<1> QED BY <1>4, <1>5, <1>6 DEF Orderly

(* and writes a store that differs in the row of its own claim at most.    *)
LEMMA WriteOrderly ==
  ASSUME ConstantsOK, TypeOK, Named, Orderly, NEW p \in Proc, Write(p)
  PROVE  Orderly'
<1>1. Moves(p) /\ job'[p].pc = "return"
  BY StepMoves, GotoEffect DEF Step, Write
<1>2. /\ UNCHANGED <<granted, failed, lock>> /\ Inside(p)
      /\ claims' = job[p].seen /\ job[p].pc = "write" /\ Pending(p)
  BY DEF Write, At, Inside, Pending
<1>3. text' = "whole"
  BY <1>2 DEF Write, Orderly, TextInside
<1>4. \A q \in Proc \ {p} : ~Inside(q) /\ ~Inside(q)'
  BY <1>1, <1>2 DEF Orderly, InsideAlone, Moves, Inside
<1>5. InsideAlone' /\ TextInside' /\ WritesBack' /\ (text # "whole" => lock # {} \/ failed)'
  BY <1>1, <1>2, <1>3, <1>4 DEF Orderly, InsideAlone, TextInside, WritesBack, Inside, Pending
<1>6. Claiming(p) => ClaimCall(p)
  BY DEF Orderly
<1>7. \A c \in Claim : \/ claims'[c].task = claims[c].task
                       \/ Claiming(p) /\ job[p].claim = c
  BY <1>2 DEF Orderly, WritesBack, Claiming
<1>8. Granted'
  BY <1>2, <1>6, <1>7 DEF Orderly, Granted, ClaimCall
<1>9. ASSUME NEW q \in Proc, Claiming(q)'
      PROVE  ClaimCall(q)'
  <2>1. CASE q = p
    <3>1. Claiming(p) /\ ClaimCall(p)
      BY <1>1, <1>9, <2>1 DEF Claiming, Moves, Orderly
    <3>2. \A r \in Proc : job'[r].claim = job'[p].claim /\ Claiming(r)' => r = p
      BY <1>1, <3>1 DEF Moves, Claiming, ClaimCall
    <3> QED BY <1>1, <1>2, <2>1, <3>1, <3>2 DEF Moves, ClaimCall
  <2>2. CASE q # p
    <3>1. Claiming(q) /\ ClaimCall(q) /\ job[q].claim \in Claim
      BY <1>1, <1>9, <2>2 DEF Claiming, Moves, Orderly, Named
    <3>2. claims'[job[q].claim].task = claims[job[q].claim].task
      BY <1>7, <2>2, <3>1 DEF ClaimCall
    <3> QED BY <1>1, <1>2, <1>9, <2>2, <3>2, OthersClaim
  <2> QED BY <2>1, <2>2
<1> QED BY <1>5, <1>8, <1>9 DEF Orderly

(* The lock file is removed by the process that created it, the last one   *)
(* inside, and a claim is granted that is in the file.                     *)
LEMMA UnlockOrderly ==
  ASSUME ConstantsOK, TypeOK, Named, Orderly, NEW p \in Proc, Unlock(p)
  PROVE  Orderly'
<1>1. Moves(p) /\ job'[p].pc = "idle"
  BY StepMoves, ReturnEffect DEF Step, Unlock
<1>2. UNCHANGED <<claims, text, failed>> /\ Inside(p) /\ job[p].pc \in {"unlock", "return"}
  BY DEF Unlock, At, Inside, file
<1>3. text' = "whole" \/ failed'
  BY <1>2 DEF Orderly, TextInside
<1>4. \A q \in Proc \ {p} : ~Inside(q) /\ ~Inside(q)'
  BY <1>1, <1>2 DEF Orderly, InsideAlone, Moves, Inside
<1>5. InsideAlone' /\ TextInside' /\ WritesBack' /\ (text # "whole" => lock # {} \/ failed)'
  BY <1>1, <1>3, <1>4 DEF InsideAlone, TextInside, WritesBack, Inside, Pending
<1>6. \A c \in Claim :
        \/ granted'[c] = granted[c]
        \/ /\ Claiming(p) /\ ClaimCall(p) /\ c = job[p].claim
           /\ granted'[c] = claims[c].task
  <2>1. CASE job[p].pc = "return" /\ job[p].op = "claim"
    <3>1. /\ Claiming(p) /\ ClaimCall(p) /\ claims[job[p].claim].task = job[p].task
          /\ job[p].claim \in Claim
      BY <2>1 DEF Claiming, Orderly, ClaimCall, Named
    <3> QED BY <2>1, <3>1 DEF Unlock, At, TypeOK
  <2>2. CASE ~(job[p].pc = "return" /\ job[p].op = "claim")
    BY <2>2 DEF Unlock, At
  <2> QED BY <2>1, <2>2
<1>7. Granted'
  BY <1>2, <1>6 DEF Orderly, Granted
<1>8. ASSUME NEW q \in Proc, Claiming(q)'
      PROVE  ClaimCall(q)'
  <2>1. q # p
    BY <1>1, <1>8 DEF Claiming
  <2>2. Claiming(q) /\ ClaimCall(q) /\ job[q].claim \in Claim
    BY <1>1, <1>8, <2>1 DEF Claiming, Moves, Orderly, Named
  <2>3. granted'[job[q].claim] = granted[job[q].claim]
    BY <1>6, <2>1, <2>2 DEF ClaimCall
  <2> QED BY <1>1, <1>2, <1>8, <2>1, <2>3, OthersClaim
<1> QED BY <1>5, <1>7, <1>8 DEF Orderly

(* A file operation that throws leaves what was read or written before it. *)
LEMMA FailsOrderly ==
  ASSUME ConstantsOK, TypeOK, Named, Orderly, NEW p \in Proc, UpdateFails(p)
  PROVE  Orderly'
<1>1. Moves(p) /\ job'[p].pc = "unlock"
  BY StepMoves, GotoEffect DEF Fault, UpdateFails, Throw, Goto
<1>2. /\ UNCHANGED <<claims, lock, granted>> /\ Inside(p)
      /\ job[p].pc \in {"update", "truncate", "write"}
  BY DEF UpdateFails, At, Inside
<1>3. \/ failed'
      \/ text' = text /\ failed' = failed /\ job[p].pc # "write"
  <2>1. CASE At(p, "write")
    BY <2>1 DEF UpdateFails
  <2>2. CASE ~At(p, "write")
    BY <2>2 DEF UpdateFails, At, TypeOK
  <2> QED BY <2>1, <2>2
<1>4. \A q \in Proc \ {p} : ~Inside(q) /\ ~Inside(q)'
  BY <1>1, <1>2 DEF Orderly, InsideAlone, Moves, Inside
<1>5. InsideAlone' /\ Granted'
  BY <1>1, <1>2, <1>4 DEF Orderly, InsideAlone, Granted, Inside
<1>8. TextInside' /\ (text # "whole" => lock # {} \/ failed)'
  <2>1. \A q \in Proc \ {p} : job'[q].pc \notin {"truncate", "return", "write"}
    BY <1>4 DEF Inside
  <2>2. text' = "whole" \/ failed' \/ lock' # {}
    BY <1>2, <1>3 DEF Orderly
  <2>3. text' = "whole" \/ failed'
    BY <1>2, <1>3 DEF Orderly, TextInside, Inside
  <2> QED BY <1>1, <1>4, <2>1, <2>2, <2>3 DEF TextInside
<1>6. WritesBack'
  BY <1>1, <1>4 DEF WritesBack, Pending, Inside
<1>7. ASSUME NEW q \in Proc, Claiming(q)'
      PROVE  ClaimCall(q)'
  <2>1. CASE q = p
    <3>1. Claiming(p) /\ ClaimCall(p)
      BY <1>1, <1>7, <2>1 DEF Claiming, Moves, Orderly
    <3>2. \A r \in Proc : job'[r].claim = job'[p].claim /\ Claiming(r)' => r = p
      BY <1>1, <3>1 DEF Moves, Claiming, ClaimCall
    <3> QED BY <1>1, <1>2, <2>1, <3>1, <3>2 DEF Moves, ClaimCall
  <2>2. CASE q # p
    BY <1>1, <1>2, <1>7, <2>2, OthersClaim
  <2> QED BY <2>1, <2>2
<1> QED BY <1>5, <1>6, <1>7, <1>8 DEF Orderly

(* A process that is killed leaves the lock file that guards its half-file.*)
LEMMA CrashOrderly ==
  ASSUME ConstantsOK, TypeOK, Named, Orderly, NEW p \in Proc, Crash(p)
  PROVE  Orderly'
<1>1. Moves(p) /\ job'[p].pc = "idle"
  BY StepMoves, ReturnEffect DEF Fault, Crash
<1>2. UNCHANGED <<claims, text, lock, granted, failed>>
  BY DEF Crash, file
<1>3. InsideAlone' /\ TextInside' /\ WritesBack' /\ Granted'
  BY <1>1, <1>2 DEF Orderly, InsideAlone, TextInside, WritesBack, Granted, Inside,
                    Pending, Moves
<1>4. ASSUME NEW q \in Proc, Claiming(q)'
      PROVE  ClaimCall(q)'
  <2>1. q # p
    BY <1>1, <1>4 DEF Claiming
  <2> QED BY <1>1, <1>2, <1>4, <2>1, OthersClaim
<1> QED BY <1>2, <1>3, <1>4 DEF Orderly

(* Only a taken-over lock file disturbs the order of the updates.          *)
LEMMA OrderlyKept ==
  ASSUME ConstantsOK, TypeOK, Named, Orderly, [Next]_vars, ~taken'
  PROVE  Orderly'
<1>1. CASE UNCHANGED vars \/ Tick \/ \E tk \in Task : RuntimeClaimed(tk)
  BY <1>1, OrderlyStutters DEF vars, Tick, RuntimeClaimed, file
<1>2. ASSUME NEW p \in Proc, NEW c \in Claim, NEW op \in Update,
             NEW tk \in Task \cup {NoTask}, Call(p, op, c, tk)
      PROVE  Orderly'
  BY <1>2, CallOrderly
<1>3. ASSUME NEW p \in Proc, Step(p) \/ Fault(p)
      PROVE  Orderly'
  <2>1. ~TakeOver(p)
    BY DEF TakeOver
  <2> QED BY <1>3, <2>1, WaitOrderly, UpdateOrderly, TruncateOrderly, WriteOrderly,
             UnlockOrderly, FailsOrderly, CrashOrderly DEF Step, Fault
<1> QED BY <1>1, <1>2, <1>3 DEF Next, Update, Fault

-----------------------------------------------------------------------------
(* One open claim per task in the file makes it one in what a callback     *)
(* saves: claimTask found none of its task, and the others open no claim.  *)
LEMMA UpdateOneOpen ==
  ASSUME ConstantsOK, TypeOK, Named, "force" \notin Commands, OneOpenIn(claims),
         NEW p \in Proc, ReadAndUpdate(p), Pending(p)'
  PROVE  OneOpenIn(job'[p].seen)
<1>1. At(p, "update") /\ ~Throw(p)
  <2>1. Throw(p) => job'[p].pc = "unlock"
    BY GotoEffect DEF Throw, Goto
  <2> QED BY <2>1 DEF ReadAndUpdate, Pending
<1>2. CASE ClaimTask(p, claims)
  <2>1. PICK store \in Store :
          /\ Save(p, store)
          /\ \A c \in Claim \ {job[p].claim} : store[c] = claims[c]
          /\ store[job[p].claim].task = job[p].task
          /\ Open(claims, job[p].task) = {}
    BY <1>1, <1>2, ClaimSaves
  <2>2. job'[p].seen = store
    BY <2>1, SaveEffect
  <2>3. ASSUME NEW tk \in Task, NEW c \in Open(store, tk), NEW d \in Open(store, tk)
        PROVE  c = d
    <3>1. CASE tk = job[p].task
      BY <2>1, <2>3, <3>1 DEF Open
    <3>2. CASE tk # job[p].task
      <4>1. c \in Open(claims, tk) /\ d \in Open(claims, tk)
        BY <2>1, <2>3, <3>2 DEF Open
      <4> QED BY <4>1 DEF OneOpenIn
    <3> QED BY <3>1, <3>2
  <2> QED BY <2>2, <2>3 DEF OneOpenIn
<1>3. CASE ReleaseClaim(p, claims) \/ RecoverClaim(p, claims)
  <2>1. PICK store \in Store :
          /\ Save(p, store)
          /\ \A c \in Claim : store[c].task = claims[c].task
          /\ \A c \in Claim : claims[c].closed # {} => store[c].closed # {}
    BY <1>1, <1>3, OthersSave
  <2>2. job'[p].seen = store
    BY <2>1, SaveEffect
  <2>3. \A tk \in Task : Open(store, tk) \subseteq Open(claims, tk)
    BY <2>1 DEF Open
  <2> QED BY <2>2, <2>3 DEF OneOpenIn
<1> QED BY <1>1, <1>2, <1>3 DEF ReadAndUpdate

(* Every step keeps it that way.                                           *)
LEMMA OneOpenKept ==
  ASSUME ConstantsOK, TypeOK, Named, "force" \notin Commands, OneOpen, [Next]_vars
  PROVE  OneOpen'
<1>1. CASE UNCHANGED vars \/ Tick \/ \E tk \in Task : RuntimeClaimed(tk)
  BY <1>1 DEF vars, Tick, RuntimeClaimed, file, OneOpen, OneOpenIn, Open, Pending
<1>2. ASSUME NEW p \in Proc, NEW c \in Claim, NEW op \in Update,
             NEW tk \in Task \cup {NoTask}, Call(p, op, c, tk)
      PROVE  OneOpen'
  BY <1>2, CallEffect DEF Call, file, OneOpen, OneOpenIn, Open, Pending
<1>3. ASSUME NEW p \in Proc, Step(p) \/ Fault(p)
      PROVE  OneOpen'
  <2>1. Moves(p)
    BY <1>3, StepMoves
  <2>2. claims' = claims \/ (Pending(p) /\ claims' = job[p].seen)
    BY <1>3 DEF Step, OpenLock, StatLock, TakeOver, ReadAndUpdate, Truncate, Write,
                Unlock, Fault, TakeOverFails, UpdateFails, Crash, file, At, Pending
  <2>3. OneOpenIn(claims)'
    BY <2>2 DEF OneOpen, OneOpenIn, Open
  <2>4. ASSUME Pending(p)'
        PROVE  OneOpenIn(job'[p].seen)
    <3>1. CASE ReadAndUpdate(p)
      BY <2>4, <3>1, UpdateOneOpen DEF OneOpen
    <3>2. CASE Truncate(p)
      BY <3>2, GotoEffect DEF Truncate, Goto, OneOpen, Pending, At
    <3>3. CASE OpenLock(p) \/ StatLock(p) \/ TakeOver(p) \/ Write(p) \/ Unlock(p) \/ Crash(p)
      BY <2>4, <3>3, GotoEffect, ReturnEffect
         DEF OpenLock, StatLock, TakeOver, Write, Unlock, Crash, Goto, Pending
    <3>4. CASE TakeOverFails(p) \/ UpdateFails(p)
      BY <2>4, <3>4, GotoEffect DEF TakeOverFails, UpdateFails, Throw, Goto, Pending
    <3> QED BY <1>3, <3>1, <3>2, <3>3, <3>4 DEF Step, Fault
  <2>5. ASSUME NEW q \in Proc, Pending(q)'
        PROVE  OneOpenIn(job'[q].seen)
    <3>1. CASE q = p
      BY <2>4, <2>5, <3>1
    <3>2. CASE q # p
      BY <2>1, <2>5, <3>2 DEF Moves, OneOpen, Pending
    <3> QED BY <3>1, <3>2
  <2> QED BY <2>3, <2>5 DEF OneOpen, OneOpenIn, Open
<1> QED BY <1>1, <1>2, <1>3 DEF Next, Update, Fault

-----------------------------------------------------------------------------
(* The inductive invariant: IInv is kept by every step, and says more than *)
(* the properties below.                                                   *)
LEMMA IInvKept ==
  ASSUME ConstantsOK, IInv, [Next]_vars
  PROVE  IInv'
<1>1. TypeOK' /\ Named'
  BY TypeKept DEF IInv
<1>2. taken => taken'
  BY DEF IInv, Next, Step, Tick, RuntimeClaimed, Call, OpenLock, StatLock, TakeOver,
         ReadAndUpdate, Truncate, Write, Unlock, TakeOverFails, UpdateFails, Crash, vars
<1>3. taken' \/ Orderly'
  BY <1>2, OrderlyKept DEF IInv
<1>4. "force" \in Commands \/ taken' \/ OneOpen'
  BY <1>2, OneOpenKept DEF IInv
<1> QED BY <1>1, <1>3, <1>4 DEF IInv

(* The inductive invariant holds of every behaviour of the claim store.    *)
THEOREM Inductive == Spec => []IInv
<1>1. Init => IInv
  BY ConstantsOK, InitGood
<1>2. IInv /\ [Next]_vars => IInv'
  BY ConstantsOK, IInvKept
<1> QED BY <1>1, <1>2, PTL DEF Spec

(* Type correctness; in particular there is at most one lock file.         *)
THEOREM Typed == Spec => []TypeOK
<1>1. IInv => TypeOK
  BY DEF IInv
<1> QED BY <1>1, Inductive, PTL

(* Updates exclude one another until a lock file is taken over.            *)
THEOREM Exclusion == Spec => []UpdatesExclude
<1>1. IInv => UpdatesExclude
  BY DEF IInv, Orderly, InsideAlone, UpdatesExclude
<1> QED BY <1>1, Inductive, PTL

(* What claimTask returned stays recorded: no update is lost.              *)
THEOREM NoLostGrant == Spec => []GrantsAreRecorded
<1>1. IInv => GrantsAreRecorded
  BY DEF IInv, Orderly, Granted, GrantsAreRecorded
<1> QED BY <1>1, Inductive, PTL

(* Nobody goes by half a file: whoever writes it has the lock, a killed    *)
(* writer leaves its lock file behind, and after a failed write no call    *)
(* succeeds.                                                               *)
THEOREM HalfFilesNoticed == Spec => []UnreadableIsNoticed
<1>1. IInv => UnreadableIsNoticed
  BY DEF IInv, Orderly, TextInside, UnreadableIsNoticed, At
<1> QED BY <1>1, Inductive, PTL

(* No task has two claims that nobody closed, unless by force.             *)
THEOREM OneOpenPerTask == Spec => []OneOpenClaim
<1>1. IInv => OneOpenClaim
  BY DEF IInv, OneOpen, OneOpenIn, OneOpenClaim
<1> QED BY <1>1, Inductive, PTL
=============================================================================
