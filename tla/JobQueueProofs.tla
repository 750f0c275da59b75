--------------------------- MODULE JobQueueProofs ---------------------------
(***************************************************************************)
(* Safety of JobQueue for every choice of keys, bounds and faults: IInv is *)
(* inductive, so that types, the uniqueness of an active transfer and one  *)
(* execution per attempt hold always; a finished transfer stays finished.  *)
(* LifeInv adds what keeps a success on record and a push in the life of   *)
(* its process; RecoverInv is the invariant of recovery on its own.        *)
(*                                                                         *)
(* Nearly every action is "tame": it rewrites records only by ending or    *)
(* removing them.  TameKeeps treats all of these at once; the others       *)
(* (adding a job, claiming, starting, joining, retrying) have a lemma each.*)
(***************************************************************************)
EXTENDS JobQueue, TLAPS

\* What a tame step may make of the job file.
Tame(next) ==
  /\ next \in [Jobs -> Record]
  /\ \A j \in Jobs :
       \/ next[j].status = "absent"
       \/ /\ next[j].key = job[j].key /\ next[j].attempt = job[j].attempt
          /\ \/ next[j].status = job[j].status
             \/ next[j].status \in Terminal /\ job[j].status # "absent"

\* A tame step: the tasks only move on or end, nothing is started.
TameStep ==
  /\ Tame(job') /\ nextId' = nextId /\ execs' = execs
  /\ \A j \in Jobs : /\ task'[j] = "spawned" => task[j] = "spawned"
                     /\ task[j] = "none" => task'[j] = "none"
  /\ \/ pc' = pc /\ cur' = cur
     \/ pc' \notin {"reliability", "requeue"} /\ cur' \in {cur, 0}

----------------------------------------------------------------------------
(* The operators the actions are built from.                               *)

\* Blank is a record that is absent.
LEMMA BlankRecord == Blank \in Record /\ Blank.status = "absent"
<1>1. PICK k \in Keys : TRUE
  BY ConstantsAssumption
<1>2. [status |-> "absent", key |-> k, prio |-> "high", attempt |-> 1,
       class |-> "none", detail |-> "none"] \in Record
  BY ConstantsAssumption DEF Record, Levels, Classes
<1>3. \E r \in Record : r.status = "absent" /\ r.attempt = 1
                         /\ r.class = "none" /\ r.detail = "none"
  BY <1>2
<1> QED
  BY <1>3 DEF Blank

\* Leaving the file alone, removing records, ending one: all tame.
LEMMA TameOperators ==
  ASSUME job \in [Jobs -> Record]
  PROVE  /\ Tame(job)
         /\ \A S : Tame(Remove(S))
         /\ \A j \in Jobs, s \in Terminal : job[j].status # "absent" => Tame(Set(j, s))
         /\ \A j \in Jobs, d \in Classes : job[j].status # "absent" => Tame(Fail(j, d))
         /\ \A j \in Jobs, d \in Classes, c \in Classes :
              job[j].status # "absent" => Tame([Fail(j, d) EXCEPT ![j].class = c])
<1>1. Tame(job)
  BY DEF Tame
<1>2. ASSUME NEW S PROVE Tame(Remove(S))
  BY BlankRecord DEF Tame, Remove, Record
<1>3. ASSUME NEW j \in Jobs, NEW s \in Terminal, job[j].status # "absent"
      PROVE  Tame(Set(j, s))
  BY <1>3 DEF Tame, Set, Record, Statuses, Terminal, Classes
<1>4. ASSUME NEW j \in Jobs, NEW d \in Classes, job[j].status # "absent"
      PROVE  Tame(Fail(j, d))
  BY <1>4 DEF Tame, Fail, Record, Statuses, Terminal
<1>5. ASSUME NEW j \in Jobs, NEW d \in Classes, NEW c \in Classes, job[j].status # "absent"
      PROVE  Tame([Fail(j, d) EXCEPT ![j].class = c])
  BY <1>5 DEF Tame, Fail, Record, Statuses, Terminal
<1> QED
  BY <1>1, <1>2, <1>3, <1>4, <1>5

\* A commit either happens or leaves the file as it was.
LEMMA TameCommit ==
  ASSUME job \in [Jobs -> Record], NEW next, Tame(next), Commit(next)
  PROVE  Tame(job')
BY TameOperators DEF Commit, Tame

\* A write with store.update is tame when the record it writes is.
LEMMA TameUpdate ==
  ASSUME job \in [Jobs -> Record], NEW j \in Jobs, NEW next,
         job[j].status # "absent" => Tame(next), Update(j, next)
  PROVE  Tame(job')
BY TameOperators, TameCommit DEF Update

\* A write with update_if is tame when it is tame over a running job.
LEMMA TameUpdateIf ==
  ASSUME job \in [Jobs -> Record], NEW j \in Jobs, NEW next,
         job[j].status = "Running" => Tame(next), UpdateIf(j, "Running", next)
  PROVE  Tame(job')
BY TameOperators, TameCommit DEF UpdateIf

\* Every result a handler may record is tame.
LEMMA TameFinish ==
  ASSUME job \in [Jobs -> Record], NEW j \in Jobs, job[j].status # "absent",
         NEW next \in Finish(j)
  PROVE  Tame(next)
BY TameOperators DEF Finish, Terminal, Classes

\* The worker settles the outcome of a task by a tame step.
LEMMA TameHandleResult ==
  ASSUME job \in [Jobs -> Record], NEW j \in Jobs, HandleResult(j)
  PROVE  Tame(job')
<1>1. CASE UNCHANGED job
  BY <1>1, TameOperators DEF Tame
<1>2. CASE \E c \in {"retryable", "permanent"} :
             UpdateIf(j, "Running", [Fail(j, c) EXCEPT ![j].class = c])
  BY <1>2, TameOperators, TameUpdateIf DEF Classes
<1>3. CASE \E c \in {"retryable", "permanent"} : UpdateIf(j, "Running", Fail(j, c))
  BY <1>3, TameOperators, TameUpdateIf DEF Classes
<1>4. CASE UpdateIf(j, "Running", [Fail(j, "retryable") EXCEPT ![j].class = "retryable"])
  BY <1>4, TameOperators, TameUpdateIf DEF Classes
<1> QED
  BY <1>1, <1>2, <1>3, <1>4 DEF HandleResult

----------------------------------------------------------------------------
(* The tame actions.                                                       *)

\* Those of the submitters, of the operator and of time.
LEMMA TameOutside ==
  ASSUME TypeOK, NEW j \in Jobs,
         \/ SubmitSend(j) \/ SignalLost(j) \/ ReorderSend(j) \/ RetryGate(j)
         \/ \E p \in Priorities : SetPriority(j, p)
         \/ Cancel(j) \/ CancelAbort(j) \/ ClearFinished \/ RequestShutdown
         \/ BackoffElapses(j) \/ TimerFires(j) \/ DiskFails \/ DiskRecovers
         \/ \E k \in Keys : SubmitGate(k)
  PROVE  TameStep
<1> USE DEF TameStep, store, volatile, worker, env, history
<1>0. job \in [Jobs -> Record]
  BY DEF TypeOK
<1>1. CASE UNCHANGED job /\ nextId' = nextId /\ execs' = execs
           /\ task' = task /\ pc' = pc /\ cur' = cur
  BY <1>0, <1>1, TameOperators DEF Tame
<1>2. CASE SubmitSend(j)
  BY <1>0, <1>1, <1>2, TameOperators, TameUpdate DEF SubmitSend, Classes
<1>3. CASE SignalLost(j) \/ ReorderSend(j) \/ RetryGate(j) \/ RequestShutdown
           \/ BackoffElapses(j) \/ TimerFires(j) \/ DiskFails \/ DiskRecovers
           \/ \E k \in Keys : SubmitGate(k)
  BY <1>1, <1>3 DEF SignalLost, ReorderSend, RetryGate, RequestShutdown,
     BackoffElapses, TimerFires, DiskFails, DiskRecovers, SubmitGate
<1>4. ASSUME NEW p \in Priorities, SetPriority(j, p) PROVE TameStep
  BY <1>0, <1>4, ConstantsAssumption DEF SetPriority, Tame, Record
<1>5. CASE Cancel(j)
  BY <1>0, <1>5, TameOperators DEF Cancel, Terminal
<1>6. CASE CancelAbort(j)
  BY <1>0, <1>6, TameOperators DEF CancelAbort, TypeOK, Live, Tame
<1>7. CASE ClearFinished
  BY <1>0, <1>7, TameOperators DEF ClearFinished
<1> QED
  BY <1>2, <1>3, <1>4, <1>5, <1>6, <1>7

\* Those of a job's task once it works, and of the drain.
LEMMA TameTask ==
  ASSUME TypeOK, InflightRunning, NEW j \in Jobs,
         \/ TaskComplete(j) \/ ScrapeMissing(j) \/ TaskEnd(j)
         \/ DrainJoin(j) \/ InflightLands(j) \/ DrainMark(j)
         \/ BeginDrain \/ DrainExpire \/ DrainList \/ DrainDone
  PROVE  TameStep
<1> USE DEF TameStep, store, volatile, worker, env, history
<1>0. job \in [Jobs -> Record] /\ task \in [Jobs -> {"none"} \cup Live \cup Outcomes]
  BY DEF TypeOK
<1>1. CASE TaskComplete(j)
  <2>1. PICK next \in Finish(j) : UpdateIf(j, "Running", next)
    BY <1>1 DEF TaskComplete
  <2>2. Tame(job')
    BY <1>0, <2>1, TameFinish, TameUpdateIf
  <2> QED
    BY <1>0, <1>1, <2>2 DEF TaskComplete
<1>2. CASE ScrapeMissing(j)
  <2>1. Tame(job')
    BY <1>0, <1>2, TameOperators, TameUpdate DEF ScrapeMissing, Classes
  <2> QED
    BY <1>0, <1>2, <2>1 DEF ScrapeMissing
<1>3. CASE TaskEnd(j)
  <2>1. task[j] # "none" /\ \E o \in Outcomes : task' = [task EXCEPT ![j] = o]
    BY <1>3 DEF TaskEnd, Live, Outcomes
  <2> QED
    BY <1>0, <1>3, <2>1, TameOperators DEF TaskEnd, Outcomes, Tame
<1>4. CASE DrainJoin(j)
  BY <1>0, <1>4, TameHandleResult DEF DrainJoin
<1>5. CASE InflightLands(j)
  <2>1. PICK next \in Finish(j) : Commit(next)
    BY <1>5 DEF InflightLands
  <2>2. job[j].status # "absent"
    BY <1>5 DEF InflightLands, InflightRunning
  <2>3. Tame(job')
    BY <1>0, <2>1, <2>2, TameFinish, TameCommit
  <2> QED
    BY <1>5, <2>3 DEF InflightLands
<1>6. CASE DrainMark(j)
  BY <1>0, <1>6, TameOperators, TameUpdate DEF DrainMark, Classes
<1>7. CASE BeginDrain \/ DrainList \/ DrainDone
  BY <1>0, <1>7, TameOperators DEF BeginDrain, DrainList, DrainDone, Tame
<1>8. CASE DrainExpire
  BY <1>0, <1>8, TameOperators DEF DrainExpire, Tame
<1> QED
  BY <1>1, <1>2, <1>3, <1>4, <1>5, <1>6, <1>7, <1>8

\* Those of the worker loop, of recovery, and the exits of the process.
LEMMA TameWorker ==
  ASSUME TypeOK, InflightRunning, NEW j \in Jobs,
         \/ Absorb \/ EndAbsorb \/ EndAdmit \/ IdleTick \/ Archive
         \/ Crash \/ Exit \/ Start \/ RecoverDone \/ RecoverJob(j)
  PROVE  TameStep
<1> USE DEF TameStep, store, volatile, worker, env, history
<1>0. job \in [Jobs -> Record] /\ task \in [Jobs -> {"none"} \cup Live \cup Outcomes]
  BY DEF TypeOK
<1>1. CASE Absorb \/ EndAbsorb \/ EndAdmit \/ IdleTick \/ Start \/ RecoverDone
  BY <1>0, <1>1, TameOperators
     DEF Absorb, EndAbsorb, EndAdmit, IdleTick, Start, RecoverDone, Tame
<1>2. CASE Archive
  <2>1. Tame(job')
    BY <1>0, <1>2, TameOperators, TameCommit DEF Archive
  <2> QED
    BY <1>2, <2>1 DEF Archive
<1>3. CASE Die
  <2>1. CASE UNCHANGED job
    BY <1>0, <1>3, <2>1, TameOperators DEF Die, Tame
  <2>2. CASE \E i \in inflight : \E next \in Finish(i) : Commit(next)
    <3>1. PICK i \in inflight : \E next \in Finish(i) : Commit(next)
      BY <2>2
    <3>2. i \in Jobs /\ job[i].status # "absent"
      BY DEF TypeOK, InflightRunning
    <3>3. Tame(job')
      BY <1>0, <3>1, <3>2, TameFinish, TameCommit
    <3> QED
      BY <1>3, <3>3 DEF Die
  <2> QED
    BY <1>3, <2>1, <2>2 DEF Die
<1>4. CASE RecoverJob(j)
  <2>1. Update(j, Set(j, "Canceled")) => Tame(job')
    BY <1>0, TameOperators, TameUpdate DEF Terminal
  <2>2. Update(j, Fail(j, "permanent")) => Tame(job')
    BY <1>0, TameOperators, TameUpdate DEF Classes
  <2>3. UNCHANGED job => Tame(job')
    BY <1>0, TameOperators DEF Tame
  <2>4. Tame(job')
    BY <1>4, <2>1, <2>2, <2>3 DEF RecoverJob
  <2> QED
    BY <1>4, <2>4 DEF RecoverJob
<1> QED
  BY <1>1, <1>2, <1>3, <1>4 DEF Crash, Exit
----------------------------------------------------------------------------
(* What the tame steps keep.                                               *)

\* A tame step keeps every part of the invariant: it makes no job active and
\* starts no work.
LEMMA TameKeeps ==
  ASSUME IInv, TypeOK', TameStep
  PROVE  /\ FreshIds' /\ Owed' /\ RetryAllowed'
         /\ UniqueActiveTransfer' /\ OncePerAttempt' /\ QueuedHasNoTask'
<1> USE DEF TameStep, Tame
<1>0. /\ job \in [Jobs -> Record] /\ job' \in [Jobs -> Record]
      /\ nextId \in 1 .. MaxJobs + 1 /\ cur \in Jobs \cup {0}
      /\ Jobs \subseteq Nat /\ task \in [Jobs -> {"none"} \cup Live \cup Outcomes]
  BY ConstantsAssumption DEF IInv, TypeOK, Jobs
<1>1. ASSUME NEW j \in Jobs, job'[j].status # "absent"
      PROVE  /\ job'[j].key = job[j].key /\ job'[j].attempt = job[j].attempt
             /\ job[j].status # "absent"
             /\ job'[j].status \in Active => job[j].status = job'[j].status
  BY <1>1 DEF Terminal, Active
<1>2. FreshIds'
  BY <1>0, <1>1, ConstantsAssumption DEF IInv, FreshIds
<1>3. Owed'
  BY <1>1 DEF IInv, Owed, Active
<1>4. RetryAllowed'
  BY <1>0, <1>1 DEF IInv, RetryAllowed, KindOfJob
<1>5. UniqueActiveTransfer'
  BY <1>1 DEF IInv, UniqueActiveTransfer, Active, Transfer, KindOfJob
<1>6. OncePerAttempt'
  BY <1>1 DEF IInv, OncePerAttempt, Transfer, KindOfJob
<1>7. QueuedHasNoTask'
  BY <1>1 DEF IInv, QueuedHasNoTask, Active
<1> QED
  BY <1>2, <1>3, <1>4, <1>5, <1>6, <1>7
----------------------------------------------------------------------------
(* The steps that are not tame.                                            *)

Safe == /\ FreshIds /\ Owed /\ RetryAllowed
        /\ UniqueActiveTransfer /\ OncePerAttempt /\ QueuedHasNoTask

\* A job is added under the lock, so its key is free and its id is new.
LEMMA SubmitKeeps ==
  ASSUME IInv, NEW c \in callers, SubmitCommit(c)
  PROVE  Safe' /\ job' \in [Jobs -> Record]
<1> USE DEF store, volatile, worker, env, history
<1>0. /\ job \in [Jobs -> Record] /\ nextId \in Jobs /\ Jobs \subseteq Nat
      /\ c[1] \in Keys /\ c[2] \in Levels /\ cur \in Jobs \cup {0}
      /\ task' = task /\ execs' = execs /\ pc' = pc /\ cur' = cur
  BY ConstantsAssumption DEF IInv, TypeOK, Jobs, SubmitCommit
<1>1. CASE UNCHANGED store
  BY <1>0, <1>1 DEF IInv, TypeOK, Safe, FreshIds, Owed, RetryAllowed, UniqueActiveTransfer,
     OncePerAttempt, QueuedHasNoTask, Transfer, KindOfJob
<1>2. CASE ~ UNCHANGED store
  <2> DEFINE new == [status |-> "Queued", key |-> c[1], prio |-> c[2],
                     attempt |-> 1, class |-> "none", detail |-> "none"]
  <2>1. PICK S : job' = [Remove(S) EXCEPT ![nextId] = new]
    BY <1>2 DEF SubmitCommit
  <2>2. Same(c[1]) = {} /\ nextId' = nextId + 1
    BY <1>2 DEF SubmitCommit
  <2>3. new \in Record
    BY <1>0, ConstantsAssumption DEF Record, Statuses, Active, Classes
  <2>4. job' \in [Jobs -> Record]
    BY <1>0, <2>1, <2>3, BlankRecord DEF Remove
  <2>5. job'[nextId] = new
    BY <1>0, <2>1 DEF Remove
  <2>6. ASSUME NEW j \in Jobs, j # nextId
        PROVE  job'[j] = job[j] \/ job'[j].status = "absent"
    BY <1>0, <2>1, <2>6, BlankRecord DEF Remove
  <2>7. \A j \in Jobs : job[j].status \in Active => job[j].key # c[1]
    BY <2>2 DEF Same, With
  <2>8. task[nextId] = "none" /\ execs[nextId] = 0 /\ cur # nextId
    BY <1>0 DEF IInv, FreshIds
  <2> HIDE DEF new
  <2>9. FreshIds'
    BY <1>0, <2>2, <2>5, <2>6, <2>8 DEF IInv, FreshIds
  <2>10. Owed'
    BY <1>0, <2>5, <2>6, <2>8 DEF IInv, Owed, new
  <2>11. RetryAllowed'
    BY <1>0, <2>6, <2>8 DEF IInv, RetryAllowed, KindOfJob
  <2>12. UniqueActiveTransfer'
    BY <1>0, <2>5, <2>6, <2>7 DEF IInv, UniqueActiveTransfer, Transfer, KindOfJob, Active, new
  <2>13. OncePerAttempt'
    <3>1. execs'[nextId] <= job'[nextId].attempt /\ job'[nextId].attempt = 1
      BY <1>0, <2>5, <2>8 DEF new
    <3>2. ASSUME NEW j \in Jobs, j # nextId, job'[j].status # "absent"
          PROVE  /\ execs'[j] <= job'[j].attempt
                 /\ Transfer(j)' => job'[j].attempt = 1
      BY <1>0, <2>6, <3>2 DEF IInv, OncePerAttempt, Transfer, KindOfJob
    <3> QED
      BY <3>1, <3>2 DEF OncePerAttempt
  <2>14. QueuedHasNoTask'
    BY <1>0, <2>5, <2>6, <2>8 DEF IInv, QueuedHasNoTask
  <2> QED
    BY <2>4, <2>9, <2>10, <2>11, <2>12, <2>13, <2>14 DEF Safe
<1> QED
  BY <1>1, <1>2

\* A claim starts a task only for a job that is queued, hence has none.
LEMMA ClaimKeeps ==
  ASSUME IInv, NEW i \in Jobs, Claim(i)
  PROVE  Safe' /\ job' \in [Jobs -> Record]
<1> USE DEF store, volatile, worker, env, history
<1>0. /\ job \in [Jobs -> Record] /\ Jobs \subseteq Nat
      /\ task \in [Jobs -> {"none"} \cup Live \cup Outcomes]
      /\ pc = "admit" /\ pc' = pc /\ cur' = cur /\ nextId' = nextId /\ execs' = execs
  BY ConstantsAssumption DEF IInv, TypeOK, Jobs, Claim
<1>1. CASE UNCHANGED <<job, task>>
  BY <1>0, <1>1 DEF IInv, Safe, FreshIds, Owed, RetryAllowed, UniqueActiveTransfer,
     OncePerAttempt, QueuedHasNoTask, Transfer, KindOfJob
<1>2. CASE ~ UNCHANGED <<job, task>>
  <2>1. job[i].status = "Queued" /\ job' = Set(i, "Running")
    BY <1>2 DEF Claim
  <2>2. task' = [task EXCEPT ![i] = "spawned"]
    BY <1>2 DEF Claim
  <2>3. job' \in [Jobs -> Record]
    BY <1>0, <2>1 DEF Set, Record, Statuses, Active, Classes
  <2>4. /\ job'[i].status = "Running" /\ job'[i].key = job[i].key
        /\ job'[i].attempt = job[i].attempt
        /\ \A j \in Jobs : j # i => job'[j] = job[j] /\ task'[j] = task[j]
    BY <1>0, <2>1, <2>2 DEF Set, Record
  <2>5. FreshIds' /\ Owed' /\ RetryAllowed'
    BY <1>0, <2>1, <2>4 DEF IInv, FreshIds, Owed, RetryAllowed
  <2>6. UniqueActiveTransfer'
    BY <1>0, <2>1, <2>4 DEF IInv, UniqueActiveTransfer, Transfer, KindOfJob, Active
  <2>7. OncePerAttempt' /\ QueuedHasNoTask'
    BY <1>0, <2>1, <2>4 DEF IInv, OncePerAttempt, QueuedHasNoTask, Transfer, KindOfJob
  <2> QED
    BY <2>3, <2>5, <2>6, <2>7 DEF Safe
<1> QED
  BY <1>1, <1>2

\* The start of a task uses up the execution its attempt is owed.
LEMMA TaskStartKeeps ==
  ASSUME IInv, NEW i \in Jobs, TaskStart(i)
  PROVE  Safe' /\ job' \in [Jobs -> Record]
<1> USE DEF store, volatile, worker, env, history
<1>0. /\ job \in [Jobs -> Record] /\ Jobs \subseteq Nat /\ job' = job
      /\ task \in [Jobs -> {"none"} \cup Live \cup Outcomes]
      /\ execs \in [Jobs -> Nat] /\ task[i] = "spawned"
      /\ pc' = pc /\ cur' = cur /\ nextId' = nextId
  BY ConstantsAssumption DEF IInv, TypeOK, Jobs, TaskStart
<1>1. /\ task'[i] # "spawned" /\ task'[i] # "none"
      /\ \A j \in Jobs : j # i => task'[j] = task[j] /\ execs'[j] = execs[j]
      /\ \/ execs'[i] = execs[i]
         \/ job[i].status = "Running" /\ execs'[i] = execs[i] + 1
  BY <1>0 DEF TaskStart
<1>2. \A j \in Jobs : job[j].attempt \in Nat /\ execs[j] \in Nat
  BY <1>0, ConstantsAssumption DEF Record
<1>3. FreshIds'
  BY <1>0, <1>1, <1>2 DEF IInv, FreshIds
<1>4. Owed'
  BY <1>0, <1>1, <1>2 DEF IInv, Owed, QueuedHasNoTask
<1>5. RetryAllowed'
  BY <1>0, <1>1 DEF IInv, TypeOK, RetryAllowed, KindOfJob
<1>6. UniqueActiveTransfer'
  BY <1>0 DEF IInv, UniqueActiveTransfer, Transfer, KindOfJob
<1>7. OncePerAttempt'
  BY <1>0, <1>1, <1>2 DEF IInv, OncePerAttempt, Owed, Transfer, KindOfJob
<1>8. QueuedHasNoTask'
  BY <1>0, <1>1 DEF IInv, QueuedHasNoTask
<1> QED
  BY <1>0, <1>3, <1>4, <1>5, <1>6, <1>7, <1>8 DEF Safe
\* Joining a task settles its record as a tame step would, and remembers it.
LEMMA JoinKeeps ==
  ASSUME IInv, TypeOK', NEW i \in Jobs, Join(i)
  PROVE  Safe'
<1> USE DEF store, volatile, worker, env, history
<1>0. /\ job \in [Jobs -> Record] /\ job' \in [Jobs -> Record] /\ Jobs \subseteq Nat \ {0}
      /\ nextId \in 1 .. MaxJobs + 1 /\ i # 0
      /\ task \in [Jobs -> {"none"} \cup Live \cup Outcomes]
      /\ pc' = "reliability" /\ cur' = i /\ nextId' = nextId /\ execs' = execs
      /\ task[i] # "none" /\ task' = [task EXCEPT ![i] = "none"]
  <2>1. task[i] # "none"
    BY DEF Join, HandleResult
  <2>2. job \in [Jobs -> Record] /\ job' \in [Jobs -> Record]
    BY DEF IInv, TypeOK
  <2> QED
    BY <2>1, <2>2, ConstantsAssumption DEF IInv, TypeOK, Jobs, Join
<1>1. Tame(job')
  BY <1>0, TameHandleResult DEF Join
<1>2. ASSUME NEW j \in Jobs, job'[j].status # "absent"
      PROVE  /\ job'[j].key = job[j].key /\ job'[j].attempt = job[j].attempt
             /\ job[j].status # "absent"
             /\ job'[j].status \in Active => job[j].status = job'[j].status
  BY <1>1, <1>2 DEF Tame, Terminal, Active
<1>3. /\ task'[i] = "none" /\ i < nextId
      /\ \A j \in Jobs : j # i => task'[j] = task[j]
  BY <1>0 DEF IInv, FreshIds
<1>4. FreshIds'
  BY <1>0, <1>2, <1>3 DEF IInv, FreshIds
<1>5. Owed'
  BY <1>0, <1>2, <1>3 DEF IInv, Owed, Active
<1>6. RetryAllowed'
  BY <1>0, <1>3 DEF RetryAllowed
<1>7. UniqueActiveTransfer'
  BY <1>2 DEF IInv, UniqueActiveTransfer, Active, Transfer, KindOfJob
<1>8. OncePerAttempt'
  BY <1>0, <1>2 DEF IInv, OncePerAttempt, Transfer, KindOfJob
<1>9. QueuedHasNoTask'
  BY <1>0, <1>2, <1>3 DEF IInv, QueuedHasNoTask, Active
<1> QED
  BY <1>4, <1>5, <1>6, <1>7, <1>8, <1>9 DEF Safe

\* Reliability only rewrites the class, and lets a retryable kind below the
\* attempt limit go on to Requeue.
LEMMA ReliabilityKeeps ==
  ASSUME IInv, Reliability
  PROVE  Safe' /\ job' \in [Jobs -> Record]
<1> USE DEF store, volatile, worker, env, history
<1>0. /\ job \in [Jobs -> Record] /\ Jobs \subseteq Nat \ {0} /\ cur \in Jobs
      /\ nextId' = nextId /\ execs' = execs /\ task' = task /\ cur' = cur
      /\ task[cur] = "none"
  <2>1. pc = "reliability" /\ UNCHANGED <<nextId, volatile, cur, history>>
    BY DEF Reliability
  <2>2. job \in [Jobs -> Record] /\ Jobs \subseteq Nat \ {0}
    BY ConstantsAssumption DEF IInv, TypeOK, Jobs
  <2>3. cur \in Jobs /\ task[cur] = "none"
    BY <2>1 DEF IInv, TypeOK, RetryAllowed
  <2> QED
    BY <2>1, <2>2, <2>3
<1>1. \/ job' = job
      \/ \E c \in Classes : job' = [job EXCEPT ![cur].class = c]
  <2>1. job[cur].class \in Classes /\ job[cur].detail \in Classes
    BY <1>0 DEF Record
  <2> QED
    BY <2>1 DEF Reliability, Commit, Classes
<1>2. job' \in [Jobs -> Record]
  BY <1>0, <1>1 DEF Record
<1>3. \A j \in Jobs : /\ job'[j].status = job[j].status /\ job'[j].key = job[j].key
                      /\ job'[j].attempt = job[j].attempt
  BY <1>0, <1>1 DEF Record
<1>4. pc' = "requeue" => /\ supports_automatic_retry(KindOfJob(cur))
                         /\ job[cur].attempt < MaxAttempts
  BY DEF Reliability
<1>5. pc' \in {"requeue", "archive"}
  BY DEF Reliability
<1>6. FreshIds' /\ Owed'
  BY <1>0, <1>3 DEF IInv, FreshIds, Owed
<1>7. RetryAllowed'
  BY <1>0, <1>3, <1>4, <1>5 DEF RetryAllowed, KindOfJob
<1>8. UniqueActiveTransfer'
  BY <1>3 DEF IInv, UniqueActiveTransfer, Transfer, KindOfJob
<1>9. OncePerAttempt' /\ QueuedHasNoTask'
  BY <1>0, <1>3 DEF IInv, OncePerAttempt, QueuedHasNoTask, Transfer, KindOfJob
<1> QED
  BY <1>2, <1>6, <1>7, <1>8, <1>9 DEF Safe

\* An automatic retry re-queues a job that has no task, never a transfer,
\* and raises its attempt: one more execution is owed.
LEMMA RequeueKeeps ==
  ASSUME IInv, Requeue
  PROVE  Safe' /\ job' \in [Jobs -> Record]
<1> USE DEF store, volatile, worker, env, history
<1>0. /\ job \in [Jobs -> Record] /\ Jobs \subseteq Nat \ {0} /\ cur \in Jobs
      /\ nextId' = nextId /\ execs' = execs /\ task' = task /\ cur' = cur
      /\ pc' = "archive" /\ task[cur] = "none" /\ execs \in [Jobs -> Nat]
  <2>1. pc = "requeue" /\ pc' = "archive" /\ UNCHANGED <<nextId, task, cur, history>>
    BY DEF Requeue
  <2>2. job \in [Jobs -> Record] /\ Jobs \subseteq Nat \ {0} /\ execs \in [Jobs -> Nat]
    BY ConstantsAssumption DEF IInv, TypeOK, Jobs
  <2>3. cur \in Jobs /\ task[cur] = "none"
    BY <2>1 DEF IInv, TypeOK, RetryAllowed
  <2> QED
    BY <2>1, <2>2, <2>3
<1>1. CASE job' = job
  <2>1. job' \in [Jobs -> Record]
    BY <1>0, <1>1
  <2>2. FreshIds' /\ Owed'
    BY <1>0, <1>1 DEF IInv, FreshIds, Owed
  <2>3. RetryAllowed'
    BY <1>0 DEF RetryAllowed
  <2>4. UniqueActiveTransfer'
    BY <1>1 DEF IInv, UniqueActiveTransfer, Transfer, KindOfJob
  <2>5. OncePerAttempt' /\ QueuedHasNoTask'
    BY <1>0, <1>1 DEF IInv, OncePerAttempt, QueuedHasNoTask, Transfer, KindOfJob
  <2> QED
    BY <2>1, <2>2, <2>3, <2>4, <2>5 DEF Safe
<1>2. CASE job' # job
  <2>1. /\ job[cur].status = "Failed"
        /\ job' = [Set(cur, "Queued") EXCEPT ![cur].attempt = @ + 1]
    BY <1>2 DEF Requeue
  <2>2. supports_automatic_retry(KindOfJob(cur)) /\ job[cur].attempt < MaxAttempts
    BY <2>1 DEF IInv, RetryAllowed, Requeue
  <2>3. /\ job'[cur].status = "Queued" /\ job'[cur].key = job[cur].key
        /\ job'[cur].attempt = job[cur].attempt + 1
        /\ \A j \in Jobs : j # cur => job'[j] = job[j]
    BY <1>0, <2>1 DEF Set, Record
  <2>4. job' \in [Jobs -> Record]
    BY <1>0, <2>1, <2>2, ConstantsAssumption DEF Set, Record, Statuses, Active, Classes
  <2>5. job[cur].attempt \in Nat /\ execs[cur] \in Nat /\ execs[cur] <= job[cur].attempt
    BY <1>0, <2>1, ConstantsAssumption DEF IInv, OncePerAttempt, Record
  <2>6. FreshIds'
    BY <1>0, <2>1, <2>3 DEF IInv, FreshIds
  <2>7. Owed'
    BY <1>0, <2>3, <2>5 DEF IInv, Owed
  <2>8. RetryAllowed'
    BY <1>0 DEF RetryAllowed
  <2>9. UniqueActiveTransfer'
    BY <2>2, <2>3 DEF IInv, UniqueActiveTransfer, Transfer, KindOfJob
  <2>10. OncePerAttempt'
    BY <1>0, <2>2, <2>3, <2>5 DEF IInv, OncePerAttempt, Transfer, KindOfJob
  <2>11. QueuedHasNoTask'
    BY <1>0, <2>3 DEF IInv, QueuedHasNoTask
  <2> QED
    BY <2>4, <2>6, <2>7, <2>8, <2>9, <2>10, <2>11 DEF Safe
<1> QED
  BY <1>1, <1>2
----------------------------------------------------------------------------
(* Types.                                                                  *)

\* Every variable but the job file.
VarTypes ==
  /\ nextId \in 1 .. MaxJobs + 1
  /\ backoff \subseteq Jobs /\ timers \subseteq Jobs
  /\ channel \in Seq(Jobs) /\ Len(channel) <= Capacity
  /\ pending \in [Jobs -> Levels \cup {"out"}]
  /\ task \in [Jobs -> {"none"} \cup Live \cup Outcomes]
  /\ callers \subseteq Keys \X Levels
  /\ submitting \subseteq Jobs /\ reordering \subseteq Jobs
  /\ pc \in {"absorb", "admit", "select", "reliability", "requeue", "archive",
             "drain", "drainMark", "stopped", "down", "recover"}
  /\ cur \in Jobs \cup {0} /\ shutdown \in BOOLEAN
  /\ inflight \subseteq Jobs /\ toMark \subseteq Jobs /\ todo \subseteq Jobs
  /\ seen \subseteq Keys
  /\ writable \in BOOLEAN /\ faults \in Nat /\ crashes \in Nat
  /\ execs \in [Jobs -> Nat] /\ born \in [Jobs -> Nat]

\* The type invariant, with the records apart from the other variables.
LEMMA TypesSplit == TypeOK <=> VarTypes /\ job \in [Jobs -> Record]
BY DEF TypeOK, VarTypes

\* A signal that found room leaves the channel within its capacity.
LEMMA SignalFits ==
  ASSUME TypeOK, NEW j \in Jobs,
         channel' = channel \/ (Len(channel) < Capacity /\ channel' = Append(channel, j))
  PROVE  channel' \in Seq(Jobs) /\ Len(channel') <= Capacity
<1>1. channel \in Seq(Jobs) /\ Len(channel) <= Capacity /\ Capacity \in Nat
  BY ConstantsAssumption DEF TypeOK
<1>2. Append(channel, j) \in Seq(Jobs) /\ Len(Append(channel, j)) = Len(channel) + 1
  BY <1>1
<1> QED
  BY <1>1, <1>2

\* Types are kept by callers, operators, timers and the disk ...
LEMMA VarTypesOutside ==
  ASSUME TypeOK, NEW j \in Jobs,
         \/ SubmitSend(j) \/ SignalLost(j) \/ ReorderSend(j) \/ RetryGate(j)
         \/ \E p \in Priorities : SetPriority(j, p)
         \/ Cancel(j) \/ CancelAbort(j) \/ ClearFinished \/ RequestShutdown
         \/ BackoffElapses(j) \/ TimerFires(j) \/ DiskFails \/ DiskRecovers
         \/ (\E k \in Keys : SubmitGate(k))
         \/ (\E c \in callers : SubmitCommit(c))
  PROVE  VarTypes'
<1> USE DEF TypeOK, VarTypes, store, volatile, worker, env, history
<1>1. CASE SubmitSend(j) \/ ReorderSend(j) \/ TimerFires(j)
  <2>1. channel' = channel \/ (Len(channel) < Capacity /\ channel' = Append(channel, j))
    BY <1>1 DEF SubmitSend, ReorderSend, TimerFires
  <2>2. channel' \in Seq(Jobs) /\ Len(channel') <= Capacity
    BY <2>1, SignalFits
  <2> QED
    BY <1>1, <2>2 DEF SubmitSend, ReorderSend, TimerFires
<1>2. CASE SignalLost(j) \/ \E p \in Priorities : SetPriority(j, p)
  BY <1>2 DEF SignalLost, SetPriority
<1>3. CASE Cancel(j) \/ ClearFinished \/ RequestShutdown \/ BackoffElapses(j)
  BY <1>3 DEF Cancel, ClearFinished, RequestShutdown, BackoffElapses
<1>4. CASE CancelAbort(j)
  BY <1>4 DEF CancelAbort, Outcomes
<1>5. CASE DiskFails
  <2>1. faults' \in Nat
    BY <1>5 DEF DiskFails
  <2>2. writable' \in BOOLEAN
    BY <1>5 DEF DiskFails
  <2> QED
    BY <1>5, <2>1, <2>2 DEF DiskFails
<1>9. CASE DiskRecovers
  <2>1. writable' \in BOOLEAN
    BY <1>9 DEF DiskRecovers
  <2> QED
    BY <1>9, <2>1 DEF DiskRecovers
<1>6. CASE RetryGate(j)
  BY <1>6 DEF RetryGate, Record
<1>7. ASSUME NEW k \in Keys, SubmitGate(k) PROVE VarTypes'
  <2>1. default_priority(KindOf[k]) \in Levels
    BY ConstantsAssumption DEF default_priority, Levels, Kinds
  <2>2. callers' \subseteq Keys \X Levels
    BY <1>7, <2>1 DEF SubmitGate
  <2> QED
    BY <1>7, <2>2 DEF SubmitGate
<1>8. ASSUME NEW c \in callers, SubmitCommit(c) PROVE VarTypes'
  <2>1. nextId \in Jobs /\ nextId + 1 \in 1 .. MaxJobs + 1
    BY <1>8, ConstantsAssumption DEF SubmitCommit, Jobs
  <2>2. \/ UNCHANGED <<nextId, submitting, born>>
        \/ /\ nextId' = nextId + 1 /\ submitting' = submitting \cup {nextId}
           /\ born' = [born EXCEPT ![nextId] = crashes]
    BY <1>8 DEF SubmitCommit
  <2>3. execs' = execs
    BY <1>8 DEF SubmitCommit
  <2>4. UNCHANGED <<backoff, channel, pending, task, timers, reordering, worker, env>>
        /\ callers' = callers \ {c}
    BY <1>8 DEF SubmitCommit
  <2> QED
    BY <2>1, <2>2, <2>3, <2>4
<1> QED
  BY <1>1, <1>2, <1>3, <1>4, <1>5, <1>6, <1>7, <1>8, <1>9

\* ... by tasks and by the drain ...
LEMMA VarTypesTask ==
  ASSUME TypeOK, NEW j \in Jobs,
         \/ TaskStart(j) \/ TaskComplete(j) \/ ScrapeMissing(j) \/ TaskEnd(j)
         \/ DrainJoin(j) \/ InflightLands(j) \/ DrainMark(j)
         \/ BeginDrain \/ DrainExpire \/ DrainList \/ DrainDone
  PROVE  VarTypes'
<1> USE DEF TypeOK, VarTypes, store, volatile, worker, env, history, Live, Outcomes
<1>1. CASE TaskStart(j)
  <2>1. task' \in [Jobs -> {"none"} \cup Live \cup Outcomes]
    BY <1>1 DEF TaskStart
  <2>2. execs' = execs \/ execs' = [execs EXCEPT ![j] = execs[j] + 1]
    BY <1>1 DEF TaskStart
  <2>3. execs' \in [Jobs -> Nat]
    <3>1. execs[j] + 1 \in Nat
      OBVIOUS
    <3> QED
      BY <2>2, <3>1
  <2> QED
    BY <1>1, <2>1, <2>3 DEF TaskStart
<1>2. CASE TaskComplete(j) \/ ScrapeMissing(j)
  BY <1>2 DEF TaskComplete, ScrapeMissing
<1>3. CASE TaskEnd(j)
  BY <1>3 DEF TaskEnd
<1>4. CASE DrainJoin(j) \/ InflightLands(j) \/ DrainMark(j)
  BY <1>4 DEF DrainJoin, InflightLands, DrainMark
<1>5. CASE BeginDrain \/ DrainList \/ DrainDone
  BY <1>5 DEF BeginDrain, DrainList, DrainDone, With
<1>6. CASE DrainExpire
  <2>1. task' = [i \in Jobs |-> "none"]
    BY <1>6 DEF DrainExpire
  <2>2. inflight' \subseteq Jobs
    BY <1>6 DEF DrainExpire, With
  <2>3. UNCHANGED <<nextId, backoff, channel, pending, timers, callers, submitting,
                    reordering, pc, cur, shutdown, toMark, todo, seen, env, history>>
    BY <1>6 DEF DrainExpire
  <2> QED
    BY <2>1, <2>2, <2>3
<1> QED
  BY <1>1, <1>2, <1>3, <1>4, <1>5, <1>6

\* ... and by the worker loop, process exit and recovery.
LEMMA VarTypesWorker ==
  ASSUME TypeOK, RetryAllowed, NEW j \in Jobs,
         \/ Absorb \/ EndAbsorb \/ EndAdmit \/ IdleTick \/ Archive
         \/ Claim(j) \/ Join(j) \/ Reliability \/ Requeue
         \/ Crash \/ Exit \/ Start \/ RecoverDone \/ RecoverJob(j)
  PROVE  VarTypes'
<1> USE DEF TypeOK, VarTypes, store, volatile, worker, env, history
<1>1. CASE Absorb
  <2>1. Head(channel) \in Jobs /\ Tail(channel) \in Seq(Jobs)
        /\ Len(Tail(channel)) <= Capacity
    BY <1>1, ConstantsAssumption DEF Absorb
  <2>2. pending' \in [Jobs -> Levels \cup {"out"}] /\ timers' \subseteq Jobs
    BY <1>1, <2>1 DEF Absorb, QueuePending, Record
  <2> QED
    BY <1>1, <2>1, <2>2 DEF Absorb
<1>2. CASE EndAbsorb
  BY <1>2 DEF EndAbsorb, Record
<1>3. CASE EndAdmit \/ IdleTick \/ Archive \/ RecoverDone
  BY <1>3 DEF EndAdmit, IdleTick, Archive, RecoverDone
<1>4. CASE Claim(j)
  BY <1>4 DEF Claim, Live
<1>5. CASE Join(j)
  BY <1>5 DEF Join
<1>6. CASE Reliability
  BY <1>6 DEF Reliability
<1>7. CASE Requeue
  <2>1. cur \in Jobs
    BY <1>7 DEF Requeue, RetryAllowed
  <2> QED
    BY <1>7, <2>1 DEF Requeue
<1>8. CASE Crash \/ Exit
  <2>1. Die
    BY <1>8 DEF Crash, Exit
  <2>2. /\ channel' \in Seq(Jobs) /\ Len(channel') <= Capacity
        /\ crashes' \in Nat
    BY <2>1, ConstantsAssumption DEF Die
  <2>3. /\ pending' \in [Jobs -> Levels \cup {"out"}]
        /\ task' \in [Jobs -> {"none"} \cup Live \cup Outcomes]
        /\ shutdown' \in BOOLEAN
    BY <2>1 DEF Die
  <2> QED
    BY <2>1, <2>2, <2>3 DEF Die
<1>9. CASE Start
  BY <1>9 DEF Start, With, Record
<1>10. CASE RecoverJob(j)
  <2>1. channel' = channel \/ (Len(channel) < Capacity /\ channel' = Append(channel, j))
    BY <1>10 DEF RecoverJob
  <2>2. channel' \in Seq(Jobs) /\ Len(channel') <= Capacity
    BY <2>1, SignalFits
  <2>3. job[j].key \in Keys
    BY DEF Record
  <2>4. seen' \subseteq Keys
    BY <1>10, <2>3 DEF RecoverJob
  <2> QED
    BY <1>10, <2>2, <2>4 DEF RecoverJob
<1> QED
  BY <1>1, <1>2, <1>3, <1>4, <1>5, <1>6, <1>7, <1>8, <1>9, <1>10
----------------------------------------------------------------------------
(* A commit in flight.                                                     *)

\* Only an aborting drain leaves one, and whatever changes a record or leaves
\* the drain waits for the lock that the commit holds, or sweeps it away.
LEMMA InflightKeeps ==
  ASSUME IInv, Next
  PROVE  InflightRunning'
<1> USE DEF InflightRunning, store, volatile, worker, env, history, LockFree
<1>1. CASE DrainExpire
  BY <1>1 DEF DrainExpire, With
<1>2. CASE inflight' = {}
  BY <1>2
<1>3. CASE inflight' = inflight /\ job' = job /\ pc' = pc
  BY <1>3 DEF IInv
<1>4. CASE inflight' = inflight /\ inflight = {}
  BY <1>4
<1>5. ASSUME NEW k \in Keys, SubmitGate(k) PROVE InflightRunning'
  BY <1>3, <1>5 DEF SubmitGate
<1>6. ASSUME NEW c \in callers, SubmitCommit(c) PROVE InflightRunning'
  BY <1>4, <1>6 DEF SubmitCommit
<1>7. ASSUME NEW j \in Jobs, JobStep(j) PROVE InflightRunning'
  <2>1. CASE RetryGate(j) \/ SignalLost(j) \/ ReorderSend(j) \/ CancelAbort(j)
             \/ BackoffElapses(j) \/ TimerFires(j) \/ TaskStart(j) \/ TaskEnd(j)
    BY <1>3, <2>1 DEF RetryGate, SignalLost, ReorderSend, CancelAbort,
       BackoffElapses, TimerFires, TaskStart, TaskEnd
  <2>2. CASE SubmitSend(j)
    BY <1>3, <1>4, <2>2 DEF SubmitSend
  <2>3. CASE Cancel(j) \/ TaskComplete(j) \/ ScrapeMissing(j)
             \/ \E p \in Priorities : SetPriority(j, p)
    BY <1>4, <2>3 DEF Cancel, TaskComplete, ScrapeMissing, SetPriority
  <2>4. CASE Claim(j) \/ Join(j) \/ DrainJoin(j) \/ DrainMark(j)
    BY <1>4, <2>4 DEF Claim, Join, DrainJoin, DrainMark
  <2>5. CASE InflightLands(j)
    BY <1>2, <2>5 DEF InflightLands
  <2>6. CASE RecoverJob(j)
    BY <1>4, <2>6 DEF RecoverJob, IInv
  <2> QED
    BY <1>7, <2>1, <2>2, <2>3, <2>4, <2>5, <2>6 DEF JobStep
<1>8. CASE ClearFinished \/ Reliability \/ Requeue \/ Archive \/ DrainDone
  BY <1>4, <1>8 DEF ClearFinished, Reliability, Requeue, Archive, DrainDone
<1>9. CASE RequestShutdown \/ DiskFails \/ DiskRecovers
  BY <1>3, <1>9 DEF RequestShutdown, DiskFails, DiskRecovers
<1>10. CASE Absorb \/ EndAbsorb \/ EndAdmit \/ IdleTick \/ BeginDrain
            \/ Start \/ RecoverDone
  BY <1>4, <1>10 DEF Absorb, EndAbsorb, EndAdmit, IdleTick, BeginDrain,
     Start, RecoverDone, IInv
<1>11. CASE DrainList
  BY <1>11 DEF DrainList, IInv
<1>12. CASE Crash \/ Exit
  BY <1>2, <1>12 DEF Crash, Exit, Die
<1> QED
  BY <1>1, <1>5, <1>6, <1>7, <1>8, <1>9, <1>10, <1>11, <1>12 DEF Next

----------------------------------------------------------------------------
(* The invariant.                                                          *)

\* The invariant holds on an empty data directory.
LEMMA InitIInv == Init => IInv
<1> SUFFICES ASSUME Init PROVE IInv
  OBVIOUS
<1> USE DEF Init
<1>1. job \in [Jobs -> Record] /\ \A j \in Jobs : job[j].status = "absent"
  BY BlankRecord
<1>2. Jobs \subseteq Nat \ {0} /\ MaxJobs \in Nat /\ Capacity \in Nat
  BY ConstantsAssumption DEF Jobs
<1>3. VarTypes
  <2>1. channel \in Seq(Jobs) /\ Len(channel) <= Capacity /\ nextId \in 1 .. MaxJobs + 1
    BY <1>2
  <2>2. shutdown \in BOOLEAN
    OBVIOUS
  <2>3. writable \in BOOLEAN
    OBVIOUS
  <2> QED
    BY <2>1, <2>2, <2>3 DEF VarTypes
<1>4. TypeOK
  BY <1>1, <1>3, TypesSplit
<1>5. FreshIds /\ Owed /\ RetryAllowed /\ InflightRunning
  BY <1>1, <1>2 DEF FreshIds, Owed, RetryAllowed, InflightRunning
<1>6. UniqueActiveTransfer /\ OncePerAttempt /\ QueuedHasNoTask
  BY <1>1 DEF UniqueActiveTransfer, OncePerAttempt, QueuedHasNoTask, Active
<1> QED
  BY <1>4, <1>5, <1>6 DEF IInv

\* The tame steps and the rest together.
LEMMA StepKeeps ==
  ASSUME IInv, Next
  PROVE  IInv'
<1> DEFINE Goal == TypeOK' /\ Safe'
<1>0. TypeOK /\ InflightRunning /\ RetryAllowed
  BY DEF IInv
<1>1. ASSUME VarTypes', TameStep PROVE Goal
  <2>1. TypeOK'
    BY <1>1, TypesSplit DEF TameStep, Tame, TypeOK, VarTypes
  <2> QED
    BY <1>1, <2>1, TameKeeps DEF Safe
<1>2. ASSUME VarTypes', job' \in [Jobs -> Record] PROVE TypeOK'
  BY <1>2 DEF TypeOK, VarTypes
<1> HIDE DEF Goal
<1>3. ASSUME NEW j \in Jobs, JobStep(j) PROVE Goal
  <2>1. CASE \/ SubmitSend(j) \/ SignalLost(j) \/ ReorderSend(j) \/ RetryGate(j)
             \/ \E p \in Priorities : SetPriority(j, p)
             \/ Cancel(j) \/ CancelAbort(j) \/ BackoffElapses(j) \/ TimerFires(j)
    BY <1>0, <1>1, <2>1, TameOutside, VarTypesOutside
  <2>2. CASE \/ TaskComplete(j) \/ ScrapeMissing(j) \/ TaskEnd(j)
             \/ DrainJoin(j) \/ InflightLands(j) \/ DrainMark(j)
    BY <1>0, <1>1, <2>2, TameTask, VarTypesTask
  <2>3. CASE RecoverJob(j)
    BY <1>0, <1>1, <2>3, TameWorker, VarTypesWorker
  <2>4. CASE TaskStart(j)
    BY <1>0, <1>2, <2>4, TaskStartKeeps, VarTypesTask DEF Goal
  <2>5. CASE Claim(j)
    BY <1>0, <1>2, <2>5, ClaimKeeps, VarTypesWorker DEF Goal
  <2>6. CASE Join(j)
    <3>1. job' \in [Jobs -> Record]
      BY <1>0, <2>6, TameHandleResult DEF Join, Tame, TypeOK
    <3>2. TypeOK'
      BY <1>0, <1>2, <2>6, <3>1, VarTypesWorker
    <3> QED
      BY <2>6, <3>2, JoinKeeps DEF Goal
  <2> QED
    BY <1>3, <2>1, <2>2, <2>3, <2>4, <2>5, <2>6 DEF JobStep
<1>4. 1 \in Jobs
  BY ConstantsAssumption DEF Jobs
<1>5. ASSUME Reliability PROVE Goal
  BY <1>0, <1>2, <1>4, <1>5, ReliabilityKeeps, VarTypesWorker DEF Goal
<1>6. ASSUME Requeue PROVE Goal
  BY <1>0, <1>2, <1>4, <1>6, RequeueKeeps, VarTypesWorker DEF Goal
<1>7. ASSUME NEW c \in callers, SubmitCommit(c) PROVE Goal
  BY <1>0, <1>2, <1>4, <1>7, SubmitKeeps, VarTypesOutside DEF Goal
<1>8. ASSUME \/ ClearFinished \/ RequestShutdown \/ DiskFails \/ DiskRecovers
             \/ \E k \in Keys : SubmitGate(k)
      PROVE  Goal
  BY <1>0, <1>1, <1>4, <1>8, TameOutside, VarTypesOutside
<1>9. ASSUME BeginDrain \/ DrainExpire \/ DrainList \/ DrainDone
      PROVE  Goal
  BY <1>0, <1>1, <1>4, <1>9, TameTask, VarTypesTask
<1>10. ASSUME \/ Absorb \/ EndAbsorb \/ EndAdmit \/ IdleTick \/ Archive
              \/ Crash \/ Exit \/ Start \/ RecoverDone
       PROVE  Goal
  BY <1>0, <1>1, <1>4, <1>10, TameWorker, VarTypesWorker
<1>11. Goal
  BY <1>3, <1>5, <1>6, <1>7, <1>8, <1>9, <1>10 DEF Next
<1> QED
  BY <1>11, InflightKeeps DEF Goal, Safe, IInv

\* A step that changes nothing keeps the invariant.
LEMMA StutterKeeps ==
  ASSUME IInv, UNCHANGED vars
  PROVE  IInv'
BY DEF IInv, TypeOK, FreshIds, Owed, RetryAllowed, InflightRunning, UniqueActiveTransfer,
   OncePerAttempt, QueuedHasNoTask, Transfer, KindOfJob, vars, store, volatile, worker,
   env, history

\* IInv holds in every reachable state.
THEOREM Invariance == Spec => []IInv
<1>1. IInv /\ [Next]_vars => IInv'
  BY StepKeeps, StutterKeeps
<1> QED
  BY <1>1, InitIInv, PTL DEF Spec

\* Type correctness of the queue, whatever the keys, the bounds and the faults.
THEOREM TypeCorrect == Spec => []TypeOK
<1>1. IInv => TypeOK
  BY DEF IInv
<1> QED
  BY <1>1, Invariance, PTL

\* No two queued or running jobs share the key of a transfer, through any
\* interleaving of submission, retry, shutdown, crash and recovery.
THEOREM NoDuplicateTransfer == Spec => []UniqueActiveTransfer
<1>1. IInv => UniqueActiveTransfer
  BY DEF IInv
<1> QED
  BY <1>1, Invariance, PTL

\* A job's external work is started at most once per attempt, and the work of
\* a transfer at most once.
THEOREM NoRepeatedExecution == Spec => []OncePerAttempt
<1>1. IInv => OncePerAttempt
  BY DEF IInv
<1> QED
  BY <1>1, Invariance, PTL

\* A queued job has no task of an earlier attempt.
THEOREM NoLeftoverTask == Spec => []QueuedHasNoTask
<1>1. IInv => QueuedHasNoTask
  BY DEF IInv
<1> QED
  BY <1>1, Invariance, PTL
----------------------------------------------------------------------------
(* Finished transfers.                                                     *)

FinishedStays ==
  \A j \in Jobs : Transfer(j) /\ job[j].status \in Terminal
                    => job'[j].status \in Terminal \cup {"absent"}

\* A tame step leaves every finished transfer finished.
LEMMA TameFinished == Tame(job') => FinishedStays
BY DEF Tame, FinishedStays

\* The steps that are not tame leave a finished transfer alone too.
LEMMA StepFinished ==
  ASSUME IInv, Next
  PROVE  FinishedStays
<1> USE TameFinished
<1>0. /\ TypeOK /\ InflightRunning /\ job \in [Jobs -> Record] /\ 1 \in Jobs
  <2>1. TypeOK /\ InflightRunning
    BY DEF IInv
  <2> QED
    BY <2>1, ConstantsAssumption DEF TypeOK, Jobs
<1>1. ASSUME TameStep PROVE FinishedStays
  BY <1>1 DEF TameStep
<1>2. CASE job' = job
  BY <1>2 DEF FinishedStays
<1>3. ASSUME NEW j \in Jobs, JobStep(j) PROVE FinishedStays
  <2>1. CASE \/ SubmitSend(j) \/ SignalLost(j) \/ ReorderSend(j) \/ RetryGate(j)
             \/ \E p \in Priorities : SetPriority(j, p)
             \/ Cancel(j) \/ CancelAbort(j) \/ BackoffElapses(j) \/ TimerFires(j)
    BY <1>0, <1>1, <2>1, TameOutside
  <2>2. CASE \/ TaskComplete(j) \/ ScrapeMissing(j) \/ TaskEnd(j)
             \/ DrainJoin(j) \/ InflightLands(j) \/ DrainMark(j)
    BY <1>0, <1>1, <2>2, TameTask
  <2>3. CASE RecoverJob(j)
    BY <1>0, <1>1, <2>3, TameWorker
  <2>4. CASE TaskStart(j)
    BY <1>2, <2>4 DEF TaskStart, store
  <2>5. CASE Claim(j)
    <3>1. job' = job \/ (job[j].status = "Queued" /\ job' = Set(j, "Running"))
      BY <2>5 DEF Claim
    <3> QED
      BY <1>0, <3>1 DEF FinishedStays, Set, Terminal
  <2>6. CASE Join(j)
    BY <1>0, <2>6, TameHandleResult DEF Join
  <2> QED
    BY <1>3, <2>1, <2>2, <2>3, <2>4, <2>5, <2>6 DEF JobStep
<1>4. CASE Reliability
  <2>1. job' = job \/ \E c : job' = [job EXCEPT ![cur].class = c]
    BY <1>4 DEF Reliability, Commit
  <2>2. \A j \in Jobs : job'[j].status = job[j].status
    BY <1>0, <2>1 DEF Record
  <2> QED
    BY <2>2 DEF FinishedStays
<1>5. CASE Requeue
  <2>1. job' = job \/ (/\ job' = [Set(cur, "Queued") EXCEPT ![cur].attempt = @ + 1]
                       /\ ~Transfer(cur))
    BY <1>5 DEF Requeue, IInv, RetryAllowed, Transfer
  <2>2. \A j \in Jobs : Transfer(j) => job'[j] = job[j]
    BY <1>0, <2>1 DEF Set
  <2> QED
    BY <2>2 DEF FinishedStays
<1>6. ASSUME NEW c \in callers, SubmitCommit(c) PROVE FinishedStays
  <2>1. CASE UNCHANGED store
    BY <1>2, <2>1 DEF store
  <2>2. CASE ~ UNCHANGED store
    <3>1. PICK S, new : job' = [Remove(S) EXCEPT ![nextId] = new]
      BY <1>6, <2>2 DEF SubmitCommit
    <3>2. \A j \in Jobs : j # nextId => job'[j] = job[j] \/ job'[j].status = "absent"
      BY <1>0, <3>1, BlankRecord DEF Remove
    <3>3. nextId \in Nat => \A j \in Jobs : j = nextId => job[j].status = "absent"
      BY DEF IInv, FreshIds
    <3>4. nextId \in Nat
      BY ConstantsAssumption DEF IInv, TypeOK
    <3> QED
      BY <3>2, <3>3, <3>4 DEF FinishedStays, Terminal
  <2> QED
    BY <2>1, <2>2
<1>7. CASE \/ ClearFinished \/ RequestShutdown \/ DiskFails \/ DiskRecovers
           \/ \E k \in Keys : SubmitGate(k)
  BY <1>0, <1>1, <1>7, TameOutside
<1>8. CASE BeginDrain \/ DrainExpire \/ DrainList \/ DrainDone
  BY <1>0, <1>1, <1>8, TameTask
<1>9. CASE \/ Absorb \/ EndAbsorb \/ EndAdmit \/ IdleTick \/ Archive
           \/ Crash \/ Exit \/ Start \/ RecoverDone
  BY <1>0, <1>1, <1>9, TameWorker
<1> QED
  BY <1>3, <1>4, <1>5, <1>6, <1>7, <1>8, <1>9 DEF Next

\* A transfer that reached a terminal status is never active again: no late
\* result, stale signal, retry or restart runs it a second time.
THEOREM FinishedTransfersStay == Spec => FinishedTransferStays
<1>1. IInv /\ [Next]_vars => FinishedStays \/ UNCHANGED job
  BY StepFinished DEF vars, store
<1> QED
  BY <1>1, Invariance, PTL DEF Spec, FinishedTransferStays, FinishedStays
----------------------------------------------------------------------------
(* A success on record, and notifications across restarts.                 *)

Push(j) == KindOfJob(j) = "PushDispatch"

\* No task outlives the process, and a commit in flight outlived its task.
NoTaskLeft ==
  /\ pc \in {"down", "recover"} => cur = 0 /\ \A j \in Jobs : task[j] = "none"
  /\ inflight # {} => \A j \in Jobs : task[j] = "none"

\* Recovery has still to settle what it found active.
TodoActive == \A j \in todo : pc = "recover" /\ job[j].status \in Active

\* What a handler works on has not succeeded.
WorkUnfinished == \A j \in Jobs : task[j] = "working" => job[j].status # "Succeeded"

\* While the disk works, a push that may run, runs, or has just been joined is
\* of this process, unless recovery has still to cancel it.
Pushed(j) == job[j].status \in Active \/ task[j] # "none" \/ cur = j
PushCurrent ==
  faults = 0 =>
    /\ writable
    /\ \A j \in Jobs : Push(j) /\ job[j].status # "absent" /\ Pushed(j) =>
         \/ born[j] = crashes
         \/ pc = "down" \/ (pc = "recover" /\ j \in todo)

LifeInv == NoTaskLeft /\ TodoActive /\ WorkUnfinished /\ PushCurrent

\* Only these touch what NoTaskLeft speaks of.
LEMMA NoTaskLeftKept ==
  ASSUME IInv, NoTaskLeft, Next
  PROVE  NoTaskLeft'
<1> USE DEF NoTaskLeft, store, volatile, worker, env, history, LockFree
<1>t. task \in [Jobs -> {"none"} \cup Live \cup Outcomes]
  BY DEF IInv, TypeOK
<1>0. CASE UNCHANGED <<pc, cur, task, inflight>>
  BY <1>0
<1>1. ASSUME NEW k \in Keys, SubmitGate(k) PROVE NoTaskLeft'
  BY <1>0, <1>1 DEF SubmitGate
<1>2. ASSUME NEW c \in callers, SubmitCommit(c) PROVE NoTaskLeft'
  BY <1>0, <1>2 DEF SubmitCommit
<1>3. ASSUME NEW j \in Jobs, JobStep(j) PROVE NoTaskLeft'
  <2>1. CASE \/ RetryGate(j) \/ SubmitSend(j) \/ SignalLost(j) \/ ReorderSend(j)
             \/ (\E p \in Priorities : SetPriority(j, p))
             \/ Cancel(j) \/ BackoffElapses(j) \/ TimerFires(j)
             \/ DrainMark(j) \/ RecoverJob(j)
    BY <1>0, <2>1 DEF RetryGate, SubmitSend, SignalLost, ReorderSend, SetPriority, Cancel,
       BackoffElapses, TimerFires, DrainMark, RecoverJob
  <2>2. CASE CancelAbort(j) \/ TaskStart(j) \/ TaskComplete(j) \/ ScrapeMissing(j) \/ TaskEnd(j)
    <3>1. task[j] # "none" /\ UNCHANGED <<pc, cur, inflight>>
      BY <2>2 DEF CancelAbort, TaskStart, TaskComplete, ScrapeMissing, TaskEnd, Live
    <3> QED
      BY <3>1
  <2>3. CASE Claim(j)
    BY <2>3 DEF Claim
  <2>4. CASE Join(j)
    BY <2>4 DEF Join
  <2>5. CASE DrainJoin(j)
    BY <1>t, <2>5 DEF DrainJoin
  <2>6. CASE InflightLands(j)
    BY <2>6 DEF InflightLands
  <2> QED
    BY <1>3, <2>1, <2>2, <2>3, <2>4, <2>5, <2>6 DEF JobStep
<1>4. CASE ClearFinished \/ RequestShutdown \/ DiskFails \/ DiskRecovers
  BY <1>0, <1>4 DEF ClearFinished, RequestShutdown, DiskFails, DiskRecovers
<1>5. CASE \/ Absorb \/ EndAbsorb \/ EndAdmit \/ IdleTick
           \/ BeginDrain \/ DrainList \/ DrainDone \/ RecoverDone
  <2>1. pc' \notin {"down", "recover"} /\ task' = task /\ inflight' = inflight
    BY <1>5 DEF Absorb, EndAbsorb, EndAdmit, IdleTick, BeginDrain, DrainList, DrainDone, RecoverDone
  <2> QED
    BY <2>1
<1>6. CASE Reliability \/ Requeue \/ Archive
  <2>1. pc' \notin {"down", "recover"} /\ task' = task /\ inflight' = inflight
    BY <1>6 DEF Reliability, Requeue, Archive
  <2> QED
    BY <2>1
<1>7. CASE DrainExpire
  BY <1>7 DEF DrainExpire
<1>8. CASE Crash \/ Exit
  BY <1>8 DEF Crash, Exit, Die
<1>9. CASE Start
  BY <1>9 DEF Start
<1> QED
  BY <1>1, <1>2, <1>3, <1>4, <1>5, <1>6, <1>7, <1>8, <1>9 DEF Next


\* What most steps make of a record ...
Kept ==
  \A j \in Jobs : job'[j].status # "absent" =>
    /\ job[j].status # "absent" /\ job'[j].key = job[j].key
    /\ Pushed(j)' => Pushed(j)
    /\ task'[j] = "working" /\ job'[j].status = "Succeeded" =>
         task[j] = "working" /\ job[j].status = "Succeeded"
    /\ job[j].status = "Succeeded" /\ pc \notin {"drainMark", "stopped"} =>
         job'[j].status = "Succeeded"

\* ... and of the rest.
Around ==
  /\ born' = born /\ crashes' = crashes
  /\ faults' = 0 => faults = 0 /\ (writable => writable')
  /\ todo' = todo
  /\ \/ pc \notin {"down", "recover"} /\ pc' \notin {"down", "recover"}
     \/ /\ pc' = pc
        /\ pc = "recover" =>
             \A j \in Jobs : job[j].status \in Active => job'[j].status \in Active

\* Such steps keep the three parts.
LEMMA GentleKeeps ==
  ASSUME TypeOK, LifeInv, Kept, Around
  PROVE  TodoActive' /\ WorkUnfinished' /\ PushCurrent'
<1>0. todo \subseteq Jobs
  BY DEF TypeOK
<1>1. TodoActive'
  BY <1>0 DEF LifeInv, TodoActive, Around
<1>2. WorkUnfinished'
  BY DEF LifeInv, WorkUnfinished, Kept
<1>3. ASSUME faults' = 0 PROVE writable'
  BY <1>3 DEF LifeInv, PushCurrent, Around
<1>4. ASSUME faults' = 0, NEW j \in Jobs, Push(j)', job'[j].status # "absent", Pushed(j)'
      PROVE  \/ born'[j] = crashes'
             \/ pc' = "down" \/ (pc' = "recover" /\ j \in todo')
  <2>1. faults = 0 /\ Push(j) /\ job[j].status # "absent" /\ Pushed(j)
    BY <1>4 DEF Kept, Around, Push, KindOfJob
  <2>2. born[j] = crashes \/ pc = "down" \/ (pc = "recover" /\ j \in todo)
    BY <2>1 DEF LifeInv, PushCurrent
  <2> QED
    BY <2>2 DEF Around
<1>5. PushCurrent'
  BY <1>3, <1>4 DEF PushCurrent
<1> QED
  BY <1>1, <1>2, <1>5

\* Only record i is rewritten, and ends up with status s.
Only(i, s, next) ==
  /\ next[i].status = s /\ next[i].key = job[i].key
  /\ \A j \in Jobs : j # i => next[j] = job[j]

\* Every write of one record rewrites only that one.
LEMMA Rewriting ==
  ASSUME job \in [Jobs -> Record], NEW i \in Jobs
  PROVE  /\ \A s : Only(i, s, Set(i, s))
         /\ \A d : Only(i, "Failed", Fail(i, d))
         /\ \A d, c : Only(i, "Failed", [Fail(i, d) EXCEPT ![i].class = c])
<1>1. ASSUME NEW s PROVE Only(i, s, Set(i, s))
  BY DEF Only, Set, Record
<1>2. ASSUME NEW d PROVE Only(i, "Failed", Fail(i, d))
  BY DEF Only, Fail, Record
<1>3. ASSUME NEW d, NEW c PROVE Only(i, "Failed", [Fail(i, d) EXCEPT ![i].class = c])
  BY DEF Only, Fail, Record
<1> QED
  BY <1>1, <1>2, <1>3

\* A handler's result ends its record ...
LEMMA Finishing ==
  ASSUME job \in [Jobs -> Record], NEW i \in Jobs, NEW next \in Finish(i)
  PROVE  Only(i, "Succeeded", next) \/ Only(i, "Failed", next)
BY Rewriting DEF Finish

\* ... and the outcome of its task fails it, if it was running.
LEMMA Handling ==
  ASSUME job \in [Jobs -> Record], NEW i \in Jobs, HandleResult(i)
  PROVE  job' = job \/ (job[i].status = "Running" /\ Only(i, "Failed", job'))
<1>1. ASSUME NEW next, Only(i, "Failed", next), UpdateIf(i, "Running", next)
      PROVE  job' = job \/ (job[i].status = "Running" /\ Only(i, "Failed", job'))
  BY <1>1 DEF UpdateIf, Commit
<1> QED
  BY <1>1, Rewriting DEF HandleResult

\* Tasks move on or end, and the worker turns to one that just ended.
TasksMove ==
  /\ \A j \in Jobs : task'[j] = task[j] \/ (task[j] # "none" /\ task'[j] # "working")
  /\ cur' \in {cur, 0} \/ task[cur'] # "none"

\* Leaving the file alone ...
LEMMA KeptSame ==
  ASSUME IInv, TasksMove, job' = job
  PROVE  Kept
<1>1. Jobs \subseteq Nat \ {0}
  BY ConstantsAssumption DEF Jobs
<1> QED
  BY <1>1 DEF Kept, TasksMove, Pushed

\* ... ending one record, which is not a success unless the worker is gone ...
LEMMA KeptEnding ==
  ASSUME IInv, TasksMove, NEW i \in Jobs, job[i].status # "absent",
         \/ \E s \in {"Failed", "Canceled"} : Only(i, s, job')
              /\ (job[i].status = "Succeeded" => pc \in {"drainMark", "stopped"})
         \/ Only(i, "Succeeded", job') /\ task'[i] # "working"
  PROVE  Kept
<1>1. Jobs \subseteq Nat \ {0}
  BY ConstantsAssumption DEF Jobs
<1> QED
  BY <1>1 DEF Kept, TasksMove, Pushed, Only, Active

\* ... and removing records keep what Kept says.
LEMMA KeptRemoving ==
  ASSUME IInv, TasksMove, NEW S, job' = Remove(S)
  PROVE  Kept
<1>1. Jobs \subseteq Nat \ {0}
  BY ConstantsAssumption DEF Jobs
<1>2. \A j \in Jobs : job'[j].status = "absent" \/ job'[j] = job[j]
  BY BlankRecord DEF Remove
<1> QED
  BY <1>1, <1>2 DEF Kept, TasksMove, Pushed

\* The steps of callers, operators, timers and the disk ...
LEMMA GentleOutside ==
  ASSUME IInv, NEW j \in Jobs,
         \/ SubmitSend(j) \/ SignalLost(j) \/ ReorderSend(j) \/ RetryGate(j)
         \/ (\E p \in Priorities : SetPriority(j, p))
         \/ Cancel(j) \/ CancelAbort(j) \/ ClearFinished \/ RequestShutdown
         \/ BackoffElapses(j) \/ TimerFires(j) \/ DiskFails \/ DiskRecovers
         \/ (\E k \in Keys : SubmitGate(k))
  PROVE  Kept /\ Around
<1> USE DEF store, volatile, worker, env, history
<1>t. /\ job \in [Jobs -> Record] /\ faults \in Nat
      /\ task \in [Jobs -> {"none"} \cup Live \cup Outcomes]
  BY DEF IInv, TypeOK
<1>0. ASSUME UNCHANGED <<job, pc, cur, task, todo, born, crashes, faults, writable>>
      PROVE  Kept /\ Around
  BY <1>0, KeptSame DEF Around, TasksMove
<1>1. CASE SubmitSend(j)
  <2>1. CASE pc = "stopped"
    <3>1. UNCHANGED <<pc, cur, task, todo, born, crashes, faults, writable>>
      BY <1>1 DEF SubmitSend
    <3>2. job' = job \/ (job[j].status # "absent" /\ Only(j, "Failed", job'))
      BY <1>1, <1>t, <2>1, Rewriting DEF SubmitSend, Update, Commit
    <3>3. Kept
      BY <2>1, <3>1, <3>2, KeptSame, KeptEnding DEF TasksMove
    <3> QED
      BY <2>1, <3>1, <3>3 DEF Around
  <2> QED
    BY <1>0, <1>1, <2>1 DEF SubmitSend
<1>2. CASE \/ SignalLost(j) \/ ReorderSend(j) \/ RetryGate(j) \/ RequestShutdown
           \/ BackoffElapses(j) \/ TimerFires(j) \/ (\E k \in Keys : SubmitGate(k))
  BY <1>0, <1>2 DEF SignalLost, ReorderSend, RetryGate, RequestShutdown, BackoffElapses,
     TimerFires, SubmitGate
<1>3. ASSUME NEW p \in Priorities, SetPriority(j, p) PROVE Kept /\ Around
  <2>1. /\ UNCHANGED <<pc, cur, task, todo, born, crashes, faults, writable>>
        /\ pc \notin {"down", "recover"}
    BY <1>3 DEF SetPriority, Serving
  <2>2. \A i \in Jobs : job'[i].status = job[i].status /\ job'[i].key = job[i].key
    BY <1>t, <1>3 DEF SetPriority, Record
  <2>3. Kept
    BY <2>1, <2>2 DEF Kept, Pushed
  <2> QED
    BY <2>1, <2>3 DEF Around
<1>4. CASE Cancel(j)
  <2>1. /\ UNCHANGED <<pc, cur, task, todo, born, crashes, faults, writable>>
        /\ pc \notin {"down", "recover"}
    BY <1>4 DEF Cancel, Serving
  <2>2. Only(j, "Canceled", job') /\ job[j].status \in Active
    BY <1>4, <1>t, Rewriting DEF Cancel, Active
  <2>3. Kept
    BY <2>1, <2>2, KeptEnding DEF TasksMove, Active
  <2> QED
    BY <2>1, <2>3 DEF Around
<1>5. CASE CancelAbort(j)
  <2>1. UNCHANGED <<job, pc, cur, todo, born, crashes, faults, writable>>
    BY <1>5 DEF CancelAbort
  <2>2. TasksMove
    BY <1>5, <1>t, <2>1 DEF CancelAbort, TasksMove, Live
  <2> QED
    BY <2>1, <2>2, KeptSame DEF Around
<1>6. CASE ClearFinished
  <2>1. /\ UNCHANGED <<pc, cur, task, todo, born, crashes, faults, writable>>
        /\ pc \notin {"down", "recover"} /\ job' = Remove(With(Terminal))
    BY <1>6 DEF ClearFinished, Serving
  <2>2. Kept
    BY <2>1, KeptRemoving DEF TasksMove
  <2> QED
    BY <2>1, <2>2 DEF Around
<1>7. CASE DiskFails \/ DiskRecovers
  <2>1. UNCHANGED <<job, pc, cur, task, todo, born, crashes>>
    BY <1>7 DEF DiskFails, DiskRecovers
  <2>2. Kept
    BY <2>1, KeptSame DEF TasksMove
  <2>3. CASE DiskFails
    <3>1. faults' # 0
      BY <1>t, <2>3 DEF DiskFails
    <3> QED
      BY <2>1, <2>2, <3>1 DEF Around
  <2>4. CASE DiskRecovers
    <3>1. writable'
      BY <2>4 DEF DiskRecovers
    <3>2. faults' = faults
      BY <2>4 DEF DiskRecovers
    <3> QED
      BY <2>1, <2>2, <3>1, <3>2 DEF Around
  <2> QED
    BY <1>7, <2>3, <2>4
<1> QED
  BY <1>1, <1>2, <1>3, <1>4, <1>5, <1>6, <1>7

\* ... of tasks and of the drain ...
LEMMA GentleTask ==
  ASSUME IInv, NoTaskLeft, WorkUnfinished, NEW j \in Jobs,
         \/ TaskStart(j) \/ TaskComplete(j) \/ ScrapeMissing(j) \/ TaskEnd(j)
         \/ DrainJoin(j) \/ InflightLands(j) \/ DrainMark(j)
         \/ BeginDrain \/ DrainExpire \/ DrainList \/ DrainDone
  PROVE  Kept /\ Around
<1> USE DEF store, volatile, worker, env, history
<1>t. /\ job \in [Jobs -> Record]
      /\ task \in [Jobs -> {"none"} \cup Live \cup Outcomes]
      /\ Jobs \subseteq Nat \ {0}
  BY ConstantsAssumption DEF IInv, TypeOK, Jobs
<1>1. ASSUME UNCHANGED <<todo, born, crashes, faults, writable>>,
             pc \notin {"down", "recover"}, pc' \notin {"down", "recover"}
      PROVE  Around
  BY <1>1 DEF Around
<1>2. \A i \in Jobs : task[i] # "none" => pc \notin {"down", "recover"}
  BY DEF NoTaskLeft
<1>3. CASE TaskStart(j)
  <2>1. /\ UNCHANGED <<job, pc, cur, todo, born, crashes, faults, writable>>
        /\ task[j] = "spawned"
        /\ \A i \in Jobs : i # j => task'[i] = task[i]
        /\ task'[j] = "working" => job[j].status = "Running"
    BY <1>3, <1>t DEF TaskStart
  <2>2. Kept
    BY <2>1 DEF Kept, Pushed
  <2> QED
    BY <1>1, <1>2, <2>1, <2>2
<1>4. CASE TaskComplete(j) \/ ScrapeMissing(j)
  <2>1. /\ UNCHANGED <<pc, cur, todo, born, crashes, faults, writable>>
        /\ task[j] = "working" /\ task'[j] # "working"
    BY <1>4, <1>t DEF TaskComplete, ScrapeMissing
  <2>2. TasksMove
    BY <1>4, <1>t, <2>1 DEF TaskComplete, ScrapeMissing, TasksMove
  <2>3. \/ job' = job
        \/ /\ job[j].status \notin {"absent", "Succeeded"}
           /\ \E s \in {"Succeeded", "Failed"} : Only(j, s, job')
    <3>1. CASE TaskComplete(j)
      <4>1. PICK next \in Finish(j) : UpdateIf(j, "Running", next)
        BY <3>1 DEF TaskComplete
      <4> QED
        BY <1>t, <4>1, Finishing DEF UpdateIf, Commit
    <3>2. CASE ScrapeMissing(j)
      <4>1. job[j].status # "Succeeded"
        BY <2>1 DEF WorkUnfinished
      <4> QED
        BY <1>t, <3>2, <4>1, Rewriting DEF ScrapeMissing, Update, Commit
    <3> QED
      BY <1>4, <3>1, <3>2
  <2>4. Kept
    BY <2>1, <2>2, <2>3, KeptSame, KeptEnding
  <2> QED
    BY <1>1, <1>2, <2>1, <2>4
<1>5. CASE TaskEnd(j)
  <2>1. /\ UNCHANGED <<job, pc, cur, todo, born, crashes, faults, writable>>
        /\ task[j] # "none" /\ \E o \in Outcomes : task' = [task EXCEPT ![j] = o]
    BY <1>5 DEF TaskEnd, Live, Outcomes
  <2>2. TasksMove
    BY <1>t, <2>1 DEF TasksMove, Outcomes
  <2> QED
    BY <1>1, <1>2, <2>1, <2>2, KeptSame
<1>6. CASE DrainJoin(j)
  <2>1. /\ UNCHANGED <<pc, cur, todo, born, crashes, faults, writable>>
        /\ task[j] # "none" /\ task' = [task EXCEPT ![j] = "none"]
    BY <1>6 DEF DrainJoin, HandleResult
  <2>2. TasksMove
    BY <1>t, <2>1 DEF TasksMove
  <2>3. job' = job \/ (job[j].status = "Running" /\ Only(j, "Failed", job'))
    BY <1>t, <1>6, Handling DEF DrainJoin
  <2> QED
    BY <1>1, <1>2, <2>1, <2>2, <2>3, KeptSame, KeptEnding
<1>7. CASE InflightLands(j)
  <2>1. /\ UNCHANGED <<pc, cur, task, todo, born, crashes, faults, writable>>
        /\ j \in inflight
    BY <1>7 DEF InflightLands
  <2>2. pc \in {"drain", "drainMark"} /\ job[j].status = "Running" /\ task[j] = "none"
    BY <2>1 DEF IInv, InflightRunning, NoTaskLeft
  <2>3. TasksMove
    BY <2>1 DEF TasksMove
  <2>4. PICK next \in Finish(j) : Commit(next)
    BY <1>7 DEF InflightLands
  <2>5. job' = job \/ Only(j, "Succeeded", job') \/ Only(j, "Failed", job')
    BY <1>t, <2>4, Finishing DEF Commit
  <2> QED
    BY <1>1, <2>1, <2>2, <2>3, <2>5, KeptSame, KeptEnding
<1>8. CASE DrainMark(j)
  <2>1. /\ UNCHANGED <<pc, cur, task, todo, born, crashes, faults, writable>>
        /\ pc = "drainMark"
    BY <1>8 DEF DrainMark
  <2>2. job' = job \/ (job[j].status # "absent" /\ Only(j, "Failed", job'))
    BY <1>t, <1>8, Rewriting DEF DrainMark, Update, Commit
  <2>3. Kept
    BY <2>1, <2>2, KeptSame, KeptEnding DEF TasksMove
  <2> QED
    BY <1>1, <2>1, <2>3
<1>9. CASE BeginDrain \/ DrainList \/ DrainDone
  <2>1. /\ UNCHANGED <<job, cur, task, todo, born, crashes, faults, writable>>
        /\ pc \notin {"down", "recover"} /\ pc' \notin {"down", "recover"}
    BY <1>9 DEF BeginDrain, DrainList, DrainDone
  <2> QED
    BY <1>1, <2>1, KeptSame DEF TasksMove
<1>10. CASE DrainExpire
  <2>1. /\ UNCHANGED <<job, pc, cur, todo, born, crashes, faults, writable>>
        /\ pc = "drain" /\ task' = [i \in Jobs |-> "none"]
    BY <1>10 DEF DrainExpire
  <2>2. TasksMove
    BY <1>t, <2>1 DEF TasksMove
  <2> QED
    BY <1>1, <2>1, <2>2, KeptSame
<1> QED
  BY <1>3, <1>4, <1>5, <1>6, <1>7, <1>8, <1>9, <1>10

\* ... and of the worker loop.
LEMMA GentleWorker ==
  ASSUME IInv, NEW j \in Jobs,
         \/ Absorb \/ EndAbsorb \/ EndAdmit \/ IdleTick \/ Archive
         \/ Claim(j) \/ Join(j) \/ Reliability \/ Requeue
  PROVE  Kept /\ Around
<1> USE DEF store, volatile, worker, env, history
<1>t. /\ job \in [Jobs -> Record]
      /\ task \in [Jobs -> {"none"} \cup Live \cup Outcomes]
      /\ Jobs \subseteq Nat \ {0}
  BY ConstantsAssumption DEF IInv, TypeOK, Jobs
<1>1. /\ UNCHANGED <<todo, born, crashes, faults, writable>>
      /\ pc \notin {"down", "recover"} /\ pc' \notin {"down", "recover"}
  <2>1. CASE Absorb \/ EndAbsorb \/ EndAdmit \/ IdleTick \/ Archive
    BY <2>1 DEF Absorb, EndAbsorb, EndAdmit, IdleTick, Archive
  <2>2. CASE Claim(j) \/ Join(j) \/ Requeue
    BY <2>2 DEF Claim, Join, Requeue
  <2>3. CASE Reliability
    BY <2>3 DEF Reliability
  <2> QED
    BY <2>1, <2>2, <2>3
<1>2. Around
  BY <1>1 DEF Around
<1>3. CASE Absorb \/ EndAbsorb \/ EndAdmit \/ IdleTick
  <2>1. UNCHANGED <<job, cur, task>>
    BY <1>3 DEF Absorb, EndAbsorb, EndAdmit, IdleTick
  <2> QED
    BY <1>2, <2>1, KeptSame DEF TasksMove
<1>4. CASE Archive
  <2>1. task' = task /\ cur' = 0 /\ (job' = job \/ \E S : job' = Remove(S))
    BY <1>4 DEF Archive, Commit
  <2>2. TasksMove
    BY <2>1 DEF TasksMove
  <2> QED
    BY <1>2, <2>1, <2>2, KeptSame, KeptRemoving
<1>5. CASE Claim(j)
  <2>1. cur' = cur
    BY <1>5 DEF Claim
  <2>2. CASE UNCHANGED <<job, task>>
    BY <1>2, <2>1, <2>2, KeptSame DEF TasksMove
  <2>3. CASE ~ UNCHANGED <<job, task>>
    <3>1. /\ job[j].status = "Queued" /\ Only(j, "Running", job')
          /\ \A i \in Jobs : i # j => task'[i] = task[i]
      BY <1>5, <1>t, <2>3, Rewriting DEF Claim
    <3>2. Kept
      BY <2>1, <3>1 DEF Kept, Only, Pushed, Active
    <3> QED
      BY <1>2, <3>2
  <2> QED
    BY <2>2, <2>3
<1>6. CASE Join(j)
  <2>1. task[j] # "none" /\ task' = [task EXCEPT ![j] = "none"] /\ cur' = j
    BY <1>6 DEF Join, HandleResult
  <2>2. TasksMove
    BY <1>t, <2>1 DEF TasksMove
  <2>3. job' = job \/ (job[j].status = "Running" /\ Only(j, "Failed", job'))
    BY <1>t, <1>6, Handling DEF Join
  <2> QED
    BY <1>2, <2>2, <2>3, KeptSame, KeptEnding
<1>7. CASE Reliability
  <2>1. task' = task /\ cur' = cur
    BY <1>7 DEF Reliability
  <2>2. job' = job \/ \E c : job' = [job EXCEPT ![cur].class = c]
    BY <1>7 DEF Reliability, Commit
  <2>3. \A i \in Jobs : job'[i].status = job[i].status /\ job'[i].key = job[i].key
    BY <1>t, <2>2 DEF Record
  <2>4. Kept
    BY <2>1, <2>3 DEF Kept, Pushed
  <2> QED
    BY <1>2, <2>4
<1>8. CASE Requeue
  <2>1. task' = task /\ cur' = cur /\ cur \in Jobs
    BY <1>8 DEF Requeue, IInv, RetryAllowed, TypeOK
  <2>2. CASE job' = job
    BY <1>2, <2>1, <2>2, KeptSame DEF TasksMove
  <2>3. CASE job' # job
    <3>1. /\ job[cur].status = "Failed" /\ job'[cur].status = "Queued"
          /\ job'[cur].key = job[cur].key
          /\ \A i \in Jobs : i # cur => job'[i] = job[i]
      BY <1>8, <1>t, <2>1, <2>3 DEF Requeue, Set, Record
    <3>2. Kept
      BY <2>1, <3>1 DEF Kept, Pushed
    <3> QED
      BY <1>2, <3>2
  <2> QED
    BY <2>2, <2>3
<1> QED
  BY <1>3, <1>4, <1>5, <1>6, <1>7, <1>8

\* A job is added as queued, in the life of the process that adds it.
LEMMA SubmitLife ==
  ASSUME IInv, LifeInv, NEW c \in callers, SubmitCommit(c)
  PROVE  /\ TodoActive' /\ WorkUnfinished' /\ PushCurrent'
         /\ \A j \in Jobs : job[j].status = "Succeeded" =>
                              job'[j].status \in {"Succeeded", "absent"}
<1> USE DEF store, volatile, worker, env, history
<1>t. /\ job \in [Jobs -> Record] /\ nextId \in Nat /\ todo \subseteq Jobs
      /\ task \in [Jobs -> {"none"} \cup Live \cup Outcomes] /\ born \in [Jobs -> Nat]
  BY ConstantsAssumption DEF IInv, TypeOK
<1>1. UNCHANGED <<pc, cur, task, todo, crashes, faults, writable>>
  BY DEF SubmitCommit
<1>2. CASE UNCHANGED <<store, history>>
  <2>1. Kept
    BY <1>1, <1>2, KeptSame DEF TasksMove
  <2>2. Around
    BY <1>1, <1>2 DEF Around
  <2>3. TypeOK
    BY DEF IInv
  <2> QED
    BY <1>2, <2>1, <2>2, <2>3, GentleKeeps
<1>3. CASE ~ UNCHANGED <<store, history>>
  <2> DEFINE new == [status |-> "Queued", key |-> c[1], prio |-> c[2],
                     attempt |-> 1, class |-> "none", detail |-> "none"]
             excess == Cardinality(With(Statuses)) + 1 - MaxStored
             evicted == IF excess > 0 THEN Oldest(With(Terminal), excess) ELSE {}
  <2>1. /\ job' = [Remove(evicted) EXCEPT ![nextId] = new]
        /\ born' = [born EXCEPT ![nextId] = crashes] /\ nextId <= MaxJobs
    BY <1>3 DEF SubmitCommit
  <2>2. nextId \in Jobs
    BY <1>t, <2>1, ConstantsAssumption DEF IInv, TypeOK, Jobs
  <2>3. evicted \subseteq With(Terminal)
    BY DEF Oldest
  <2> HIDE DEF evicted
  <2>4. job'[nextId] = new /\ job[nextId].status = "absent"
        /\ born'[nextId] = crashes /\ task[nextId] = "none"
    BY <1>t, <2>1, <2>2 DEF Remove, IInv, FreshIds
  <2>5. ASSUME NEW j \in Jobs, j # nextId
        PROVE  /\ born'[j] = born[j]
               /\ \/ job'[j] = job[j]
                  \/ job'[j].status = "absent" /\ job[j].status \in Terminal
    BY <1>t, <2>1, <2>2, <2>3, <2>5, BlankRecord DEF Remove, With
  <2> HIDE DEF new
  <2>6. TodoActive'
    BY <1>t, <1>1, <2>4, <2>5 DEF LifeInv, TodoActive, Active, Terminal
  <2>7. WorkUnfinished'
    BY <1>1, <2>4, <2>5 DEF LifeInv, WorkUnfinished
  <2>8. PushCurrent'
    BY <1>1, <2>4, <2>5 DEF LifeInv, PushCurrent, Pushed, Push, KindOfJob
  <2> QED
    BY <2>4, <2>5, <2>6, <2>7, <2>8
<1> QED
  BY <1>2, <1>3

\* An exit leaves nothing behind but the file, on which a commit in flight may
\* have recorded a result over a running job.
LEMMA DieLife ==
  ASSUME IInv, LifeInv, Die
  PROVE  /\ TodoActive' /\ WorkUnfinished' /\ PushCurrent'
         /\ \A j \in Jobs : job[j].status = "Succeeded" => job'[j].status = "Succeeded"
<1> USE DEF store, volatile, worker, env, history
<1>1. /\ pc' = "down" /\ todo' = {} /\ UNCHANGED <<writable, faults, born>>
      /\ \A j \in Jobs : task'[j] = "none"
  BY DEF Die
<1>2. TodoActive' /\ WorkUnfinished'
  BY <1>1 DEF TodoActive, WorkUnfinished
<1>3. PushCurrent'
  BY <1>1 DEF LifeInv, PushCurrent
<1>4. ASSUME NEW j \in inflight, NEW next \in Finish(j), Commit(next)
      PROVE  \A i \in Jobs : job[i].status = "Succeeded" => job'[i].status = "Succeeded"
  <2>1. j \in Jobs /\ job[j].status = "Running" /\ job \in [Jobs -> Record]
    BY DEF IInv, TypeOK, InflightRunning
  <2>2. job' = job \/ Only(j, "Succeeded", job') \/ Only(j, "Failed", job')
    BY <1>4, <2>1, Finishing DEF Commit
  <2> QED
    BY <2>1, <2>2 DEF Only
<1>5. \A j \in Jobs : job[j].status = "Succeeded" => job'[j].status = "Succeeded"
  BY <1>4 DEF Die
<1> QED
  BY <1>2, <1>3, <1>5

\* Recovery visits the active jobs only, and cancels every push among them.
LEMMA RecoverLife ==
  ASSUME IInv, LifeInv, NEW j \in Jobs, Start \/ RecoverJob(j) \/ RecoverDone
  PROVE  /\ TodoActive' /\ WorkUnfinished' /\ PushCurrent'
         /\ \A i \in Jobs : job[i].status = "Succeeded" => job'[i].status = "Succeeded"
<1> USE DEF store, volatile, worker, env, history
<1>t. job \in [Jobs -> Record] /\ todo \subseteq Jobs /\ Jobs \subseteq Nat \ {0}
  BY ConstantsAssumption DEF IInv, TypeOK, Jobs
<1>1. /\ UNCHANGED <<cur, task, born, crashes, faults, writable>>
      /\ cur = 0 /\ \A i \in Jobs : task[i] = "none"
  BY DEF Start, RecoverJob, RecoverDone, LifeInv, NoTaskLeft
<1>2. WorkUnfinished'
  BY <1>1 DEF WorkUnfinished
<1>3. CASE Start
  <2>1. job' = job /\ pc' = "recover" /\ todo' = With(Active)
    BY <1>3 DEF Start
  <2>2. TodoActive'
    BY <2>1 DEF TodoActive, With
  <2>3. PushCurrent'
    BY <1>t, <1>1, <2>1 DEF LifeInv, PushCurrent, Pushed, With
  <2> QED
    BY <1>2, <2>1, <2>2, <2>3
<1>4. CASE RecoverDone
  <2>1. job' = job /\ pc = "recover" /\ todo = {} /\ todo' = {}
    BY <1>4 DEF RecoverDone
  <2>2. TodoActive'
    BY <2>1 DEF TodoActive
  <2>3. PushCurrent'
    BY <1>1, <2>1 DEF LifeInv, PushCurrent, Pushed, Push, KindOfJob
  <2> QED
    BY <1>2, <2>1, <2>2, <2>3
<1>5. CASE RecoverJob(j)
  <2>1. pc = "recover" /\ pc' = "recover" /\ j \in todo /\ todo' = todo \ {j}
    BY <1>5 DEF RecoverJob
  <2>2. job[j].status \in Active
    BY <2>1 DEF LifeInv, TodoActive
  <2>3. \/ job' = job
        \/ \E s \in {"Canceled", "Failed"} : Only(j, s, job')
    BY <1>5, <1>t, <2>2, Rewriting DEF RecoverJob, Update, Commit
  <2>4. writable /\ Push(j) => job'[j].status = "Canceled"
    <3>1. ASSUME writable, Push(j) PROVE job' = Set(j, "Canceled")
      BY <1>5, <2>2, <3>1 DEF RecoverJob, Push, Update, Commit, Active
    <3> QED
      BY <1>t, <3>1, Rewriting DEF Only
  <2>5. TodoActive'
    BY <1>t, <2>1, <2>3 DEF LifeInv, TodoActive, Only
  <2>6. PushCurrent'
    <3>1. ASSUME faults' = 0, NEW i \in Jobs, Push(i)', job'[i].status # "absent", Pushed(i)'
          PROVE  born'[i] = crashes' \/ i \in todo'
      <4>1. Push(i) /\ job[i].status # "absent"
        BY <2>2, <2>3, <3>1 DEF Push, KindOfJob, Only, Active
      <4>2. job'[i].status \in Active
        BY <1>t, <1>1, <3>1 DEF Pushed
      <4>3. i # j
        BY <1>1, <2>4, <3>1, <4>1, <4>2 DEF LifeInv, PushCurrent, Active
      <4>4. job[i].status \in Active
        BY <2>3, <4>2, <4>3 DEF Only
      <4> QED
        BY <1>1, <2>1, <3>1, <4>1, <4>3, <4>4 DEF LifeInv, PushCurrent, Pushed
    <3>2. faults' = 0 => writable'
      BY <1>1 DEF LifeInv, PushCurrent
    <3> QED
      BY <2>1, <3>1, <3>2 DEF PushCurrent
  <2>7. \A i \in Jobs : job[i].status = "Succeeded" => job'[i].status = "Succeeded"
    BY <2>2, <2>3 DEF Only, Active
  <2> QED
    BY <1>2, <2>5, <2>6, <2>7
<1> QED
  BY <1>3, <1>4, <1>5

\* What no step does to a success while the worker runs.
SuccessKept ==
  pc \notin {"drainMark", "stopped"} =>
    \A j \in Jobs : job[j].status = "Succeeded" =>
                     job'[j].status \in {"Succeeded", "absent"}

\* Every step keeps what is known of the life of a job.
LEMMA LifeStep ==
  ASSUME IInv, LifeInv, Next
  PROVE  LifeInv' /\ SuccessKept
<1> DEFINE Goal == TodoActive' /\ WorkUnfinished' /\ PushCurrent' /\ SuccessKept
<1>0. TypeOK /\ NoTaskLeft /\ WorkUnfinished
  BY DEF IInv, LifeInv
<1>1. ASSUME Kept, Around PROVE Goal
  BY <1>0, <1>1, GentleKeeps DEF Kept, SuccessKept
<1>2. 1 \in Jobs
  BY ConstantsAssumption DEF Jobs
<1>3. ASSUME NEW c \in callers, SubmitCommit(c) PROVE Goal
  BY <1>3, SubmitLife DEF SuccessKept
<1>4. ASSUME NEW j \in Jobs, RecoverJob(j) PROVE Goal
  BY <1>4, RecoverLife DEF SuccessKept
<1>5. ASSUME Start \/ RecoverDone PROVE Goal
  BY <1>2, <1>5, RecoverLife DEF SuccessKept
<1>6. ASSUME Crash \/ Exit PROVE Goal
  BY <1>6, DieLife DEF SuccessKept, Crash, Exit
<1> HIDE DEF Goal
<1>7. ASSUME NEW j \in Jobs, JobStep(j) PROVE Goal
  <2>1. CASE \/ SubmitSend(j) \/ SignalLost(j) \/ ReorderSend(j) \/ RetryGate(j)
             \/ (\E p \in Priorities : SetPriority(j, p))
             \/ Cancel(j) \/ CancelAbort(j) \/ BackoffElapses(j) \/ TimerFires(j)
    BY <1>1, <2>1, GentleOutside
  <2>2. CASE \/ TaskStart(j) \/ TaskComplete(j) \/ ScrapeMissing(j) \/ TaskEnd(j)
             \/ DrainJoin(j) \/ InflightLands(j) \/ DrainMark(j)
    BY <1>0, <1>1, <2>2, GentleTask
  <2>3. CASE Claim(j) \/ Join(j)
    BY <1>1, <2>3, GentleWorker
  <2>4. CASE RecoverJob(j)
    BY <1>4, <2>4
  <2> QED
    BY <1>7, <2>1, <2>2, <2>3, <2>4 DEF JobStep
<1>8. ASSUME \/ ClearFinished \/ RequestShutdown \/ DiskFails \/ DiskRecovers
             \/ (\E k \in Keys : SubmitGate(k))
      PROVE  Goal
  BY <1>1, <1>2, <1>8, GentleOutside
<1>9. ASSUME BeginDrain \/ DrainExpire \/ DrainList \/ DrainDone PROVE Goal
  BY <1>0, <1>1, <1>2, <1>9, GentleTask
<1>10. ASSUME \/ Absorb \/ EndAbsorb \/ EndAdmit \/ IdleTick \/ Archive
              \/ Reliability \/ Requeue
       PROVE  Goal
  BY <1>1, <1>2, <1>10, GentleWorker
<1>11. Goal
  BY <1>3, <1>5, <1>6, <1>7, <1>8, <1>9, <1>10 DEF Next
<1>12. NoTaskLeft'
  BY <1>0, NoTaskLeftKept
<1> QED
  BY <1>11, <1>12 DEF Goal, LifeInv

\* It is an invariant beside IInv.
LEMMA LifeInvariant == Spec => [](IInv /\ LifeInv)
<1>1. Init => LifeInv
  BY BlankRecord, ConstantsAssumption
     DEF Init, LifeInv, NoTaskLeft, TodoActive, WorkUnfinished, PushCurrent, Pushed, Active, Jobs
<1>2. LifeInv /\ UNCHANGED vars => LifeInv'
  BY DEF LifeInv, NoTaskLeft, TodoActive, WorkUnfinished, PushCurrent, Pushed, Push, KindOfJob,
     vars, store, volatile, worker, env, history
<1>3. IInv /\ LifeInv /\ [Next]_vars => LifeInv'
  BY <1>2, LifeStep
<1> QED
  BY <1>1, <1>3, Invariance, PTL DEF Spec

\* A success on record stays one as long as the worker runs: no late handler,
\* timeout, cancellation or restart turns it into a failure.
THEOREM SuccessesStay == Spec => SuccessStays
<1>1. IInv /\ LifeInv /\ [Next]_vars => SuccessKept \/ UNCHANGED job
  BY LifeStep DEF vars, store
<1> QED
  BY <1>1, LifeInvariant, PTL DEF Spec, SuccessStays, SuccessKept

\* Whose external work a step may start.
PushOfThisLife ==
  \A j \in Jobs : KindOfJob(j) = "PushDispatch" /\ execs'[j] > execs[j] /\ faults = 0
                    => born[j] = crashes

\* Only the start of a task executes a job, and its job is running.
LEMMA ExecutingStep ==
  ASSUME IInv, Next
  PROVE  \/ execs' = execs
         \/ \E j \in Jobs : /\ task[j] = "spawned" /\ job[j].status = "Running"
                            /\ execs' = [execs EXCEPT ![j] = @ + 1]
<1> USE DEF store, volatile, worker, env, history
<1>t. TypeOK /\ InflightRunning /\ 1 \in Jobs
  BY ConstantsAssumption DEF IInv, Jobs
<1>1. ASSUME TameStep PROVE execs' = execs
  BY <1>1 DEF TameStep
<1>2. ASSUME NEW j \in Jobs, TaskStart(j)
      PROVE  \/ execs' = execs
             \/ /\ task[j] = "spawned" /\ job[j].status = "Running"
                /\ execs' = [execs EXCEPT ![j] = @ + 1]
  BY <1>2 DEF TaskStart
<1>3. ASSUME NEW j \in Jobs, Claim(j) \/ Join(j) PROVE execs' = execs
  BY <1>3 DEF Claim, Join
<1>4. ASSUME Reliability \/ Requeue PROVE execs' = execs
  BY <1>4 DEF Reliability, Requeue
<1>5. ASSUME NEW c \in callers, SubmitCommit(c) PROVE execs' = execs
  BY <1>5 DEF SubmitCommit
<1>6. ASSUME NEW j \in Jobs, JobStep(j)
      PROVE  \/ execs' = execs
             \/ /\ task[j] = "spawned" /\ job[j].status = "Running"
                /\ execs' = [execs EXCEPT ![j] = @ + 1]
  BY <1>t, <1>1, <1>2, <1>3, <1>6, TameOutside, TameTask, TameWorker DEF JobStep
<1>7. CASE \/ ClearFinished \/ RequestShutdown \/ DiskFails \/ DiskRecovers
           \/ (\E k \in Keys : SubmitGate(k))
  BY <1>t, <1>1, <1>7, TameOutside
<1>8. CASE BeginDrain \/ DrainExpire \/ DrainList \/ DrainDone
  BY <1>t, <1>1, <1>8, TameTask
<1>9. CASE \/ Absorb \/ EndAbsorb \/ EndAdmit \/ IdleTick \/ Archive
           \/ Crash \/ Exit \/ Start \/ RecoverDone
  BY <1>t, <1>1, <1>9, TameWorker
<1> QED
  BY <1>4, <1>5, <1>6, <1>7, <1>8, <1>9 DEF Next

\* A notification left unfinished by one process is not sent by the next.
THEOREM PushesNotReplayed == Spec => PushNotReplayed
<1>1. ASSUME IInv, LifeInv, Next PROVE PushOfThisLife
  <2>1. CASE execs' = execs
    <3>1. \A j \in Jobs : ~(execs'[j] > execs[j])
      BY <1>1, <2>1 DEF IInv, TypeOK
    <3> QED
      BY <3>1 DEF PushOfThisLife
  <2>2. ASSUME NEW i \in Jobs, task[i] = "spawned", job[i].status = "Running",
               execs' = [execs EXCEPT ![i] = @ + 1]
        PROVE  PushOfThisLife
    <3>1. \A j \in Jobs : execs'[j] > execs[j] => j = i
      BY <1>1, <2>2 DEF IInv, TypeOK
    <3>2. pc \notin {"down", "recover"}
      BY <1>1, <2>2 DEF LifeInv, NoTaskLeft
    <3>3. Push(i) /\ faults = 0 => born[i] = crashes
      BY <1>1, <2>2, <3>2 DEF LifeInv, PushCurrent, Pushed
    <3> QED
      BY <3>1, <3>3 DEF PushOfThisLife, Push
  <2> QED
    BY <1>1, <2>1, <2>2, ExecutingStep
<1>2. IInv /\ LifeInv /\ [Next]_vars => PushOfThisLife \/ UNCHANGED execs
  BY <1>1 DEF vars, history
<1> QED
  BY <1>2, LifeInvariant, PTL DEF Spec, PushNotReplayed, PushOfThisLife
----------------------------------------------------------------------------
(* Recovery on its own.                                                    *)

\* Recovery has looked at the job and left it queued.
Visited(i) == job[i].status = "Queued" /\ i \notin todo

\* The keys it has met speak for every job it found running, which it fails,
\* and every job it left queued; the visited jobs have different keys.
RecoverInv ==
  /\ job \in [Jobs -> Record] /\ writable = TRUE /\ inflight = {} /\ crashes \in Nat
  /\ pc \in {"down", "recover", "absorb"}
  /\ \A k \in seen : KindOf[k] # "PushDispatch"
  /\ pc = "down" /\ crashes = 0 => \A j \in Jobs : job[j].status # "Failed"
  /\ RecoveryKeepsOne
  /\ pc = "recover" =>
       /\ \A j \in Jobs : job[j].status \in Active /\ j \notin todo =>
            job[j].status = "Queued" /\ ~Push(j) /\ job[j].key \in seen
       /\ \A i, j \in Jobs : Visited(i) /\ Visited(j) /\ job[i].key = job[j].key => i = j
       /\ \A j \in Jobs :
            \/ job[j].status = "Running" /\ ~Push(j)
            \/ job[j].status = "Failed" /\ crashes = 0
            => /\ job[j].key \in seen
               /\ \A i \in Jobs : Visited(i) => job[i].key # job[j].key

\* A start collects the keys of the jobs it found running.
LEMMA StartKeeps ==
  ASSUME RecoverInv, Start
  PROVE  RecoverInv'
<1> USE DEF store, volatile, env, history
<1>1. /\ UNCHANGED <<job, writable, inflight, crashes>>
      /\ pc = "down" /\ pc' = "recover" /\ todo' = With(Active)
      /\ seen' = {job[j].key : j \in {i \in With({"Running"}) : KindOfJob(i) # "PushDispatch"}}
  BY DEF Start
<1>2. \A j \in Jobs : job[j].status \in Active => j \in todo'
  BY <1>1 DEF With
<1>3. \A i \in Jobs : ~Visited(i)'
  BY <1>1, <1>2 DEF Visited, Active
<1>4. \A j \in Jobs : job[j].status = "Running" /\ ~Push(j) => job[j].key \in seen'
  BY <1>1 DEF With, Push
<1>5. \A k \in seen' : KindOf[k] # "PushDispatch"
  BY <1>1 DEF KindOfJob
<1>6. RecoveryKeepsOne'
  BY <1>1 DEF RecoveryKeepsOne, With
<1>7. crashes' = 0 => \A j \in Jobs : job'[j].status # "Failed"
  BY <1>1 DEF RecoverInv
<1> QED
  BY <1>1, <1>2, <1>3, <1>4, <1>5, <1>6, <1>7 DEF RecoverInv, Push, KindOfJob

\* One job of the file is settled.
LEMMA RecoverKeeps ==
  ASSUME RecoverInv, NEW j \in Jobs, RecoverJob(j)
  PROVE  RecoverInv'
<1> USE DEF store, volatile, env, history
<1>t. /\ job \in [Jobs -> Record] /\ writable = TRUE
      /\ pc = "recover" /\ pc' = "recover" /\ j \in todo /\ todo' = todo \ {j}
      /\ UNCHANGED <<writable, inflight, crashes>>
  BY DEF RecoverInv, RecoverJob
<1>0. \A s : Update(j, Set(j, s)) =>
               (job' = job /\ job[j].status = "absent") \/ Only(j, s, job')
  BY <1>t, Rewriting DEF Update, Commit
<1>1. Update(j, Fail(j, "permanent")) =>
        (job' = job /\ job[j].status = "absent") \/ Only(j, "Failed", job')
  BY <1>t, Rewriting DEF Update, Commit
<1>2. job' \in [Jobs -> Record]
  <2>1. \A s \in Terminal : Set(j, s) \in [Jobs -> Record]
    BY <1>t DEF Set, Record, Statuses, Terminal, Classes
  <2>2. Fail(j, "permanent") \in [Jobs -> Record]
    BY <1>t DEF Fail, Record, Statuses, Terminal, Classes
  <2> QED
    BY <1>t, <2>1, <2>2 DEF RecoverJob, Update, Commit, Terminal
<1>3. \A k \in seen : \E i \in Jobs :
        /\ job[i].key = k
        /\ job[i].status \in {"Running", "Failed"} \/ Visited(i)
  BY DEF RecoverInv, RecoveryKeepsOne, Visited
\* A push, or a duplicate of a key met before, is canceled.
<1>4. ASSUME seen' = seen, (job' = job /\ job[j].status = "absent") \/ Only(j, "Canceled", job'),
             Push(j) \/ (job[j].status = "Queued" /\ job[j].key \in seen)
      PROVE  RecoverInv'
  <2>1. \A i \in Jobs : i # j => job'[i] = job[i] /\ (i \in todo' <=> i \in todo)
    BY <1>t, <1>4 DEF Only
  <2>2. job'[j].status \notin Active \cup {"Failed"} /\ job'[j].key = job[j].key
    BY <1>4 DEF Only, Active
  <2>3. RecoveryKeepsOne'
    <3>1. ASSUME NEW k \in seen
          PROVE  \E i \in Jobs : /\ job'[i].key = k
                                 /\ job'[i].status \in {"Running", "Failed"} \/ Visited(i)'
      <4>1. PICK i \in Jobs : /\ job[i].key = k
                              /\ job[i].status \in {"Running", "Failed"} \/ Visited(i)
        BY <1>3
      <4>2. i # j
        BY <1>t, <1>4, <4>1 DEF Visited, RecoverInv, Push, KindOfJob
      <4> QED
        BY <2>1, <4>1, <4>2 DEF Visited
    <3> QED
      BY <1>4, <3>1 DEF RecoveryKeepsOne, Visited
  <2>4. \A i \in Jobs : Visited(i)' => i # j /\ Visited(i)
    BY <2>1, <2>2 DEF Visited, Active
  <2>5. \A i \in Jobs : Push(i)' <=> Push(i)
    BY <2>1, <2>2 DEF Push, KindOfJob
  <2> QED
    BY <1>t, <1>2, <1>4, <2>1, <2>2, <2>3, <2>4, <2>5 DEF RecoverInv, Active
\* A job found running is failed; its key has been met.
<1>5. ASSUME seen' = seen, ~Push(j), job[j].status = "Running", Only(j, "Failed", job')
      PROVE  RecoverInv'
  <2>1. \A i \in Jobs : i # j => job'[i] = job[i] /\ (i \in todo' <=> i \in todo)
    BY <1>t, <1>5 DEF Only
  <2>2. job'[j].status = "Failed" /\ job'[j].key = job[j].key
    BY <1>5 DEF Only
  <2>3. \A i \in Jobs : Visited(i)' <=> Visited(i)
    BY <1>5, <2>1, <2>2 DEF Visited
  <2>4. RecoveryKeepsOne'
    BY <1>3, <1>5, <2>1, <2>2, <2>3 DEF RecoveryKeepsOne, Visited
  <2>5. \A i \in Jobs : Push(i)' <=> Push(i)
    BY <2>1, <2>2 DEF Push, KindOfJob
  <2>6. job[j].key \in seen /\ \A i \in Jobs : Visited(i) => job[i].key # job[j].key
    BY <1>t, <1>5 DEF RecoverInv
  <2>7. \A i \in Jobs : Visited(i) => job'[i] = job[i]
    BY <1>5, <2>1 DEF Visited
  <2> QED
    BY <1>t, <1>2, <1>5, <2>1, <2>2, <2>3, <2>4, <2>5, <2>6, <2>7 DEF RecoverInv, Active
\* The first queued job of its key stays.
<1>6. ASSUME ~Push(j), job[j].status = "Queued", job[j].key \notin seen,
             seen' = seen \cup {job[j].key}, job' = job
      PROVE  RecoverInv'
  <2>1. \A i \in Jobs : Visited(i)' <=> i = j \/ Visited(i)
    BY <1>t, <1>6 DEF Visited
  <2>2. RecoveryKeepsOne'
    BY <1>3, <1>6, <2>1 DEF RecoveryKeepsOne, Visited
  <2>3. \A i \in Jobs : Visited(i) => job[i].key \in seen
    BY <1>t DEF RecoverInv, Visited, Active
  <2>4. \A k \in seen' : KindOf[k] # "PushDispatch"
    BY <1>6 DEF RecoverInv, Push, KindOfJob
  <2>5. \A i \in Jobs : Push(i)' <=> Push(i)
    BY <1>6 DEF Push, KindOfJob
  <2> QED
    BY <1>t, <1>2, <1>6, <2>1, <2>2, <2>3, <2>4, <2>5 DEF RecoverInv, Active
<1> QED
  BY <1>0, <1>1, <1>4, <1>5, <1>6 DEF RecoverJob, Push

\* Every step of a recovery, its crashes and restarts keep what it owes.
LEMMA RecoverStep == RecoverInv /\ [RecoveryNext]_vars => RecoverInv'
<1> USE DEF store, volatile, worker, env, history
<1> SUFFICES ASSUME RecoverInv, [RecoveryNext]_vars PROVE RecoverInv'
  OBVIOUS
<1>1. CASE UNCHANGED vars
  BY <1>1 DEF RecoverInv, RecoveryKeepsOne, Visited, Push, KindOfJob, vars
<1>2. CASE RecoverDone
  BY <1>2 DEF RecoverDone, RecoverInv, RecoveryKeepsOne
<1>3. CASE Crash
  <2>1. /\ UNCHANGED <<job, writable>> /\ inflight' = {} /\ seen' = {} /\ pc' = "down"
        /\ crashes' = crashes + 1
    BY <1>3 DEF Crash, Die, RecoverInv
  <2>2. crashes' \in Nat /\ crashes' # 0
    BY <2>1 DEF RecoverInv
  <2> QED
    BY <2>1, <2>2 DEF RecoverInv, RecoveryKeepsOne
<1> QED
  BY <1>1, <1>2, <1>3, StartKeeps, RecoverKeeps DEF RecoveryNext

\* It is an invariant of the recovery.
LEMMA RecoverInvariance == RecoverySpec => []RecoverInv
<1>1. RecoveryInit => RecoverInv
  <2> SUFFICES ASSUME RecoveryInit PROVE RecoverInv
    OBVIOUS
  <2>1. \A k \in Keys : default_priority(KindOf[k]) \in Levels
    BY ConstantsAssumption DEF default_priority, Levels, Kinds
  <2>2. StoredRecord \subseteq Record
    BY <2>1, BlankRecord, ConstantsAssumption
       DEF StoredRecord, Record, Statuses, Active, Terminal, Classes
  <2>3. \A r \in StoredRecord : r.status # "Failed"
    BY BlankRecord DEF StoredRecord, Active
  <2> QED
    BY <2>2, <2>3 DEF RecoveryInit, RecoverInv, RecoveryKeepsOne
<1> QED
  BY <1>1, RecoverStep, PTL DEF RecoverySpec

\* Recovery never cancels the last of the jobs of a key: whatever it found in
\* the file, one is left queued, or was interrupted and can be retried.
THEOREM RecoveryKeepsAJob == RecoverySpec => []RecoveryKeepsOne
<1>1. RecoverInv => RecoveryKeepsOne
  BY DEF RecoverInv
<1> QED
  BY <1>1, RecoverInvariance, PTL

\* What recovery hands to the worker.
Settled ==
  pc = "recover" /\ pc' = "absorb" =>
    \A i, j \in Jobs :
      /\ job[i].status # "Running"
      /\ KindOfJob(i) = "PushDispatch" => job[i].status # "Queued"
      /\ job[i].status = "Queued" /\ job[j].key = job[i].key =>
           /\ job[j].status = "Queued" => i = j
           /\ crashes = 0 => job[j].status # "Failed"

\* After any restart the worker finds nothing running, no push to send again
\* and one queued job per key, none of them for a key just interrupted.
THEOREM RecoveryIsComplete == RecoverySpec => RecoverySettles
<1>1. ASSUME RecoverInv, [RecoveryNext]_vars PROVE Settled
  <2> SUFFICES ASSUME pc = "recover", pc' = "absorb" PROVE Settled
    BY DEF Settled
  <2>1. todo = {}
    BY <1>1 DEF RecoveryNext, Start, RecoverJob, RecoverDone, Crash, Die, vars, worker
  <2>2. \A j \in Jobs : job[j].status = "Queued" <=> Visited(j)
    BY <2>1 DEF Visited
  <2>3. \A j \in Jobs : job[j].status \in Active =>
          job[j].status = "Queued" /\ ~Push(j)
    BY <1>1, <2>1 DEF RecoverInv
  <2> QED
    BY <1>1, <2>2, <2>3 DEF RecoverInv, Settled, Push, Active
<1>2. RecoverInv /\ [RecoveryNext]_vars => Settled \/ UNCHANGED pc
  BY <1>1
<1> QED
  BY <1>2, RecoverInvariance, PTL DEF RecoverySpec, RecoverySettles, Settled
=============================================================================
