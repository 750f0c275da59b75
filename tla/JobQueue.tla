------------------------------ MODULE JobQueue ------------------------------
(***************************************************************************)
(* The life of a background job: submission with an idempotency key, the   *)
(* wake-up channel, the single worker loop, the tasks it spawns, automatic *)
(* retry, cancellation, clearing and archiving, graceful shutdown, crash   *)
(* and restart (src/src/jobs/queue.rs, worker.rs, store.rs).               *)
(*                                                                         *)
(* The store is one variable: a commit holds the save lock until disk and  *)
(* memory agree, so readers see it happen at once (JobStore shows why).    *)
(* Which job the scheduler finds eligible is left open here; JobAdmission  *)
(* and FairScheduler model that choice.                                    *)
(***************************************************************************)
EXTENDS Integers, Sequences, FiniteSets

CONSTANTS
  Keys,          \* idempotency keys: the distinct (kind, payload) pairs
  KindOf,        \* the kind of the jobs submitted under a key
  Priorities,    \* the priorities an operator may choose
  MaxJobs,       \* bound: job records ever created
  MaxStored,     \* MAX_JOBS, the length the active list is truncated to
  Retain,        \* job_history_retain(), terminal jobs kept when archiving
  ArchiveBatch,  \* ARCHIVE_BATCH
  Capacity,      \* JOB_SIGNAL_CAPACITY
  MaxAttempts,   \* MAX_AUTO_ATTEMPTS
  MaxCrashes,    \* bound: process exits
  MaxFaults,     \* bound: times the job file becomes unwritable
  GraceExpires   \* whether a shutdown may outlast SHUTDOWN_GRACE_SECONDS

Kinds == {"ManualTransfer", "SubscriptionTransfer", "MetadataScrape", "PushDispatch"}
Levels == {"high", "normal", "low"}

ASSUME ConstantsAssumption ==
  /\ Keys # {} /\ KindOf \in [Keys -> Kinds]
  /\ Priorities \subseteq Levels
  /\ MaxJobs \in Nat \ {0} /\ MaxStored \in Nat /\ Retain \in Nat
  /\ ArchiveBatch \in Nat \ {0}
  /\ Capacity \in Nat \ {0}
  /\ MaxAttempts \in Nat \ {0}
  /\ MaxCrashes \in Nat /\ MaxFaults \in Nat
  /\ GraceExpires \in BOOLEAN

Jobs == 1 .. MaxJobs
Terminal == {"Succeeded", "Failed", "Canceled"}
Active == {"Queued", "Running"}
Statuses == Terminal \cup Active
Classes == {"none", "retryable", "permanent"}
Outcomes == {"ok", "err", "panicked", "timedout"}
Live == {"spawned", "working", "closing"}

\* The fields of a job record that decide what happens to it.
Record == [status : Statuses \cup {"absent"}, key : Keys, prio : Levels,
           attempt : 1 .. MaxAttempts,
           class : Classes,    \* error_class, as stored
           detail : Classes]   \* what the stored error and message classify as
\* What stands for no record.
Blank == CHOOSE r \in Record : r.status = "absent" /\ r.attempt = 1
                              /\ r.class = "none" /\ r.detail = "none"

VARIABLES
  job,        \* job[j]: the stored record; status "absent" when there is none
  nextId,     \* the id the next record gets; ids follow creation order
  backoff,    \* jobs whose next_attempt_at lies in the future
  channel,    \* the wake-up channel of job ids
  pending,    \* pending[j]: the priority snapshot in the scheduler, or "out"
  task,       \* task[j]: the spawned wrapper and its inner task
  timers,     \* jobs with a sleeping delayed-wake-up timer
  callers,    \* submissions past the shutdown gate, before add_idempotent
  submitting, \* jobs added whose submitter has still to send the signal
  reordering, \* jobs given a new priority whose caller has still to send
  pc,         \* where the worker loop is
  cur,        \* the job whose result the worker is handling, or 0
  shutdown,   \* the shutdown gate
  inflight,   \* a completion commit whose caller was aborted, still to land
  toMark,     \* the Running jobs listed at the end of a drain
  todo,       \* jobs the recovery scan has still to look at
  seen,       \* keys recovery has already met (interrupted or requeued)
  writable,   \* whether the job file can be written
  faults, crashes,
  execs,      \* history: how often the job's external work was started
  born        \* history: the value of crashes when the job was created

store == <<job, nextId>>
volatile == <<channel, pending, task, timers, callers, submitting, reordering>>
worker == <<pc, cur, shutdown, inflight, toMark, todo, seen>>
env == <<writable, faults, crashes>>
history == <<execs, born>>
vars == <<store, backoff, volatile, worker, env, history>>

----------------------------------------------------------------------------
KindOfJob(j) == KindOf[job[j].key]
supports_automatic_retry(kind) == kind \notin {"ManualTransfer", "SubscriptionTransfer"}
default_priority(kind) ==
  CASE kind \in {"ManualTransfer", "PushDispatch"} -> "high"
    [] kind = "SubscriptionTransfer" -> "normal"
    [] kind = "MetadataScrape" -> "low"

With(s) == {j \in Jobs : job[j].status \in s}
\* Mutation: a running job with the key does not count.
MutSame(k) == {j \in With({"Queued"}) : job[j].key = k}
Same(k) == {j \in With(Active) : job[j].key = k}

\* The n oldest members of a set of jobs.
Oldest(S, n) == {j \in S : Cardinality({i \in S : i < j}) < n}

\* A commit of the job file: all of it, or nothing when the write fails.
Commit(next) == job' = IF writable THEN next ELSE job
Set(j, s) == [job EXCEPT ![j].status = s, ![j].detail = "none"]
Fail(j, d) == [job EXCEPT ![j].status = "Failed", ![j].detail = d]
Finish(j) == {Set(j, "Succeeded"), Fail(j, "retryable"), Fail(j, "permanent")}
Remove(S) == [j \in Jobs |-> IF j \in S THEN Blank ELSE job[j]]

\* Mutation: update_if without its condition.
MutUpdateIf(j, from, next) == Commit(next)

\* update_if restricted to one status; update, which has no condition.
UpdateIf(j, from, next) == Commit(IF job[j].status = from THEN next ELSE job)
Update(j, next) == Commit(IF job[j].status = "absent" THEN job ELSE next)

Serving == pc \notin {"down", "recover"}
LockFree == inflight = {}

----------------------------------------------------------------------------
(* Operations of the API and of the background schedulers.                 *)

\* A submission reads the shutdown gate, then waits for the save lock; a
\* handler that queues a push (enqueue_push_dispatch) does not look at the gate.
SubmitGate(k) ==
  /\ Serving
  /\ \/ ~shutdown
     \/ KindOf[k] = "PushDispatch" /\ \E j \in Jobs : task[j] = "working"
  /\ nextId <= MaxJobs
  /\ callers' = callers \cup {<<k, default_priority(KindOf[k])>>}
  /\ UNCHANGED <<store, backoff, channel, pending, task, timers, submitting, reordering, worker, env, history>>

\* Mutation: retry puts the same record back in the queue.
MutRetryGate(j) ==
  /\ Serving /\ ~shutdown /\ LockFree
  /\ job[j].status \in {"Failed", "Canceled"}
  /\ job' = Set(j, "Queued")
  /\ submitting' = submitting \cup {j}
  /\ UNCHANGED <<nextId, backoff, channel, pending, task, timers, callers, reordering, worker, env, history>>

\* retry resubmits the payload and the priority of a failed or canceled job
\* (a manual save that saved something is refused, which is left open here).
RetryGate(j) ==
  /\ Serving /\ ~shutdown
  /\ job[j].status \in {"Failed", "Canceled"}
  /\ nextId <= MaxJobs
  /\ callers' = callers \cup {<<job[j].key, job[j].prio>>}
  /\ UNCHANGED <<store, backoff, channel, pending, task, timers, submitting, reordering, worker, env, history>>

\* add_idempotent: under the lock, an active job with the key answers for
\* the new one; otherwise it is appended and the list truncated.
SubmitCommit(c) ==
  /\ c \in callers /\ LockFree /\ nextId <= MaxJobs
  /\ callers' = callers \ {c}
  /\ IF Same(c[1]) # {} \/ ~writable
     THEN UNCHANGED <<store, submitting, history>>
     ELSE LET excess == Cardinality(With(Statuses)) + 1 - MaxStored
              new == [status |-> "Queued", key |-> c[1], prio |-> c[2],
                      attempt |-> 1, class |-> "none", detail |-> "none"]
              evicted == IF excess > 0 THEN Oldest(With(Terminal), excess) ELSE {}
          IN  /\ job' = [Remove(evicted) EXCEPT ![nextId] = new]
              /\ nextId' = nextId + 1
              /\ submitting' = submitting \cup {nextId}
              /\ born' = [born EXCEPT ![nextId] = crashes]
              /\ UNCHANGED execs
  /\ UNCHANGED <<backoff, channel, pending, task, timers, reordering, worker, env>>

\* The submitter wakes the worker; a worker that is gone fails the job.
SubmitSend(j) ==
  /\ j \in submitting
  /\ submitting' = submitting \ {j}
  /\ \/ /\ pc # "stopped" /\ Len(channel) < Capacity
        /\ channel' = Append(channel, j)
        /\ UNCHANGED job
     \/ /\ pc = "stopped" /\ LockFree
        /\ Update(j, Fail(j, "permanent"))
        /\ UNCHANGED channel
  /\ UNCHANGED <<nextId, backoff, pending, task, timers, callers, reordering, worker, env, history>>

\* enqueue_push_dispatch uses try_send, and a request future may be dropped
\* between the commit and the send: the job stays Queued with no signal.
SignalLost(j) ==
  /\ j \in submitting \cup reordering
  /\ submitting' = submitting \ {j}
  /\ reordering' = reordering \ {j}
  /\ UNCHANGED <<store, backoff, channel, pending, task, timers, callers, worker, env, history>>

\* The priority of a queued job is stored, then its id is sent again.  (Bound:
\* an operator who stores the same priority again and again is left out; one
\* who never stops doing it keeps the worker absorbing signals.)
SetPriority(j, p) ==
  /\ Serving /\ LockFree /\ writable
  /\ job[j].status = "Queued" /\ job[j].prio # p
  /\ job' = [job EXCEPT ![j].prio = p]
  /\ reordering' = reordering \cup {j}
  /\ UNCHANGED <<nextId, backoff, channel, pending, task, timers, callers, submitting, worker, env, history>>

\* Mutation: the signal channel has no bound.
MutReorderSend(j) ==
  /\ j \in reordering
  /\ reordering' = reordering \ {j}
  /\ channel' = Append(channel, j)
  /\ UNCHANGED <<store, backoff, pending, task, timers, callers, submitting, worker, env, history>>

ReorderSend(j) ==
  /\ j \in reordering
  /\ reordering' = reordering \ {j}
  /\ \/ pc # "stopped" /\ Len(channel) < Capacity /\ channel' = Append(channel, j)
     \/ pc = "stopped" /\ UNCHANGED channel
  /\ UNCHANGED <<store, backoff, pending, task, timers, callers, submitting, worker, env, history>>

\* A running job can be canceled only if it is a metadata scrape.
Cancel(j) ==
  /\ Serving /\ LockFree /\ writable
  /\ \/ job[j].status = "Queued"
     \/ job[j].status = "Running" /\ KindOfJob(j) = "MetadataScrape"
  /\ job' = Set(j, "Canceled")
  /\ UNCHANGED <<nextId, backoff, volatile, worker, env, history>>

\* cancel then takes the abort handle, if registered, and aborts the task;
\* the wrapper sees a cancelled join, reported like a panic.
CancelAbort(j) ==
  /\ task[j] \in Live /\ job[j].status = "Canceled"
  /\ task' = [task EXCEPT ![j] = "panicked"]
  /\ UNCHANGED <<store, backoff, channel, pending, timers, callers, submitting, reordering, worker, env, history>>

\* clear_finished drops every terminal record.
ClearFinished ==
  /\ Serving /\ LockFree /\ writable /\ With(Terminal) # {}
  /\ job' = Remove(With(Terminal))
  /\ UNCHANGED <<nextId, backoff, volatile, worker, env, history>>

RequestShutdown ==
  /\ Serving /\ ~shutdown /\ crashes < MaxCrashes
  /\ shutdown' = TRUE
  /\ UNCHANGED <<store, backoff, volatile, pc, cur, inflight, toMark, todo, seen, env, history>>

----------------------------------------------------------------------------
(* Time and the disk.                                                      *)

BackoffElapses(j) ==
  /\ j \in backoff
  /\ backoff' = backoff \ {j}
  /\ UNCHANGED <<store, volatile, worker, env, history>>

TimerFires(j) ==
  /\ j \in timers \ backoff
  /\ timers' = timers \ {j}
  /\ \/ pc # "stopped" /\ Len(channel) < Capacity /\ channel' = Append(channel, j)
     \/ pc = "stopped" /\ UNCHANGED channel
  /\ UNCHANGED <<store, backoff, pending, task, callers, submitting, reordering, worker, env, history>>

DiskFails ==
  /\ writable /\ faults < MaxFaults
  /\ writable' = FALSE /\ faults' = faults + 1
  /\ UNCHANGED <<store, backoff, volatile, worker, crashes, history>>

DiskRecovers ==
  /\ ~writable
  /\ writable' = TRUE
  /\ UNCHANGED <<store, backoff, volatile, worker, faults, crashes, history>>

----------------------------------------------------------------------------
(* The task of a claimed job: run_job and the handler of its kind.         *)

\* run_job reads the record again and does nothing unless it is Running.
TaskStart(j) ==
  /\ task[j] = "spawned"
  /\ IF job[j].status = "Running"
     THEN /\ task' = [task EXCEPT ![j] = "working"]
          /\ execs' = [execs EXCEPT ![j] = @ + 1]
     ELSE /\ task' = [task EXCEPT ![j] = "ok"]
          /\ UNCHANGED execs
  /\ UNCHANGED <<store, backoff, channel, pending, timers, callers, submitting, reordering, worker, env, born>>

\* complete_if_active: the handler records its result if still Running; a
\* failed write surfaces as an error of the handler.
TaskComplete(j) ==
  /\ task[j] = "working" /\ LockFree
  /\ \E next \in Finish(j) : UpdateIf(j, "Running", next)
  /\ task' = [task EXCEPT ![j] = IF writable THEN "closing" ELSE "err"]
  /\ UNCHANGED <<nextId, backoff, channel, pending, timers, callers, submitting, reordering, worker, env, history>>

\* run_metadata_scrape of a subscription that was deleted meanwhile uses
\* update, which does not look at the status.
ScrapeMissing(j) ==
  /\ task[j] = "working" /\ LockFree /\ KindOfJob(j) = "MetadataScrape"
  /\ Update(j, Fail(j, "permanent"))
  /\ task' = [task EXCEPT ![j] = IF writable THEN "closing" ELSE "err"]
  /\ UNCHANGED <<nextId, backoff, channel, pending, timers, callers, submitting, reordering, worker, env, history>>

\* The handler returns (an error before it recorded a result: a failed
\* external call, or update_running finding the job no longer Running), it
\* panics, or the watchdog finds no heartbeat, waits its grace and aborts.
TaskEnd(j) ==
  /\ \/ task[j] = "closing" /\ task' = [task EXCEPT ![j] = "ok"]
     \/ task[j] = "working" /\ job[j].status # "Running" /\ task' = [task EXCEPT ![j] = "ok"]
     \/ task[j] = "working" /\ task' = [task EXCEPT ![j] = "err"]
     \/ task[j] \in Live /\ task' = [task EXCEPT ![j] = "panicked"]
     \/ task[j] \in Live /\ task' = [task EXCEPT ![j] = "timedout"]
  /\ UNCHANGED <<store, backoff, channel, pending, timers, callers, submitting, reordering, worker, env, history>>

----------------------------------------------------------------------------
(* The worker loop.                                                        *)

\* queue_pending_job: only a job still Queued is pushed; one that waits for
\* its backoff gets a timer instead.
QueuePending(j) ==
  IF job[j].status # "Queued" THEN UNCHANGED <<pending, timers>>
  ELSE IF j \in backoff THEN timers' = timers \cup {j} /\ UNCHANGED pending
  ELSE pending' = [pending EXCEPT ![j] = job[j].prio] /\ UNCHANGED timers

Absorb ==
  /\ pc \in {"absorb", "select"} /\ channel # <<>>
  /\ QueuePending(Head(channel))
  /\ channel' = Tail(channel)
  /\ pc' = "absorb"
  /\ UNCHANGED <<store, backoff, task, callers, submitting, reordering, cur, shutdown, inflight, toMark, todo, seen, env, history>>

\* Mutation: no reconciliation with the store.
MutEndAbsorb ==
  /\ pc = "absorb" /\ channel = <<>>
  /\ pc' = "admit"
  /\ UNCHANGED <<store, backoff, volatile, cur, shutdown, inflight, toMark, todo, seen, env, history>>

\* With the channel drained, an empty scheduler is refilled from the store
\* (reconcile_queued_jobs).
EndAbsorb ==
  /\ pc = "absorb" /\ channel = <<>>
  /\ pc' = "admit"
  /\ pending' = IF \A j \in Jobs : pending[j] = "out"
                THEN [j \in Jobs |-> IF job[j].status = "Queued" /\ j \notin backoff
                                     THEN job[j].prio ELSE "out"]
                ELSE pending
  /\ UNCHANGED <<store, backoff, channel, task, timers, callers, submitting, reordering, cur, shutdown, inflight, toMark, todo, seen, env, history>>

\* Mutation: the claim does not look at the status again.
MutClaim(j) ==
  /\ pc = "admit" /\ pending[j] # "out" /\ LockFree
  /\ pending' = [pending EXCEPT ![j] = "out"]
  /\ Update(j, Set(j, "Running"))
  /\ task' = [task EXCEPT ![j] = "spawned"]
  /\ UNCHANGED <<nextId, backoff, channel, timers, callers, submitting, reordering, worker, env, history>>

\* pop_next and claim_job: the popped snapshot leaves the scheduler; the job
\* runs only if it is still Queued at the priority of the snapshot.
Claim(j) ==
  /\ pc = "admit" /\ pending[j] # "out" /\ LockFree
  /\ pending' = [pending EXCEPT ![j] = "out"]
  /\ IF job[j].status = "Queued" /\ job[j].prio = pending[j] /\ writable
     THEN job' = Set(j, "Running") /\ task' = [task EXCEPT ![j] = "spawned"]
     ELSE UNCHANGED <<job, task>>
  /\ UNCHANGED <<nextId, backoff, channel, timers, callers, submitting, reordering, worker, env, history>>

\* Nothing more is eligible, or maintenance mode pauses claiming.
EndAdmit ==
  /\ pc = "admit"
  /\ pc' = "select"
  /\ UNCHANGED <<store, backoff, volatile, cur, shutdown, inflight, toMark, todo, seen, env, history>>

\* Only a worker with no task wakes up by itself (30 s idle, 1 s waiting).
IdleTick ==
  /\ pc = "select" /\ \A j \in Jobs : task[j] = "none"
  /\ pc' = "absorb"
  /\ UNCHANGED <<store, backoff, volatile, cur, shutdown, inflight, toMark, todo, seen, env, history>>

\* Mutation: a task that fails is put back in the queue at once.
MutHandleResult(j) ==
  \/ task[j] = "ok" /\ UNCHANGED job
  \/ task[j] \in Outcomes \ {"ok"} /\ UpdateIf(j, "Running", Set(j, "Queued"))
\* Mutation: the outcome of a task that panicked is dropped.
MutDropPanic(j) ==
  \/ task[j] \in {"ok", "panicked"} /\ UNCHANGED job
  \/ /\ task[j] \in {"err", "timedout"}
     /\ UpdateIf(j, "Running", [Fail(j, "retryable") EXCEPT ![j].class = "retryable"])

\* handle_task_result: an outcome is written only over Running.
HandleResult(j) ==
  \/ task[j] = "ok" /\ UNCHANGED job
  \/ /\ task[j] = "err"
     /\ \E c \in {"retryable", "permanent"} :
          UpdateIf(j, "Running", [Fail(j, c) EXCEPT ![j].class = c])
  \/ /\ task[j] = "panicked"
     /\ \E c \in {"retryable", "permanent"} : UpdateIf(j, "Running", Fail(j, c))
  \/ /\ task[j] = "timedout"
     /\ UpdateIf(j, "Running", [Fail(j, "retryable") EXCEPT ![j].class = "retryable"])

Join(j) ==
  /\ pc = "select" /\ LockFree
  /\ HandleResult(j)
  /\ task' = [task EXCEPT ![j] = "none"]
  /\ pc' = "reliability" /\ cur' = j
  /\ UNCHANGED <<nextId, backoff, channel, pending, timers, callers, submitting, reordering, shutdown, inflight, toMark, todo, seen, env, history>>

\* apply_reliability, to the attached error class: the class stored on the
\* record wins over a classification of its message.
Reliability ==
  /\ pc = "reliability" /\ LockFree
  /\ LET rec == job[cur] IN
     CASE rec.status = "Succeeded" ->
            /\ Commit([job EXCEPT ![cur].class = "none"])
            /\ backoff' = IF writable THEN backoff \ {cur} ELSE backoff
            /\ pc' = "archive"
       [] rec.status = "Failed" ->
            LET c == IF rec.class # "none" THEN rec.class ELSE rec.detail IN
              /\ Commit([job EXCEPT ![cur].class = c])
              /\ pc' = IF /\ supports_automatic_retry(KindOfJob(cur))
                          /\ c = "retryable" /\ rec.attempt < MaxAttempts
                       THEN "requeue" ELSE "archive"
              /\ UNCHANGED backoff
       [] OTHER -> pc' = "archive" /\ UNCHANGED <<job, backoff>>
  /\ UNCHANGED <<nextId, volatile, cur, shutdown, inflight, toMark, todo, seen, env, history>>

\* ... and the automatic retry: back to Queued with a timer for the backoff.
Requeue ==
  /\ pc = "requeue" /\ LockFree
  /\ IF job[cur].status = "Failed" /\ writable
     THEN /\ job' = [Set(cur, "Queued") EXCEPT ![cur].attempt = @ + 1]
          /\ backoff' = backoff \cup {cur}
          /\ timers' = timers \cup {cur}
     ELSE UNCHANGED <<job, backoff, timers>>
  /\ pc' = "archive"
  /\ UNCHANGED <<nextId, channel, pending, task, callers, submitting, reordering, cur, shutdown, inflight, toMark, todo, seen, env, history>>

\* archive_completed moves the oldest terminal jobs out of the active list.
Archive ==
  /\ pc = "archive" /\ LockFree
  /\ LET done == With(Terminal)
         excess == Cardinality(done) - Retain IN
     Commit(IF excess >= ArchiveBatch THEN Remove(Oldest(done, excess)) ELSE job)
  /\ pc' = "absorb" /\ cur' = 0
  /\ UNCHANGED <<nextId, backoff, volatile, shutdown, inflight, toMark, todo, seen, env, history>>

----------------------------------------------------------------------------
(* Graceful shutdown: drain_for_shutdown.                                  *)

BeginDrain ==
  /\ pc \in {"absorb", "select"} /\ shutdown
  /\ pc' = "drain"
  /\ UNCHANGED <<store, backoff, volatile, cur, shutdown, inflight, toMark, todo, seen, env, history>>

DrainJoin(j) ==
  /\ pc = "drain" /\ LockFree
  /\ HandleResult(j)
  /\ task' = [task EXCEPT ![j] = "none"]
  /\ UNCHANGED <<nextId, backoff, channel, pending, timers, callers, submitting, reordering, worker, env, history>>

\* Past the grace period every task is aborted. An aborted handler may have
\* dispatched its completion commit, which finishes on its own.
DrainExpire ==
  /\ pc = "drain" /\ GraceExpires
  /\ \E j \in Jobs : task[j] # "none"
  /\ task' = [j \in Jobs |-> "none"]
  /\ inflight' \in {{}} \cup {{j} : j \in {i \in With({"Running"}) : task[i] = "working"}}
  /\ UNCHANGED <<store, backoff, channel, pending, timers, callers, submitting, reordering, pc, cur, shutdown, toMark, todo, seen, env, history>>

InflightLands(j) ==
  /\ j \in inflight
  /\ \E next \in Finish(j) : Commit(next)
  /\ inflight' = {}
  /\ UNCHANGED <<nextId, backoff, volatile, pc, cur, shutdown, toMark, todo, seen, env, history>>

\* The remaining Running jobs are listed without the save lock ...
DrainList ==
  /\ pc = "drain" /\ \A j \in Jobs : task[j] = "none"
  /\ toMark' = With({"Running"})
  /\ pc' = "drainMark"
  /\ UNCHANGED <<store, backoff, volatile, cur, shutdown, inflight, todo, seen, env, history>>

\* ... and then marked interrupted one by one, whatever they are by now.
DrainMark(j) ==
  /\ pc = "drainMark" /\ j \in toMark /\ LockFree
  /\ Update(j, Fail(j, "permanent"))
  /\ toMark' = toMark \ {j}
  /\ UNCHANGED <<nextId, backoff, volatile, pc, cur, shutdown, inflight, todo, seen, env, history>>

DrainDone ==
  /\ pc = "drainMark" /\ toMark = {} /\ LockFree
  /\ pc' = "stopped"
  /\ UNCHANGED <<store, backoff, volatile, cur, shutdown, inflight, toMark, todo, seen, env, history>>

----------------------------------------------------------------------------
(* Process exit and restart.                                               *)

\* Everything but the job file is lost; a commit in flight may have reached it.
Die ==
  /\ crashes' = crashes + 1
  /\ \/ UNCHANGED job
     \/ \E j \in inflight : \E next \in Finish(j) : Commit(next)
  /\ pc' = "down" /\ cur' = 0
  /\ channel' = <<>> /\ timers' = {} /\ callers' = {}
  /\ submitting' = {} /\ reordering' = {}
  /\ pending' = [j \in Jobs |-> "out"] /\ task' = [j \in Jobs |-> "none"]
  /\ shutdown' = FALSE /\ inflight' = {} /\ toMark' = {} /\ todo' = {} /\ seen' = {}
  /\ UNCHANGED <<nextId, backoff, writable, faults, history>>

Crash == pc \notin {"down", "stopped"} /\ crashes < MaxCrashes /\ Die

\* main returns once JobQueue::shutdown has.
Exit == pc = "stopped" /\ Die

\* Mutation: the keys of interrupted jobs are not collected.
MutStart ==
  /\ pc = "down"
  /\ pc' = "recover" /\ todo' = With(Active) /\ seen' = {}
  /\ UNCHANGED <<store, backoff, volatile, cur, shutdown, inflight, toMark, env, history>>
\* Mutation: the keys of queued jobs are collected with them.
MutStartAll ==
  /\ pc = "down"
  /\ pc' = "recover" /\ todo' = With(Active)
  /\ seen' = {job[j].key : j \in todo'}
  /\ UNCHANGED <<store, backoff, volatile, cur, shutdown, inflight, toMark, env, history>>

\* recover_jobs runs before the worker and before the API is served.
Start ==
  /\ pc = "down"
  /\ pc' = "recover"
  /\ todo' = With(Active)
  /\ seen' = {job[j].key : j \in {i \in With({"Running"}) : KindOfJob(i) # "PushDispatch"}}
  /\ UNCHANGED <<store, backoff, volatile, cur, shutdown, inflight, toMark, env, history>>

\* Mutation: recovery leaves the job as it is.
MutRecoverJob(j) ==
  /\ pc = "recover" /\ j \in todo
  /\ todo' = todo \ {j}
  /\ UNCHANGED <<store, backoff, volatile, pc, cur, shutdown, inflight, toMark, seen, env, history>>

\* Jobs are visited by created_at, which has whole seconds: in any order here.
\* An unfinished push is skipped, a running job is failed, a queued duplicate
\* is canceled, and the rest is signalled while the channel has room.
RecoverJob(j) ==
  /\ pc = "recover" /\ j \in todo
  /\ todo' = todo \ {j}
  /\ \/ /\ KindOfJob(j) = "PushDispatch"
        /\ Update(j, Set(j, "Canceled"))
        /\ UNCHANGED <<channel, seen>>
     \/ /\ KindOfJob(j) # "PushDispatch" /\ job[j].status = "Running"
        /\ Update(j, Fail(j, "permanent"))
        /\ UNCHANGED <<channel, seen>>
     \/ /\ KindOfJob(j) # "PushDispatch" /\ job[j].status = "Queued" /\ job[j].key \in seen
        /\ Update(j, Set(j, "Canceled"))
        /\ UNCHANGED <<channel, seen>>
     \/ /\ KindOfJob(j) # "PushDispatch" /\ job[j].status = "Queued" /\ job[j].key \notin seen
        /\ seen' = seen \cup {job[j].key}
        /\ channel' = IF Len(channel) < Capacity THEN Append(channel, j) ELSE channel
        /\ UNCHANGED job
  /\ UNCHANGED <<nextId, backoff, pending, task, timers, callers, submitting, reordering, pc, cur, shutdown, inflight, toMark, env, history>>

RecoverDone ==
  /\ pc = "recover" /\ todo = {}
  /\ pc' = "absorb"
  /\ UNCHANGED <<store, backoff, volatile, cur, shutdown, inflight, toMark, todo, seen, env, history>>

----------------------------------------------------------------------------
\* A first start on an empty data directory.
Init ==
  /\ job = [j \in Jobs |-> Blank]
  /\ nextId = 1
  /\ backoff = {} /\ channel = <<>>
  /\ pending = [j \in Jobs |-> "out"]
  /\ task = [j \in Jobs |-> "none"]
  /\ timers = {} /\ callers = {} /\ submitting = {} /\ reordering = {}
  /\ pc = "absorb" /\ cur = 0 /\ shutdown = FALSE
  /\ inflight = {} /\ toMark = {} /\ todo = {} /\ seen = {}
  /\ writable = TRUE /\ faults = 0 /\ crashes = 0
  /\ execs = [j \in Jobs |-> 0]
  /\ born = [j \in Jobs |-> 0]

\* What happens to one job, by whoever does it.
JobStep(j) ==
  \/ RetryGate(j) \/ SubmitSend(j) \/ SignalLost(j) \/ ReorderSend(j)
  \/ (\E p \in Priorities : SetPriority(j, p))
  \/ Cancel(j) \/ CancelAbort(j)
  \/ BackoffElapses(j) \/ TimerFires(j)
  \/ TaskStart(j) \/ TaskComplete(j) \/ ScrapeMissing(j) \/ TaskEnd(j)
  \/ Claim(j) \/ Join(j) \/ DrainJoin(j) \/ InflightLands(j) \/ DrainMark(j)
  \/ RecoverJob(j)

Next ==
  \/ (\E k \in Keys : SubmitGate(k))
  \/ (\E c \in callers : SubmitCommit(c))
  \/ (\E j \in Jobs : JobStep(j))
  \/ ClearFinished \/ RequestShutdown \/ DiskFails \/ DiskRecovers
  \/ Absorb \/ EndAbsorb \/ EndAdmit \/ IdleTick
  \/ Reliability \/ Requeue \/ Archive
  \/ BeginDrain \/ DrainExpire \/ DrainList \/ DrainDone
  \/ Crash \/ Exit \/ Start \/ RecoverDone

Spec == Init /\ [][Next]_vars

\* Recovery on its own, from any job file the worker may leave behind: more
\* records than Spec can be run with.  A duplicate of a transfer is excluded,
\* which UniqueActiveTransfer justifies, and no record is Failed, so that a
\* Failed record is one that this recovery interrupted.
StoredRecord == {Blank} \cup
  {[status |-> s, key |-> k, prio |-> default_priority(KindOf[k]),
    attempt |-> 1, class |-> "none", detail |-> "none"] :
       s \in Active \cup {"Succeeded"}, k \in Keys}

RecoveryInit ==
  /\ job \in [Jobs -> StoredRecord]
  /\ \A i, j \in With(Active) :
       job[i].key = job[j].key /\ ~supports_automatic_retry(KindOfJob(i)) => i = j
  /\ nextId = MaxJobs + 1
  /\ backoff = {} /\ channel = <<>>
  /\ pending = [j \in Jobs |-> "out"]
  /\ task = [j \in Jobs |-> "none"]
  /\ timers = {} /\ callers = {} /\ submitting = {} /\ reordering = {}
  /\ pc = "down" /\ cur = 0 /\ shutdown = FALSE
  /\ inflight = {} /\ toMark = {} /\ todo = {} /\ seen = {}
  /\ writable = TRUE /\ faults = 0 /\ crashes = 0
  /\ execs = [j \in Jobs |-> 0]
  /\ born = [j \in Jobs |-> 0]

RecoveryNext == Start \/ (\E j \in Jobs : RecoverJob(j)) \/ RecoverDone \/ Crash

RecoverySpec == RecoveryInit /\ [][RecoveryNext]_vars

(***************************************************************************)
(* Fairness.  The worker loop and the runtime's timers always get to run,  *)
(* a handler returns or is stopped by the watchdog, a caller that is not   *)
(* dropped sends its signal, and the process manager restarts the service. *)
(* SF on Claim: a job the scheduler holds is popped eventually, which      *)
(* FairScheduler shows of pop_next when admission keeps letting jobs run.  *)
(* No fairness for users, for the disk, for shutdown or for crashes.       *)
(***************************************************************************)
Fairness ==
  /\ WF_vars(Absorb) /\ WF_vars(EndAbsorb) /\ WF_vars(EndAdmit) /\ WF_vars(IdleTick)
  /\ WF_vars(Reliability) /\ WF_vars(Requeue) /\ WF_vars(Archive)
  /\ WF_vars(BeginDrain) /\ WF_vars(DrainList) /\ WF_vars(DrainDone)
  /\ WF_vars(Exit) /\ WF_vars(Start) /\ WF_vars(RecoverDone)
  /\ \A j \in Jobs :
       /\ SF_vars(Claim(j)) /\ SF_vars(Join(j))
       /\ WF_vars(TaskStart(j)) /\ WF_vars(TaskEnd(j)) /\ WF_vars(DrainJoin(j))
       /\ WF_vars(BackoffElapses(j)) /\ WF_vars(TimerFires(j))
       /\ WF_vars(InflightLands(j)) /\ WF_vars(DrainMark(j)) /\ WF_vars(RecoverJob(j))

FairSpec == Spec /\ Fairness

----------------------------------------------------------------------------
(* Correctness.                                                            *)

\* Every variable has its type.
TypeOK ==
  /\ job \in [Jobs -> Record]
  /\ nextId \in 1 .. MaxJobs + 1
  /\ backoff \subseteq Jobs /\ timers \subseteq Jobs
  /\ channel \in Seq(Jobs) /\ Len(channel) <= Capacity
  /\ pending \in [Jobs -> Levels \cup {"out"}]
  /\ task \in [Jobs -> {"none"} \cup Live \cup Outcomes]
  /\ callers \subseteq Keys \X Levels
  /\ submitting \subseteq Jobs /\ reordering \subseteq Jobs
  /\ pc \in {"absorb", "admit", "select", "reliability", "requeue", "archive",
             "drain", "drainMark", "stopped", "down", "recover"}
  /\ cur \in Jobs \cup {0} /\ shutdown \in BOOLEAN
  /\ inflight \subseteq Jobs /\ toMark \subseteq Jobs /\ todo \subseteq Jobs
  /\ seen \subseteq Keys
  /\ writable \in BOOLEAN /\ faults \in Nat /\ crashes \in Nat
  /\ execs \in [Jobs -> Nat] /\ born \in [Jobs -> Nat]

Transfer(j) == ~supports_automatic_retry(KindOfJob(j))

\* A transfer has side effects on the cloud drive and is not idempotent: no
\* key of a transfer is held by two queued or running jobs, so that neither
\* double submission, retry nor restart runs the same transfer twice at once
\* (add_idempotent, recover_jobs, supports_automatic_retry).
UniqueActiveTransfer ==
  \A i, j \in Jobs :
    /\ job[i].status \in Active /\ job[j].status \in Active
    /\ job[i].key = job[j].key /\ Transfer(i)
    => i = j

\* The external work of a job starts at most once per attempt, across lost
\* and repeated signals, timeouts, crashes and restarts; for a transfer that
\* is at most once ever.
OncePerAttempt ==
  \A j \in Jobs :
    job[j].status # "absent" =>
      /\ execs[j] <= job[j].attempt
      /\ Transfer(j) => job[j].attempt = 1

\* A job waiting to be claimed has no task left from an earlier attempt, so
\* claiming it never makes two tasks work on one job.
QueuedHasNoTask ==
  \A j \in Jobs : job[j].status = "Queued" => task[j] = "none"

\* What makes these inductive.  Ids are not used before they are given out ...
FreshIds ==
  /\ \A j \in Jobs : j >= nextId =>
       job[j].status = "absent" /\ task[j] = "none" /\ execs[j] = 0
  /\ cur < nextId

\* ... an execution is owed to a job that is queued or not yet started ...
Owed ==
  \A j \in Jobs :
    \/ job[j].status = "Queued"
    \/ job[j].status = "Running" /\ task[j] = "spawned"
    => execs[j] < job[j].attempt

\* ... and the job to be retried is joined, retryable and below the limit.
RetryAllowed ==
  /\ pc \in {"reliability", "requeue"} => cur # 0 /\ task[cur] = "none"
  /\ pc = "requeue" /\ job[cur].status # "absent" =>
       /\ supports_automatic_retry(KindOfJob(cur))
       /\ job[cur].attempt < MaxAttempts

\* ... and a commit in flight holds the lock over a job still Running.
InflightRunning ==
  \A j \in inflight : job[j].status = "Running" /\ pc \in {"drain", "drainMark"}

IInv == /\ TypeOK /\ FreshIds /\ Owed /\ RetryAllowed /\ InflightRunning
        /\ UniqueActiveTransfer /\ OncePerAttempt /\ QueuedHasNoTask

\* A finished transfer is never active again: its record stays terminal until
\* it is cleared, archived or evicted.
FinishedTransferStays ==
  [][\A j \in Jobs :
       Transfer(j) /\ job[j].status \in Terminal
         => job'[j].status \in Terminal \cup {"absent"}]_job

\* A success on record is final as long as the worker runs: no late handler,
\* timeout, cancel, retry or restart turns it into a failure that an operator
\* would retry (handle_task_result, complete_if_active, cancel).
SuccessStays ==
  [][pc \notin {"drainMark", "stopped"} =>
       \A j \in Jobs : job[j].status = "Succeeded" =>
                        job'[j].status \in {"Succeeded", "absent"}]_job

\* A notification left unfinished by one process is not sent by the next
\* one: a push job only runs in the life of the process that created it.  (It
\* may after a failed write: recovery then only logs that it kept the job.)
PushNotReplayed ==
  [][\A j \in Jobs :
       KindOfJob(j) = "PushDispatch" /\ execs'[j] > execs[j] /\ faults = 0
         => born[j] = crashes]_execs

\* What the worker finds after a restart: nothing Running, no push to send
\* again, one queued job per key and none for a key whose running job this
\* start interrupted (recover_jobs), even when an earlier recovery crashed.
RecoverySettles ==
  [][pc = "recover" /\ pc' = "absorb" =>
       \A i, j \in Jobs :
         /\ job[i].status # "Running"
         /\ KindOfJob(i) = "PushDispatch" => job[i].status # "Queued"
         /\ job[i].status = "Queued" /\ job[j].key = job[i].key =>
              /\ job[j].status = "Queued" => i = j
              /\ crashes = 0 => job[j].status # "Failed"]_pc

\* Recovery cancels a queued job as a duplicate only for the sake of another
\* one: whatever key it has met still has a job that is queued and already
\* visited, or one that was interrupted.
RecoveryKeepsOne ==
  \A k \in seen : \E j \in Jobs :
    /\ job[j].key = k
    /\ \/ job[j].status \in {"Running", "Failed"}
       \/ job[j].status = "Queued" /\ j \notin todo

\* No queued job is lost: whatever happened to its wake-up signal, it is
\* eventually claimed, canceled or failed.
QueuedIsServed ==
  \A j \in Jobs : job[j].status = "Queued" ~> job[j].status # "Queued"

\* No job stays Running: its handler ends, the watchdog stops it, the drain
\* or the next start marks it.
RunningSettles ==
  \A j \in Jobs : job[j].status = "Running" ~> job[j].status # "Running"

----------------------------------------------------------------------------
(* What the documentation says and the code does not do.                   *)

\* worker.rs, on drain_for_shutdown: what it marks interrupted is what is
\* still Running.
DrainMarksRunning ==
  [][\A j \in Jobs :
       j \in toMark \ toMark' /\ pc = "drainMark" /\ job'[j].status # job[j].status
         => job[j].status = "Running"]_vars

\* docs/roadmap.md, P15-02: the errors that are executed again are rate limits
\* and transient, internal and timeout errors.
RetriesOnlyRetryable ==
  [][\A j \in Jobs :
       job[j].status = "Failed" /\ job'[j].status = "Queued"
         => job[j].detail = "retryable"]_job
=============================================================================
