---------------------------- MODULE JobAdmission ----------------------------
(***************************************************************************)
(* Which pending job the worker starts: FairScheduler's queues, the counts *)
(* of RunningJobs against the limits of the settings, exclusion by         *)
(* subscription, and a circuit breaker per class (src/src/jobs/worker.rs,  *)
(* scheduler.rs, reliability.rs).  A job here is a recurring piece of work: *)
(* it can be submitted again once it is done.  JobQueue has its record.    *)
(***************************************************************************)
EXTENDS FairQueue, FiniteSets

CONSTANTS
  class,         \* class[j]: the class of job_resource
  subscription,  \* subscription[j]: its subscription, or NoSubscription
  bulk,          \* the jobs that touch all subscriptions
  priority,      \* priority[j]
  NoSubscription,
  SettingsChoices, \* records of the limits and maintenance mode
  Threshold,     \* CIRCUIT_FAILURE_THRESHOLD
  Results,       \* the outcomes of tasks that occur
  Refusals       \* whether the claim of a popped job may be refused

Classes == {"transfer", "metadata", "push"}
AllResults == {"succeeded", "retryable", "permanent", "other", "gone"}
Subscriptions == {subscription[j] : j \in Jobs} \ {NoSubscription}

ASSUME AdmissionAssumption ==
  /\ class \in [Jobs -> Classes] /\ bulk \subseteq Jobs /\ priority \in [Jobs -> Levels]
  /\ \A j \in bulk : subscription[j] = NoSubscription
  /\ SettingsChoices # {} /\ \A s \in SettingsChoices :
       s.maintenance \in BOOLEAN /\ s.global \in Nat /\ \A c \in Classes : s.limit[c] \in Nat
  /\ Threshold \in Nat \ {0} /\ Results \subseteq AllResults
  /\ Refusals \in BOOLEAN

VARIABLES
  queues, cursor,    \* FairScheduler
  total, by_class, subscriptions, all_subscriptions,  \* RunningJobs
  circuits,          \* CircuitBreakers: failures, opened, probe_in_flight
  running,           \* the jobs with a task in the JoinSet
  settings,          \* as stored
  limits,            \* as the worker read them for this round
  pc,                \* "absorb": reading signals; "round": admitting; "wait": in select
  probes             \* history: running jobs admitted by an open circuit

scheduler == <<queues, cursor>>
counters == <<total, by_class, subscriptions, all_subscriptions>>
vars == <<scheduler, counters, circuits, running, settings, limits, pc, probes>>

Closed == [failures |-> 0, opened |-> "no", probe |-> FALSE]
Decrement(n) == IF n > 0 THEN n - 1 ELSE 0
Atleast1(n) == IF n < 1 THEN 1 ELSE n
Smaller(m, n) == IF m < n THEN m ELSE n
OfClass(S, c) == {j \in S : class[j] = c}

\* JobConcurrencyLimits::from_settings: a class never gets more than global.
from_settings(s) ==
  [global |-> Atleast1(s.global), maintenance |-> s.maintenance,
   limit |-> [c \in Classes |-> Smaller(Atleast1(s.limit[c]), Atleast1(s.global))]]

----------------------------------------------------------------------------
\* Mutation: the limits are reached one job too late.
MutCanStart(j) ==
  /\ total <= limits.global /\ by_class[class[j]] <= limits.limit[class[j]]
  /\ IF j \in bulk
     THEN all_subscriptions = 0 /\ \A s \in Subscriptions : subscriptions[s] = 0
     ELSE /\ all_subscriptions = 0
          /\ subscription[j] # NoSubscription => subscriptions[subscription[j]] = 0
\* Mutation: a bulk job does not look at the jobs of single subscriptions.
MutExclusion(j) ==
  /\ total < limits.global /\ by_class[class[j]] < limits.limit[class[j]]
  /\ all_subscriptions = 0
  /\ subscription[j] # NoSubscription => subscriptions[subscription[j]] = 0

can_start(j) ==
  /\ total < limits.global /\ by_class[class[j]] < limits.limit[class[j]]
  /\ IF j \in bulk
     THEN all_subscriptions = 0 /\ \A s \in Subscriptions : subscriptions[s] = 0
     ELSE /\ all_subscriptions = 0
          /\ subscription[j] # NoSubscription => subscriptions[subscription[j]] = 0

\* CircuitBreakers::allow: an open circuit lets one probe through after the
\* cooldown; it marks the probe as it answers, and pop_next takes that job.
allow(j) ==
  LET c == circuits[class[j]] IN c.opened = "no" \/ (c.opened = "cooled" /\ ~c.probe)

eligible == {j \in Jobs : can_start(j) /\ allow(j)}

Marked(j) == IF circuits[class[j]].opened = "no" THEN circuits
             ELSE [circuits EXCEPT ![class[j]].probe = TRUE]

\* RunningJobs::start and finish.
start(j) ==
  /\ total' = total + 1
  /\ by_class' = [by_class EXCEPT ![class[j]] = @ + 1]
  /\ all_subscriptions' = IF j \in bulk THEN all_subscriptions + 1 ELSE all_subscriptions
  /\ subscriptions' = [s \in Subscriptions |->
       IF s = subscription[j] THEN subscriptions[s] + 1 ELSE subscriptions[s]]

\* Mutation: the class count is not given back.
MutFinish(j) ==
  /\ total' = Decrement(total)
  /\ all_subscriptions' = IF j \in bulk THEN Decrement(all_subscriptions) ELSE all_subscriptions
  /\ subscriptions' = [s \in Subscriptions |->
       IF s = subscription[j] THEN Decrement(subscriptions[s]) ELSE subscriptions[s]]
  /\ UNCHANGED by_class

finish(j) ==
  /\ total' = Decrement(total)
  /\ by_class' = [by_class EXCEPT ![class[j]] = Decrement(@)]
  /\ all_subscriptions' = IF j \in bulk THEN Decrement(all_subscriptions) ELSE all_subscriptions
  /\ subscriptions' = [s \in Subscriptions |->
       IF s = subscription[j] THEN Decrement(subscriptions[s]) ELSE subscriptions[s]]

record_failure(c) ==
  LET failures == Smaller(c.failures + 1, Threshold) IN
  [failures |-> failures, probe |-> FALSE,
   opened |-> IF failures >= Threshold THEN "cooling" ELSE c.opened]

\* Mutation: an outcome that is no failure leaves the probe in flight.
MutReliability(c, result) ==
  CASE result \in {"succeeded", "permanent"} -> Closed
    [] result = "retryable" -> record_failure(c)
    [] result \in {"other", "gone"} -> c

\* apply_reliability as the circuit of the job's class sees it.  "other": the
\* record is neither succeeded nor failed; "gone": it was cleared, archived or
\* evicted before the worker looked, and nothing is recorded.
apply_reliability(c, result) ==
  CASE result \in {"succeeded", "permanent"} -> Closed
    [] result = "retryable" -> record_failure(c)
    [] result = "other" -> [c EXCEPT !.probe = FALSE]
    [] result = "gone" -> c

----------------------------------------------------------------------------
\* A signal is received while the worker waits, or with others before the
\* round; the record is Queued, so the job neither runs nor is it done.
\* Pushing a pending job again (a new priority) is left to FairScheduler.
Receive(j) ==
  /\ pc \in {"wait", "absorb"}
  /\ j \notin running /\ \A p \in Levels : j \notin InQueue(queues[p])
  /\ queues' = Push(queues, j, priority[j])
  /\ pc' = "absorb"
  /\ UNCHANGED <<cursor, counters, circuits, running, settings, limits, probes>>

\* A round reads the settings once.
BeginRound ==
  /\ pc = "absorb"
  /\ pc' = "round" /\ limits' = from_settings(settings)
  /\ UNCHANGED <<scheduler, counters, circuits, running, settings, probes>>

Popped == PopNext(queues, cursor, eligible)

\* One turn of the admission loop, the claim succeeding ...
Admit ==
  /\ pc = "round" /\ ~limits.maintenance /\ Hits(queues, cursor, eligible) # {}
  /\ queues' = Popped.queues /\ cursor' = Popped.cursor
  /\ start(Popped.job)
  /\ circuits' = Marked(Popped.job)
  /\ running' = running \cup {Popped.job}
  /\ probes' = IF circuits[class[Popped.job]].opened = "no" THEN probes
               ELSE probes \cup {Popped.job}
  /\ UNCHANGED <<settings, limits, pc>>

\* ... or refused: the job was canceled or given a new priority, or the write
\* failed.  The probe is released.
ClaimRefused ==
  /\ Refusals
  /\ pc = "round" /\ ~limits.maintenance /\ Hits(queues, cursor, eligible) # {}
  /\ queues' = Popped.queues /\ cursor' = Popped.cursor
  /\ circuits' = [circuits EXCEPT ![class[Popped.job]].probe = FALSE]
  /\ UNCHANGED <<counters, running, settings, limits, pc, probes>>

EndRound ==
  /\ pc = "round"
  /\ limits.maintenance \/ Hits(queues, cursor, eligible) = {}
  /\ pc' = "wait"
  /\ UNCHANGED <<scheduler, counters, circuits, running, settings, limits, probes>>

\* A worker with no task wakes up by itself.
Tick ==
  /\ pc = "wait" /\ running = {}
  /\ pc' = "absorb"
  /\ UNCHANGED <<scheduler, counters, circuits, running, settings, limits, probes>>

Finish(j, result) ==
  /\ pc = "wait" /\ j \in running
  /\ finish(j)
  /\ circuits' = [circuits EXCEPT ![class[j]] = apply_reliability(@, result)]
  /\ running' = running \ {j} /\ probes' = probes \ {j}
  /\ pc' = "absorb"
  /\ UNCHANGED <<scheduler, settings, limits>>

\* CIRCUIT_RECOVERY_SECONDS have passed.
CooldownElapses(c) ==
  /\ circuits[c].opened = "cooling"
  /\ circuits' = [circuits EXCEPT ![c].opened = "cooled"]
  /\ UNCHANGED <<scheduler, counters, running, settings, limits, pc, probes>>

ChangeSettings(s) ==
  /\ s # settings /\ settings' = s
  /\ UNCHANGED <<scheduler, counters, circuits, running, limits, pc, probes>>

Init ==
  /\ queues = Empty /\ cursor = 0
  /\ total = 0 /\ by_class = [c \in Classes |-> 0]
  /\ subscriptions = [s \in Subscriptions |-> 0] /\ all_subscriptions = 0
  /\ circuits = [c \in Classes |-> Closed]
  /\ running = {} /\ probes = {}
  /\ settings \in SettingsChoices /\ limits = from_settings(settings)
  /\ pc = "wait"

Next ==
  \/ \E j \in Jobs : Receive(j) \/ \E r \in Results : Finish(j, r)
  \/ BeginRound \/ Admit \/ ClaimRefused \/ EndRound \/ Tick
  \/ \E c \in Classes : CooldownElapses(c)
  \/ \E s \in SettingsChoices : ChangeSettings(s)

Spec == Init /\ [][Next]_vars

----------------------------------------------------------------------------
\* What every variable may hold.
TypeOK ==
  /\ cursor \in 0 .. Slots - 1 /\ running \subseteq Jobs /\ probes \subseteq running
  /\ total \in Nat /\ by_class \in [Classes -> Nat]
  /\ subscriptions \in [Subscriptions -> Nat] /\ all_subscriptions \in Nat
  /\ circuits \in [Classes -> [failures : 0 .. Threshold,
                               opened : {"no", "cooling", "cooled"}, probe : BOOLEAN]]
  /\ settings \in SettingsChoices /\ pc \in {"absorb", "round", "wait"}

\* The counters say what runs: a task that ends gives back exactly what its
\* start took, whatever its outcome, so no slot leaks and none is given twice.
CountersExact ==
  /\ total = Cardinality(running)
  /\ \A c \in Classes : by_class[c] = Cardinality(OfClass(running, c))
  /\ \A s \in Subscriptions :
       subscriptions[s] = Cardinality({j \in running : subscription[j] = s})
  /\ all_subscriptions = Cardinality(running \cap bulk)

\* Two jobs of one subscription never run together, nor does any job of a
\* subscription with a job that touches all of them.
Exclusive ==
  \A i, j \in running : i # j =>
    /\ subscription[i] = subscription[j] => subscription[i] = NoSubscription
    /\ i \in bulk => j \notin bulk /\ subscription[j] = NoSubscription

\* A job is started only within the limits last read, also after they were
\* lowered below what is running.
WithinLimits ==
  [][\A j \in running' \ running :
       /\ Cardinality(running') <= limits.global
       /\ Cardinality(OfClass(running', class[j])) <= limits.limit[class[j]]]_running

\* While records stay until the worker has looked at them, a probe in flight
\* is held by a running job of the class, whose end releases it: the circuit
\* cannot block its class for ever.
ProbeHeld ==
  \A c \in Classes : circuits[c].probe => OfClass(running, c) # {}

\* Work that is pending is started in the end, or given up by a claim.
PendingIsServed ==
  \A j \in Jobs : PendingIn(queues)[j] # "out" ~> PendingIn(queues)[j] = "out"

----------------------------------------------------------------------------
\* docs/roadmap.md, P15-01: a lasting stream of work of high priority starves
\* no work of low priority.
LowPriorityNotStarved ==
  \A j \in Jobs : PendingIn(queues)[j] = "low" ~> PendingIn(queues)[j] # "low"

\* docs/roadmap.md, P15-02: a probe that succeeds closes the circuit.  The
\* task of a probe that ends well has a record that says succeeded, or had one
\* that was cleared.
ProbeReleases ==
  [][\A j \in probes \ probes' : ~circuits'[class[j]].probe]_probes

\* What runs together may run together, and a circuit that waits for its probe
\* has one running.
AdmissionSound == Exclusive /\ ProbeHeld
=============================================================================
