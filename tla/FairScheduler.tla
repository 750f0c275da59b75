---------------------------- MODULE FairScheduler ----------------------------
(***************************************************************************)
(* The scheduler under arbitrary pushes and pops, with a counter that is   *)
(* not in the code: how long a priority has been passed over although it   *)
(* had a job that may run.                                                 *)
(***************************************************************************)
EXTENDS FairQueue, FiniteSets

CONSTANT Pushed     \* the jobs that are pushed

ASSUME PushedAssumption == Pushed \subseteq Jobs

VARIABLES
  lanes, turn,      \* FairScheduler's queues and cursor
  bypassed          \* bypassed[p]: pops in a row that left p out though ready

fvars == <<lanes, turn, bypassed>>

SchedulerInit == lanes = Empty /\ turn = 0 /\ bypassed = [p \in Levels |-> 0]

push(j, p) == lanes' = Push(lanes, j, p) /\ UNCHANGED <<turn, bypassed>>

pop_next(ready) ==
  /\ Hits(lanes, turn, ready) # {}
  /\ LET r == PopNext(lanes, turn, ready) IN
       /\ lanes' = r.queues /\ turn' = r.cursor
       /\ bypassed' = [p \in Levels |->
            IF p # r.prio /\ Ready(lanes[p], ready) # {} THEN bypassed[p] + 1 ELSE 0]

SchedulerNext ==
  \/ \E j \in Pushed, p \in Levels : push(j, p)
  \/ \E ready \in SUBSET Pushed : pop_next(ready)

----------------------------------------------------------------------------
\* Weighted fairness between priorities: while it has a job that may run, high
\* is passed over at most once in a row, normal three times, low five times.
WeightedFair == bypassed["high"] <= 1 /\ bypassed["normal"] <= 3 /\ bypassed["low"] <= 5

\* The scheduler is a pool with one replaceable snapshot per job: no pop takes
\* a job that is not pending, and no push or pop loses another job.
Pool == INSTANCE PendingJobs WITH pending <- PendingIn(lanes)
PoolSpec == Pool!Spec
=============================================================================
