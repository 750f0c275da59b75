------------------------------ MODULE FairQueue ------------------------------
(***************************************************************************)
(* The data structure of src/src/jobs/scheduler.rs: per priority a queue   *)
(* of groups, one group per fairness key, and a cursor over the priority   *)
(* slots.  The loops of pop_next are written as what they compute: a queue *)
(* in which no group's first job may run is rotated once around, that is,  *)
(* left as it was.                                                         *)
(***************************************************************************)
EXTENDS Integers, Sequences, SequencesExt

CONSTANTS
  Jobs,         \* ids of pending jobs
  Keys,         \* fairness keys: subscriptions, or kinds for jobs of none
  fairness_key  \* fairness_key[j]: the group of a job

ASSUME FairnessKeyAssumption == fairness_key \in [Jobs -> Keys]

Levels == {"high", "normal", "low"}
PRIORITY_SLOTS == <<"high", "normal", "high", "low", "high", "normal">>
Slots == Len(PRIORITY_SLOTS)

Group == [key : Keys, jobs : Seq(Jobs)]
Empty == [p \in Levels |-> <<>>]

----------------------------------------------------------------------------
(* FairPriorityQueue: q is a sequence of groups.                           *)

Enqueue(q, j) ==
  IF \E i \in DOMAIN q : q[i].key = fairness_key[j]
  THEN [i \in DOMAIN q |-> IF q[i].key = fairness_key[j]
                           THEN [q[i] EXCEPT !.jobs = Append(@, j)] ELSE q[i]]
  ELSE Append(q, [key |-> fairness_key[j], jobs |-> <<j>>])

\* remove: a job has at most one place in the queue.
DequeueAt(q, i, k) ==
  LET rest == RemoveAt(q[i].jobs, k)
  IN  IF rest = <<>> THEN RemoveAt(q, i) ELSE [q EXCEPT ![i].jobs = rest]
Holds(q, j) == {i \in DOMAIN q : j \in ToSet(q[i].jobs)}
Dequeue(q, j) ==
  IF Holds(q, j) = {} THEN q
  ELSE LET i == CHOOSE i \in Holds(q, j) : TRUE
       IN  DequeueAt(q, i, CHOOSE k \in DOMAIN q[i].jobs : q[i].jobs[k] = j)

\* The groups whose first job may run.
Ready(q, eligible) == {i \in 1 .. Len(q) : Head(q[i].jobs) \in eligible}

\* Mutation: what is left of the group is dropped.
MutPopGroup(q, i) == SubSeq(q, i + 1, Len(q)) \o SubSeq(q, 1, i - 1)

\* The queue after its first ready group i gave its first job: the groups
\* before it went to the back, and what is left of it last.
PopGroup(q, i) ==
  LET rest == Tail(q[i].jobs)
      left == IF rest = <<>> THEN <<>> ELSE <<[q[i] EXCEPT !.jobs = rest]>>
  IN  SubSeq(q, i + 1, Len(q)) \o SubSeq(q, 1, i - 1) \o left

----------------------------------------------------------------------------
(* FairScheduler: queues is a function from priorities to queues.          *)

Push(queues, j, p) ==
  LET others == [l \in Levels |-> Dequeue(queues[l], j)]
  IN  [others EXCEPT ![p] = Enqueue(@, j)]

Slot(cursor, k) == PRIORITY_SLOTS[((cursor + k) % Slots) + 1]

\* The offsets from the cursor at which pop_next would find a job.
Hits(queues, cursor, eligible) ==
  {k \in 0 .. Slots - 1 : Ready(queues[Slot(cursor, k)], eligible) # {}}

Least(S) == CHOOSE n \in S : \A i \in S : n <= i

\* Mutation: every pop starts at the first slot.
MutPopNext(queues, cursor, eligible) ==
  LET k == Least(Hits(queues, 0, eligible))
      p == Slot(0, k)
      i == Least(Ready(queues[p], eligible))
  IN  [queues |-> [queues EXCEPT ![p] = PopGroup(@, i)], cursor |-> k,
       job |-> Head(queues[p][i].jobs), prio |-> p]

\* pop_next when it finds a job: the cursor is left behind the slot used.
\* (When it finds none, the cursor has gone round once and nothing changes.)
PopNext(queues, cursor, eligible) ==
  LET k == Least(Hits(queues, cursor, eligible))
      p == Slot(cursor, k)
      i == Least(Ready(queues[p], eligible))
  IN  [queues |-> [queues EXCEPT ![p] = PopGroup(@, i)],
       cursor |-> (cursor + k + 1) % Slots,
       job |-> Head(queues[p][i].jobs), prio |-> p]

\* The jobs pending in a queue, and the priority each job is pending at.
InQueue(q) == UNION {ToSet(q[i].jobs) : i \in DOMAIN q}
PendingIn(queues) ==
  [j \in Jobs |-> IF \E p \in Levels : j \in InQueue(queues[p])
                  THEN CHOOSE p \in Levels : j \in InQueue(queues[p]) ELSE "out"]
=============================================================================
