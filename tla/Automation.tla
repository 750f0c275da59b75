----------------------------- MODULE Automation -----------------------------
(***************************************************************************)
(* The automation timeline: what becomes of a subscription's work, told by  *)
(* events that are projected from the jobs' change notices                  *)
(* (services/automation_events.rs, store/automation_event.rs,               *)
(* models/automation_event.rs), the summary over them and the retry of a    *)
(* stage (api/automation.rs).                                               *)
(* The jobs are one chain: a transfer and its retries.  Abstracted: stages  *)
(* other than the transfer and one that follows from its result; texts;     *)
(* retention by age.                                                        *)
(***************************************************************************)
EXTENDS Naturals, Sequences, FiniteSets

CONSTANTS
  NoticeCapacity,  \* events: broadcast::channel(200)
  MaxEvents,       \* MAX_EVENTS
  SummaryLimit,    \* automation_summary: list(1_000)
  MaxAutoAttempts, \* MAX_AUTO_ATTEMPTS
  MaxChain,        \* bound on jobs
  MaxRetries,      \* bound on retries of stages
  MaxClock,        \* bound on time
  MaxAccidents,    \* bound on lost notices, failed writes, restarts, dropped requests
  Retries         \* retry requests

ASSUME AutomationAssumption ==
  /\ {NoticeCapacity, MaxEvents, SummaryLimit, MaxAutoAttempts, MaxChain} \subseteq Nat \ {0}
  /\ {MaxRetries, MaxClock, MaxAccidents} \subseteq Nat

VARIABLES
  chain,    \* chain[j]: the jobs of the job store
  shared,   \* their payloads hold one correlation_id
  notices,  \* the projection's receiver
  listens,  \* the projection has subscribed
  timeline, \* items of the event store, oldest first
  clock,    \* unix_now
  request,  \* request[r]: a handler of retry_stage
  drain,    \* drain_for_shutdown: it has begun, and the jobs it is yet to mark
  missed,   \* history: jobs with a notice that was lost, or whose end the drain
            \* marked over, which the event store refuses to follow
  gaveUp,   \* history: a retry request was dropped half-way
  accidents \* so far

avars == <<chain, shared, notices, listens, timeline, clock, request, drain, missed, gaveUp, accidents>>

Idle == [pc |-> "idle", job |-> 0, event |-> <<>>]
NoDrain == [on |-> FALSE, left |-> {}]

AutomationInit ==
  /\ chain = <<>> /\ shared \in BOOLEAN /\ notices = <<>> /\ listens = TRUE
  /\ timeline = <<>> /\ clock = 1 /\ request = [r \in Retries |-> Idle]
  /\ drain = NoDrain /\ missed = {} /\ gaveUp = FALSE /\ accidents = 0

Accident == accidents < MaxAccidents /\ accidents' = accidents + 1

----------------------------------------------------------------------------
\* The event store.

\* AutomationStatus::can_transition_to.
can_transition_to(from, to) ==
  \/ from = to
  \/ from = "pending" /\ to \in {"running", "skipped", "failed", "canceled"}
  \/ from = "running" /\ to \in {"succeeded", "skipped", "failed", "retrying", "canceled"}
  \/ from = "failed" /\ to \in {"retrying", "canceled"}
  \/ from = "retrying" /\ to \in {"pending", "running", "failed", "canceled"}

\* prune_events: over the limit the oldest go.
prune_events(events) ==
  IF Len(events) <= MaxEvents THEN events ELSE SubSeq(events, Len(events) - MaxEvents + 1, Len(events))

Position(events, id) ==
  IF \E i \in DOMAIN events : events[i].id = id THEN CHOOSE i \in DOMAIN events : events[i].id = id ELSE 0

\* AutomationEventStore::upsert: in place, and only along a transition.
Upsertable(event) ==
  LET i == Position(timeline, event.id) IN i = 0 \/ can_transition_to(timeline[i].status, event.status)
upsert(event) ==
  LET i == Position(timeline, event.id) IN
  IF i = 0 THEN prune_events(Append(timeline, event))
  ELSE prune_events([timeline EXCEPT ![i] =
         [event EXCEPT !.created = IF timeline[i].created < event.created THEN timeline[i].created ELSE @]])

\* AutomationEventStore::add: an id that is there stays as it is.
add(events, event) ==
  IF Position(events, event.id) # 0 THEN events ELSE prune_events(Append(events, event))

----------------------------------------------------------------------------
\* Jobs and their notices.

job_status(status) ==
  CASE status = "queued" -> "pending" [] status = "running" -> "running"
    [] status = "succeeded" -> "succeeded" [] status = "failed" -> "failed"
    [] status = "canceled" -> "canceled"

\* The store publishes a job: to nobody, or into a full channel, whose oldest
\* notice is then skipped.  over: the jobs whose end this marks over.
Publish(jobs, j, over) ==
  LET notice == [job |-> j, as |-> jobs[j]] IN
  IF ~listens THEN notices' = notices /\ missed' = missed \cup {j} /\ accidents' = accidents
  ELSE IF Len(notices) < NoticeCapacity
       THEN notices' = Append(notices, notice) /\ missed' = missed \cup over /\ accidents' = accidents
       ELSE /\ notices' = Append(Tail(notices), notice) /\ missed' = missed \cup over \cup {Head(notices).job}
            /\ Accident

SetJob(j, status, attempt, over) ==
  LET jobs == [chain EXCEPT ![j] = [@ EXCEPT !.status = status, !.attempt = attempt, !.updated = clock]] IN
  /\ chain' = jobs /\ Publish(jobs, j, over)
  /\ UNCHANGED <<shared, listens, timeline, clock, request, gaveUp>>

NewJob == [status |-> "queued", attempt |-> 1, updated |-> clock, created |-> clock]
SubmitWork ==
  /\ chain = <<>> /\ chain' = <<NewJob>> /\ Publish(chain', 1, {})
  /\ UNCHANGED <<shared, listens, timeline, clock, request, drain, gaveUp>>

\* What the queue does with a job: claim, outcome, cancellation, another
\* attempt after a retryable failure.  A drain has ended the worker's loop; what
\* was under way may still end, and the user may still cancel.
JobMoves(j) ==
  LET job == chain[j] IN
  /\ drain' = drain
  /\ \/ job.status = "queued" /\ \E s \in {"running", "canceled"} :
          (s = "running" => ~drain.on) /\ SetJob(j, s, job.attempt, {})
     \/ job.status = "running" /\ \E s \in {"succeeded", "failed", "canceled"} : SetJob(j, s, job.attempt, {})
     \/ job.status = "failed" /\ job.attempt < MaxAutoAttempts /\ ~drain.on /\ SetJob(j, "queued", job.attempt + 1, {})

\* A shutdown: the drain lists the running jobs, and marks each, whatever has
\* become of it since the list.
DrainList ==
  /\ ~drain.on /\ Accident
  /\ drain' = [on |-> TRUE, left |-> {j \in DOMAIN chain : chain[j].status = "running"}]
  /\ UNCHANGED <<chain, shared, notices, listens, timeline, clock, request, missed, gaveUp>>
DrainMark(j) ==
  /\ j \in drain.left /\ drain' = [drain EXCEPT !.left = @ \ {j}]
  /\ SetJob(j, "failed", chain[j].attempt, IF chain[j].status \in {"running", "failed"} THEN {} ELSE {j})

ClockTicks ==
  /\ clock < MaxClock /\ clock' = clock + 1
  /\ UNCHANGED <<chain, shared, notices, listens, timeline, request, drain, missed, gaveUp, accidents>>

----------------------------------------------------------------------------
\* The projection.

Correlation(j) == IF shared THEN 0 ELSE j

\* Mutation: the attempts of a job share one event.
MutProjected(notice) ==
  [id |-> <<"job", notice.job>>, correlation |-> Correlation(notice.job), stage |-> "transfer",
   status |-> job_status(notice.as.status), attempt |-> 1, job |-> notice.job, retry |-> 0,
   created |-> notice.as.created, updated |-> notice.as.updated]

\* project_job: one event for each attempt of a job.
Projected(notice) ==
  [id |-> <<"job", notice.job, notice.as.attempt>>, correlation |-> Correlation(notice.job),
   stage |-> "transfer", status |-> job_status(notice.as.status), attempt |-> 1, job |-> notice.job,
   retry |-> 0, created |-> notice.as.created, updated |-> notice.as.updated]

\* project_transfer_stages: what followed from the transfer, added once.
project_transfer_stages(events, notice) ==
  IF notice.as.status # "succeeded" THEN events
  ELSE add(events, [Projected(notice) EXCEPT !.id = <<"stage", notice.job>>, !.stage = "rename",
                                             !.created = notice.as.updated])

\* The next notice: upserted, or refused as a transition.
project_job ==
  /\ listens /\ notices # <<>> /\ notices' = Tail(notices)
  /\ LET notice == Head(notices) event == Projected(notice) IN
       timeline' = IF Upsertable(event) THEN project_transfer_stages(upsert(event), notice) ELSE timeline
  /\ UNCHANGED <<chain, shared, listens, clock, request, drain, missed, gaveUp, accidents>>

\* The write fails: logged, the notice is gone.
ProjectFails ==
  /\ listens /\ notices # <<>> /\ notices' = Tail(notices)
  /\ missed' = missed \cup {Head(notices).job} /\ Accident
  /\ UNCHANGED <<chain, shared, listens, timeline, clock, request, drain, gaveUp>>

\* A restart, after a shutdown or without one: notices and requests are gone,
\* and the queue settles running jobs before the projection subscribes.
RestartQueue ==
  /\ IF drain.on THEN accidents' = accidents ELSE Accident
  /\ drain' = NoDrain /\ listens' = FALSE /\ notices' = <<>>
  /\ chain' = [j \in DOMAIN chain |-> IF chain[j].status # "running" THEN chain[j]
                 ELSE [chain[j] EXCEPT !.status = "failed", !.updated = clock]]
  /\ missed' = missed \cup {notices[i].job : i \in DOMAIN notices}
                      \cup {j \in DOMAIN chain : chain[j].status = "running"}
  /\ request' = [r \in Retries |-> Idle]
  /\ gaveUp' = (gaveUp \/ \E r \in Retries : request[r] # Idle)
  /\ UNCHANGED <<shared, timeline, clock>>

start_job_event_projection ==
  /\ ~listens /\ listens' = TRUE
  /\ UNCHANGED <<chain, shared, notices, timeline, clock, request, drain, missed, gaveUp, accidents>>

----------------------------------------------------------------------------
\* The summary.

\* The order of (updated_at, created_at).
Later(e, f) == e.updated > f.updated \/ (e.updated = f.updated /\ e.created > f.created)
Key(e) == <<e.correlation, e.stage>>

\* The newest events, which are those added last, whenever they were updated.
Listed == {i \in DOMAIN timeline : i + SummaryLimit > Len(timeline)}

\* Of the events of one stage the latest, the newer one of two of one moment.
Current == {i \in Listed :
  \A k \in Listed : Key(timeline[k]) = Key(timeline[i]) /\ k # i =>
    Later(timeline[i], timeline[k]) \/ (~Later(timeline[k], timeline[i]) /\ k < i)}

projected_job_ids == {timeline[i].job : i \in {k \in Listed : timeline[k].id[1] \in {"job", "stage"}}}

\* current_stage_events: without the retries whose job speaks for itself.
current_stage_events ==
  {timeline[i] : i \in {k \in Current : ~(timeline[k].status = "retrying" /\ timeline[k].retry \in projected_job_ids)}}

----------------------------------------------------------------------------
\* retry_stage.

RetryEvent(e) ==
  [e EXCEPT !.id = <<"retry", e.id, e.attempt + 1>>, !.status = "retrying", !.attempt = @ + 1,
            !.retry = 0, !.created = clock, !.updated = clock]

\* The original is read, the retry is put on record.
retry_stage(r) ==
  /\ request[r] = Idle /\ Cardinality({i \in DOMAIN timeline : timeline[i].id[1] = "retry"}) < MaxRetries
  /\ \E e \in current_stage_events :
       /\ e.stage = "transfer" /\ e.status \in {"failed", "canceled"}
       /\ timeline' = add(timeline, RetryEvent(e))
       /\ request' = [request EXCEPT ![r] = [pc |-> "submit", job |-> e.job, event |-> RetryEvent(e)]]
  /\ UNCHANGED <<chain, shared, notices, listens, clock, drain, missed, gaveUp, accidents>>

Active == {j \in DOMAIN chain : chain[j].status \in {"queued", "running"}}

\* JobQueue::retry of a failed or canceled job: a new one, or the active one
\* with the same key.
SubmitRetry(r) ==
  /\ request[r].pc = "submit" /\ chain[request[r].job].status \in {"failed", "canceled"}
  /\ \/ /\ Active = {} /\ Len(chain) < MaxChain /\ chain' = Append(chain, NewJob)
        /\ Publish(chain', Len(chain'), {}) /\ request' = [request EXCEPT ![r].pc = "record", ![r].job = Len(chain')]
     \/ \E j \in Active : /\ request' = [request EXCEPT ![r].pc = "record", ![r].job = j]
                          /\ UNCHANGED <<chain, notices, missed, accidents>>
  /\ UNCHANGED <<shared, listens, timeline, clock, drain, gaveUp>>

\* The outcome goes into the retry's event.
RecordRetry(r, event) ==
  /\ timeline' = IF Upsertable(event) THEN upsert(event) ELSE timeline
  /\ request' = [request EXCEPT ![r] = Idle]
  /\ UNCHANGED <<chain, shared, notices, listens, clock, drain, missed, gaveUp, accidents>>
RetryAccepted(r) ==
  /\ request[r].pc = "record" /\ RecordRetry(r, [request[r].event EXCEPT !.retry = request[r].job])
RetryRefused(r) ==
  /\ request[r].pc = "submit" /\ chain[request[r].job].status \notin {"failed", "canceled"}
  /\ RecordRetry(r, [request[r].event EXCEPT !.status = "failed", !.updated = clock])

\* The client goes away and the handler with it.
DropRequest(r) ==
  /\ request[r] # Idle /\ Accident /\ gaveUp' = TRUE /\ request' = [request EXCEPT ![r] = Idle]
  /\ UNCHANGED <<chain, shared, notices, listens, timeline, clock, drain, missed>>

----------------------------------------------------------------------------
AutomationNext ==
  \/ SubmitWork \/ ClockTicks \/ project_job \/ ProjectFails \/ RestartQueue \/ start_job_event_projection
  \/ DrainList \/ \E j \in DOMAIN chain : JobMoves(j) \/ DrainMark(j)
  \/ \E r \in Retries : retry_stage(r) \/ SubmitRetry(r) \/ RetryAccepted(r) \/ RetryRefused(r) \/ DropRequest(r)

AutomationSpec == AutomationInit /\ [][AutomationNext]_avars

----------------------------------------------------------------------------
\* What every variable may hold.
AutomationTypeOK ==
  /\ \A i \in DOMAIN timeline : timeline[i].status \in
       {"pending", "running", "succeeded", "failed", "retrying", "canceled"}
  /\ \A i, k \in DOMAIN timeline : timeline[i].id = timeline[k].id => i = k
  /\ Len(timeline) <= MaxEvents /\ Len(notices) <= NoticeCapacity /\ missed \subseteq DOMAIN chain

\* Once the notices of a job are read and none of them was lost or pruned, the
\* last event of the job tells where the job is, through its attempts, retries
\* by hand and cancellation (project_job, upsert) - but for a job that ended
\* while a shutdown was about to mark it failed: the mark is then a step the
\* event store refuses, and the timeline keeps the end (worker.rs:416).
Own(j) == {i \in DOMAIN timeline : timeline[i].id[1] = "job" /\ timeline[i].job = j}
TimelineFollows ==
  Len(timeline) < MaxEvents => \A j \in DOMAIN chain \ missed :
    (\A n \in DOMAIN notices : notices[n].job # j) =>
      \E i \in Own(j) : (\A k \in Own(j) : k <= i) /\ timeline[i].status = job_status(chain[j].status)

\* Of the attempts of one stage, retried by hand and by the queue, the summary
\* shows the one that ended last: with nothing under way, lost or given up, the
\* last end later than the last retry, and its event among the newest ones, the
\* only ones the summary looks at (current_stage_events, retry_stage).
LastEnded == {j \in DOMAIN chain : \A k \in DOMAIN chain : chain[k].updated <= chain[j].updated}
SummaryCurrent ==
  /\ shared /\ chain # <<>> /\ Active = {} /\ notices = <<>> /\ \A r \in Retries : request[r] = Idle
  /\ missed = {} /\ ~gaveUp /\ Len(timeline) < MaxEvents
  /\ \A j \in LastEnded :
       /\ \E i \in Own(j) \cap Listed : \A k \in Own(j) : k <= i
       /\ \A i \in DOMAIN timeline : timeline[i].id[1] = "retry" => timeline[i].updated < chain[j].updated
  => \E j \in LastEnded :
       {e.status : e \in {f \in current_stage_events : f.stage = "transfer"}} = {job_status(chain[j].status)}

\* The timeline is true of each job, and its summary of each stage.
TimelineTrue == TimelineFollows /\ SummaryCurrent
=============================================================================
