------------------------ MODULE SubscriptionTransfer ------------------------
(***************************************************************************)
(* The transfer job of one subscription (subscription_transfer.rs): files   *)
(* of the share are copied into the cloud drive, season by season, under a  *)
(* stored intent; what was copied is marked and handed to Aria2; what Aria2 *)
(* did not take is retried by a reconciler that runs beside the job.  The   *)
(* copy is neither idempotent nor reversible, and lands asynchronously.     *)
(***************************************************************************)
EXTENDS Naturals, FiniteSets

CONSTANTS
  Files,
  Seasons,        \* a set of naturals
  seasonOf,       \* seasonOf[f]: resolve_file_season
  Target,         \* the files whose episodes finish the subscription
  MaxTries,       \* MAX_PENDING_DOWNLOAD_ATTEMPTS
  MaxFaults,      \* bound: failed calls, cancellations, crashes
  LateLanding     \* whether a copy may land after the run that asked for it

ASSUME TransferAssumption ==
  /\ IsFiniteSet(Files) /\ Seasons \subseteq Nat /\ seasonOf \in [Files -> Seasons]
  /\ Target \subseteq Files /\ MaxTries \in Nat \ {0} /\ MaxFaults \in Nat
  /\ LateLanding \in BOOLEAN

VARIABLES
  saved,      \* the stored subscription: what this service writes of it
  shared,     \* the files in the share
  cloud,      \* cloud[f]: copies of f in the drive
  landing,    \* copies the provider has accepted and not yet made visible
  tasks,      \* the files Aria2 has a task for
  job,        \* the running transfer job
  retry,      \* the running reconciliation of pending downloads
  faults,
  cut         \* history: marked files whose run was cut before they were settled

tvars == <<saved, shared, cloud, landing, tasks, job, retry, faults, cut>>

Steps == {"idle", "season", "list", "intent", "call", "mark", "clear", "await",
          "submit", "record", "settle", "finish"}
NoJob == [pc |-> "idle", selected |-> {}, todo |-> {}, season |-> 0, files |-> {},
          batch |-> {}, items |-> {}, byShare |-> FALSE, report |-> {}]
NoRetry == [pc |-> "idle", queue |-> {}, file |-> {}, sent |-> FALSE]

Least(S) == CHOOSE s \in S : \A t \in S : s <= t
AtMost(n, m) == IF n < m THEN n ELSE m
Pending == {f \in Files : saved.pending[f] > 0}
\* Mutation: the attempts are not counted.
MutRetryable == Pending
\* What has used up its attempts stays pending, and waits for the user.
Retryable == {f \in Pending : saved.pending[f] < MaxTries}
\* Files whose download the job still owes once they are marked.
Unsettled == IF job.pc \in {"clear", "await", "submit", "record", "settle"}
             THEN job.batch ELSE {}

\* What every variable may hold.
TransferTypeOK ==
  /\ saved \in [marked : SUBSET Files, intents : [Seasons -> SUBSET Files],
                pending : [Files -> 0..MaxTries], byShare : SUBSET Files,
                downloads : SUBSET Files, completed : BOOLEAN, sync : BOOLEAN]
  /\ shared \subseteq Files /\ cloud \in [Files -> 0..2] /\ landing \subseteq Files
  /\ tasks \subseteq Files /\ faults \in 0..MaxFaults /\ cut \subseteq Files
  /\ job.pc \in Steps /\ job.todo \subseteq Seasons /\ job.report \subseteq job.items
  /\ job.items \subseteq job.batch /\ job.batch \subseteq Files
  /\ retry.pc \in {"idle", "add", "write"} /\ retry.queue \cup retry.file \subseteq Files

TransferInit ==
  /\ saved \in [marked : {{}}, intents : {[s \in Seasons |-> {}]},
                pending : {[f \in Files |-> 0]}, byShare : {{}}, downloads : {{}},
                completed : {FALSE}, sync : BOOLEAN]
  /\ shared = {} /\ cloud = [f \in Files |-> 0] /\ landing = {} /\ tasks = {}
  /\ job = NoJob /\ retry = NoRetry /\ faults = 0 /\ cut = {}

Fault == faults < MaxFaults /\ faults' = faults + 1
NextSeason == [NoJob EXCEPT !.pc = "season", !.selected = job.selected,
                            !.todo = job.todo \ {job.season}]

----------------------------------------------------------------------------
\* The service on the other side: files appear in the share, copies land.
Publish(f) ==
  /\ f \notin shared /\ shared' = shared \cup {f}
  /\ UNCHANGED <<saved, cloud, landing, tasks, job, retry, faults, cut>>

Land(f) ==
  /\ f \in landing /\ landing' = landing \ {f}
  /\ cloud' = [cloud EXCEPT ![f] = AtMost(@ + 1, 2)]
  /\ UNCHANGED <<saved, shared, tasks, job, retry, faults, cut>>

\* Mutation: files of an unconfirmed intent count as transferred.
MutSelect(names) == (names \cap shared) \ (saved.marked \cup UNION {saved.intents[s] : s \in Seasons})
\* filter_already_transferred_files: a replayed job does not copy twice.
Select(names) == (names \cap shared) \ saved.marked

\* The job starts, probes the share and groups what it selects by season.
Begin(names) ==
  /\ job.pc = "idle" /\ (LateLanding \/ landing = {})
  /\ LET chosen == Select(names) IN
       /\ chosen # {}
       /\ job' = [NoJob EXCEPT !.pc = "season", !.selected = chosen,
                    !.todo = {seasonOf[f] : f \in chosen}]
  /\ UNCHANGED <<saved, shared, cloud, landing, tasks, retry, faults, cut>>

\* The next season: its directory is created or found, its intent is read.
EnterSeason ==
  /\ job.pc = "season" /\ job.todo # {}
  /\ LET s == Least(job.todo) IN
       job' = [job EXCEPT !.season = s,
                 !.files = {f \in job.selected : seasonOf[f] = s},
                 !.pc = IF saved.intents[s] # {} THEN "list" ELSE "intent"]
  /\ UNCHANGED <<saved, shared, cloud, landing, tasks, retry, faults, cut>>

\* Mutation: an old intent is dropped without a look at the directory.
MutReconcileIntent ==
  /\ job.pc = "list"
  /\ saved' = [saved EXCEPT !.intents[job.season] = {}]
  /\ job' = [job EXCEPT !.pc = "intent"]
  /\ UNCHANGED <<shared, cloud, landing, tasks, retry, faults, cut>>
\* An intent of an earlier run: a file of it found in the directory was copied,
\* is marked, and is not copied again; the others stay in the intent.
ReconcileIntent ==
  /\ job.pc = "list"
  /\ LET intent == saved.intents[job.season]
         confirmed == {f \in intent : cloud[f] > 0}
         left == job.files \ confirmed IN
       /\ saved' = [saved EXCEPT !.marked = @ \cup confirmed,
                                 !.intents[job.season] = intent \ confirmed]
       /\ cut' = cut \cup confirmed
       /\ job' = IF left = {} THEN NextSeason
                 ELSE [job EXCEPT !.files = left, !.pc = "intent"]
  /\ UNCHANGED <<shared, cloud, landing, tasks, retry, faults>>

\* The directory cannot be listed: the season waits for the next run.
ListFails ==
  /\ job.pc = "list" /\ Fault /\ job' = NextSeason
  /\ UNCHANGED <<saved, shared, cloud, landing, tasks, retry, cut>>

\* record_pending_transfer: the intent is stored before the provider is called.
RecordIntent ==
  /\ job.pc = "intent"
  /\ saved' = [saved EXCEPT !.intents[job.season] = job.files]
  /\ job' = [job EXCEPT !.pc = "call"]
  /\ UNCHANGED <<shared, cloud, landing, tasks, retry, faults, cut>>

\* provider.transfer: accepted; accepted and the answer lost; refused.
Accept(next) ==
  /\ job.pc = "call" /\ landing' = landing \cup job.files /\ job' = next
  /\ UNCHANGED <<saved, shared, cloud, tasks, retry, cut>>
Transferred == Accept([job EXCEPT !.pc = "mark", !.batch = job.files]) /\ UNCHANGED faults
AnswerLost == Accept(NoJob) /\ Fault
Refused ==
  /\ job.pc = "call" /\ Fault /\ job' = NoJob
  /\ UNCHANGED <<saved, shared, cloud, landing, tasks, retry, cut>>

\* mark_files_as_transferred, then clear_pending_transfer.
MarkBatch ==
  /\ job.pc = "mark" /\ saved' = [saved EXCEPT !.marked = @ \cup job.batch]
  /\ job' = [job EXCEPT !.pc = "clear"]
  /\ UNCHANGED <<shared, cloud, landing, tasks, retry, faults, cut>>
ClearIntent ==
  /\ job.pc = "clear" /\ saved' = [saved EXCEPT !.intents[job.season] = {}]
  /\ job' = [job EXCEPT !.pc = "await"]
  /\ UNCHANGED <<shared, cloud, landing, tasks, retry, faults, cut>>

\* wait_for_rename_candidates gives up after a while: what is visible by then is
\* submitted to Aria2, or, when nothing is, the batch under its share ids.
AwaitFiles ==
  /\ job.pc = "await" /\ (LateLanding \/ landing = {})
  /\ LET visible == {f \in job.batch : cloud[f] > 0} IN
       job' = [job EXCEPT !.pc = "submit", !.byShare = visible = {},
                 !.items = IF visible = {} THEN job.batch ELSE visible]
  /\ UNCHANGED <<saved, shared, cloud, landing, tasks, retry, faults, cut>>
AwaitFails ==
  /\ job.pc = "await" /\ Fault
  /\ job' = [job EXCEPT !.pc = "submit", !.byShare = TRUE, !.items = job.batch]
  /\ UNCHANGED <<saved, shared, cloud, landing, tasks, retry, cut>>

\* submit_sync_downloads: a live task of the same name is reused; a file whose
\* link or submission fails is left out of the report.  The ids of the share
\* yield no link.  Without synchronisation the season ends here.
SubmitDownloads ==
  /\ job.pc = "submit"
  /\ IF ~saved.sync THEN job' = NextSeason /\ UNCHANGED <<tasks, faults>>
     ELSE \E taken \in SUBSET job.items :
            /\ job.byShare => taken = {}
            /\ IF taken = job.items \/ job.byShare THEN UNCHANGED faults ELSE Fault
            /\ \E reached \in SUBSET (job.items \ taken) :
                 tasks' = tasks \cup taken \cup (IF job.byShare THEN {} ELSE reached)
            /\ job' = [job EXCEPT !.pc = "record", !.report = taken]
  /\ UNCHANGED <<saved, shared, cloud, landing, retry, cut>>

RecordDownloads ==
  /\ job.pc = "record" /\ saved' = [saved EXCEPT !.downloads = @ \cup job.report]
  /\ job' = [job EXCEPT !.pc = "settle"]
  /\ UNCHANGED <<shared, cloud, landing, tasks, retry, faults, cut>>

\* Mutation: only the successes are settled.
MutSettle ==
  /\ job.pc = "settle"
  /\ saved' = [saved EXCEPT !.pending = [f \in Files |-> IF f \in job.report THEN 0 ELSE @[f]]]
  /\ job' = NextSeason
  /\ UNCHANGED <<shared, cloud, landing, tasks, retry, faults, cut>>
\* settle_pending_downloads: what is not in the report becomes or stays pending.
Settle ==
  /\ job.pc = "settle"
  /\ saved' = [saved EXCEPT
       !.pending = [f \in Files |-> IF f \in job.report THEN 0
                      ELSE IF f \in job.items THEN AtMost(@[f] + 1, MaxTries) ELSE @[f]],
       !.byShare = (@ \ job.report) \cup (IF job.byShare THEN job.items \ job.report ELSE {})]
  /\ job' = NextSeason
  /\ UNCHANGED <<shared, cloud, landing, tasks, retry, faults, cut>>

\* All seasons are done: complete_if_transferred_target_reached.
FinishRun ==
  /\ job.pc = "season" /\ job.todo = {} /\ job' = NoJob
  /\ saved' = [saved EXCEPT
       !.completed = @ \/ (~saved.sync /\ Target # {} /\ Target \subseteq saved.marked)]
  /\ UNCHANGED <<shared, cloud, landing, tasks, retry, faults, cut>>

\* The job is canceled, times out, fails to write, or the process dies; the
\* files it had marked and not settled are nobody's business any more.
CutJob ==
  /\ job.pc # "idle" /\ Fault /\ job' = NoJob /\ cut' = cut \cup Unsettled
  /\ UNCHANGED <<saved, shared, cloud, landing, tasks, retry>>

----------------------------------------------------------------------------
\* reconcile_pending_downloads: links for all retryable entries at once; ids of
\* the share make the request fail, or are left out of the answer.
BeginRetry ==
  /\ retry.pc = "idle" /\ saved.sync
  /\ LET known == Retryable \ saved.byShare IN
       /\ known # {} /\ retry' = [NoRetry EXCEPT !.pc = "add", !.queue = known]
  /\ UNCHANGED <<saved, shared, cloud, landing, tasks, job, faults, cut>>

\* add_uri without a look at the tasks there are; its answer may be lost.
AddUri(f, ok, reached) ==
  /\ retry.pc = "add" /\ f \in retry.queue /\ (ok => reached)
  /\ IF ok THEN UNCHANGED faults ELSE Fault
  /\ tasks' = IF reached THEN tasks \cup {f} ELSE tasks
  /\ retry' = [retry EXCEPT !.pc = "write", !.queue = @ \ {f}, !.file = {f}, !.sent = ok]
  /\ UNCHANGED <<saved, shared, cloud, landing, job, cut>>

WriteRetry ==
  /\ retry.pc = "write"
  /\ LET f == CHOOSE g \in retry.file : TRUE IN
       saved' = IF retry.sent
                THEN [saved EXCEPT !.pending[f] = 0, !.downloads = @ \cup {f}]
                ELSE [saved EXCEPT !.pending[f] = IF @ = 0 THEN 0 ELSE @ + 1]
  /\ retry' = IF retry.queue = {} THEN NoRetry
              ELSE [retry EXCEPT !.pc = "add", !.file = {}]
  /\ UNCHANGED <<shared, cloud, landing, tasks, job, faults, cut>>

CutRetry ==
  /\ retry.pc # "idle" /\ Fault /\ retry' = NoRetry
  /\ UNCHANGED <<saved, shared, cloud, landing, tasks, job, cut>>

JobStep ==
  \/ EnterSeason \/ ReconcileIntent \/ RecordIntent \/ Transferred \/ MarkBatch
  \/ ClearIntent \/ AwaitFiles \/ SubmitDownloads \/ RecordDownloads \/ Settle
  \/ FinishRun
JobFault == ListFails \/ AnswerLost \/ Refused \/ AwaitFails \/ CutJob
RetryStep == BeginRetry \/ WriteRetry \/ (\E f \in Files : AddUri(f, TRUE, TRUE))
RetryFault == CutRetry \/ (\E f \in Files, r \in BOOLEAN : AddUri(f, FALSE, r))
TransferNext ==
  \/ JobStep \/ JobFault \/ RetryStep \/ RetryFault
  \/ \E names \in SUBSET Files : Begin(names)
  \/ \E f \in Files : Publish(f) \/ Land(f)

\* A started job goes on, a later check submits what is not marked, the
\* reconciler ticks, and the provider makes every copy visible in the end.
TransferFairness ==
  /\ WF_tvars(JobStep) /\ WF_tvars(Begin(Files)) /\ WF_tvars(RetryStep)
  /\ \A f \in Files : WF_tvars(Land(f))
TransferSpec == TransferInit /\ [][TransferNext]_tvars /\ TransferFairness

----------------------------------------------------------------------------
\* No file is copied into the drive twice, and what is marked was accepted by
\* the provider: the intent covers every cut between the call and the mark.
CloudAgrees ==
  \A f \in Files :
    /\ cloud[f] + (IF f \in landing THEN 1 ELSE 0) <= 1
    /\ f \in saved.marked => cloud[f] > 0 \/ f \in landing

\* A marked file of a synchronised subscription is with Aria2, waits for a retry
\* or is still being handled, unless its run was cut between its copy and its
\* settlement; the code has no way back from there (subscription_transfer.rs:933).
EachAccounted ==
  saved.sync => \A f \in saved.marked :
    f \in tasks \cup saved.downloads \cup Pending \cup Unsettled \cup cut
\* What one fault can take so is the files of one season: without a fault nothing,
\* and a season that was settled, or not yet copied, is safe from later cuts.
LossBounded == Cardinality({seasonOf[f] : f \in cut}) <= faults
\* The two: which downloads may be missing, and how many for one fault.
DownloadAccounted == EachAccounted /\ LossBounded

\* Every file of the share is marked in the end, whatever was cut or refused.
FilesServed == \A f \in Files : f \in shared ~> f \in saved.marked
=============================================================================
