# Formal model of my-media-sub

TLA+ models, TLC runs and TLAPS proofs about `src/` (Rust, Tokio, Axum): a
program that follows series in shares of a cloud drive, copies new episodes
into the user's drive, hands them to Aria2, and tells the user. One process
serves one data directory of JSON files. What makes it hard is not a network of
nodes but one worker loop, many request tasks, aborted futures, a provider
whose copies are neither idempotent nor reversible and appear late, files that
are replaced one at a time, and a process that may stop between any two steps.

`PROJECT.json` ties every definition to the lines it models ("map"), lists the
hazards with the properties that would catch them, and a mutant of the code for
each property, which makes TLC find the property violated.

## 1. Inventory

| Component (code) | State | Operations | Hard behaviour | What makes it correct | Here |
|---|---|---|---|---|---|
| Job queue and worker (`jobs/queue.rs`, `worker.rs`, `model.rs`) | job records, wake-up channel, scheduler snapshot, JoinSet, timers, shutdown gate | submit, retry, cancel, set_priority, clear, claim, run, complete, watchdog, automatic retry, drain, recover | lost signals, aborted handlers, late results, crash and restart, shutdown beyond its grace period | a transfer is active once and executed once; results are final; every queued job is served; nothing stays Running; pushes are not replayed | `JobQueue` |
| Fair scheduler (`jobs/scheduler.rs`) | a queue of groups per priority, a cursor | push, pop_next | heads that may not run, jobs pushed again | one snapshot per job; bounded bypassing | `FairQueue`, `FairScheduler`, `PendingJobs` |
| Admission (`scheduler.rs`, `reliability.rs`) | RunningJobs counters, circuit breakers, settings | can_start, start, finish, allow, record_* | limits that change while jobs run, probes | counters exact, exclusion, limits, no leaked probe | `JobAdmission` |
| Job store (`jobs/store.rs`, `store/commit.rs`, `utils/mod.rs`) | list in memory, job file, archive file, save lock, events | add, update, archive, clear, prune, load | dropped callers, writes failing before or after the rename, exit between two files | what a reader saw survives; no record returns to an earlier attempt or to one that ended; events agree | `JobStore`, `JobHistory` |
| Subscription transfer (`services/subscription_transfer.rs`) | intents, transferred files, sync downloads | transfer, reconcile, mark, submit and retry downloads | crash between cloud and record, lost answers, late copies | nothing lost, nothing copied twice | `SubscriptionTransfer` |
| Save by hand (`jobs/worker/media_save.rs`, `api/drive`) | a job's result | select, save, resolve, download | retries of what may be done already | saved once, the right files handed on, the result tells | `MediaSave` |
| Probe of a share (`clients/quark.rs`, `http_pool.rs`) | one walk | token, pages, retries | partial answers, share withdrawn under way | what it says of itself is true | `ShareProbe` |
| Subscription check (`services/subscription_check.rs`) | per-subscription locks, batch lock, snapshots | check, merge, invalidate, reconcile | a snapshot merged into edited data | no edit lost, no deleted record revived, no episode forgotten | `SubscriptionCheck`, `Subscription` |
| Source switch (`services/subscription_source_switch.rs`) | candidates, history, cooldowns | search, apply, roll back | stale evidence about another source | evidence is about the source it leaves | `Subscription`, `SubscriptionCheck` |
| Episodes, seasons, rules (`services/episode.rs`, `subscription_progress.rs`, `transfer_rule.rs`) | keys in the record | select, mark, rebase, project | keys without seasons, collections, versions | evidence is true of its season; page and checks agree | `EpisodeRules`, `SeasonProgress` |
| Download monitor (`services/download_monitor.rs`, `api/drive/aria2.rs`) | claimed ends, records, batches | poll, claim, record, notify, retry, purge | polls that race, writes that fail, cleared notices | told once, batches announced, target completes | `DownloadMonitor` |
| Notifications and push (`services/notification.rs`, `push.rs`) | items, digest flag, timer | notify, dispatch, flush, send | restart between take and send, quiet hours | no item lost unnamed or told twice | `Notifications` |
| Telegram bot (`services/telegram_bot*`, `api/telegram.rs`) | offset, claims, sessions, confirmations | poll, webhook, prepare, confirm | updates twice and concurrently, stale buttons | a confirmation acts once, on what it showed | `TelegramBot` |
| Automation events (`services/automation_events.rs`, `api/automation.rs`) | events | project, summarise, retry a stage | skipped notices, retries of retries | the timeline is true of each job | `Automation` |
| Settings (`api/settings.rs`, `store/settings.rs`, `api/push.rs`) | the settings | save a form, rotate, subscribe browsers | old forms, deliveries on old copies | each writer finds what it meant | `SettingsForm` |
| Backup and restore (`services/backup.rs`) | archives, staged restore | create, stage, apply, roll back | crash while applying, damaged uploads | old or new, never a mixture | `BackupRestore` |
| Online update (`api/update*.rs`, `restart.rs`) | binary, static files, plan | choose, download, verify, swap, restart | failing rename, dropped request | program and web interface of one release | `OnlineUpdate` |
| Process life (`main.rs`, `app.rs`, `instance_lock.rs`) | lock file | start, drain, exit | restore under the lock | one process past the lock | `Lifecycle`, `BackupRestore` |
| Files of the stores (`store/schema.rs`, `utils/mod.rs`, `store/*.rs`) | file, quarantine, copies | load, migrate, quarantine, save | another release, damage, forced start | no acknowledged change lost | `StoreFiles` |
| Storage retention (`services/storage.rs`, `api/storage.rs`) | histories | preview, backup, cut | writers between preview and cut | only the oldest go, and are in the backup | `Retention` |
| Schedulers (`services/subscription_scheduler.rs`, `quark_signin.rs`) | cron jobs | start, stop, reload, catch up | reloads that overlap, restarts | the job the settings ask for; no day lost | `Schedulers` |
| Metadata, calendar, titles; naming | caches | look up, format, parse | | | the calendar's status of an episode in `EpisodeRules`; the rest is not modelled |
| HTTP API, clients, models | none, or external | | | | what changes state is in the modules of the services |
| Observability | counters | | | | not modelled |

How they interact. The API, the scheduler of subscriptions, the Telegram bot
and the download monitor **submit** jobs (`JobQueue::submit_*`). The store is
written first, then an id is **sent** over a bounded channel; the channel is a
hint and the store the truth. The **worker loop** absorbs ids into the fair
scheduler, admits what `RunningJobs` and the circuit breakers allow, **claims**
a job by a conditional update, and spawns a task with the handler. The handler
records its result itself by another conditional update; the loop joins the
task, settles what the handler left open, applies circuit and retry rules,
archives, and starts over. A **check** probes a share, merges what it found
into the subscription and submits a transfer; the **transfer** copies, marks
and submits downloads; the **monitor** polls Aria2, writes the ends into the
subscription and adds notifications; a **notification** becomes a push job, at
once or through the digest. **Automation** projects the jobs' change events to
a timeline. Start-up takes the instance lock, applies a staged restore, loads
the stores, runs `recover_jobs`, and only then starts worker and API; shutdown
closes the gate, drains, marks what is left, and may exec a new release.

## 2. The modules

Every `.await` at which another task can step in is the border of an action.
Faults are counted against a bound, which every `.cfg` names.

**Glue.** Five modules put components side by side that are concurrent in the
program but share little or no state: `JobParts`, `Cloud`, `Subscriptions`,
`Interfaces`, `Services`. A variable (`scope`, `part`, `side`) that never
changes says which of them an instance looks at; the others stand still. One
run then checks several components, each over its whole state space, and no
product of independent state spaces is explored. Where components do share
state, they are composed: `JobAdmission` with `FairQueue`, `SubscriptionCheck`
with `Subscription`, `SeasonProgress` with `EpisodeRules`, and `Lifecycle`,
which steps `BackupRestore` and `OnlineUpdate` in one process.

### JobQueue

One record per job (`job`), the volatile parts of the process (channel,
scheduler snapshots, tasks, timers, callers at each stage of a submission), and
the worker's program counter `pc`.

* `SubmitGate` / `SubmitCommit` / `SubmitSend` are the three parts of
  `submit_job_with_priority`: the gate is read, `add_idempotent` commits under
  the save lock, the id is sent. `SignalLost` is the caller that is dropped
  before the send, or the `try_send` of `enqueue_push_dispatch` on a full
  channel. A push queued by a running handler passes a closed gate, as in the
  code.
* `Absorb`, `EndAbsorb` (with `reconcile_queued_jobs`), `Claim`, `EndAdmit`,
  `IdleTick`, `Join`, `Reliability`, `Requeue`, `Archive` are the worker loop in
  its order. `Claim` may take any pending job: the choice is what
  `FairScheduler` and `JobAdmission` are about.
* `TaskStart`, `TaskComplete`, `ScrapeMissing`, `TaskEnd` are `run_job` and a
  handler seen from the record: it looks at the record, works, records a result
  (or, for the scrape of a deleted subscription, overwrites it), returns an
  error, panics, or is stopped by the watchdog.
* `Cancel` and `CancelAbort` are two steps because the abort handle is taken
  after the commit.
* `BeginDrain`, `DrainJoin`, `DrainExpire`, `DrainList`, `DrainMark`,
  `DrainDone` are `drain_for_shutdown`. An aborted handler may have dispatched a
  commit, which `finish_commit` completes on its own: `inflight`.
* `Crash`, `Exit`, `Start`, `RecoverJob`, `RecoverDone` are process exit and
  `recover_jobs`. Recovery visits jobs in any order, because `created_at` has
  whole seconds.

A commit is one step here: it holds the save lock until file and memory agree
(`LockFree` says that no other commit holds it). That this is sound is what
`JobStore` shows. `DiskFails` makes all commits fail until `DiskRecovers`.

### JobParts: JobAdmission, FairScheduler, JobStore

`FairQueue` has the data structure as operators: groups by fairness key in a
queue per priority, and a cursor over the six priority slots. The two loops of
`pop_next` are given by what they compute. `FairScheduler` adds arbitrary pushes
and pops with an arbitrary set of eligible jobs, and a counter that is not in
the code. `PendingJobs` is the abstract pool `JobQueue` is written against;
`FairScheduler` is shown to implement it (`PoolSpec`).

`JobAdmission` composes `FairQueue` with the counters of `RunningJobs`, the
limits derived from the settings, exclusion by subscription and the circuit
breakers: the admission loop with `Admit`, `ClaimRefused`, `EndRound`, the
settlement of a task in `Finish`, changing settings and elapsing cooldowns. A
job is a recurring piece of work. The failure count stops at the threshold.

`JobStore`: callers queue for the save lock, copy the list, and dispatch a
commit; the steps of the commit (job file, archive, memory, event) are separate,
in the order the code has for each operation (`Plan`). A caller may vanish at
any point (`Abandon`): before the dispatch it has had no effect, after it the
commit task owns the lock. A write may fail before or after its rename
(`WriteFails`), the process may exit between any two steps (`Crash`), `load`
reads what is there. A record is its attempt and whether that is active, failed
or settled; an update fails it, settles it, marks it failed at shutdown, or
takes a failed one to its next attempt, which the automatic retry does with
`update_if` (`accepts`, `updated`). `JobHistory` is what readers are promised: a
record appears, ends, is retried while it has failed, is archived, is removed,
and never goes back to an earlier attempt, into an attempt that ended or into
the list. `JobStore` refines it (`HistorySpec`) under the mapping `Place`; what
the archive says of a job that is still listed is left open, because a failed
write may leave a copy of an older attempt there.

### Cloud: SubscriptionTransfer, MediaSave, ShareProbe

`SubscriptionTransfer` follows one job season by season: `EnterSeason`,
`ReconcileIntent` (an intent of an earlier run is confirmed by what the target
directory shows), `RecordIntent`, the call with its three outcomes
(`Transferred`, `AnswerLost`, `Refused`), `MarkBatch`, `ClearIntent`,
`AwaitFiles`, `SubmitDownloads`, `RecordDownloads`, `Settle`, `FinishRun`.
`CutJob` is a cancellation, a timeout, a failed write or the end of the process
at any of these points. A copy is first `landing`, then visible (`Land`).
Beside it runs `reconcile_pending_downloads` (`BeginRetry`, `AddUri`,
`WriteRetry`) with its own lost answers. `LateLanding` lets a copy appear after
`wait_for_rename_candidates` has given up.

`MediaSave` is the save of chosen files, or of a whole share, as a job with
retries by hand: selection against names, the look at the target directory
(`Clash`), the repeated listing of the share, the call, `ResolveSaved` by name
and size, downloads, the watchdog, the end of the process. The share changes
meanwhile. `ShareProbe` is the walk over a share: token, pages of directories
breadth first, the limits on pages and entries, one repetition of a failing
request, rate limits, withdrawal; `Conclude` is the verdict a check relies on.

### Subscriptions: SubscriptionCheck, SeasonProgress

`Subscription` gives, as operators on a record, what each operation does to it:
probe results, failures, switches, rollback, edits, completion, and
`merge_check_results`. `SubscriptionCheck` runs a single check and a
batch over it: the batch works on its snapshot and merges at the end, both take
the subscription's lock only while they check, and between their steps the user
edits, deletes, switches or completes, the share changes, and transfer jobs
write. Series of one season; a file is the episode it holds.

`EpisodeRules` has the other side as pure operators: which episode of which
season a file is, the filter of a check, the selection of a transfer, the plan
the preview shows, what marking, checking and rebasing do to the keys of a
record (some without a season, from old versions), and the projections for the
detail page and the calendar. `SeasonProgress` puts them in the life of a
subscription: uploads and withdrawals, a check with its snapshot, waiting
transfers, a transfer with its own snapshot, edits of seasons and rules. Edits
wait for a moment without a check or a transfer unless `Busy` is set, which is
the run `busy`.

### DownloadMonitor

Tasks of Aria2 with their gid, the records and batches of the subscription,
notices, and the claim set of the program. A poll (`List`) takes the ended
tasks, `Claim` claims under one lock what no key of is known, then task by task
`Work` writes the end into the record and `DecideCompleted`, `DecideFailed` or
`Defer` decide about the message (with the history read at that point), each of
which can fail and give its claim back. `Submit` and `Record` are two steps;
`Retry` moves a record to a new gid; `Delete`, `Clear`, `SendByHand`, `Crash`
are the rest of the world. `WorkFails` fails either of the two writes, so that
the record may be done and the claim given back. A batch is the second it was
submitted in (`NextBatch`): a later one or the same, and then a record may join
a batch that was announced (`joined`). Whether a message has a push job that
succeeded is open (no channel, an event switched off, the digest, a failure):
`Clear` leaves any part of the messages to the list of jobs, `PushForgotten`
takes one from it, and `forgotten` has the files nobody remembers any more.
`Window` lets a task end, or the process, before `Record`; it and a second
scanner are constants.

### Interfaces: Notifications, TelegramBot, Automation, SettingsForm

`Notifications`: an item is spawned, suppressed as a duplicate, left to the
digest or queued; the digest's timer, its flush in the code's steps (look at
the channels, take, submit, roll back when refused), the push job with its
attempts per channel, quiet hours, a switch of the digest, and a restart with
its recovery. The writes whose failure the code ignores or gives up at are steps
of their own: a mark that fails (`LeaveToDigest`) or a restore that fails
(`RestoreFails`) makes items `lost`, a take that fails (`TakeFails`) or a refused
submission leaves them `stranded`, pending without a timer. A push the queue
does not take is sent by the caller (`SendDirectly`).

`TelegramBot`: updates by long polling (the offset confirms what was handed
over, a batch at the next request) and by webhook, each in a task of its own
under a semaphore; `ClaimUpdate` stores a bounded list of keys; a search puts a
session; `prepare_confirmation` files a confirmation under a nonce; a press
claims it (`claim_confirmation`), stores the claim of the action, and executes,
which for a transfer compares the session with what was shown. Users, two at a
time, retransmissions, expiry and crashes are steps.

`Automation`: jobs publish notices to a bounded channel; `project_job` upserts
an event per attempt along the allowed transitions, `project_transfer_stages`
adds what followed; the summary picks the current event of a stage; a retry by
hand goes through its three writes and may be dropped or refused; a restart
loses notices and recovers. A shutdown lists what runs (`DrainList`) and then
marks each of it failed, ended or not (`DrainMark`). The summary sees the newest
`SummaryLimit` events (`Listed`; 1,000 in the code).

`SettingsForm`: pages that hold the form they read, post all of it, and see
secrets as masks or revealed; rotation of the webhook secret with its overlap;
browser subscriptions added, removed and pruned by deliveries that work on a
copy; writes that fail after the file was replaced.

### Services: Lifecycle, StoreFiles, Retention, Schedulers

`BackupRestore`: files are version numbers, an archive is read file by file
while stores go on writing; a restore is validated (`validate_archive` refuses
damaged store files and later schemas), staged, and applied by the next start
behind the lock: snapshot, replacement file by file, removal of the marker,
rollback. A crash may come between any two files. `OnlineUpdate`: choice,
download, checksum and signature, unpacking, then the swap of static directory
and binary with the undoing of each failed rename, which may fail as well, the
stored plan, the restart by exec. `Lifecycle` ties both to one process.

`StoreFiles`: the file of a store across processes of different releases:
missing, sound, older (copied, migrated), later (refused), damaged (set aside,
or not), forced starts, a file put back by the user. Four kinds of stores
differ as in the code. `Retention`: preview, backup, five cuts under their own
locks, with writers in between. `Schedulers`: the reload after a change of the
settings, with each await a step; cron jobs by id; the daily sign-in and its
catch-up.

## 3. The runs

| Run | Instance and bounds | Shows |
|---|---|---|
| `transfer` | one transfer and one push key, 2 records, 1 crash or shutdown, 1 disk failure, grace period may expire | `UniqueActiveTransfer`, `OncePerAttempt`, `FinishedTransferStays`, `PushNotReplayed` |
| `live` | one scrape, 2 attempts, priority changes, 1 crash or shutdown, channel of one | `QueuedHasNoTask`, `SuccessStays`; `QueuedIsServed`, `RunningSettles` under `Fairness` |
| `recovery` | every job file of 4 records over a transfer, a scrape and a push key, 1 crash inside recovery, room for one signal | `RecoverySettles`, `RecoveryKeepsOne` |
| `parts` | worker: a transfer and a scrape of one subscription, a scrape of all, a manual transfer, settings among them maintenance mode and a limit of 0; scheduler: 3 jobs in 2 groups, every push and pop; store: 2 callers, 2 records of 2 attempts, 1 stored, 0 retained, 1 archived, 1 failed write, 1 exit | `AdmissionSound`, `WeightedFair`, `ReadersAgree`, and the refinements `PoolSpec`, `HistorySpec` |
| `copy` | transfer: 3 files of 2 seasons, 2 tries per file and download, 3 faults or cuts; save: two versions of one name and an extra, 2 saves, 2 mishaps; probe: trees around 2 pages of 2 entries and 5 files, 4 outages | `CloudAgrees`, `DownloadAccounted`, `FilesServed`; `SaveSound`; `ProbeHonest` |
| `subscriptions` | checks: 2 sources, 2 episodes, threshold 1, 1 edit, 1 turn of a share; seasons: 2 of 2 episodes, 6 files (versions, a pack, an extra, files that name no season), 2 changes, records with old keys | `MergeKeeps`, `EpisodeServed`; `EvidenceTrue`, `PageAgrees`, `CopiedOnce`, `SeasonServed` |
| `delivery` | 3 tasks of 2 files, 2 seconds of submission, 1 failed write or restart, 1 clearing after which 1 push is remembered, 1 removed result, retries | `ToldOnce`, `NoticeFollowsRecord`, `BatchAnnounced`, `TargetCompletes` |
| `interfaces` | messages: 3 items of 2 texts, 2 edits, 1 restart, 1 failed write or refusal; commands: 3 updates of 2 users, 2 at a time, 1 accident; timeline: 2 jobs, 1 retry by hand, 1 accident, 7 events, a summary over 2; settings: 1 page, 1 browser, 4 secrets or endpoints, 1 failed write | `DigestKept`; `ConfirmationsHold`; `TimelineTrue`; `SettingsHold` |
| `services` | life: one process, 2 backup operations or updates, 1 fault, 2 stops; files: 2 changes, 2 mishaps, schemas 0 to 3, releases 2 and 3; cleanup: logs one over their limit, 1 record meanwhile; schedules: a day of 3 hours, 2 requests | `RestoreAtomic`, `RestoreEnds`, `PayloadWhole`; `FilesKept`; `CleanupSafe`; `SchedulesKept` |
| `twins` | a second process started after a restore | violates `SingleInstance` |
| `busy` | the seasons are edited while a transfer runs | violates `TransferredTrue` |
| `unsigned` | a client without a signature key | violates `ChecksumSuffices` |

Five known behaviours of the code are kept out of the runs by a constant. With
the constant set the other way TLC finds the property violated: `LateLanding` in
`SubscriptionTransfer.cfg`, `DownloadAccounted` (a copy that appears after the
wait gave up gets no download); `Threshold_ = 2` in `Subscriptions.cfg`,
`SwitchJustified` (a source is switched before its threshold); `Window` in
`DownloadMonitor.cfg`, `ToldOnce` (a task that ends, or a process that dies,
before the record of a submission is written), and with `Scanners = {"monitor",
"page"}` again (the task list and the monitor announce one end twice);
`Concurrent` with two `Handlers` in `Services.cfg`, `OneCron` (two overlapping
reloads leave a second cron job).

Type invariants: those of the modules with proofs are proved (section 5); the
`...TypeOK` of the others hold in the instances above, but the runs spend their
invariants on what could go wrong.

What the properties say, where their name does not:

* `UniqueActiveTransfer`, `OncePerAttempt`, `FinishedTransferStays`: a transfer
  cannot be repeated safely, so one record per key is active, its work starts
  once per attempt, and what is finished is not started again, through
  resubmissions, crashes and recovery.
* `AdmissionSound`: what runs together may, by limits and exclusions of the
  settings then in force; a circuit waiting for a probe has one running.
* `ReadersAgree`: what a reader saw is on disk, in that attempt or a later one
  and ended if it had ended, and who follows the events knows the list, whatever
  write failed.
* `CloudAgrees`: at most one copy of each file, and a mark is only set for what
  the provider accepted; `FilesServed`: every file of the share is marked in the
  end; `DownloadAccounted`: a marked file of a synchronised subscription is with
  Aria2, waits for a retry, was given up by name or is being handled, unless its
  run was cut between its copy and its settlement (the code has no way back from
  there), and one fault costs the downloads of one season at most.
* `SaveSound`: saved once to a directory through retries, only the right file
  is handed to Aria2, and "saved" is never claimed without it. `ProbeHonest`:
  "ok" is all of the share, "bad" is a share that is gone, "partial" is not said
  of all of it.
* `MergeKeeps` is three things. `ProgressStays`: the marks of transfers survive
  every check, transfer and merge, and so do, unless the user changes them, the
  presence of the record, whether it is enabled, a total that is set, and a
  completion the marks justify while the source is the same. `LinkStays`: a merge
  leaves the first episode to the user, and the link unless the batch itself
  switched it. `EvidenceKept`: if the stored record's probe and the snapshot's
  were each about their own link, the one after the merge is about the link after
  it. It does not say that known episodes are about the link, nor that a link the
  user set survives a batch that switched it, nor anything of a single check
  whose link is edited during its probe: the code does otherwise (section 6).
  `EpisodeServed`: an episode the source has and the rules let through is
  transferred.
* `EvidenceTrue`, `CopiedOnce`, `SeasonServed`: what counts as transferred or
  found is so of that episode of that season after every edit of the seasons;
  nothing is copied twice; every wanted episode of every season comes.
  `PageAgrees`: page and calendar say what checks act on.
* `ToldOnce`: an end that Aria2 still lists is announced once, through restarts
  and emptied lists, as long as a notification or a push job remembers the message
  and no other record joined the announced batch in its second.
  `BatchAnnounced` leaves out the batches two submissions share (`joined`,
  `TwiceFailed`), section 6 says why.
  `NoticeFollowsRecord`: what is announced as complete is so on record.
* `DigestKept`: an item is pending, on its way, sent, or lost for a reason with a
  name, among them a mark or a restore that failed; it is in one message at most;
  and what is pending has a timer, but for what a failed take, a refusal or a
  start with the digest off left without one.
* `ConfirmationsHold`: a confirmation acts at most once, not after its
  cancellation, and on what was shown.
* `TimelineTrue`: with its notices read and none lost, the last event of a job
  is where the job is, unless a shutdown marked it after it had ended (the event
  store refuses that step), and the summary of a stage is its latest end, if that
  is among the newest events it looks at.
* `SettingsHold`: rotation, subscriptions and secrets survive posts of old
  forms and deliveries on old copies.
* `RestoreAtomic`: the stores are all of before or all of the archive, and the
  snapshot exists while it may be needed. `PayloadWhole`: program and web
  interface are of one release whenever no installation is at work, none was cut
  or overlapped, and no undoing of a failed step failed itself.
* `FilesKept`: an acknowledged change stays on the disk, and no process serves
  without it unless it was told to. `CleanupSafe`: only
  the oldest go, the backup has them, and undisturbed the number of the preview
  is that of the records removed and the jobs moved to the archive.
  `SchedulesKept`: one job, the right one; no day's sign-in lost.
* `WeightedFair` is about the six slots of the priorities; the turn of a
  subscription within a priority is not bounded by a property.

Why the bounds are enough. A conflict about a job needs the job, a second record
of the same key or of another kind, one scheduler and one process exit; a second
exit changes nothing a first one has left behind except during recovery, which
`recovery` starts from every file with a crash inside. A channel of capacity one
makes "full" an ordinary event. Two attempts suffice for a stale task or timer
of the first one to meet the second. `MAX_JOBS`, the length of
the archive and the retention are 0 or 1 so that eviction and archiving happen. In the scheduler two
groups, one of them with two jobs, meet all branches of `push` and `pop_next`.
A transfer meets each of its cuts in one season with a second one still to come;
three faults allow a cut, a lost answer and another cut in one history. A merge
race needs one batch, one single check, one edit and one turn of a share. Two
seasons of two episodes have a first and a later season, a first and a last
episode; the six files are the kinds of names the code tells apart. Two records
of one file and one of another have every relation `Matches` and `Batch`
distinguish. Three items meet a flush under way, one pending and one arriving.
Three updates are a preparation, its decision and a retransmission with a search
in between, under `Keep` = 1, which makes the trimming of claims happen. Two
operations on backups meet each other and a stop. What the proofs cover
(section 5) does not depend on these bounds.

`CHECK_DEADLOCK FALSE` is set where the bounded environment stops for good:
`recovery` is over once the file is settled, and in `copy`, `subscriptions`,
`delivery`, `interfaces`, `services` and the runs that expect a violation, users
and faults run out. `interfaces` declares the two search hits symmetric, `parts`
the two callers of the store: the properties are invariants and refinements
without liveness.

## 4. Fairness

`JobQueue` (`Fairness`): weak fairness for the steps of the worker loop (a loop
with no exit but shutdown), of recovery and of drain; for a task's start and
end, because the watchdog aborts one that shows no progress; for timers; for the
restart after an exit, which the process manager (Docker's restart policy)
performs. Strong fairness for `Claim(j)` and `Join(j)`: both are enabled only in
one phase of the loop. A pending job is popped again and again (`WeightedFair`),
and a finished task stays in the JoinSet, which the select polls in every round.
Nothing is assumed of users, of the disk, of the loss of signals or of how a
handler ends, and the grace period may or may not expire. Bound: an operator who
stores the same priority over and over is left out; one who never stops keeps
the worker absorbing signals.

`Cloud`: weak fairness for the steps of a transfer that was begun (the worker
drives its future), for the start of a transfer of what is not marked (checks
come round by the scheduler), for the reconciler's steps (a ticker), and for
`Land`: the provider makes a copy visible in the end. A fault is never forced.

`Subscriptions`: weak fairness for the steps of a check, for the start and the
merge of a batch (the scheduler) and for jobs that were submitted (`Transfer`,
`TransferStep_`; `JobQueue` shows `QueuedIsServed`). Strong fairness for
`BatchLock`: the Tokio mutex is first come first served, so that a batch that
waits gets it although single checks go on taking it.

`DownloadMonitor`: weak fairness for the steps of a poll, which are those of a
loop that is supervised and ticks every 15 s; strong fairness for the end of a
poll, which a claim given back may disable for a while.

`Services`: weak fairness for the start of the program with its restore
(`StartUp`, `Begins`) and for `GivesUp`, the process that ends when its start is
refused: the process manager starts it again.

## 5. Proofs

Every theorem holds for every value of the constants that its module's named
assumption allows: any number of jobs, records, files, users, requests, crashes
and faults. Each rests on an inductive invariant that TLC checked first on the
instance of its run (or a smaller one of its own); the steps have one lemma per
action or per group of actions, and the temporal theorem combines them.

**`JobQueueProofs`** (`TypeCorrect`, `NoDuplicateTransfer`,
`NoRepeatedExecution`, `NoLeftoverTask`, `FinishedTransfersStay`,
`SuccessesStay`, `PushesNotReplayed`, `RecoveryKeepsAJob`,
`RecoveryIsComplete`). The invariants are not inductive alone; `IInv` adds
`FreshIds` (an id not yet given out has no record, task or execution), `Owed` (a
job that is queued, or running with a task not started, has fewer executions
than attempts), `RetryAllowed` (between joining a task and requeueing its job
the worker holds a job without a task, of a kind that may be retried) and
`InflightRunning` (a commit of an aborted handler holds the lock over a job
still Running). Most actions are *tame*, they end or remove records and start no
work: `TameKeeps` deals with them at once. `LifeInv`, on top of `IInv`, is about
one process: a handler that still works has a job that has not succeeded
(`WorkUnfinished`), recovery only has active jobs to visit (`TodoActive`), no
task is there before the worker is (`NoTaskLeft`), and while the disk works a
push that may run was created by this process or is one recovery has yet to
cancel (`PushCurrent`). Recovery on its own (`RecoverySpec`, any file, any
number of crashes) has `RecoverInv`: the keys met so far speak for every job
failed and every job left queued, and no two of the latter share one.

**`JobPartsProofs`**. `SchedulerWeightedFair`: `BypassInv` relates the number of
times a priority was passed over to the cursor: it is at most the number of
slots since the last one of that priority. `ExclusionHolds`, `LimitsHold`: the
counters of `RunningJobs` are allowed to be too high but never too low
(`Numbers`, `Covers`, `Counted`). `AdmissionHolds` adds the probes, under
`"gone" \notin Results`: no record is cleared between the end of its task and
the worker's look at it. Without that hypothesis the statement is false, as
section 6 says; the run checks it with the same restriction. `StoreInv` says for
each record what memory, file, archive and readers may hold of it, after a
failure the file one commit ahead (`Agree`, `Onward`), what
the snapshots of the commit under way make of it at each of its steps
(`Changes`, `Archives`, `Written`), and that the lock is that commit's
(`Locked`). From it `StoreReadersAgree`, and `StoreImplementsHistory`: every step
of `JobStore` maps to a step of `JobHistory` or to none. `SchedulerIsPool`: the
queues with their groups and cursors implement `PoolSpec`, a function from the
waiting jobs to their last snapshots, of which any may be popped. `PoolInv` says
that a job has one place, in one group of one queue: the groups of a queue share
neither keys nor jobs (`Tidy`) and the queues share no job (`Apart`). It needs
the folds and filters of the queues as facts on sequences; what recurses over a
length is shown by the least length without it. `PartsHold` says all of it of
`PartsSpec`, the specification of run `parts`.

**`CloudProofs`**. Transfers: `Marks` (types; the season at work and its batch
are of the job; what is not marked is in no list of downloads) is inductive by
itself. `CopyInv` adds that every copy is marked or under an intent (`Covered`),
that what has not become visible is of a season still ahead of no call (`Ahead`,
`Fresh`) and that the intent covers the call (`Intent`); it needs `Timely ==
~LateLanding`: with copies that appear after the wait, a file of another run is
copied again (section 6). `DownInv` adds that a report only says what was
recorded (`Whole`). `LossInv` counts seasons: those of files whose run was cut,
and those with an intent that no running call accounts for, are no more than the
faults; a fault adds the season at work and no other. Theorems: `TransferTypes`,
`TransferCloudAgrees`, `TransferDownloadAccounted`. Saves by hand
(`SaveIsSound`): a chain of retries has one request, one job of which is at work
(`ChainIsOneRequest`); each job accounts for what it copied (`Accounted`), and
what it looked for and did not find is still not there when it copies
(`NotYet`). Probes (`ProbeIsHonest`, for every finite tree without two ways to
an entry, `TreeAssumption`): `WalkInv` has what was read of the page's directory
(`PagesSoFar`), that a directory that is not waiting was seen whole
(`SeenWhole`) and why anything was cut off (`CutOff`).

**`SubscriptionProofs`**. `ChecksKeep`, without hypotheses (its parts are named
in section 3, and what it does not say): `SourcesInv` says of every record at
work, of the snapshot of a batch and of the record made from it that it is
`Consistent` (no probe is remembered without a history of one), that a batch
that began with findings about its source still has such (`StaysAbout`), and
that the link a batch looks at is that of its snapshot. Each operation on a
record has a lemma of what it keeps of the one before (`Kept`), and the merge is
three of them in a row. `EvidenceStays`, `PagesAgree`, `EpisodesCopiedOnce`,
under `~Busy` (no edit of seasons or rules between the snapshot of a check or a
transfer and its write; `busy` shows the code does not exclude one, and what
happens then): `SeasonInv` says that a running check and a running transfer know
the seasons of the record and evidence that still stands (`CheckTrue`,
`MoveTrue`), that the drive has exactly what counts as transferred and what is
about to be marked (`DriveTrue`), and that a completion is deserved
(`DoneTrue`). The weight is in the lemmas on `EpisodeRules`: `Rebased` (a change
of the seasons leaves the set of remembered episodes untouched, whatever the
first season was), `Checked`, `Marked_`, `Chosen`, and `DetailShows` (the
projection to a season). `SeasonAssumption` says what a record may be at the
start: one that is complete has the evidence for it; a completion by hand
belongs to the side of the sources.

**`MonitorProofs`** (`MonitorTyped`, `EndsToldOnce`, `NewsFollowsRecord`), under
`~Window` and `OnePoll` (section 3 has what happens otherwise). An end is
announced again only if neither the notifications nor the push jobs have the
message, and the notifications may have been cleared; so the message must be the
same the second time, and be in one of the two stores (`Stored`), or its files
are among the forgotten (`Forgets`). It is the same, because a batch that was
announced is settled and stays as it was (`Repeats`): a record that joins it in
its second is excused (`Joined`), its records are done or failed, and a failed
one is only moved to another batch by a retry that removes the old result from
Aria2's list, after which nothing is promised (`ToldTrue`). And because the poll
has seen all that is done, and read every message remembered so far (`ScanOk`).
`TasksKnown`, `RecordsTrue` and `RecordingTrue` say why an end reaches its own
record and no other: a task has a record, is about to have one, or is the only
one of its file. `NewsTrue` is that notifications say what is so.

**`ServicesProofs`**. `StoreFilesKept`: the file tells what the user has not
given up, written by releases its version understands (`FileTells`), and a
process that serves has all of it in memory or beside the file (`MemoryKept`).
`SchedulesHold`, under `~Concurrent` (requests about the settings one at a time;
two of them leave a second job, section 6): `SchedulesInv` follows the one
reload through its awaits, and says that each schedule no reload waits for is as
its settings ask. `PayloadStaysWhole`: once a restart is planned or an
installation is at work, nobody else can reach the two paths (`OneAtWork`,
`Barred`), so that each switch is undone or completed (`AllInstalling`); no
hypothesis is needed, because `PayloadWhole` excepts what was cut by an exit and
an undoing that failed (`mixed`). `RestoresAreAtomic`, under `OneProcess` (at
most one process on a data directory; `twins` shows what the second can do):
`RestoreInv` has types, archives with names of their own, of which only
validated ones are restored (`ArchivesSound`), a snapshot with the data of
before that is there before the first file is replaced (`SnapshotKept`), files
that are each the one of before or the one of the archive (`Mixed`), and for
each process how far it is (`Progress`): what it still has to replace or put
back covers every file that is not yet as it must be. `ServicesStand` says all
of it, and `CleanupSafe`, of `ServicesSpec`, the specification of run
`services`.

**`RetentionProofs`**. `CleanupsAreSafe`, without hypotheses: `CleanupInv` has
types; that each history is in the order of its ages, archived jobs older than
all the listed (`InOrder`); that nothing is removed before the backup is complete
and the events go last (`Removal`); that the backup has what is gone and what
may yet go (`BackupCovers`, `Covering`); that what a cut has taken is older than
what it left (`Staying`); and how many each history still has to lose
(`Counting`), which with the jobs moved to the archive is the number the preview
said. Cuts at the front of an
ascending sequence and at the end of a descending one have lemmas of their own.

**`InterfacesProofs`**. `DigestHolds`: `Once` says that an item no message was
made of is in no job, and one in a job was not sent, and `Keyed` that the queue
has one unfinished job of a message; so that nothing is sent twice.
`ConfirmationsStand`: a confirmation is in the map, with one task, or spent, and
nonces still to come are greater (`OnePlace`); the claims that are stored are
not needed, they only guard what the map already excludes, and their bound
`Keep` may be 1. `SettingsStand`: a file with the same secret has the same
rotation (`SameRotation`), a rotation in force is the one in the settings
(`InForce`), a delivery begun since is signed for whichever secret the receiver
has (`SignedForBoth`), and nothing a delivery drops is alive (`GoneIsGone`);
`Fresh` makes each new secret different from those in every form and on disk.
`TimelineStands`: `TimelineInv` says, while nothing was pruned, that no two events
have the same identifier (`Distinct`), that a job's events are in the order of its
attempts (`OwnOrder`), and that the notices still to be projected continue the
last of them, one transition at a time, up to the job as it is (`ToldBy`,
`Continues`; a mark on what had failed changes nothing, on another end it makes
the job one that was `missed`). So
`upsert` never refuses the next one (`NextPasses`), and the summary's choice is
the last event of its job: one of the events it reads is ahead of all others
(`OneAhead`).
`InterfacesStand` is the four of `InterfacesSpec`.

The proof of `DigestHolds` corrected a property: "what is pending has a timer
while the digest is on" is not so after a restart that found the digest off
(`recover_digest_pending_on_startup` returns before it sets a timer,
`notification.rs:357`) and a later switch on. One edit per history had hidden
it; `interfaces` now has two and `PendingHasTimer` says what is so: what
is pending without a timer is `stranded`, until the next item sets one.

So did the proof of `SaveIsSound`. `SavedOnce` said that a chosen file is saved
once to a place of that name; but two requests that both find no directory each
create one (`ensure_dir_path`, `clients/quark_save.rs:689`), and a retry of the
first then looks into the second. `MaxSaves = 2` had hidden it, three saves show
it. It now says once to a directory, which is what the look at the directory can
ensure.

Hypotheses on constants, each the side of a switch the code's normal operation
is on, with the other side described in section 6: `Timely`, `"gone" \notin
Results`, `~Concurrent`, `~Busy`, `~Window`, `OnePoll`, `OneProcess`.
Assumptions on constants (named, in the modules that declare them) are types,
positive bounds, and what the code guarantees of its data: a file's last episode
is not before its first (`episode.rs:714`), ranks of two files differ.

Only model-checked: everything under fairness, because liveness and `ENABLED`
are beyond the proof system. These are `QueuedIsServed`, `RunningSettles`,
`FilesServed`, `EpisodeServed`, `SeasonServed`, `TargetCompletes`,
`BatchAnnounced` and `RestoreEnds`. Every other property of the passing runs is
stated by a theorem.

## 6. Where the code and its documentation or its own intentions disagree

With a run (`findings` in `PROJECT.json` quote the lines):

* `twins`: a restore replaces `.lock` with every other file of the archive
  (`backup.rs:834`); a second process then locks the new inode.
* `busy`: `mark_files_as_transferred` (`subscription_transfer.rs:1253`) takes
  the primary season of the record the job read for that of the record it
  writes; edited meanwhile, episodes of the new first season count as
  transferred that are not in the drive.
* `unsigned`: a release that carries a signature is refused by every client
  without `SELF_UPDATE_PUBLIC_KEY` (`api/update.rs:355`,
  `update/signature.rs:81`), where `docs/docker-online-update.md:105` and
  `docs/upgrade-v2.7.2.md:97` say that only the checksum is verified.

The rest was met while modelling; it is in the modules, or excluded by a
constant that says so.

**Jobs.** The drain lists Running jobs and then marks them unconditionally
(`worker.rs:416`); one that ended in between is overwritten. A permanent failure
may be retried, because the class an earlier attempt stored wins
(`reliability.rs:147`, `docs/roadmap.md:1110`). A scrape of all subscriptions
waits for a moment in which none has a job (`scheduler.rs:236`,
`roadmap.md:1103`); a steady stream keeps it waiting. While a task runs the loop
has no timer (`worker.rs:334`): a circuit that cooled down, or a maintenance mode
that ended, is noticed at the next end of a task or signal, and nothing here
bounds that wait. When the record of a probe
is cleared before the worker looks, the circuit keeps its probe in flight until
a restart (`worker.rs:553`, `roadmap.md:1111`). `record_failure` and the release
of a probe (`reliability.rs:129`) do not ask whether the job was the probe, so
that a second one gets in. `Requeue` (`worker.rs:606`) does not look for another
active job with the key (`roadmap.md:596`); for transfers uniqueness holds and
is proved. `ScrapeMissing` (`worker/metadata_scrape.rs:15`) writes its failure
whatever the status is (`CHANGELOG.md:1043`); a canceled job may become failed.

**Transfer.** With copies that land after the wait, a file of another run is
copied again, and a marked file gets no download (the comment at
`subscription_transfer.rs:991` describes the latter as settled). A file of the
same name that was there before, with a call that failed, is confirmed as
transferred. Marks precede the downloads (`subscription_transfer.rs:933`): a run
that is cut between its copy and its settlement loses the downloads of the
season at work, which no later run looks for. Files confirmed from an intent get
no download. A batch of which nothing became visible is submitted under ids of
the share, which yield no link; such an entry makes a whole retry return without
counting an attempt. The reconciler's `add_uri` does not look at existing tasks:
after a lost answer Aria2 downloads the file twice. The model has the set of
what Aria2 was handed. `complete_if_transferred_target_reached` may notify
twice.

**Checks.** A single check writes evidence about the old URL when the URL is
edited during its probe. An automatic switch in a batch overwrites the URL a
user set meanwhile. `source_failure_count` survives an edit of the URL, and the
merge restores an old count, so that a switch may come before the threshold. The
merge copies `known_*` unconditionally and does not merge the first episode a
switch set. `apply_source_switch` starts after the last *known* episode. A
single check's `mark_subscription_invalid` overwrites a completion recorded
meanwhile. The merge restores the status *invalid* of its snapshot when
only the wording of the last error changed (`subscription_check.rs:1631`).
Creation looks for duplicates by id or trimmed URL and title, an
update by import does not.

**Rules.** `build_transfer_plan` is only used by the preview: `only_latest`,
`conflict_strategy` and `auto_create` (`models/rules.rs:74`) have no effect on a
transfer, and the preview applies the first episode to every season. A collection
counts as its first episode in a check. Clearing the total leaves a completion.

**Save and probe.** Two saves to one directory may both pass the look for
namesakes, and create the directory twice. A whole share retried after a lost
answer is saved twice. Any error code on the first page of the root is "bad",
though `quark.rs:80` distinguishes.

**Downloads.** Two scanners (the page that lists tasks and the monitor) can
announce one end twice (`docs/upgrade-v2.5.0.md:11`). A purge drops results of
tasks that ended after its list. A failing remap in a retry only warns while the
old result is removed; two retries at a time submit twice. A batch with a file
that was stopped, or failed again, stays open for ever; one whose completed
tasks are purged before it settles is never announced. Clearing notifications
unsettles batches with failures. A batch is the second of its submission
(`aria2.rs:182`, `subscription_transfer.rs:943`, `:1153`): two submissions in
one second share it. If a file of it that was retried fails again, the notice of
its first failure suppresses the second, and the completion of the others is put
off for ever (`TwiceFailed`); a record that joins a batch already announced
makes its end be announced again, or never (`joined`). A push may not exist (no
channel, an event switched off, the digest: `notification.rs:125`), may fail, or
may have left the list of jobs (`queue.rs:265`): after a clearing and a restart
such an end is announced again (`forgotten`). A clock that goes back is left
out. `stop_all` ends at the first task that ended meanwhile; `send_to_aria2` at
the first file that fails.

**Messages.** A digest is lost when its job is skipped, or when the process ends
between take and submission. More than 300 notifications push pending items out.
A mark or a restore whose write fails loses its items to the
digest (`notification.rs:130`, `:325`: the results are ignored); a take that
fails (`:294`) and a refused submission leave them pending and set no timer, so
that they wait for the next item or a start. Suppression of
duplicates has no effect in digest mode.

**Telegram.** Confirmations of a source switch carry no fingerprint of what was
shown. A crash after the action's claim loses the action. Index buttons under an
older search refer to the latest session.

**Automation.** A Running notice that was skipped, or whose write failed, makes
Succeeded a refused transition. The mark of a shutdown on a job that has just
succeeded (`worker.rs:416`) is such a transition too: the job is failed and its
event succeeded. The summary sees the newest 1,000 events
(`api/automation.rs:108`); an older event of a stage that is still the latest is
not in it. Recovery runs before the projection subscribes. A retry dropped after
its event was added leaves a Retrying event that hides the failure; a refused
retry of a superseded attempt shadows a success.

**Settings.** A page posts its whole form, so that a revealed secret overwrites
a rotation made elsewhere (`static/js/features/settings.js:219`). A second
rotation within the overlap drops the oldest secret at once
(`docs/roadmap.md:1132`). A delivery begun before a rotation is retried with the
old signature. A secret cannot be cleared. Values of the environment overwrite
edited secrets at start. `docs/api-contract.md:217` says a secret is shown once;
there is an endpoint that shows it.

**Backup, update, schedules.** An archive is not one cut: it holds the archive
of jobs from before the jobs, and a job moved in between is in neither
(`slipped`). Archives that fail verification stay and count; with a retention of
one all backups are removed before a write that may fail. A crash between the
renames of static files and binary leaves them of two releases
(`docs/docker-online-update.md:119`); so does a failed step whose undoing fails,
which may also leave no static directory at all (`update.rs:502-527`; the
failing removal at 516 is ignored); a request dropped during an installation
lets a second one overlap. A dropped update of the settings never reloads the
schedules; two overlapping reloads leave a second job, which `stop` no longer
knows. The cleanup's count of archived jobs is too low, and the total of its
preview counts a job that only moves to the archive as removed, twice if it is
cut there (`api/storage.rs:163`). A forced start after a failed quarantine
rename goes on empty, and its next save overwrites the bytes that the message
calls kept.

## 7. Not modelled, and why

* In the job engine: the backlog alert and queries (no effect on jobs); the hard
  timeout of the worker at shutdown (`Crash` during a drain has the same
  effect); `compact`, and power loss that undoes a rename (below the file system
  interface the code relies on); a retry of a manual save that saved something,
  which the code refuses and `JobQueue` allows (`MediaSave` has the refusal).
* How names are parsed to seasons, episodes and versions, how candidates of a
  source are ranked, titles, metadata lookup and caches: text processing and
  external services, with constants in the model (`hint`, `first`, `last`,
  `rank`) for their results. Only the calendar's status of an episode is there.
* The channels of a push (Telegram, webhook, web push, mail): one action that
  may fail; menus and wording of the bot; rate counters, which may refuse a
  command at any time.
* HTTP routing, authentication, queries, static pages; the sizes of files and
  of backups; the external copy of a backup.
* In the online update the progress text and the arithmetic of a signature.
* Observability: logging and counters no decision depends on.

## 8. Plan

The model is complete as far as the plan went, and the safety properties of its
runs are proved. What is left is the other side of the hypotheses: what still
holds of a transfer whose copies land late, of settings that are changed by two
requests at a time, or of a check beside an edit is weaker, and worth stating
once the code decides what it wants there.
