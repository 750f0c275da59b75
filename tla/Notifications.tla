--------------------------- MODULE Notifications ---------------------------
(***************************************************************************)
(* From a stored notification to a message on a push channel: dispatch,     *)
(* deduplication, the digest that gathers notifications over a window, the  *)
(* push job and its retries (services/notification.rs, services/push.rs,    *)
(* jobs/worker/push_dispatch.rs, store/notification.rs).  Timers and        *)
(* spawned dispatches live in memory; notifications and jobs are stored.    *)
(* Abstracted: event switches are on and routes are the same for all        *)
(* events; the job queue is reduced to its set of unfinished push jobs.      *)
(* Every write may fail: the submission of a job, and the three writes that  *)
(* mark, take and restore the items of a digest.                             *)
(***************************************************************************)
EXTENDS Naturals, FiniteSets

CONSTANTS
  Items,
  levelOf,       \* levelOf[i]: "info" or "error"
  textOf,        \* textOf[i]: event, title and message
  Channels,      \* the enabled channels
  MinLevel,      \* push_min_level
  QuietAllowsError, \* push_quiet_allow_error
  Dedup,         \* push_dedup_window_seconds > 0
  MaxAttempts,   \* background_default().max_attempts
  MaxEdits, MaxCrashes,
  MaxRefusals    \* bounds; a refusal is a write that fails

ASSUME NotificationsAssumption ==
  /\ \A i \in Items : levelOf[i] \in {"info", "error"} /\ MinLevel \in {"info", "error"}
  /\ QuietAllowsError \in BOOLEAN /\ Dedup \in BOOLEAN /\ MaxAttempts \in Nat \ {0}
  /\ {MaxEdits, MaxCrashes, MaxRefusals} \subseteq Nat

VARIABLES
  item,       \* item[i]: "absent", "stored", "pending" or "consumed"
  recorded,   \* items with a push report in their meta
  old,        \* items older than the deduplication window
  spawned,    \* dispatches under way, in memory
  timer,      \* DIGEST_FLUSH_SCHEDULED and the sleeping task, in memory
  flush,      \* a running flush_digest_pending
  jobs,       \* unfinished push jobs
  digest,     \* settings.push_digest_enabled
  quiet,      \* is_quiet_now
  arrived,       \* arrived[i]: deliveries that reached a channel (history)
  skipped,    \* items that were a duplicate, or no channel was for or took (history)
  lost,       \* items the digest lost to a write of their mark that failed (history)
  stranded,   \* pending items left without a timer: see Stranded (history)
  cut,        \* items a crash took the last trace of (history)
  used       \* edits, crashes and refusals so far

History == <<arrived, skipped, lost, stranded, cut>>
nvars == <<item, recorded, old, spawned, timer, flush, jobs, digest, quiet, History, used>>
NoFlush == [pc |-> "idle", level |-> "info", ids |-> {}]
Pending == {i \in Items : item[i] = "pending"}
Level(I) == IF \E i \in I : levelOf[i] = "error" THEN "error" ELSE "info"
Queued == UNION {j.items : j \in {k \in jobs : k.status = "queued"}}

NotificationsInit ==
  /\ item = [i \in Items |-> "absent"] /\ recorded = {} /\ old = {} /\ spawned = {}
  /\ timer = FALSE /\ flush = NoFlush /\ jobs = {} /\ digest \in BOOLEAN /\ quiet = FALSE
  /\ arrived = [i \in Items |-> 0] /\ skipped = {} /\ lost = {} /\ stranded = {} /\ cut = {}
  /\ used = [edits |-> 0, crashes |-> 0, refusals |-> 0]

\* What every variable may hold.
NotificationsTypeOK ==
  /\ item \in [Items -> {"absent", "stored", "pending", "consumed"}]
  /\ recorded \cup old \cup spawned \cup skipped \cup lost \cup stranded \cup cut \subseteq Items
  /\ timer \in BOOLEAN /\ digest \in BOOLEAN /\ quiet \in BOOLEAN
  /\ flush.pc \in {"idle", "level", "take", "submit"} /\ flush.ids \subseteq Items
  /\ \A j \in jobs : j.items \subseteq Items /\ j.items # {} /\ j.status \in {"queued", "running", "direct"}
  /\ \A i \in Items : arrived[i] \in 0..2 /\ (item[i] = "absent" => arrived[i] = 0)

Spend(what, max) == used[what] < max /\ used' = [used EXCEPT ![what] = @ + 1]
\* What is pending now is left to the next notification or start, unless a
\* timer is running that will find it.
Stranded == stranded' = IF timer THEN stranded ELSE Pending'

----------------------------------------------------------------------------
\* channels_for_event: level, quiet hours, enabled channels.
channels_for_event(level) ==
  IF \/ MinLevel = "error" /\ level # "error"
     \/ quiet /\ ~(level = "error" /\ QuietAllowsError)
  THEN {} ELSE Channels

\* add_notification and dispatch_push_event_for_notification, which spawns.
Notify(i) ==
  /\ item[i] = "absent" /\ item' = [item EXCEPT ![i] = "stored"] /\ spawned' = spawned \cup {i}
  /\ UNCHANGED <<recorded, old, timer, flush, jobs, digest, quiet, History, used>>

\* recent_push_duplicate: the same text, reported as pushed within the window.
recent_push_duplicate(i) ==
  \E k \in Items \ {i} : item[k] # "absent" /\ textOf[k] = textOf[i] /\ k \in recorded \ old

\* submit_job is idempotent: an unfinished job with the same payload is returned.
Submitted(j) ==
  LET same == {k \in jobs : k.status # "direct" /\ k.key = j.key /\ k.level = j.level} IN
  IF same = {} THEN jobs \cup {j}
  ELSE (jobs \ same) \cup {[k EXCEPT !.items = @ \cup j.items] : k \in same}
\* Mutation: the job does not name its notification.
MutPushJob(key, level, I) == [key |-> key, level |-> level, items |-> {}, status |-> "queued"]
PushJob(key, level, I) == [key |-> key, level |-> level, items |-> I, status |-> "queued"]

\* dispatch_push_event_impl: drop a duplicate; leave it to the digest; queue it.
Suppress(i) ==
  /\ i \in spawned /\ Dedup /\ recent_push_duplicate(i) /\ spawned' = spawned \ {i}
  /\ skipped' = skipped \cup {i}
  /\ UNCHANGED <<item, recorded, old, timer, flush, jobs, digest, quiet, arrived, lost, stranded, cut, used>>

\* mark_digest_pending, whose failure is not looked at: the item is then in no
\* digest and in no job.  schedule_digest_flush: one timer in the process.
LeaveToDigest(i) ==
  /\ i \in spawned /\ ~(Dedup /\ recent_push_duplicate(i)) /\ digest
  /\ spawned' = spawned \ {i} /\ timer' = TRUE /\ stranded' = {}
  /\ \/ item' = [item EXCEPT ![i] = "pending"] /\ UNCHANGED <<lost, used>>
     \/ lost' = lost \cup {i} /\ Spend("refusals", MaxRefusals) /\ UNCHANGED item
  /\ UNCHANGED <<recorded, old, flush, jobs, digest, quiet, arrived, skipped, cut>>

\* Where no channel is enabled nothing is submitted.
QueuePush(i) ==
  /\ i \in spawned /\ ~(Dedup /\ recent_push_duplicate(i)) /\ ~digest /\ spawned' = spawned \ {i}
  /\ jobs' = IF Channels = {} THEN jobs ELSE Submitted(PushJob({i}, levelOf[i], {i}))
  /\ skipped' = IF Channels = {} THEN skipped \cup {i} ELSE skipped
  /\ UNCHANGED <<item, recorded, old, timer, flush, digest, quiet, arrived, lost, stranded, cut, used>>

\* The queue refuses the job: a task sends the message itself (send_push_event).
SendDirectly(i) ==
  /\ i \in spawned /\ ~(Dedup /\ recent_push_duplicate(i)) /\ ~digest /\ Channels # {}
  /\ Spend("refusals", MaxRefusals) /\ spawned' = spawned \ {i}
  /\ jobs' = jobs \cup {[PushJob({i}, levelOf[i], {i}) EXCEPT !.status = "direct"]}
  /\ UNCHANGED <<item, recorded, old, timer, flush, digest, quiet, History>>

----------------------------------------------------------------------------
\* The window ends: the flag is cleared before the flush starts, so that what
\* becomes pending from now on sets a timer of its own.
Fire ==
  /\ timer /\ flush.pc = "idle" /\ timer' = FALSE /\ flush' = [NoFlush EXCEPT !.pc = "level"]
  /\ UNCHANGED <<item, recorded, old, spawned, jobs, digest, quiet, History, used>>

\* flush_digest_pending looks first: no channel for what is pending, and the
\* flush is put off half an hour, its items untouched.
Postpone ==
  /\ flush.pc = "level" /\ (Pending = {} \/ channels_for_event(Level(Pending)) = {})
  /\ flush' = NoFlush /\ timer' = (timer \/ Pending # {})
  /\ UNCHANGED <<item, recorded, old, spawned, jobs, digest, quiet, History, used>>
Proceed ==
  /\ flush.pc = "level" /\ Pending # {} /\ channels_for_event(Level(Pending)) # {}
  /\ flush' = [flush EXCEPT !.pc = "take", !.level = Level(Pending)]
  /\ UNCHANGED <<item, recorded, old, spawned, timer, jobs, digest, quiet, History, used>>

\* Mutation: taking does not mark the items as consumed.
MutTake ==
  /\ flush.pc = "take" /\ flush' = [flush EXCEPT !.pc = "submit", !.ids = Pending] /\ item' = item
  /\ UNCHANGED <<recorded, old, spawned, timer, jobs, digest, quiet, History, used>>
\* take_digest_pending: one write, then the items are the flush's.
Take ==
  /\ flush.pc = "take"
  /\ flush' = IF Pending = {} THEN NoFlush ELSE [flush EXCEPT !.pc = "submit", !.ids = Pending]
  /\ item' = [i \in Items |-> IF i \in Pending THEN "consumed" ELSE item[i]]
  /\ UNCHANGED <<recorded, old, spawned, timer, jobs, digest, quiet, History, used>>

\* The write fails, and the flush ends: what is pending stays so, and no timer
\* is set for it.
TakeFails ==
  /\ flush.pc = "take" /\ Pending # {} /\ Spend("refusals", MaxRefusals) /\ flush' = NoFlush
  /\ UNCHANGED <<item, recorded, old, spawned, timer, jobs, digest, quiet, arrived, skipped, lost, cut>> /\ Stranded

SubmitDigest ==
  /\ flush.pc = "submit" /\ flush' = NoFlush
  /\ jobs' = Submitted(PushJob({textOf[i] : i \in flush.ids}, flush.level, flush.ids))
  /\ UNCHANGED <<item, recorded, old, spawned, timer, digest, quiet, History, used>>

\* Mutation: a refused submission is not rolled back.
MutRefuse ==
  /\ flush.pc = "submit" /\ Spend("refusals", MaxRefusals) /\ flush' = NoFlush /\ item' = item
  /\ UNCHANGED <<recorded, old, spawned, timer, jobs, digest, quiet, History>>
\* The queue refuses the job (a failed write, a shutdown): restore_digest_pending.
\* No timer is set for them; the next notification or start sets one.
RefuseDigest ==
  /\ flush.pc = "submit" /\ Spend("refusals", MaxRefusals) /\ flush' = NoFlush
  /\ item' = [i \in Items |-> IF i \in flush.ids /\ item[i] # "absent" THEN "pending" ELSE item[i]] /\ Stranded
  /\ UNCHANGED <<recorded, old, spawned, timer, jobs, digest, quiet, arrived, skipped, lost, cut>>
\* The restoring write fails too, which is not looked at.
RestoreFails ==
  /\ flush.pc = "submit" /\ Spend("refusals", MaxRefusals) /\ flush' = NoFlush
  /\ lost' = lost \cup flush.ids
  /\ UNCHANGED <<item, recorded, old, spawned, timer, jobs, digest, quiet, arrived, skipped, stranded, cut>>

----------------------------------------------------------------------------
StartPush(j) ==
  /\ j \in jobs /\ j.status = "queued" /\ jobs' = (jobs \ {j}) \cup {[j EXCEPT !.status = "running"]}
  /\ UNCHANGED <<item, recorded, old, spawned, timer, flush, digest, quiet, History, used>>

\* run_push_dispatch: no channel any more, and the job is done without sending.
SkipPush(j) ==
  /\ j \in jobs /\ j.status # "queued" /\ channels_for_event(j.level) = {} /\ jobs' = jobs \ {j}
  /\ skipped' = skipped \cup j.items
  /\ UNCHANGED <<item, recorded, old, spawned, timer, flush, digest, quiet, arrived, lost, stranded, cut, used>>

\* send_with_retry: the attempts a channel needs; one more than there are fails.
send_with_retry == 1..(MaxAttempts + 1)
Delivered(c, attempts) == attempts[c] <= MaxAttempts
\* record_push_message_report_for_notification: in the meta of the notification
\* the job names - a digest names none.
Reported(j) == IF \E i \in j.items : j.key = {i} THEN recorded \cup j.items ELSE recorded
\* send_to_channels_with_retry_detailed: every channel is tried; one is enough.
SendPush(j) ==
  LET to == channels_for_event(j.level) IN
  /\ j \in jobs /\ j.status # "queued" /\ to # {} /\ jobs' = jobs \ {j} /\ recorded' = Reported(j)
  /\ \E attempts \in [to -> send_with_retry] :
       LET sent == \E c \in to : Delivered(c, attempts) IN
       /\ arrived' = [i \in Items |-> IF sent /\ i \in j.items /\ arrived[i] < 2 THEN arrived[i] + 1 ELSE arrived[i]]
       /\ skipped' = IF sent THEN skipped ELSE skipped \cup j.items
  /\ UNCHANGED <<item, old, spawned, timer, flush, digest, quiet, lost, stranded, cut, used>>

----------------------------------------------------------------------------
\* Hours pass between two of these, a flush looks at the clock once.
ClockQuiet == /\ flush.pc # "level" /\ quiet' = ~quiet
              /\ UNCHANGED <<item, recorded, old, spawned, timer, flush, jobs, digest, History, used>>
Age(i) == /\ i \in recorded \ old /\ old' = old \cup {i}
          /\ UNCHANGED <<item, recorded, spawned, timer, flush, jobs, digest, quiet, History, used>>
SwitchDigest ==
  /\ Spend("edits", MaxEdits) /\ digest' = ~digest
  /\ UNCHANGED <<item, recorded, old, spawned, timer, flush, jobs, quiet, History>>

\* Mutation: no recovery of what is pending.
MutRestart ==
  /\ Spend("crashes", MaxCrashes) /\ spawned' = {} /\ flush' = NoFlush /\ jobs' = {}
  /\ cut' = cut \cup spawned \cup (IF flush.pc = "submit" THEN flush.ids ELSE {})
                \cup UNION {j.items : j \in jobs}
  /\ timer' = FALSE /\ stranded' = IF digest THEN {} ELSE Pending
  /\ UNCHANGED <<item, recorded, old, digest, quiet, arrived, skipped, lost>>
\* The process restarts: recover_digest_pending_on_startup; push jobs left
\* unfinished are not sent again, those never started included.
Restart ==
  /\ Spend("crashes", MaxCrashes) /\ spawned' = {} /\ flush' = NoFlush /\ jobs' = {}
  /\ cut' = cut \cup spawned \cup (IF flush.pc = "submit" THEN flush.ids ELSE {})
                \cup UNION {j.items : j \in jobs}
  /\ timer' = (digest /\ Pending # {}) /\ stranded' = IF digest THEN {} ELSE Pending
  /\ UNCHANGED <<item, recorded, old, digest, quiet, arrived, skipped, lost>>

FlushStep == Postpone \/ Proceed \/ Take \/ SubmitDigest
NotificationsNext ==
  \/ \E i \in Items : Notify(i) \/ Suppress(i) \/ LeaveToDigest(i) \/ QueuePush(i) \/ SendDirectly(i) \/ Age(i)
  \/ Fire \/ FlushStep \/ TakeFails \/ RefuseDigest \/ RestoreFails
  \/ \E j \in jobs : StartPush(j) \/ SkipPush(j) \/ SendPush(j)
  \/ ClockQuiet \/ SwitchDigest \/ Restart

NotificationsSpec == NotificationsInit /\ [][NotificationsNext]_nvars

----------------------------------------------------------------------------
\* A notification is waiting for the digest, on its way, or was sent, or its
\* loss has a name: a duplicate, no channel that took it, a restart that found it
\* in memory or with a job, or one of the two writes of its mark whose failure
\* nobody looks at (notification.rs:130, 325).  A refused submission, a failed
\* take, quiet hours and a switch of the digest lose nothing.
NoticeAccounted ==
  \A i \in Items : item[i] \in {"stored", "consumed"} =>
    \/ i \in spawned \/ arrived[i] > 0 \/ i \in skipped \cup lost \cup cut
    \/ (flush.pc = "submit" /\ i \in flush.ids) \/ \E j \in jobs : i \in j.items

\* An item is sent in one message at most: by the digest or on its own, never
\* by two digests, whatever was refused, restored, restarted or switched.
SentOnce ==
  /\ \A i \in Items : arrived[i] <= 1
  /\ \A j, k \in jobs : j.items \cap k.items # {} => j = k

\* What is pending has somebody to take it, through quiet hours, restarts and
\* items that arrive while a flush is under way, but for what was left without a
\* timer by a take that failed, a submission that was refused, or a start that
\* found the digest switched off - and only until the next item sets one
\* (schedule_digest_flush, flush_digest_pending, recover_digest_pending_on_startup).
PendingHasTimer == Pending \subseteq stranded \/ timer \/ flush.pc \in {"level", "take"}

\* The digest loses nothing that has no name, sends nothing twice, and what it
\* holds has somebody to send it.
DigestKept == NoticeAccounted /\ SentOnce /\ PendingHasTimer
=============================================================================
