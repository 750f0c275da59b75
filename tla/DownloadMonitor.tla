-------------------------- MODULE DownloadMonitor --------------------------
(***************************************************************************)
(* What happens between a download handed to Aria2 and the news of its end  *)
(* (download_monitor.rs, api/drive/aria2.rs).  Aria2 is only polled: by the *)
(* monitor every 15 s, and by every request that lists, reads or purges     *)
(* tasks.  A poll claims the ended tasks in memory, writes the end into the *)
(* subscription's record, and adds one notification per file or, for files  *)
(* submitted together, one for the batch once all of it has ended.          *)
(* Abstracted: one subscription, one directory, all sizes equal; the records *)
(* kept only in old notifications; metadata files; Aria2's result window.    *)
(***************************************************************************)
EXTENDS Naturals, Sequences, FiniteSets, SequencesExt

CONSTANTS
  Gids, Files,
  fileOf,        \* fileOf[g]: the file name of the task
  Target,        \* the files that finish the subscription
  Scanners,      \* the polls that may run at the same time
  Window,        \* whether anything happens to a task before its record is written
  MaxBatch, MaxFaults, MaxClears, MaxPushed, MaxGone  \* bounds

ASSUME MonitorAssumption ==
  /\ IsFiniteSet(Gids) /\ fileOf \in [Gids -> Files] /\ Target \subseteq Files /\ Target # {}
  /\ Window \in BOOLEAN /\ {MaxBatch, MaxFaults, MaxClears, MaxPushed, MaxGone} \subseteq Nat

VARIABLES
  aria,       \* aria[g]: the state of the task
  listed,     \* ended tasks Aria2 still lists
  recording,  \* <<old, new>>: accepted by Aria2, not yet recorded (old = new: a new record)
  records,    \* the subscription's sync_downloads, in order
  batches,    \* the last submitted_at given out
  completed,  \* whether the subscription is completed
  notices,    \* the notifications in the store
  pushed,     \* messages of the succeeded push jobs in the list of jobs
  known,      \* notified_completed_downloads: the claims, in memory
  scan,       \* scan[s]: a running notify_completed_downloads
  told,       \* history: how often the end of g was announced
  forgotten,  \* history: the files of which both stores dropped the news
  joined,     \* history: batches another record joined when they had been announced
  faults, clears

dvars == <<aria, listed, recording, records, batches, completed, notices, pushed,
           known, scan, told, forgotten, joined, faults, clears>>
AriaVars == <<aria, listed>>
StoreVars == <<records, completed, recording, batches, joined>>
NewsVars == <<notices, pushed, told, forgotten>>

Ended == {"complete", "error"}
NoScan == [pc |-> "idle", list |-> {}, todo |-> {}, task |-> {}, hist |-> {},
           sent |-> {}, purge |-> FALSE]
Index == DOMAIN records
Files_(G) == {fileOf[g] : g \in G}
DoneGids == {records[i].gid : i \in {j \in Index : records[j].done}}

MonitorInit ==
  /\ aria = [g \in Gids |-> "none"] /\ listed = {} /\ recording = {} /\ records = <<>>
  /\ batches = 0 /\ completed = FALSE /\ notices = {} /\ pushed = {} /\ known = {}
  /\ scan = [s \in Scanners |-> NoScan] /\ told = [g \in Gids |-> 0]
  /\ forgotten = {} /\ joined = {} /\ faults = 0 /\ clears = 0

\* What every variable may hold.
MonitorTypeOK ==
  /\ aria \in [Gids -> {"none", "active", "removed"} \cup Ended] /\ listed \subseteq Gids
  /\ records \in Seq([gid : Gids, batch : 1..MaxBatch, done : BOOLEAN])
  /\ completed \in BOOLEAN /\ recording \subseteq Gids \X Gids
  /\ known \subseteq Ended \X (Gids \cup Files) /\ told \in [Gids -> 0..2]
  /\ \A n \in notices : n.kind \in {"failed", "single", "merged"} /\ n.gids \subseteq Gids
  /\ \A s \in Scanners :
       /\ scan[s].pc \in {"idle", "claim", "work", "decide"} /\ scan[s].todo \subseteq scan[s].list
       /\ scan[s].list \subseteq Gids /\ Cardinality(scan[s].task) <= 1

Fault == faults < MaxFaults /\ faults' = faults + 1

----------------------------------------------------------------------------
\* Aria2 gives a task an id it has not given before; which one does not matter.
New(g) == aria[g] = "none" /\ g = CHOOSE h \in Gids : aria[h] = "none" /\ fileOf[h] = fileOf[g]

\* The transfer job submits files, and records them under one submitted_at.
Submit(G) ==
  /\ G # {} /\ recording = {} /\ batches < MaxBatch
  /\ \A g \in G : New(g) /\ \A i \in Index : fileOf[records[i].gid] # fileOf[g]
  /\ \A g, h \in G : fileOf[g] = fileOf[h] => g = h
  /\ aria' = [g \in Gids |-> IF g \in G THEN "active" ELSE aria[g]]
  /\ recording' = {<<g, g>> : g \in G}
  /\ UNCHANGED <<listed, records, batches, joined, completed, NewsVars, known, scan, faults, clears>>

\* submitted_at is the time in seconds: a later second, or that of the record before.
NextBatch == {batches, batches + 1} \ {0}
\* record_sync_downloads appends; retry_aria2_task moves a record to its new
\* task and removes the old result (remap_subscription_download_gid).
Record ==
  /\ recording # {} /\ batches' \in NextBatch /\ recording' = {}
  /\ LET new == {p[2] : p \in {q \in recording : q[1] = q[2]}}
         old == {p[1] : p \in {q \in recording : q[1] # q[2]}}
         entry(g) == [gid |-> g, batch |-> batches', done |-> FALSE] IN
       /\ records' =
            IF old = {} THEN records \o [i \in 1..Cardinality(new) |-> entry(SetToSeq(new)[i])]
            ELSE [i \in Index |-> LET to == {p[2] : p \in {q \in recording : q[1] = records[i].gid}}
                  IN IF to = {} THEN records[i] ELSE entry(CHOOSE g \in to : TRUE)]
       /\ listed' = listed \ old
  /\ joined' = joined \cup {b \in {batches'} :
                  \E i \in Index : records[i].batch = b /\ told[records[i].gid] > 0}
  /\ UNCHANGED <<aria, completed, NewsVars, known, scan, faults, clears>>

Retry(old, new) ==
  /\ aria[old] \in {"error", "removed"} /\ old \in listed /\ New(new) /\ fileOf[new] = fileOf[old]
  /\ recording = {} /\ batches < MaxBatch
  /\ aria' = [aria EXCEPT ![new] = "active"] /\ recording' = {<<old, new>>}
  /\ UNCHANGED <<listed, records, batches, joined, completed, NewsVars, known, scan, faults, clears>>

\* send_to_aria2: a download started by hand has no record.
SendByHand(g) ==
  /\ aria[g] = "none" /\ aria' = [aria EXCEPT ![g] = "active"]
  /\ \A h \in Gids : fileOf[h] = fileOf[g] => h = g
  /\ UNCHANGED <<listed, StoreVars, NewsVars, known, scan, faults, clears>>

End(g, how) ==
  /\ aria[g] = "active" /\ (Window \/ \A p \in recording : p[2] # g)
  /\ aria' = [aria EXCEPT ![g] = how] /\ listed' = listed \cup {g}
  /\ UNCHANGED <<StoreVars, NewsVars, known, scan, faults, clears>>

\* delete_aria2_task: the result of an ended task.
Delete(g) ==
  /\ g \in listed /\ listed' = listed \ {g}
  /\ Cardinality({h \in Gids : aria[h] \notin {"none", "active"} /\ h \notin listed}) < MaxGone
  /\ UNCHANGED <<aria, StoreVars, NewsVars, known, scan, faults, clears>>

----------------------------------------------------------------------------
\* download_dedupe_keys
Keys(g) == {<<aria[g], g>>, <<aria[g], fileOf[g]>>}

Claimable(G) == {g \in G : aria[g] \in Ended /\ Keys(g) \cap known = {}}

\* list_tasks (poll_once, the request handlers; purge_aria2_tasks lists to purge).
\* A poll with nothing to claim changes nothing and is left out.
List(s, purge) ==
  /\ scan[s].pc = "idle" /\ listed # {} /\ (purge \/ Claimable(listed) # {})
  /\ scan' = [scan EXCEPT ![s] = [NoScan EXCEPT !.pc = "claim", !.list = listed, !.purge = purge]]
  /\ UNCHANGED <<AriaVars, StoreVars, NewsVars, known, faults, clears>>

\* Ended tasks none of whose keys is known are claimed under one lock, one after
\* the other: of two tasks with the same key one is claimed.
Claim(s) ==
  /\ scan[s].pc = "claim"
  /\ LET free == Claimable(scan[s].list) IN
     \E mine \in SUBSET free :
       /\ \A g, h \in mine : Keys(g) \cap Keys(h) # {} => g = h
       /\ \A g \in free : \E h \in mine : Keys(g) \cap Keys(h) # {}
       /\ known' = known \cup UNION {Keys(g) : g \in mine}
       /\ scan' = [scan EXCEPT ![s].todo = mine, ![s].pc = "work"]
  /\ UNCHANGED <<AriaVars, StoreVars, NewsVars, faults, clears>>

Release(s, g) ==
  /\ known' = known \ Keys(g)
  /\ scan' = [scan EXCEPT ![s].pc = "work", ![s].todo = @ \ {g}, ![s].task = {}]

\* The records a task ends: its own, or else those of the same file.
Matches(g) ==
  LET exact == {i \in Index : records[i].gid = g} IN
  IF exact # {} THEN exact ELSE {i \in Index : fileOf[records[i].gid] = fileOf[g]}

\* The next claimed task: the history is read, and complete_subscription_for_download
\* writes the end into the records (MarkDone), and completes the subscription with
\* its last file.
MarkDone(g) ==
  records' = [i \in Index |-> IF i \in Matches(g) THEN [records[i] EXCEPT !.done = TRUE] ELSE records[i]]
Work(s, g) ==
  /\ scan[s].pc = "work" /\ g \in scan[s].todo
  /\ scan' = [scan EXCEPT ![s].pc = "decide", ![s].task = {g}, ![s].hist = notices, ![s].sent = pushed]
  /\ IF aria[g] = "complete"
     THEN /\ MarkDone(g)
          /\ completed' = (completed \/ (Matches(g) # {}
                             /\ Target \subseteq Files_({records[i].gid : i \in {j \in Index : records'[j].done}})))
     ELSE UNCHANGED <<records, completed>>
  /\ UNCHANGED <<AriaVars, recording, batches, joined, NewsVars, known, faults, clears>>

\* Mutation: the claim outlives a failed write.
MutWorkFails(s, g) ==
  /\ scan[s].pc = "work" /\ g \in scan[s].todo /\ Fault
  /\ scan' = [scan EXCEPT ![s].todo = @ \ {g}]
  /\ UNCHANGED <<AriaVars, StoreVars, NewsVars, known, clears>>
\* Mutation: a failed write is ignored, and the end announced.
MutIgnoreFailure(s, g) ==
  /\ scan[s].pc = "work" /\ g \in scan[s].todo /\ Fault
  /\ scan' = [scan EXCEPT ![s].pc = "decide", ![s].task = {g}, ![s].hist = notices, ![s].sent = pushed]
  /\ UNCHANGED <<AriaVars, StoreVars, NewsVars, known, clears>>
\* A write fails, that of the record or the one that completes the subscription:
\* the claim is given back.
WorkFails(s, g) ==
  /\ scan[s].pc = "work" /\ g \in scan[s].todo /\ Fault /\ Release(s, g)
  /\ UNCHANGED records \/ (aria[g] = "complete" /\ MarkDone(g))
  /\ UNCHANGED <<AriaVars, completed, recording, batches, joined, NewsVars, clears>>

----------------------------------------------------------------------------
\* What is said of tasks: the message names the files, and the sizes of those listed.
Message(n) == [kind |-> n.kind, files |-> Files_(n.gids), sized |-> n.sized]
Notice(kind, gids, sized) == [kind |-> kind, gids |-> gids, sized |-> sized]
Of(kinds, hist) == {n \in hist : n.kind \in kinds}

\* download_batch_for_task: the records submitted together with the first one
\* that has the task's id or the task's file.
Batch(g) ==
  LET same == {i \in Index : records[i].gid = g \/ fileOf[records[i].gid] = fileOf[g]} IN
  IF same = {} THEN {}
  ELSE LET first == CHOOSE i \in same : \A j \in same : i <= j IN
       {i \in Index : records[i].batch = records[first].batch}
GidsAt(I) == {records[i].gid : i \in I}

failed_download_gids(hist) == UNION {n.gids : n \in Of({"failed"}, hist)}
\* Mutation: a failed file does not settle.
Mutbatch_records_settled(I, hist) == \A i \in I : records[i].done
batch_records_settled(I, hist) ==
  \A i \in I : records[i].done \/ records[i].gid \in failed_download_gids(hist)

failed_download_already_recorded(hist, sent, g) ==
  \/ \E m \in sent : m.kind = "failed" /\ m.files = {fileOf[g]}
  \/ \E n \in Of({"failed"}, hist) : fileOf[g] \in Files_(n.gids)
completed_download_already_recorded(hist, sent, notice, g) ==
  \/ Message(notice) \in sent
  \/ \E n \in Of({"single", "merged"}, hist) :
       g \in n.gids \/ (n.kind = "single" /\ Files_(n.gids) = {fileOf[g]})
\* Mutation: only the stored notifications are asked.
Mutmerged_download_already_recorded(hist, sent, notice, I) ==
  \E n \in Of({"merged"}, hist) : n.gids \cap GidsAt(I) # {}
merged_download_already_recorded(hist, sent, notice, I) ==
  \/ Message(notice) \in sent
  \/ \E n \in Of({"merged"}, hist) : n.gids \cap GidsAt(I) # {} \/ Message(n) = Message(notice)
  \/ \A g \in GidsAt(I) :
       \/ \E n \in Of({"single", "merged"}, hist) : g \in n.gids
       \/ \E m \in sent : m.kind = "single" /\ m.files = {fileOf[g]}

Handled(s, g) == scan' = [scan EXCEPT ![s].pc = "work", ![s].todo = @ \ {g}, ![s].task = {}]
\* add_notification; the push of it, if there is one, comes later (Clear).
Announce(notice) ==
  /\ notices' = notices \cup {notice} /\ UNCHANGED <<pushed, forgotten>>
  /\ told' = [h \in Gids |-> IF notice.kind # "failed" /\ h \in notice.gids /\ told[h] < 2
                             THEN told[h] + 1 ELSE told[h]]

\* notify_failed_download
DecideFailed(s, g) ==
  /\ scan[s].pc = "decide" /\ scan[s].task = {g} /\ aria[g] = "error" /\ Handled(s, g)
  /\ IF failed_download_already_recorded(scan[s].hist, scan[s].sent, g) THEN UNCHANGED NewsVars
     ELSE Announce(Notice("failed", {g}, {}))
  /\ UNCHANGED <<AriaVars, StoreVars, known, faults, clears>>

Merges(g) == Cardinality(Batch(g)) > 1
\* Others of the batch are under way: the claim is given back.
Defer(s, g) ==
  /\ scan[s].pc = "decide" /\ scan[s].task = {g} /\ aria[g] = "complete" /\ Merges(g)
  /\ ~batch_records_settled(Batch(g), scan[s].hist) /\ Release(s, g)
  /\ UNCHANGED <<AriaVars, StoreVars, NewsVars, faults, clears>>

\* notify_batch_completed, or one notification for the file.
DecideCompleted(s, g) ==
  /\ scan[s].pc = "decide" /\ scan[s].task = {g} /\ aria[g] = "complete" /\ Handled(s, g)
  /\ Merges(g) => batch_records_settled(Batch(g), scan[s].hist)
  /\ LET done == GidsAt({i \in Batch(g) : records[i].done})
         notice == IF Merges(g) THEN Notice("merged", done, Files_(done \cap scan[s].list))
                   ELSE Notice("single", {g}, {fileOf[g]})
         recorded == IF Merges(g)
           THEN merged_download_already_recorded(scan[s].hist, scan[s].sent, notice, Batch(g))
           ELSE completed_download_already_recorded(scan[s].hist, scan[s].sent, notice, g) IN
       IF recorded THEN UNCHANGED NewsVars ELSE Announce(notice)
  /\ UNCHANGED <<AriaVars, StoreVars, known, faults, clears>>

DecideFails(s, g) ==
  /\ scan[s].pc = "decide" /\ scan[s].task = {g} /\ Fault /\ Release(s, g)
  /\ UNCHANGED <<AriaVars, StoreVars, NewsVars, clears>>

\* The poll is over; purge_download_result drops every result there is by now.
Finish(s) ==
  /\ scan[s].pc = "work" /\ scan[s].todo = {} /\ scan' = [scan EXCEPT ![s] = NoScan]
  /\ listed' = IF scan[s].purge THEN {} ELSE listed
  /\ UNCHANGED <<aria, StoreVars, NewsVars, known, faults, clears>>

\* The files messages say are complete.
FilesOf(M) == UNION {m.files : m \in {x \in M : x.kind # "failed"}}

\* The user empties the notification list.  Of what it held, only the messages M
\* are in the list of jobs: a push may have failed, or waits in the digest, or was
\* never handed to the queue.  (Before this the jobs decide nothing: what they know
\* the notifications know too.)
Clear ==
  /\ notices # {} /\ clears < MaxClears /\ clears' = clears + 1 /\ notices' = {}
  /\ \E M \in SUBSET {Message(n) : n \in notices} :
       /\ Cardinality(M) <= MaxPushed /\ pushed' = pushed \cup M
       /\ forgotten' = forgotten \cup FilesOf({Message(n) : n \in notices} \ pushed')
  /\ UNCHANGED <<AriaVars, StoreVars, told, known, scan, faults>>

\* The user, or a cleanup, takes a job from the list; an archived one is not read.
PushForgotten(m) ==
  /\ m \in pushed /\ pushed' = pushed \ {m}
  /\ forgotten' = forgotten \cup FilesOf({m} \ {Message(n) : n \in notices})
  /\ UNCHANGED <<AriaVars, StoreVars, notices, told, known, scan, faults, clears>>

\* A restart: what was not recorded stays unrecorded.
Crash ==
  /\ Fault /\ known' = {} /\ scan' = [s \in Scanners |-> NoScan]
  /\ (Window \/ recording = {}) /\ recording' = {}
  /\ UNCHANGED <<AriaVars, records, completed, batches, joined, NewsVars, clears>>

ScanStep(s) ==
  \/ List(s, FALSE) \/ Claim(s) \/ Finish(s)
  \/ \E g \in Gids : Work(s, g) \/ DecideFailed(s, g) \/ Defer(s, g) \/ DecideCompleted(s, g)
ScanFault(s) == \E g \in Gids : WorkFails(s, g) \/ DecideFails(s, g)
MonitorNext ==
  \/ \E s \in Scanners : ScanStep(s) \/ ScanFault(s) \/ List(s, TRUE)
  \/ \E G \in SUBSET Gids : Submit(G)
  \/ \E g, h \in Gids : Retry(g, h)
  \/ \E g \in Gids : SendByHand(g) \/ Delete(g) \/ (\E how \in Ended \cup {"removed"} : End(g, how))
  \/ Record \/ Clear \/ Crash
  \/ \E m \in pushed : PushForgotten(m)

\* The monitor's ticker polls for ever; a poll handles each task it has claimed.
MonitorFairness ==
  \A s \in Scanners :
    /\ WF_dvars(ScanStep(s)) /\ SF_dvars(Finish(s))
MonitorSpec == MonitorInit /\ [][MonitorNext]_dvars /\ MonitorFairness

----------------------------------------------------------------------------
\* "Business state lands before the notification shown": whoever reads that a
\* file is complete finds its record complete, whatever order polls and writes took.
NoticeFollowsRecord ==
  \A n \in Of({"single", "merged"}, notices) : \A i \in Index :
    records[i].gid \in n.gids => records[i].done

\* The end of a file is announced once: polled again, after a restart, after the
\* list of notifications was emptied - as long as Aria2 still lists what ended, one
\* store or the other remembers the message, and no other file joined the batch in
\* the second it was submitted, when it had been announced.
Forgotten(g) == fileOf[g] \in forgotten
Joined(g) == \E i \in Index : records[i].gid = g /\ records[i].batch \in joined
ToldOnce ==
  \A g \in Gids : \/ told[g] <= 1 \/ Forgotten(g) \/ Joined(g)
                   \/ \E h \in Gids : aria[h] \in Ended /\ h \notin listed

\* A batch all of whose files have ended is announced, the complete ones of it:
\* a poll that came too early gives its claim back, and a later one takes it.  Not
\* so when two retries, or a retry and a submission, got the same second and the
\* retried file fails again: the first failure of this file stands for the second,
\* which therefore never settles the batch (TwiceFailed).
TwiceFailed(B) ==
  Cardinality(B) > 1 /\ \E i \in B, h \in Gids :
    LET g == records[i].gid IN
    aria[g] = "error" /\ h # g /\ fileOf[h] = fileOf[g] /\ aria[h] = "error"
Ready(b) ==
  LET B == {i \in Index : records[i].batch = b} IN
  /\ \A i \in B : aria[records[i].gid] \in Ended /\ records[i].gid \in listed
  /\ \E i \in B : aria[records[i].gid] = "complete"
  /\ b \notin joined /\ ~TwiceFailed(B)
Announced(b) ==
  \A i \in Index : records[i].batch = b /\ aria[records[i].gid] = "complete" => told[records[i].gid] > 0
BatchAnnounced ==
  \A b \in 1..MaxBatch : (Ready(b) /\ clears = 0) ~> (Announced(b) \/ ~Ready(b) \/ clears > 0)

\* The last file of the series ends: the subscription completes, whatever write
\* failed first, as long as Aria2 still lists the file.
TargetEnded ==
  \A f \in Target : \E i \in Index :
    LET g == records[i].gid IN fileOf[g] = f /\ aria[g] = "complete" /\ g \in listed
TargetCompletes == TargetEnded ~> (completed \/ ~TargetEnded)
=============================================================================
