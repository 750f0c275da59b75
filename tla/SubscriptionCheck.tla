-------------------------- MODULE SubscriptionCheck --------------------------
(***************************************************************************)
(* Checks of one subscription (subscription_check.rs): a single check works *)
(* on the store; a batch check works on a snapshot taken when it starts and *)
(* merges its results at the end.  Both hold the lock of the subscription   *)
(* while they check it, but not while they wait or merge, and neither keeps *)
(* the user or a transfer job from changing the record meanwhile.           *)
(***************************************************************************)
EXTENDS Subscription

CONSTANTS
  Totals,         \* the total_episode_number a subscription may start with
  AutoApply,      \* auto_source_switch_enabled, in mode "apply"
  MaxEdits,       \* bound: edits and checks users ask for
  MaxTurns        \* bound: shares that die or come back, calls that fail

ASSUME CheckAssumption ==
  Totals \subseteq 0..Last /\ AutoApply \in BOOLEAN /\ MaxEdits \in Nat /\ MaxTurns \in Nat

VARIABLES
  sub,        \* the stored record
  share,      \* share[u]: how many episodes it has, and whether it is alive
  batch,      \* the batch check: its snapshot, the originals, whether it wrote
  check,      \* check[c]: the check of kind c
  requests,   \* the transfer jobs that wait: sets of episodes
  edits, turns,
  streak,     \* history: definitive failures of the current link in a row
  hasty       \* history: the source was switched for less than that

cvars == <<sub, share, batch, check, requests, edits, turns, streak, hasty>>
Kinds_ == {"single", "batch"}
Phases == {"idle", "begin", "probe", "update", "reconcile", "submit", "invalid",
           "search", "apply", "existing", "ended"}
Fresh(u, total) ==
  [present |-> TRUE, enabled |-> TRUE, url |-> u, total |-> total, start |-> 0,
   known |-> {}, transferred |-> {}, status |-> "active", completed |-> FALSE,
   invalid |-> FALSE, failures |-> 0, probe |-> NoUrl, history |-> FALSE,
   candidates |-> {}, searched |-> FALSE, switched |-> FALSE, rejected |-> {},
   previous |-> {}, switches |-> <<>>]
Nothing == [Fresh(CHOOSE u \in Urls : TRUE, 0) EXCEPT !.present = FALSE]
NoCheck == [pc |-> "idle", sub |-> Nothing, files |-> {}, found |-> {}]
NoBatch == [pc |-> "idle", snap |-> Nothing, original |-> Nothing, dirty |-> FALSE]

\* What every variable may hold.
CheckTypeOK ==
  /\ sub \in Record_ /\ share \in [Urls -> [size : 0..Last, alive : BOOLEAN]]
  /\ batch \in [pc : {"idle", "running"}, snap : Record_, original : Record_, dirty : BOOLEAN]
  /\ check \in [Kinds_ -> [pc : Phases, sub : Record_, files : SUBSET Episodes,
                          found : SUBSET Episodes]]
  /\ requests \subseteq SUBSET Episodes /\ edits \in 0..MaxEdits /\ turns \in 0..MaxTurns
  /\ streak \in 0..FailureCap /\ hasty \in BOOLEAN
  \* The lock: the two kinds of check never work on the subscription at once.
  /\ check["single"].pc = "idle" \/ check["batch"].pc \in {"idle", "ended"}
  /\ check["batch"].pc # "idle" => batch.pc = "running"

AtRest ==
  /\ batch = NoBatch /\ check = [c \in Kinds_ |-> NoCheck] /\ requests = {}
  /\ edits = 0 /\ turns = 0 /\ streak = 0 /\ hasty = FALSE

\* create: a subscription that has not been checked; the shares a search may
\* find are further along than its own.
CheckInit ==
  /\ \E u \in Urls, total \in Totals :
       /\ sub = Fresh(u, total)
       /\ share = [v \in Urls |-> [size |-> IF v = u THEN 1 ELSE Last, alive |-> TRUE]]
  /\ AtRest

Size(u) == share[u].size
Store(c) == IF c = "batch" THEN batch.snap ELSE sub
\* SubscriptionStore::update: nothing happens to a record that is gone.
Put(c, s) ==
  IF c = "batch"
  THEN batch' = [batch EXCEPT !.snap = s, !.dirty = TRUE] /\ UNCHANGED sub
  ELSE sub' = (IF sub.present THEN s ELSE sub) /\ UNCHANGED batch
Goto(c, pc) == check' = [check EXCEPT ![c].pc = pc]
Stop(c) == check' = [check EXCEPT ![c] = [NoCheck EXCEPT !.pc =
             IF c = "batch" THEN "ended" ELSE "idle"]]
\* Mutation: the per-subscription lock is not taken.
MutLockFree == TRUE
LockFree_ == \A c \in Kinds_ : check[c].pc \in {"idle", "ended"}
Edit == edits < MaxEdits /\ edits' = edits + 1
Turn == turns < MaxTurns /\ turns' = turns + 1

----------------------------------------------------------------------------
\* The share: episodes come out, it is withdrawn, it is put back.
Release(u) ==
  /\ share[u].size < Last /\ share' = [share EXCEPT ![u].size = @ + 1]
  /\ UNCHANGED <<sub, batch, check, requests, edits, turns, streak, hasty>>
Flip(u) ==
  /\ Turn /\ share' = [share EXCEPT ![u].alive = ~@]
  /\ UNCHANGED <<sub, batch, check, requests, edits, streak, hasty>>

\* The user: api/subscriptions.
UserSets(s) ==
  /\ sub.present /\ Edit /\ sub' = s
  /\ streak' = IF s.url = sub.url THEN streak ELSE 0
  /\ UNCHANGED <<share, batch, check, requests, turns, hasty>>
EditUrl(u, keep, go_on) ==
  UserSets(reconcile_completed_subscription_status(
             apply_source_change_options(sub, u, keep, go_on)))
SetEnabled == UserSets([sub EXCEPT !.enabled = ~@])
SetTotal(n) == UserSets(reconcile_completed_subscription_status([sub EXCEPT !.total = n]))
ChangeContent == UserSets(reset_progress_for_content_change(sub))
ManualCompletion(done) == UserSets(apply_manual_completion(sub, done))
Delete == UserSets([sub EXCEPT !.present = FALSE])
ManualSwitch(u) == u \in sub.candidates /\ UserSets(apply_source_switch(sub, u))
Rollback == Revocable(sub) # {} /\ UserSets(rollback_last_source(sub))
UserResets == (\E u \in Urls : EditUrl(u, FALSE, FALSE)) \/ ChangeContent
UserStep ==
  \/ \E u \in Urls, go_on \in BOOLEAN : EditUrl(u, TRUE, go_on)
  \/ \E u \in Urls : ManualSwitch(u)
  \/ \E n \in 0..Last : SetTotal(n)
  \/ \E done \in BOOLEAN : ManualCompletion(done)
  \/ UserResets \/ SetEnabled \/ Delete \/ Rollback

\* Hours pass: the cooldowns of searches and switches end.
CooldownEnds ==
  /\ batch.pc = "idle" /\ LockFree_
  /\ sub.searched \/ sub.switched \/ sub.rejected # {}
  /\ sub' = [sub EXCEPT !.searched = FALSE, !.switched = FALSE, !.rejected = {}]
  /\ UNCHANGED <<share, batch, check, requests, edits, turns, streak, hasty>>

----------------------------------------------------------------------------
\* check_subscription, asked for by the user: it takes the lock.
StartSingle ==
  /\ check["single"].pc = "idle" /\ LockFree_ /\ Edit /\ Goto("single", "begin")
  /\ UNCHANGED <<sub, share, batch, requests, turns, streak, hasty>>

\* check_subscriptions_internal: one batch at a time, over a snapshot.
Eligible(s) ==
  s.present /\ s.enabled /\ (~s.completed \/ should_reopen_completed_subscription(s))
StartBatch ==
  /\ batch.pc = "idle" /\ Eligible(sub)
  /\ batch' = [pc |-> "running", snap |-> sub, original |-> sub, dirty |-> FALSE]
  /\ UNCHANGED <<sub, share, check, requests, edits, turns, streak, hasty>>
BatchLock ==
  /\ batch.pc = "running" /\ check["batch"].pc = "idle" /\ LockFree_ /\ Goto("batch", "begin")
  /\ UNCHANGED <<sub, share, batch, requests, edits, turns, streak, hasty>>

\* merge_many: the results are merged into the records there are by now.
MergeBatch ==
  /\ check["batch"].pc = "ended"
  /\ \E reworded \in BOOLEAN :
       sub' = IF batch.dirty /\ sub.present
              THEN merge_check_results(sub, batch.original, batch.snap, reworded)
              ELSE sub
  /\ batch' = NoBatch /\ check' = [check EXCEPT !["batch"] = NoCheck]
  /\ UNCHANGED <<share, requests, edits, turns, streak, hasty>>

\* do_check_subscription_with_options: the record is read, reopened if it must
\* be, and refused when it is disabled or completed.
BeginCheck(c) ==
  /\ check[c].pc = "begin"
  /\ LET s == Store(c)
         r == IF should_reopen_completed_subscription(s) THEN Reopened(s) ELSE s IN
       IF ~s.present \/ ~s.enabled \/ r.completed
       THEN Stop(c) /\ UNCHANGED <<sub, batch>>
       ELSE /\ IF r = s THEN UNCHANGED <<sub, batch>> ELSE Put(c, r)
            /\ check' = [check EXCEPT ![c] = [@ EXCEPT !.pc = "probe", !.sub = r]]
  /\ UNCHANGED <<share, requests, edits, turns, streak, hasty>>

\* probe_share: the files, a definitive failure, or a failure of the network,
\* which only marks the check as done (record_transient_check_failure).
Probe(c) ==
  /\ check[c].pc = "probe" /\ LET u == check[c].sub.url IN
       check' = [check EXCEPT ![c] = [@ EXCEPT
         !.pc = IF share[u].alive THEN "update" ELSE "invalid", !.files = 1..Size(u)]]
  /\ UNCHANGED <<sub, share, batch, requests, edits, turns, streak, hasty>>
ProbeFails(c) ==
  /\ check[c].pc = "probe" /\ Turn /\ Stop(c) /\ Put(c, Store(c))
  /\ UNCHANGED <<share, requests, edits, streak, hasty>>

\* The findings are compared with the record that was read and written to the
\* record there is.
UpdateCheck(c) ==
  /\ check[c].pc = "update"
  /\ LET old == check[c].sub
         new == find_new_files(old, check[c].files)
         chosen == transfer_candidate_file_names(old, check[c].files)
         done == IF chosen = {} THEN should_mark_completed_from_known_episodes(old, new)
                 ELSE should_mark_completed_from_transferred_files(old) IN
       /\ Put(c, update_subscription_after_check(Store(c), old.url, check[c].files, new, done))
       /\ check' = [check EXCEPT ![c] = [@ EXCEPT !.pc = "reconcile", !.found = chosen]]
  /\ streak' = 0
  /\ UNCHANGED <<share, requests, edits, turns, hasty>>

\* reconcile_completion: once more on the record as it is now.
ReconcileCheck(c) ==
  /\ check[c].pc = "reconcile" /\ Goto(c, "submit")
  /\ LET s == reconcile_completed_subscription_status(Store(c)) IN
       IF s = Store(c) THEN UNCHANGED <<sub, batch>> ELSE Put(c, s)
  /\ UNCHANGED <<share, requests, edits, turns, streak, hasty>>

\* The transfer job is submitted, whatever became of the record; it may fail.
SubmitTransfer(c) ==
  /\ check[c].pc = "submit" /\ Stop(c)
  /\ \/ requests' = requests \cup ({check[c].found} \ {{}}) /\ UNCHANGED turns
     \/ check[c].found # {} /\ Turn /\ UNCHANGED requests
  /\ UNCHANGED <<sub, share, batch, edits, streak, hasty>>

----------------------------------------------------------------------------
\* handle_probe_failure: the failure is counted.
MarkInvalid(c) ==
  /\ check[c].pc = "invalid" /\ Goto(c, "search")
  /\ Put(c, mark_subscription_invalid(Store(c)))
  /\ streak' = IF sub.url # check[c].sub.url THEN streak
               ELSE IF streak < FailureCap THEN streak + 1 ELSE streak
  /\ UNCHANGED <<share, requests, edits, turns, hasty>>

\* search_and_save_candidates, unless one was done within the cooldown.
Search(c) ==
  /\ check[c].pc = "search"
  /\ IF check[c].sub.searched THEN Goto(c, "existing") /\ UNCHANGED <<sub, batch>>
     ELSE \E found \in search_source_candidates(check[c].sub) :
            /\ Put(c, [Store(c) EXCEPT !.candidates = found, !.searched = TRUE])
            /\ Goto(c, IF found = {} THEN "existing" ELSE "apply")
  /\ UNCHANGED <<share, requests, edits, turns, streak, hasty>>

\* try_auto_apply_source_candidate: the candidates are probed, and the best one
\* that the record of now admits replaces the source; the check starts again.
TryApply(c) ==
  /\ check[c].pc \in {"apply", "existing"}
  /\ LET s == Store(c)
         dead == {u \in s.candidates : ~share[u].alive}
         noted == record_candidate_failure(s, dead)
         fit == best_auto_candidate(noted, s.candidates \ dead, [v \in Urls |-> Size(v)]) IN
       IF ~AutoApply \/ s.failures < Threshold_ \/ s.candidates = {} \/ ~s.present
       THEN /\ IF check[c].pc = "apply" THEN Goto(c, "existing") ELSE Stop(c)
            /\ UNCHANGED <<sub, batch, streak, hasty>>
       ELSE IF fit = {}
       THEN /\ IF check[c].pc = "apply" THEN Goto(c, "existing") ELSE Stop(c)
            /\ Put(c, noted) /\ UNCHANGED <<streak, hasty>>
       ELSE /\ \E u \in fit : Put(c, apply_source_switch(noted, u))
            /\ Goto(c, "begin")
            /\ hasty' = (hasty \/ streak < Threshold_) /\ streak' = 0
  /\ UNCHANGED <<share, requests, edits, turns>>

\* The transfer job (SubscriptionTransfer): it marks what it finds in the share
\* of the record, and completes the subscription.
Transfer(r) ==
  /\ r \in requests /\ requests' = requests \ {r}
  /\ LET got == IF sub.present /\ share[sub.url].alive
                THEN r \cap (1..Size(sub.url)) ELSE {}
         s == [sub EXCEPT !.transferred = @ \cup got] IN
       sub' = IF got # {} /\ should_mark_completed_from_transferred_files(s)
              THEN Completed(s) ELSE s
  /\ UNCHANGED <<share, batch, check, edits, turns, streak, hasty>>
\* It fails, is canceled or is cut; a later check must submit the files again.
LoseTransfer(r) ==
  /\ r \in requests /\ Turn /\ requests' = requests \ {r}
  /\ UNCHANGED <<sub, share, batch, check, edits, streak, hasty>>

CheckStep(c) ==
  \/ BeginCheck(c) \/ Probe(c) \/ UpdateCheck(c) \/ ReconcileCheck(c) \/ SubmitTransfer(c)
  \/ MarkInvalid(c) \/ Search(c) \/ TryApply(c)
CheckNext ==
  \/ \E u \in Urls : Release(u) \/ Flip(u)
  \/ UserStep \/ CooldownEnds \/ StartSingle \/ StartBatch \/ BatchLock \/ MergeBatch
  \/ \E c \in Kinds_ : CheckStep(c) \/ ProbeFails(c)
  \/ \E r \in requests : Transfer(r) \/ LoseTransfer(r)

\* The scheduler starts batches, a started check goes on, the worker runs jobs.
CheckFairness ==
  /\ \A c \in Kinds_ : WF_cvars(CheckStep(c))
  /\ WF_cvars(StartBatch) /\ SF_cvars(BatchLock) /\ WF_cvars(MergeBatch)
  /\ \A r \in SUBSET Episodes : WF_cvars(Transfer(r))
CheckSpec == CheckInit /\ [][CheckNext]_cvars /\ CheckFairness

----------------------------------------------------------------------------
\* Marks of transferred episodes survive every check, transfer and merge of a
\* batch (merge_check_results leaves them to the store); and so do, unless the
\* user changes them, that the record is there or deleted, whether it is enabled,
\* a total that is set, and a completion the marks justify, while the source is
\* the same.
ProgressStays ==
  [][/\ sub.transferred \subseteq sub'.transferred \/ UserResets
     /\ UserStep \/
          /\ sub'.present = sub.present /\ sub'.enabled = sub.enabled
          /\ sub.total # 0 => sub'.total = sub.total
          /\ sub.completed /\ has_reached_target_episode(sub, {})
               => sub'.completed \/ sub'.url # sub.url]_cvars

\* If the probe remembered in the stored record and the one in the snapshot were
\* of their own links, the one after the merge is of the link after the merge
\* (evidence_invalidated_in_batch).
AboutSource(s) == s.probe \in {NoUrl, s.url}
EvidenceKept ==
  [][MergeBatch /\ AboutSource(sub) /\ AboutSource(batch.original)
       => AboutSource(sub')]_cvars

\* A merge leaves the first episode wanted to the user, and the link unless the
\* batch itself switched it (switched_in_batch).
LinkStays ==
  [][MergeBatch =>
       /\ sub'.start = sub.start
       /\ sub'.url # sub.url => SwitchedInBatch(batch.original, batch.snap)]_cvars

\* An episode that the source has and the rules let through is transferred.
Available(e) ==
  /\ Eligible(sub) /\ ~sub.completed /\ share[sub.url].alive
  /\ e <= Size(sub.url) /\ e >= sub.start /\ (sub.total = 0 \/ e <= sub.total)
  /\ e \notin sub.transferred
EpisodeServed == \A e \in Episodes : []<>(~Available(e))

\* The source is switched automatically only after as many failures in a row as
\* the threshold says.
SwitchJustified == ~hasty

\* A check, and the merge of a batch, keep the transfers and those decisions of
\* the user that the three properties name.
MergeKeeps == ProgressStays /\ EvidenceKept /\ LinkStays
=============================================================================
