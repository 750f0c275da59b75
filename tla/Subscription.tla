---------------------------- MODULE Subscription ----------------------------
(***************************************************************************)
(* What each operation does to the record of a subscription: checks, source *)
(* switches, edits, completion, and the merge of a batch check's results.   *)
(* A series of one season; a file is the episode it holds.  An operator     *)
(* takes the record and returns the new one.                                *)
(***************************************************************************)
EXTENDS Naturals, Sequences, FiniteSets

CONSTANTS
  Urls, NoUrl,    \* share links
  Last,           \* episodes are 1..Last
  FailureCap,     \* bound on source_failure_count
  Threshold_      \* source_switch_failure_threshold

ASSUME SubscriptionAssumption ==
  /\ NoUrl \notin Urls /\ Last \in Nat \ {0}
  /\ FailureCap \in Nat /\ Threshold_ \in Nat \ {0}

Episodes == 1..Last
Status == {"active", "invalid", "completed"}
Switched == [to : Urls, from : Urls, start : 0..(Last + 1), rolled : BOOLEAN]

\* total and start are 0 when not set; probe is the link last_probe is about;
\* searched and switched: a search, a switch within the cooldown; rejected:
\* candidates that failed within it; known covers known_files and known_episodes.
Record_ ==
  [present : BOOLEAN, enabled : BOOLEAN, url : Urls, total : 0..Last,
   start : 0..(Last + 1), known : SUBSET Episodes, transferred : SUBSET Episodes,
   status : Status, completed : BOOLEAN, invalid : BOOLEAN, failures : 0..FailureCap,
   probe : Urls \cup {NoUrl}, history : BOOLEAN, candidates : SUBSET Urls,
   searched : BOOLEAN, switched : BOOLEAN, rejected : SUBSET Urls,
   previous : SUBSET Urls, switches : Seq(Switched)]

Highest(S) == IF S = {} THEN 0 ELSE CHOOSE m \in S : \A n \in S : n <= m
current_episode_number(s) == Highest(s.known)

\* completion_target_episode and the two kinds of evidence for it.
has_reached_target_episode(s, more) ==
  s.total > 0 /\ s.total \in s.known \cup s.transferred \cup more
should_mark_completed_from_known_episodes(s, new) ==
  ~s.completed /\ has_reached_target_episode(s, new)
should_mark_completed_from_transferred_files(s) ==
  ~s.completed /\ s.total > 0 /\ s.total \in s.transferred

should_reopen_completed_subscription(s) ==
  (s.completed \/ s.status = "completed") /\ s.total > 0 /\ ~has_reached_target_episode(s, {})
Reopened(s) == [s EXCEPT !.completed = FALSE, !.status = "active", !.invalid = FALSE]
Completed(s) == [s EXCEPT !.completed = TRUE, !.status = "completed", !.invalid = FALSE]

reconcile_completed_subscription_status(s) ==
  IF should_reopen_completed_subscription(s) THEN Reopened(s)
  ELSE IF s.completed \/ s.status = "completed"
       THEN [s EXCEPT !.status = IF s.completed /\ @ = "active" THEN "completed" ELSE @]
  ELSE IF should_mark_completed_from_transferred_files(s) THEN Completed(s) ELSE s

\* transfer_rule_skip_reason, is_before_start_episode: what the rules let through.
Allowed(s, files) == {e \in files : s.total > 0 => e <= s.total}
find_new_files(s, files) ==
  {e \in Allowed(s, files) : e >= s.start /\ e \notin s.transferred \cup s.known}
\* Mutation: what is known is not selected again.
MutCandidates(s, files) == find_new_files(s, files)
transfer_candidate_file_names(s, files) ==
  {e \in Allowed(s, files) : e >= s.start /\ e \notin s.transferred}

\* update_subscription_after_check: the record of now, the findings of then.
update_subscription_after_check(s, url, files, new, completed) ==
  LET trimmed == {e \in s.known \cup Allowed(s, files) : s.total > 0 => e <= s.total} IN
    [s EXCEPT !.known = trimmed \cup new, !.probe = url, !.history = TRUE,
       !.invalid = FALSE, !.failures = 0,
       !.status = IF completed THEN "completed" ELSE "active",
       !.completed = @ \/ completed]

mark_subscription_invalid(s) ==
  [s EXCEPT !.status = "invalid", !.invalid = TRUE,
            !.failures = IF @ < FailureCap THEN @ + 1 ELSE @]

\* search_source_candidates: other links to what may be the same series.
search_source_candidates(s) == SUBSET (Urls \ {s.url})

\* The candidate goes on where the subscription stands; size[u] is the last
\* episode of the share u.
candidate_covers_progress(s, u, size) ==
  size[u] >= (IF s.start > 0 THEN s.start ELSE current_episode_number(s) + 1)
\* preview_candidate: may the candidate be applied; may it be without asking
\* (a good score with a clear lead is assumed).
can_apply(s, u, size) ==
  candidate_covers_progress(s, u, size) /\ u \notin s.previous \cup {s.url} \cup s.rejected
auto_eligible(s, u, size) ==
  can_apply(s, u, size) /\ ~s.switched /\ s.failures >= Threshold_
best_auto_candidate(s, candidates, size) == {u \in candidates : auto_eligible(s, u, size)}
record_candidate_failure(s, dead) == [s EXCEPT !.rejected = @ \cup dead]

\* apply_source_switch_with_audit: the next episode to take is the one after
\* the last known one.
apply_source_switch(s, u) ==
  LET reached == current_episode_number(s) IN
    [s EXCEPT !.url = u, !.previous = @ \cup {s.url}, !.status = "active",
       !.invalid = FALSE, !.completed = FALSE, !.probe = NoUrl, !.failures = 0,
       !.switched = TRUE, !.candidates = {},
       !.start = IF reached > 0 THEN reached + 1 ELSE @,
       !.switches = <<[to |-> u, from |-> s.url, start |-> s.start, rolled |-> FALSE]>> \o @]

\* rollback_last_source: the latest switch that has not been rolled back.
Revocable(s) == {i \in DOMAIN s.switches : ~s.switches[i].rolled}
rollback_last_source(s) ==
  LET i == CHOOSE j \in Revocable(s) : \A k \in Revocable(s) : j <= k IN
    [s EXCEPT !.url = s.switches[i].from, !.start = s.switches[i].start,
       !.status = "active", !.invalid = FALSE, !.completed = FALSE, !.probe = NoUrl,
       !.switched = TRUE, !.candidates = {}, !.switches[i].rolled = TRUE]

\* apply_source_change_options, for a link the user put in.
Forgotten(s) == [s EXCEPT !.known = {}, !.transferred = {}, !.start = 0]
apply_source_change_options(s, u, keep_progress, continue_from_current) ==
  LET moved == [s EXCEPT !.url = u, !.status = "active", !.invalid = FALSE,
                  !.completed = FALSE, !.probe = NoUrl]
      reached == current_episode_number(s) IN
    IF u = s.url THEN s
    ELSE IF ~keep_progress THEN Forgotten(moved)
    ELSE IF continue_from_current /\ reached > 0 THEN [moved EXCEPT !.start = reached + 1]
    ELSE moved

\* The media type changes: everything the service found out is dropped.
reset_progress_for_content_change(s) ==
  [Forgotten(s) EXCEPT !.total = 0, !.probe = NoUrl, !.history = FALSE,
     !.completed = FALSE, !.status = "active", !.invalid = FALSE]

\* apply_manual_completion: overrides what the evidence says.
apply_manual_completion(s, completed) ==
  [s EXCEPT !.completed = completed, !.invalid = FALSE,
            !.status = IF completed THEN "completed" ELSE "active"]

\* merge_check_results: what only checks write is copied; the source if the
\* batch switched it; evidence unless an edit made it void; a status that changed
\* (two failures in a row may differ in their error only: reworded).
SwitchedInBatch(orig, checked) == checked.url # orig.url \/ checked.switched # orig.switched
MergedSource(cur, orig, checked) ==
  IF SwitchedInBatch(orig, checked)
  THEN [cur EXCEPT !.url = checked.url, !.previous = checked.previous,
          !.switched = checked.switched, !.switches = checked.switches,
          !.rejected = checked.rejected]
  ELSE cur
\* Mutation: evidence is copied whatever happened to the link.
MutVoid(cur, orig, checked) == FALSE
EvidenceVoid(cur, orig, checked) ==
  \/ cur.url # orig.url /\ ~SwitchedInBatch(orig, checked)
  \/ ~cur.history /\ orig.history
MergedEvidence(cur, orig, checked) ==
  IF EvidenceVoid(cur, orig, checked) THEN cur
  ELSE [cur EXCEPT !.probe = checked.probe, !.history = checked.history,
          !.failures = checked.failures, !.candidates = checked.candidates,
          !.searched = checked.searched]
MergedStatus(cur, orig, checked, reworded) ==
  IF /\ checked.status = orig.status /\ checked.completed = orig.completed
     /\ checked.invalid = orig.invalid /\ ~(reworded /\ orig.invalid)
  THEN cur
  ELSE IF checked.completed \/ cur.completed THEN Completed(cur)
  ELSE [cur EXCEPT !.completed = FALSE, !.status = checked.status, !.invalid = checked.invalid]
\* Mutation: the record of the snapshot replaces the stored one.
MutMerge(cur, orig, checked, reworded) == checked
merge_check_results(cur, orig, checked, reworded) ==
  LET found == [cur EXCEPT !.known = checked.known,
                  !.total = IF @ = 0 THEN checked.total ELSE @] IN
    MergedStatus(MergedEvidence(MergedSource(found, orig, checked), orig, checked),
                 orig, checked, reworded)
=============================================================================
