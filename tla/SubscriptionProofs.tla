------------------------- MODULE SubscriptionProofs -------------------------
(***************************************************************************)
(* Safety of both sides of a subscription, for every set of links, files,   *)
(* records and rules, and any number of edits.                              *)
(* Sources: checks and batches work on records whose findings are about the *)
(* link the record names (SourcesInv); each of their writes leaves to the   *)
(* user what is the user's, and the merge of a batch with them.             *)
(* Seasons, as long as no edit of the record comes between the snapshot of  *)
(* a check or a transfer and its write (~Busy): what a running check and a  *)
(* running transfer know is still so, the drive has exactly what counts as  *)
(* transferred and what is about to be marked, and a completion has its     *)
(* evidence (SeasonInv).                                                    *)
(***************************************************************************)
EXTENDS Subscriptions, SequenceTheorems, WellFoundedInduction, TLAPS

----------------------------------------------------------------------------
(* Least and greatest numbers. *)

\* A set of numbers that is not empty has a least one.
LEMMA Least ==
  ASSUME NEW S \in SUBSET Nat, S # {}
  PROVE  \E m \in S : \A n \in S : m <= n
<1>1. \A x, y \in Nat : x < y => <<x, y>> \in OpToRel(<, Nat)
  BY DEF OpToRel
<1>2. \E R : IsWellFoundedOn(R, Nat) /\ \A x, y \in Nat : x < y => <<x, y>> \in R
  BY <1>1, NatLessThanWellFounded, Zenon
<1>3. PICK R : IsWellFoundedOn(R, Nat) /\ \A x, y \in Nat : x < y => <<x, y>> \in R
  BY <1>2
<1>4. PICK x \in S : \A y \in S : ~(<<y, x>> \in R)
  <2>1. IsWellFoundedOn(R, Nat) /\ S \subseteq Nat /\ S # {}
    BY <1>3
  <2> QED
    BY <2>1, WFMin
<1>5. ASSUME NEW y \in S PROVE x <= y
  <2>1. x \in Nat /\ y \in Nat /\ ~(y < x)
    BY <1>3, <1>4
  <2> QED
    BY <2>1
<1> QED
  BY <1>5

\* Highest is an episode, or 0 when nothing is known.
LEMMA HighestTypes ==
  ASSUME NEW S \in SUBSET Episodes
  PROVE  Highest(S) \in 0..Last
<1>0. Last \in Nat
  BY SubscriptionAssumption
<1> USE <1>0
<1>1. ASSUME NEW n \in S PROVE n \in 0..Last
  <2>1. n \in 1..Last
    BY DEF Episodes
  <2> QED
    BY <2>1
<1>2. CASE S = {}
  BY <1>2 DEF Highest
<1>3. CASE S # {}
  <2> DEFINE T == {Last - m : m \in S}
  <2>1. T \in SUBSET Nat /\ T # {}
    <3>1. ASSUME NEW m \in S PROVE Last - m \in Nat
      <4>1. m \in Nat /\ m <= Last
        BY <1>0 DEF Episodes
      <4> QED
        BY <1>0, <4>1
    <3> QED
      BY <1>3, <3>1
  <2>2. PICK d \in T : \A n \in T : d <= n
    <3> HIDE DEF T
    <3> QED
      BY <2>1, Least
  <2>3. PICK m \in S : d = Last - m
    OBVIOUS
  <2>4. \A n \in S : n <= m
    <3> TAKE n \in S
    <3>1. Last - m <= Last - n
      BY <2>2, <2>3
    <3> QED
      BY <3>1 DEF Episodes
  <2>5. Highest(S) \in S
    BY <1>3, <2>4 DEF Highest
  <2> QED
    BY <1>1, <2>5
<1> QED
  BY <1>2, <1>3

----------------------------------------------------------------------------
(* What the operations leave of a record. *)

\* A record whose findings, if it has none, are about no source.
Consistent(s) == s \in Record_ /\ (s.history \/ s.probe = NoUrl)

\* What checks, transfers and merges leave to the user: what was transferred,
\* the record itself, its total, and a completion that is deserved.
Undisturbed(s, t) ==
  /\ s.transferred \subseteq t.transferred /\ t.present = s.present /\ t.enabled = s.enabled
  /\ s.total # 0 => t.total = s.total
  /\ s.completed /\ has_reached_target_episode(s, {}) => t.completed \/ t.url # s.url
Kept(s, t) == Consistent(t) /\ Undisturbed(s, t)
\* Findings stay findings about the source of the record.
StaysAbout(s, t) == AboutSource(s) => AboutSource(t)

\* A check reopens a completion nothing deserves.
LEMMA ReopenedKeeps ==
  ASSUME NEW s, Consistent(s), should_reopen_completed_subscription(s)
  PROVE  Kept(s, Reopened(s)) /\ StaysAbout(s, Reopened(s)) /\ Reopened(s).url = s.url
BY DEF Kept, Consistent, Undisturbed, StaysAbout, AboutSource, Reopened, Record_, Status,
       should_reopen_completed_subscription

\* The mark of completion leaves everything else.
LEMMA CompletedKeeps ==
  ASSUME NEW s, Consistent(s)
  PROVE  /\ Kept(s, Completed(s)) /\ StaysAbout(s, Completed(s)) /\ Completed(s).url = s.url
         /\ Completed(s).transferred = s.transferred /\ Completed(s).history = s.history
         /\ Completed(s).probe = s.probe /\ Completed(s).present = s.present
BY DEF Kept, Consistent, Undisturbed, StaysAbout, AboutSource, Completed, Record_, Status,
       has_reached_target_episode

\* So does the reconciliation of the completion after a check.
LEMMA ReconcileKeeps ==
  ASSUME NEW s, Consistent(s)
  PROVE  LET t == reconcile_completed_subscription_status(s) IN
           /\ Kept(s, t) /\ StaysAbout(s, t) /\ t.url = s.url
<1> DEFINE t == reconcile_completed_subscription_status(s)
<1>1. CASE should_reopen_completed_subscription(s)
  BY <1>1, ReopenedKeeps DEF reconcile_completed_subscription_status
<1>2. CASE t = Completed(s)
  BY <1>2, CompletedKeeps
<1>3. CASE t = s
  BY <1>3 DEF Kept, Undisturbed, StaysAbout
<1>4. CASE t = [s EXCEPT !.status = IF s.completed /\ @ = "active" THEN "completed" ELSE @]
  BY <1>4 DEF Kept, Consistent, Undisturbed, StaysAbout, AboutSource, Record_, Status,
              has_reached_target_episode
<1> QED
  BY <1>1, <1>2, <1>3, <1>4 DEF reconcile_completed_subscription_status

\* The findings of a check are filed with the link it looked at.
LEMMA UpdateKeeps ==
  ASSUME NEW s, Consistent(s), NEW u \in Urls, NEW files \in SUBSET Episodes,
         NEW new \in SUBSET Episodes, NEW done \in BOOLEAN
  PROVE  LET t == update_subscription_after_check(s, u, files, new, done) IN
           Kept(s, t) /\ t.url = s.url /\ t.probe = u
<1> DEFINE t == update_subscription_after_check(s, u, files, new, done)
           known == {e \in s.known \cup Allowed(s, files) : s.total > 0 => e <= s.total} \cup new
           status == IF done THEN "completed" ELSE "active"
           completed == s.completed \/ done
<1>1. /\ known \in SUBSET Episodes /\ status \in Status /\ completed \in BOOLEAN
      /\ 0 \in 0..FailureCap /\ s \in Record_
  BY SubscriptionAssumption DEF Consistent, Record_, Allowed, Status
<1>2. t \in Record_
  <2>1. t = [s EXCEPT !.known = known, !.probe = u, !.history = TRUE, !.invalid = FALSE,
              !.failures = 0, !.status = status, !.completed = completed]
    BY <1>1 DEF update_subscription_after_check, Record_
  <2> HIDE DEF t, known, status, completed
  <2> QED
    BY <1>1, <2>1 DEF Record_
<1>3. /\ t.transferred = s.transferred /\ t.present = s.present /\ t.enabled = s.enabled
      /\ t.total = s.total /\ t.url = s.url /\ t.probe = u /\ t.history = TRUE
  BY DEF update_subscription_after_check, Consistent, Record_
<1>4. s.completed => t.completed
  BY DEF update_subscription_after_check, Consistent, Record_
<1> QED
  BY <1>2, <1>3, <1>4 DEF Kept, Consistent, Undisturbed

\* A probe that fails counts a failure and no more.
LEMMA InvalidKeeps ==
  ASSUME NEW s, Consistent(s)
  PROVE  LET t == mark_subscription_invalid(s) IN Kept(s, t) /\ StaysAbout(s, t) /\ t.url = s.url
<1> DEFINE failures == IF s.failures < FailureCap THEN s.failures + 1 ELSE s.failures
           t == mark_subscription_invalid(s)
<1>1. s \in Record_ /\ failures \in 0..FailureCap
  <2>1. s.failures \in 0..FailureCap /\ FailureCap \in Nat
    BY SubscriptionAssumption DEF Consistent, Record_
  <2> QED
    BY <2>1 DEF Consistent
<1>2. t = [s EXCEPT !.status = "invalid", !.invalid = TRUE, !.failures = failures]
  BY <1>1 DEF mark_subscription_invalid, Record_
<1> HIDE DEF t, failures
<1>3. /\ t \in Record_ /\ t.transferred = s.transferred /\ t.present = s.present
      /\ t.enabled = s.enabled /\ t.total = s.total /\ t.url = s.url /\ t.probe = s.probe
      /\ t.history = s.history /\ t.completed = s.completed
  BY <1>1, <1>2 DEF Record_, Status
<1>4. Kept(s, t) /\ StaysAbout(s, t) /\ t.url = s.url
  BY <1>3 DEF Kept, Consistent, Undisturbed, StaysAbout, AboutSource
<1> QED
  BY <1>4 DEF t

\* A search for sources writes candidates only.
LEMMA SearchKeeps ==
  ASSUME NEW s, Consistent(s), NEW us \in SUBSET Urls
  PROVE  LET t == [s EXCEPT !.candidates = us, !.searched = TRUE] IN
           Kept(s, t) /\ StaysAbout(s, t) /\ t.url = s.url
BY DEF Kept, Consistent, Undisturbed, StaysAbout, AboutSource, Record_

\* Candidates that turned out dead are remembered, and no more.
LEMMA FailureNotedKeeps ==
  ASSUME NEW s, Consistent(s), NEW dead \in SUBSET Urls
  PROVE  LET t == record_candidate_failure(s, dead) IN
           Kept(s, t) /\ StaysAbout(s, t) /\ t.url = s.url
BY DEF record_candidate_failure, Kept, Consistent, Undisturbed, StaysAbout, AboutSource, Record_

\* A switch forgets what the findings were about.
LEMMA SwitchTypes ==
  ASSUME NEW s, Consistent(s), NEW u \in Urls
  PROVE  LET t == apply_source_switch(s, u) IN
           /\ Consistent(t) /\ AboutSource(t) /\ t.url = u /\ t.transferred = s.transferred
           /\ t.present = s.present /\ t.enabled = s.enabled /\ t.total = s.total
<1> USE SubscriptionAssumption
<1> DEFINE reached == current_episode_number(s)
           entry == [to |-> u, from |-> s.url, start |-> s.start, rolled |-> FALSE]
           start == IF reached > 0 THEN reached + 1 ELSE s.start
           switches == <<entry>> \o s.switches
           t == apply_source_switch(s, u)
<1>1. s \in Record_
  BY DEF Consistent
<1>2. start \in 0..(Last + 1)
  <2>1. reached \in 0..Last
    BY <1>1, HighestTypes DEF current_episode_number, Record_
  <2>2. s.start \in 0..(Last + 1)
    BY <1>1 DEF Record_
  <2> HIDE DEF reached
  <2> QED
    BY <2>1, <2>2 DEF start
<1>3. switches \in Seq(Switched)
  <2>1. entry \in Switched /\ s.switches \in Seq(Switched)
    BY <1>1 DEF Record_, Switched
  <2> HIDE DEF entry
  <2> QED
    BY <2>1
<1>4. t \in Record_
  <2>1. t = [s EXCEPT !.url = u, !.previous = @ \cup {s.url}, !.status = "active",
       !.invalid = FALSE, !.completed = FALSE, !.probe = NoUrl, !.failures = 0,
       !.switched = TRUE, !.candidates = {},
       !.start = start, !.switches = switches]
    BY <1>1 DEF apply_source_switch, Record_
  <2> HIDE DEF t, start, switches
  <2>2. s.url \in Urls /\ 0 \in 0..FailureCap
    BY <1>1 DEF Record_
  <2> QED
    BY <1>1, <1>2, <1>3, <2>1, <2>2 DEF Record_, Status
<1>5. /\ t.url = u /\ t.transferred = s.transferred /\ t.present = s.present
      /\ t.enabled = s.enabled /\ t.total = s.total /\ t.probe = NoUrl
  BY <1>1 DEF apply_source_switch, Record_
<1> QED
  BY <1>4, <1>5 DEF Consistent, AboutSource

\* The rollback of a switch keeps what was transferred.
LEMMA RollbackTypes ==
  ASSUME NEW s, Consistent(s), Revocable(s) # {}
  PROVE  LET t == rollback_last_source(s) IN Consistent(t) /\ t.transferred = s.transferred
<1> DEFINE i == CHOOSE j \in Revocable(s) : \A k \in Revocable(s) : j <= k
           t == rollback_last_source(s)
<1>1. s \in Record_ /\ s.switches \in Seq(Switched)
  BY DEF Consistent, Record_
<1>2. i \in DOMAIN s.switches
  <2>1. Revocable(s) \in SUBSET Nat
    BY <1>1 DEF Revocable
  <2>2. i \in Revocable(s)
    BY <2>1, Least
  <2> QED
    BY <2>2 DEF Revocable
<1>3. s.switches[i] \in Switched
  BY <1>1, <1>2
<1>4. s.switches[i].from \in Urls /\ s.switches[i].start \in 0..(Last + 1)
  BY <1>3 DEF Switched
<1>5. [s.switches EXCEPT ![i].rolled = TRUE] \in Seq(Switched)
  <2>1. [s.switches[i] EXCEPT !.rolled = TRUE] \in Switched
    BY <1>3 DEF Switched
  <2>2. [s.switches EXCEPT ![i] = [s.switches[i] EXCEPT !.rolled = TRUE]] \in Seq(Switched)
    <3> HIDE DEF i
    <3> QED
      BY <1>1, <1>2, <2>1
  <2> QED
    BY <2>2, <1>1
<1>6. t = [s EXCEPT !.url = s.switches[i].from, !.start = s.switches[i].start,
       !.status = "active", !.invalid = FALSE, !.completed = FALSE, !.probe = NoUrl,
       !.switched = TRUE, !.candidates = {},
       !.switches = [s.switches EXCEPT ![i].rolled = TRUE]]
  BY <1>1 DEF rollback_last_source, Record_
<1> HIDE DEF i, t
<1>7. t \in Record_ /\ t.transferred = s.transferred /\ t.probe = NoUrl
  BY <1>1, <1>4, <1>5, <1>6, SubscriptionAssumption DEF Record_, Status
<1> QED
  BY <1>7 DEF Consistent, t

----------------------------------------------------------------------------
(* What the user does to a record. *)

\* A record with the progress dropped is a record.
LEMMA ForgottenTypes ==
  ASSUME NEW s \in Record_
  PROVE  Forgotten(s) \in Record_ /\ Forgotten(s).probe = s.probe
<1>1. 0 \in 0..(Last + 1)
  BY SubscriptionAssumption
<1> QED
  BY <1>1 DEF Forgotten, Record_

\* A link the user puts in: what was transferred goes only if the user says so.
LEMMA SourceChangeTypes ==
  ASSUME NEW s, Consistent(s), NEW u \in Urls, NEW keep \in BOOLEAN, NEW go_on \in BOOLEAN
  PROVE  LET t == apply_source_change_options(s, u, keep, go_on) IN
           Consistent(t) /\ (keep => t.transferred = s.transferred)
<1> USE SubscriptionAssumption
<1> DEFINE moved == [s EXCEPT !.url = u, !.status = "active", !.invalid = FALSE,
                  !.completed = FALSE, !.probe = NoUrl]
           reached == current_episode_number(s)
           t == apply_source_change_options(s, u, keep, go_on)
<1>1. reached + 1 \in 0..(Last + 1)
  <2>1. reached \in 0..Last
    BY HighestTypes DEF Consistent, current_episode_number, Record_
  <2> HIDE DEF reached
  <2> QED
    BY <2>1
<1>2. s \in Record_
  BY DEF Consistent
<1>3. moved \in Record_ /\ moved.transferred = s.transferred /\ moved.probe = NoUrl
  BY <1>2 DEF Record_, Status
<1>4. t \in {s, Forgotten(moved), [moved EXCEPT !.start = reached + 1], moved}
  BY DEF apply_source_change_options
<1>5. CASE t = s
  BY <1>5
<1>6. CASE t = Forgotten(moved) /\ ~keep
  <2> HIDE DEF moved
  <2>1. Forgotten(moved) \in Record_ /\ Forgotten(moved).probe = NoUrl
    BY <1>3, ForgottenTypes
  <2> QED
    BY <1>6, <2>1 DEF Consistent
<1>7. CASE t = [moved EXCEPT !.start = reached + 1] /\ reached > 0
  <2> HIDE DEF moved, reached
  <2>2. [moved EXCEPT !.start = reached + 1] \in Record_
    BY <1>1, <1>3 DEF Record_
  <2>3. /\ [moved EXCEPT !.start = reached + 1].transferred = s.transferred
        /\ [moved EXCEPT !.start = reached + 1].probe = NoUrl
    BY <1>3 DEF Record_
  <2> QED
    BY <1>7, <2>2, <2>3 DEF Consistent
<1>8. CASE t = moved
  BY <1>3, <1>8 DEF Consistent
<1> QED
  BY <1>5, <1>6, <1>7, <1>8 DEF apply_source_change_options

\* A change of the media type drops the findings with the link they are about.
LEMMA ContentChangeTypes ==
  ASSUME NEW s, Consistent(s)
  PROVE  Consistent(reset_progress_for_content_change(s))
<1> DEFINE f == Forgotten(s)
<1>1. f \in Record_ /\ 0 \in 0..Last
  BY ForgottenTypes, SubscriptionAssumption DEF Consistent
<1>2. reset_progress_for_content_change(s) =
        [f EXCEPT !.total = 0, !.probe = NoUrl, !.history = FALSE, !.completed = FALSE,
           !.status = "active", !.invalid = FALSE]
  BY DEF reset_progress_for_content_change
<1> DEFINE t == [f EXCEPT !.total = 0, !.probe = NoUrl, !.history = FALSE, !.completed = FALSE,
                          !.status = "active", !.invalid = FALSE]
<1> HIDE DEF f
<1>3. t \in Record_ /\ t.probe = NoUrl
  BY <1>1 DEF Record_, Status
<1> HIDE DEF t
<1> QED
  BY <1>2, <1>3 DEF Consistent, t

\* A completion by hand leaves what was transferred.
LEMMA ManualTypes ==
  ASSUME NEW s, Consistent(s), NEW done \in BOOLEAN
  PROVE  /\ Consistent(apply_manual_completion(s, done))
         /\ apply_manual_completion(s, done).transferred = s.transferred
BY DEF apply_manual_completion, Consistent, Record_, Status

\* So do the single fields the user sets.
LEMMA FieldTypes ==
  ASSUME NEW s, Consistent(s)
  PROVE  /\ \A n \in 0..Last :
              Consistent([s EXCEPT !.total = n]) /\ [s EXCEPT !.total = n].transferred = s.transferred
         /\ Consistent([s EXCEPT !.enabled = ~@])
         /\ [s EXCEPT !.enabled = ~@].transferred = s.transferred
         /\ Consistent([s EXCEPT !.present = FALSE])
         /\ [s EXCEPT !.present = FALSE].transferred = s.transferred
<1>1. ASSUME NEW n \in 0..Last
      PROVE  Consistent([s EXCEPT !.total = n]) /\ [s EXCEPT !.total = n].transferred = s.transferred
  BY DEF Consistent, Record_
<1>2. ASSUME NEW b \in BOOLEAN
      PROVE  /\ Consistent([s EXCEPT !.enabled = b])
             /\ [s EXCEPT !.enabled = b].transferred = s.transferred
  BY DEF Consistent, Record_
<1>3. /\ Consistent([s EXCEPT !.present = FALSE])
      /\ [s EXCEPT !.present = FALSE].transferred = s.transferred
  BY DEF Consistent, Record_
<1>4. \E b \in BOOLEAN : [s EXCEPT !.enabled = ~@] = [s EXCEPT !.enabled = b]
  <2>1. CASE s.enabled = TRUE
    BY <2>1
  <2>2. CASE s.enabled = FALSE
    BY <2>2
  <2>3. s.enabled \in BOOLEAN
    BY DEF Consistent, Record_
  <2> QED
    BY <2>1, <2>2, <2>3
<1> QED
  BY <1>1, <1>2, <1>3, <1>4

----------------------------------------------------------------------------
(* The merge of a batch. *)

\* The source comes from the batch only if the batch switched it.
LEMMA SourceMerged ==
  ASSUME NEW cur, Consistent(cur), NEW orig, NEW chk, Consistent(chk)
  PROVE  LET t == MergedSource(cur, orig, chk) IN
           /\ t \in Record_ /\ t.probe = cur.probe /\ t.history = cur.history
           /\ t.url = (IF SwitchedInBatch(orig, chk) THEN chk.url ELSE cur.url)
           /\ t.transferred = cur.transferred /\ t.present = cur.present
           /\ t.enabled = cur.enabled /\ t.total = cur.total /\ t.start = cur.start /\ t.completed = cur.completed
BY DEF MergedSource, Consistent, Record_

\* Evidence is merged as a whole or not at all.
LEMMA EvidenceMerged ==
  ASSUME NEW cur \in Record_, NEW orig, NEW chk, Consistent(chk)
  PROVE  LET t == MergedEvidence(cur, orig, chk) IN
           /\ t \in Record_ /\ t.url = cur.url
           /\ EvidenceVoid(cur, orig, chk) => t = cur
           /\ ~EvidenceVoid(cur, orig, chk) => t.probe = chk.probe /\ t.history = chk.history
           /\ t.transferred = cur.transferred /\ t.present = cur.present
           /\ t.enabled = cur.enabled /\ t.total = cur.total /\ t.start = cur.start /\ t.completed = cur.completed
BY DEF MergedEvidence, Consistent, Record_

\* The merged status never takes a completion back.
LEMMA StatusMerged ==
  ASSUME NEW cur \in Record_, NEW orig, NEW chk, Consistent(chk), NEW reworded
  PROVE  LET t == MergedStatus(cur, orig, chk, reworded) IN
           /\ t \in Record_ /\ t.url = cur.url /\ t.probe = cur.probe /\ t.history = cur.history
           /\ t.transferred = cur.transferred /\ t.present = cur.present
           /\ t.enabled = cur.enabled /\ t.total = cur.total /\ t.start = cur.start /\ (cur.completed => t.completed)
<1> DEFINE t == MergedStatus(cur, orig, chk, reworded)
<1>1. CASE t = cur
  BY <1>1
<1>2. CASE t = Completed(cur)
  BY <1>2 DEF Completed, Record_, Status
<1>3. ASSUME t = [cur EXCEPT !.completed = FALSE, !.status = chk.status, !.invalid = chk.invalid],
             ~cur.completed
      PROVE  /\ t \in Record_ /\ t.url = cur.url /\ t.probe = cur.probe /\ t.history = cur.history
             /\ t.transferred = cur.transferred /\ t.present = cur.present
             /\ t.enabled = cur.enabled /\ t.total = cur.total /\ t.start = cur.start
  <2>1. chk.status \in Status /\ chk.invalid \in BOOLEAN
    BY DEF Consistent, Record_
  <2> HIDE DEF t
  <2> QED
    BY <1>3, <2>1 DEF Record_
<1> HIDE DEF t
<1>4. \/ t = cur \/ t = Completed(cur)
      \/ /\ t = [cur EXCEPT !.completed = FALSE, !.status = chk.status, !.invalid = chk.invalid]
         /\ ~cur.completed
  BY DEF MergedStatus, t
<1> QED
  BY <1>1, <1>2, <1>3, <1>4 DEF t

\* The merge leaves to the user what is the user's, and findings to their source.
LEMMA RecordMerged ==
  ASSUME NEW cur, Consistent(cur), NEW orig, Consistent(orig), NEW chk, Consistent(chk),
         StaysAbout(orig, chk), NEW reworded
  PROVE  LET t == merge_check_results(cur, orig, chk, reworded) IN
           /\ Kept(cur, t) /\ (AboutSource(cur) /\ AboutSource(orig) => AboutSource(t))
           /\ t.start = cur.start
           /\ t.url # cur.url => SwitchedInBatch(orig, chk)
<1> DEFINE n == IF cur.total = 0 THEN chk.total ELSE cur.total
           f == [cur EXCEPT !.known = chk.known, !.total = n]
           a == MergedSource(f, orig, chk)
           b == MergedEvidence(a, orig, chk)
           t == MergedStatus(b, orig, chk, reworded)
<1>1. n \in 0..Last /\ chk.known \in SUBSET Episodes /\ cur \in Record_
  BY DEF Consistent, Record_
<1>2. /\ Consistent(f) /\ f.url = cur.url /\ f.probe = cur.probe /\ f.history = cur.history
      /\ f.transferred = cur.transferred /\ f.present = cur.present
      /\ f.enabled = cur.enabled /\ f.completed = cur.completed /\ f.total = n
      /\ f.start = cur.start
  <2> HIDE DEF n
  <2> QED
    BY <1>1 DEF Consistent, Record_
<1>3. merge_check_results(cur, orig, chk, reworded) = t
  BY <1>1 DEF merge_check_results, Record_
<1>4. /\ a \in Record_ /\ a.probe = cur.probe /\ a.history = cur.history
      /\ a.url = (IF SwitchedInBatch(orig, chk) THEN chk.url ELSE cur.url)
      /\ a.transferred = cur.transferred /\ a.present = cur.present
      /\ a.enabled = cur.enabled /\ a.total = n /\ a.completed = cur.completed
      /\ a.start = cur.start
  <2> HIDE DEF f, n
  <2> QED
    BY <1>2, SourceMerged
<1>5. /\ b \in Record_ /\ b.url = a.url
      /\ EvidenceVoid(a, orig, chk) => b = a
      /\ ~EvidenceVoid(a, orig, chk) => b.probe = chk.probe /\ b.history = chk.history
      /\ b.transferred = a.transferred /\ b.present = a.present
      /\ b.enabled = a.enabled /\ b.total = a.total /\ b.completed = a.completed
      /\ b.start = a.start
  <2> HIDE DEF a
  <2> QED
    BY <1>4, EvidenceMerged
<1>6. /\ t \in Record_ /\ t.url = b.url /\ t.probe = b.probe /\ t.history = b.history
      /\ t.transferred = b.transferred /\ t.present = b.present
      /\ t.enabled = b.enabled /\ t.total = b.total /\ (b.completed => t.completed)
      /\ t.start = b.start
  <2> HIDE DEF b
  <2> QED
    BY <1>5, StatusMerged
<1>7. cur.total # 0 => n = cur.total
  BY <1>1
<1> HIDE DEF t, b, a, f, n
<1>8. Consistent(t)
  BY <1>4, <1>5, <1>6 DEF Consistent
<1>9. Undisturbed(cur, t)
  BY <1>4, <1>5, <1>6, <1>7 DEF Undisturbed
<1>10. ASSUME AboutSource(cur), AboutSource(orig) PROVE AboutSource(t)
  <2>1. CASE EvidenceVoid(a, orig, chk)
    BY <1>4, <1>5, <1>6, <1>10, <2>1 DEF EvidenceVoid, AboutSource, Consistent
  <2>2. CASE ~EvidenceVoid(a, orig, chk)
    BY <1>4, <1>5, <1>6, <1>10, <2>2
       DEF EvidenceVoid, AboutSource, StaysAbout, SwitchedInBatch
  <2> QED
    BY <2>1, <2>2
<1>11. t.start = cur.start /\ (t.url # cur.url => SwitchedInBatch(orig, chk))
  BY <1>4, <1>5, <1>6
<1> QED
  BY <1>3, <1>8, <1>9, <1>10, <1>11 DEF Kept

----------------------------------------------------------------------------
(* The steps of checks, users and transfers. *)

\* Findings are about the source they were made of: of every record at work, of
\* what a batch has made of its snapshot, and of the share it has looked at.
SourcesInv ==
  /\ CheckTypeOK
  /\ Consistent(sub) /\ Consistent(batch.snap) /\ Consistent(batch.original)
  /\ StaysAbout(batch.original, batch.snap)
  /\ check["batch"].pc \in {"probe", "update"} => check["batch"].sub.url = batch.snap.url
  /\ check["single"].pc # "ended"

\* The step of ProgressStays.
ProgressStep ==
  /\ sub.transferred \subseteq sub'.transferred \/ UserResets
  /\ UserStep \/
       /\ sub'.present = sub.present /\ sub'.enabled = sub.enabled
       /\ sub.total # 0 => sub'.total = sub.total
       /\ sub.completed /\ has_reached_target_episode(sub, {})
            => sub'.completed \/ sub'.url # sub.url

CheckState == [pc : Phases, sub : Record_, files : SUBSET Episodes, found : SUBSET Episodes]
BatchState == [pc : {"idle", "running"}, snap : Record_, original : Record_, dirty : BOOLEAN]

\* A record just made is one without findings.
LEMMA FreshTypes ==
  ASSUME NEW u \in Urls, NEW n \in 0..Last
  PROVE  /\ Fresh(u, n) \in Record_ /\ Fresh(u, n).probe = NoUrl /\ Fresh(u, n).history = FALSE
         /\ Fresh(u, n).url = u
<1>1. /\ 0 \in 0..(Last + 1) /\ 0 \in 0..FailureCap /\ <<>> \in Seq(Switched)
      /\ NoUrl \in Urls \cup {NoUrl} /\ {} \in SUBSET Episodes /\ {} \in SUBSET Urls
      /\ "active" \in Status
  BY SubscriptionAssumption DEF Status
<1> QED
  BY <1>1 DEF Fresh, Record_

\* So is the record that stands for none.
LEMMA NothingIsConsistent ==
  ASSUME Urls # {}
  PROVE  Consistent(Nothing) /\ AboutSource(Nothing)
<1> DEFINE f == Fresh(CHOOSE u \in Urls : TRUE, 0)
<1>1. (CHOOSE u \in Urls : TRUE) \in Urls /\ 0 \in 0..Last
  BY SubscriptionAssumption
<1>2. f \in Record_ /\ f.probe = NoUrl
  BY <1>1, FreshTypes
<1>3. Nothing = [f EXCEPT !.present = FALSE]
  BY DEF Nothing
<1> HIDE DEF f
<1>4. Nothing \in Record_ /\ Nothing.probe = NoUrl
  BY <1>2, <1>3 DEF Record_
<1> QED
  BY <1>4 DEF Consistent, AboutSource

\* What leaves the user's fields alone is a step progress allows.
LEMMA UndisturbedProgress == Undisturbed(sub, sub') => ProgressStep
BY DEF Undisturbed, ProgressStep

\* The user's operations.
LEMMA UserKeeps ==
  ASSUME SourcesInv, UserStep
  PROVE  SourcesInv' /\ ProgressStep
<1> DEFINE Result(t) == /\ UserSets(t) /\ Consistent(t)
                        /\ sub.transferred \subseteq t.transferred \/ UserResets
<1>s. Consistent(sub) /\ sub \in Record_
  BY DEF SourcesInv, Consistent
<1>1. \E t : Result(t)
  <2>1. ASSUME NEW u \in Urls, NEW keep \in BOOLEAN, NEW go_on \in BOOLEAN, EditUrl(u, keep, go_on),
               keep \/ UserResets
        PROVE  \E t : Result(t)
    <3> DEFINE m == apply_source_change_options(sub, u, keep, go_on)
    <3>1. Consistent(m) /\ (keep => m.transferred = sub.transferred)
      BY <1>s, SourceChangeTypes
    <3> HIDE DEF m
    <3>2. /\ Consistent(reconcile_completed_subscription_status(m))
          /\ m.transferred \subseteq reconcile_completed_subscription_status(m).transferred
      BY <3>1, ReconcileKeeps DEF Kept, Undisturbed
    <3>3. UserSets(reconcile_completed_subscription_status(m))
      BY <2>1 DEF EditUrl, m
    <3>4. Result(reconcile_completed_subscription_status(m))
      BY <2>1, <3>1, <3>2, <3>3
    <3> QED
      BY <3>4
  <2>2. ASSUME NEW u \in Urls, ManualSwitch(u) PROVE \E t : Result(t)
    <3>1. Result(apply_source_switch(sub, u))
      BY <1>s, <2>2, SwitchTypes DEF ManualSwitch
    <3> QED
      BY <3>1
  <2>3. ASSUME NEW n \in 0..Last, SetTotal(n) PROVE \E t : Result(t)
    <3> DEFINE m == [sub EXCEPT !.total = n]
    <3>1. Consistent(m) /\ m.transferred = sub.transferred
      BY <1>s, FieldTypes
    <3>2. UserSets(reconcile_completed_subscription_status(m))
      BY <2>3 DEF SetTotal
    <3> HIDE DEF m
    <3>3. /\ Consistent(reconcile_completed_subscription_status(m))
          /\ m.transferred \subseteq reconcile_completed_subscription_status(m).transferred
      BY <3>1, ReconcileKeeps DEF Kept, Undisturbed
    <3>4. Result(reconcile_completed_subscription_status(m))
      BY <3>1, <3>2, <3>3
    <3> QED
      BY <3>4
  <2>4. ASSUME NEW done \in BOOLEAN, ManualCompletion(done) PROVE \E t : Result(t)
    <3>1. Result(apply_manual_completion(sub, done))
      BY <1>s, <2>4, ManualTypes DEF ManualCompletion
    <3> QED
      BY <3>1
  <2>5. ASSUME ChangeContent PROVE \E t : Result(t)
    <3>1. Result(reset_progress_for_content_change(sub))
      BY <1>s, <2>5, ContentChangeTypes DEF ChangeContent, UserResets
    <3> QED
      BY <3>1
  <2>6. ASSUME SetEnabled PROVE \E t : Result(t)
    <3>1. Result([sub EXCEPT !.enabled = ~@])
      BY <1>s, <2>6, FieldTypes DEF SetEnabled
    <3> QED
      BY <3>1
  <2>7. ASSUME Delete PROVE \E t : Result(t)
    <3>1. Result([sub EXCEPT !.present = FALSE])
      BY <1>s, <2>7, FieldTypes DEF Delete
    <3> QED
      BY <3>1
  <2>8. ASSUME Rollback PROVE \E t : Result(t)
    <3>1. Result(rollback_last_source(sub))
      BY <1>s, <2>8, RollbackTypes DEF Rollback
    <3> QED
      BY <3>1
  <2>9. (\E u \in Urls : EditUrl(u, FALSE, FALSE)) => UserResets
    BY DEF UserResets
  <2> HIDE DEF Result
  <2> QED
    BY <2>1, <2>2, <2>3, <2>4, <2>5, <2>6, <2>7, <2>8, <2>9 DEF UserStep, UserResets
<1>2. PICK t : Result(t)
  BY <1>1
<1>3. /\ sub' = t /\ Consistent(t) /\ UNCHANGED <<share, batch, check, requests, turns, hasty>>
      /\ streak' \in 0..FailureCap /\ edits' \in 0..MaxEdits
  BY <1>2, SubscriptionAssumption, CheckAssumption DEF UserSets, Edit, SourcesInv, CheckTypeOK
<1>4. SourcesInv'
  BY <1>3 DEF SourcesInv, CheckTypeOK, Consistent, StaysAbout, AboutSource
<1> QED
  BY <1>2, <1>3, <1>4 DEF ProgressStep

\* A check of kind c writes t, which keeps what it must.
Written(c, t) ==
  Put(c, t) /\ Kept(Store(c), t) /\ (c = "batch" => StaysAbout(batch.snap, t))

\* A check writes to the stored record, or to the snapshot of its batch.
LEMMA PutKeeps ==
  ASSUME SourcesInv, NEW c \in Kinds_, NEW t, Written(c, t)
  PROVE  /\ Consistent(sub') /\ Undisturbed(sub, sub')
         /\ batch' \in BatchState /\ Consistent(batch'.snap) /\ Consistent(batch'.original)
         /\ StaysAbout(batch'.original, batch'.snap)
         /\ batch'.pc = batch.pc /\ (c = "batch" => batch'.snap = t)
         /\ (c # "batch" => batch' = batch)
<1>t. /\ Consistent(sub) /\ batch \in BatchState /\ Consistent(batch.snap)
      /\ Consistent(batch.original) /\ StaysAbout(batch.original, batch.snap)
  BY DEF SourcesInv, CheckTypeOK, BatchState
<1>1. Undisturbed(sub, sub)
  BY DEF Undisturbed
<1>2. CASE c = "batch"
  <2>1. sub' = sub /\ batch' = [batch EXCEPT !.snap = t, !.dirty = TRUE] /\ Consistent(t)
    BY <1>2 DEF Written, Put, Kept
  <2>2. t \in Record_
    BY <2>1 DEF Consistent
  <2>3. /\ batch' \in BatchState /\ batch'.snap = t /\ batch'.original = batch.original
        /\ batch'.pc = batch.pc
    BY <1>t, <2>1, <2>2 DEF BatchState
  <2>4. StaysAbout(batch.original, t)
    BY <1>2, <1>t DEF Written, StaysAbout
  <2> QED
    BY <1>t, <1>1, <1>2, <2>1, <2>3, <2>4
<1>3. CASE c # "batch"
  BY <1>t, <1>1, <1>3 DEF Written, Put, Kept, Store
<1> QED
  BY <1>2, <1>3

\* A step of a check: what it writes, and where it goes on.
LEMMA StepKeeps ==
  ASSUME SourcesInv, NEW c \in Kinds_, NEW x \in CheckState, check' = [check EXCEPT ![c] = x],
         check[c].pc \notin {"idle", "ended"},
         \/ UNCHANGED <<sub, batch>>
         \/ \E t : Written(c, t),
         c = "batch" /\ x.pc \in {"probe", "update"} => x.sub.url = batch'.snap.url,
         c = "batch" \/ x.pc # "ended",
         UNCHANGED share, requests' \subseteq SUBSET Episodes, edits' \in 0..MaxEdits,
         turns' \in 0..MaxTurns, streak' \in 0..FailureCap, hasty' \in BOOLEAN
  PROVE  SourcesInv' /\ ProgressStep
<1>1. /\ Consistent(sub') /\ Undisturbed(sub, sub')
      /\ batch' \in BatchState /\ Consistent(batch'.snap) /\ Consistent(batch'.original)
      /\ StaysAbout(batch'.original, batch'.snap) /\ batch'.pc = batch.pc
      /\ (c # "batch" => batch'.snap = batch.snap)
  <2>1. CASE UNCHANGED <<sub, batch>>
    BY <2>1 DEF SourcesInv, CheckTypeOK, BatchState, Undisturbed
  <2>2. CASE \E t : Written(c, t)
    <3>1. PICK t : Written(c, t)
      BY <2>2
    <3> QED
      BY <3>1, PutKeeps
  <2> QED
    BY <2>1, <2>2
<1>2. check \in [Kinds_ -> CheckState] /\ check' \in [Kinds_ -> CheckState]
  BY DEF SourcesInv, CheckTypeOK, CheckState
<1>3. /\ check'["single"].pc = "idle" \/ check'["batch"].pc \in {"idle", "ended"}
      /\ check'["batch"].pc # "idle" => batch'.pc = "running"
      /\ check'["batch"].pc \in {"probe", "update"} => check'["batch"].sub.url = batch'.snap.url
      /\ check'["single"].pc # "ended"
  BY <1>1, <1>2 DEF SourcesInv, CheckTypeOK, Kinds_
<1>4. sub' \in Record_
  BY <1>1 DEF Consistent
<1>5. SourcesInv'
  BY <1>1, <1>2, <1>3, <1>4 DEF SourcesInv, CheckTypeOK, CheckState, BatchState
<1> QED
  BY <1>1, <1>5, UndisturbedProgress

\* What a check stops with.
LEMMA StopState ==
  ASSUME SourcesInv, NEW c \in Kinds_, Stop(c)
  PROVE  \E x \in CheckState : check' = [check EXCEPT ![c] = x] /\ x.pc = (IF c = "batch" THEN "ended" ELSE "idle")
<1>1. sub \in Record_ /\ Urls # {}
  BY DEF SourcesInv, Consistent, Record_
<1>2. Nothing \in Record_
  BY <1>1, NothingIsConsistent DEF Consistent
<1> DEFINE pc == IF c = "batch" THEN "ended" ELSE "idle"
<1>3. [NoCheck EXCEPT !.pc = pc] \in CheckState /\ [NoCheck EXCEPT !.pc = pc].pc = pc
  BY <1>2 DEF NoCheck, CheckState, Phases
<1> QED
  BY <1>3 DEF Stop

\* Each phase of a check carries the record on.
LEMMA GotoState ==
  ASSUME SourcesInv, NEW c \in Kinds_, NEW pc \in Phases, Goto(c, pc)
  PROVE  \E x \in CheckState :
           check' = [check EXCEPT ![c] = x] /\ x.pc = pc /\ x.sub = check[c].sub
<1>1. check \in [Kinds_ -> CheckState]
  BY DEF SourcesInv, CheckTypeOK, CheckState
<1> DEFINE x == [check[c] EXCEPT !.pc = pc]
<1>2. check[c] \in CheckState
  BY <1>1
<1>3. x \in CheckState /\ x.pc = pc /\ x.sub = check[c].sub
  BY <1>2 DEF CheckState
<1>4. check' = [check EXCEPT ![c] = x]
  BY <1>1 DEF Goto
<1> HIDE DEF x
<1> QED
  BY <1>3, <1>4

\* A check begins: it reopens the record, or stops.
LEMMA BeginKeeps ==
  ASSUME SourcesInv, NEW c \in Kinds_, BeginCheck(c)
  PROVE  SourcesInv' /\ ProgressStep
<1> DEFINE s == Store(c)
           r == IF should_reopen_completed_subscription(s) THEN Reopened(s) ELSE s
<1>t. /\ Consistent(s) /\ check[c].pc = "begin" /\ check \in [Kinds_ -> CheckState]
      /\ requests \subseteq SUBSET Episodes /\ edits \in 0..MaxEdits /\ turns \in 0..MaxTurns
      /\ streak \in 0..FailureCap /\ hasty \in BOOLEAN
      /\ UNCHANGED <<share, requests, edits, turns, streak, hasty>>
  BY DEF BeginCheck, SourcesInv, CheckTypeOK, CheckState, Store
<1>1. CASE Stop(c) /\ UNCHANGED <<sub, batch>>
  BY <1>t, <1>1, StopState, StepKeeps
<1>2. ASSUME IF r = s THEN UNCHANGED <<sub, batch>> ELSE Put(c, r),
             check' = [check EXCEPT ![c] = [@ EXCEPT !.pc = "probe", !.sub = r]]
      PROVE  SourcesInv' /\ ProgressStep
  <2>1. Kept(s, r) /\ StaysAbout(s, r) /\ r.url = s.url
    <3>1. CASE should_reopen_completed_subscription(s)
      BY <1>t, <3>1, ReopenedKeeps
    <3>2. CASE r = s
      BY <1>t, <3>2 DEF Kept, Undisturbed, StaysAbout
    <3> QED
      BY <3>1, <3>2
  <2> DEFINE x == [check[c] EXCEPT !.pc = "probe", !.sub = r]
  <2>2. r \in Record_
    BY <2>1 DEF Kept, Consistent
  <2>3. x \in CheckState /\ x.sub = r /\ x.pc = "probe" /\ check' = [check EXCEPT ![c] = x]
    <3>1. check[c] \in CheckState
      BY <1>t
    <3> HIDE DEF r
    <3> QED
      BY <1>t, <1>2, <2>2, <3>1 DEF CheckState, Phases
  <2>4. r # s => Written(c, r)
    BY <1>2, <2>1 DEF Written, Store
  <2>5. c = "batch" => batch'.snap.url = r.url
    <3>1. CASE r = s
      BY <1>2, <2>1, <3>1 DEF Store
    <3>2. CASE r # s
      BY <2>1, <2>4, <3>2, PutKeeps
    <3> QED
      BY <3>1, <3>2
  <2> HIDE DEF x, r, s
  <2> QED
    BY <1>t, <1>2, <2>3, <2>4, <2>5, StepKeeps
<1> QED
  BY <1>1, <1>2 DEF BeginCheck

\* What a step of a check does not touch, and the types it may rely on.
Facts(c) ==
  /\ Consistent(Store(c)) /\ check[c] \in CheckState /\ check \in [Kinds_ -> CheckState]
  /\ requests \subseteq SUBSET Episodes /\ edits \in 0..MaxEdits
  /\ turns \in 0..MaxTurns /\ streak \in 0..FailureCap /\ hasty \in BOOLEAN
  /\ share \in [Urls -> [size : 0..Last, alive : BOOLEAN]]
  /\ c = "batch" /\ check[c].pc \in {"probe", "update"} => check[c].sub.url = batch.snap.url
  /\ Store("batch") = batch.snap

\* SourcesInv gives them.
LEMMA CheckFacts == ASSUME SourcesInv, NEW c \in Kinds_ PROVE Facts(c)
BY DEF Facts, SourcesInv, CheckTypeOK, CheckState, Store

\* It looks at the share.
LEMMA ProbeKeeps ==
  ASSUME SourcesInv, NEW c \in Kinds_, Probe(c) \/ ProbeFails(c)
  PROVE  SourcesInv' /\ ProgressStep
<1>t. Facts(c)
  BY CheckFacts
<1> USE DEF Facts
<1>1. CASE Probe(c)
  <2> DEFINE u == check[c].sub.url
             x == [check[c] EXCEPT !.pc = IF share[u].alive THEN "update" ELSE "invalid",
                                   !.files = 1..Size(u)]
  <2>1. u \in Urls
    BY <1>t DEF CheckState, Record_
  <2>2. 1..Size(u) \in SUBSET Episodes
    <3>1. Size(u) \in 0..Last /\ Last \in Nat
      BY <1>t, <2>1, SubscriptionAssumption DEF Size
    <3> QED
      BY <3>1 DEF Episodes
  <2>3. /\ x \in CheckState /\ x.sub = check[c].sub /\ x.pc \in {"update", "invalid"}
    <3> HIDE DEF u
    <3> QED
      BY <1>t, <2>2 DEF CheckState, Phases
  <2>4. /\ check' = [check EXCEPT ![c] = x] /\ check[c].pc = "probe"
        /\ UNCHANGED <<sub, share, batch, requests, edits, turns, streak, hasty>>
    BY <1>1, <1>t DEF Probe
  <2>5. c = "batch" => x.sub.url = batch'.snap.url
    BY <1>t, <2>3, <2>4
  <2> HIDE DEF x, u
  <2> QED
    BY <1>t, <2>3, <2>4, <2>5, StepKeeps
<1>2. CASE ProbeFails(c)
  <2>1. Written(c, Store(c))
    BY <1>2, <1>t DEF ProbeFails, Written, Kept, Undisturbed, StaysAbout
  <2>2. turns' \in 0..MaxTurns
    BY <1>2, <1>t, CheckAssumption DEF ProbeFails, Turn
  <2>3. PICK x \in CheckState : check' = [check EXCEPT ![c] = x] /\ x.pc = (IF c = "batch" THEN "ended" ELSE "idle")
    BY <1>2, StopState DEF ProbeFails
  <2>4. check[c].pc = "probe" /\ UNCHANGED <<share, requests, edits, streak, hasty>>
    BY <1>2 DEF ProbeFails
  <2> QED
    BY <1>t, <2>1, <2>2, <2>3, <2>4, StepKeeps
<1> QED
  BY <1>1, <1>2

\* It files what it found.
LEMMA UpdateCheckKeeps ==
  ASSUME SourcesInv, NEW c \in Kinds_, UpdateCheck(c)
  PROVE  SourcesInv' /\ ProgressStep
<1> DEFINE old == check[c].sub
           new == find_new_files(old, check[c].files)
           chosen == transfer_candidate_file_names(old, check[c].files)
           done == IF chosen = {} THEN should_mark_completed_from_known_episodes(old, new)
                   ELSE should_mark_completed_from_transferred_files(old)
           t == update_subscription_after_check(Store(c), old.url, check[c].files, new, done)
           x == [check[c] EXCEPT !.pc = "reconcile", !.found = chosen]
<1>t. Facts(c)
  BY CheckFacts
<1> USE DEF Facts
<1>1. /\ old \in Record_ /\ check[c].files \in SUBSET Episodes /\ new \in SUBSET Episodes
      /\ chosen \in SUBSET Episodes /\ old.url \in Urls
  BY <1>t DEF CheckState, Record_, find_new_files, transfer_candidate_file_names, Allowed
<1>2. done \in BOOLEAN
  BY DEF should_mark_completed_from_known_episodes, should_mark_completed_from_transferred_files
<1>3. Kept(Store(c), t) /\ t.url = Store(c).url /\ t.probe = old.url
  <2> HIDE DEF new, done, old
  <2> QED
    BY <1>t, <1>1, <1>2, UpdateKeeps
<1>4. Put(c, t) /\ check' = [check EXCEPT ![c] = x] /\ check[c].pc = "update"
  BY <1>t DEF UpdateCheck
<1>5. c = "batch" => AboutSource(t)
  BY <1>t, <1>3, <1>4 DEF AboutSource
<1>6. Written(c, t)
  BY <1>3, <1>4, <1>5 DEF Written, StaysAbout
<1>7. x \in CheckState /\ x.pc = "reconcile"
  <2> HIDE DEF chosen
  <2> QED
    BY <1>t, <1>1 DEF CheckState, Phases
<1>8. /\ streak' \in 0..FailureCap /\ UNCHANGED <<share, requests, edits, turns, hasty>>
  BY SubscriptionAssumption DEF UpdateCheck
<1> HIDE DEF x, t
<1> QED
  BY <1>t, <1>4, <1>6, <1>7, <1>8, StepKeeps

\* It reconciles the completion, or counts a failure.
LEMMA MarkKeeps ==
  ASSUME SourcesInv, NEW c \in Kinds_, ReconcileCheck(c) \/ MarkInvalid(c)
  PROVE  SourcesInv' /\ ProgressStep
<1>t. Facts(c)
  BY CheckFacts
<1> USE DEF Facts
<1>1. CASE ReconcileCheck(c)
  <2> DEFINE r == reconcile_completed_subscription_status(Store(c))
  <2>1. Kept(Store(c), r) /\ StaysAbout(Store(c), r)
    BY <1>t, ReconcileKeeps
  <2>2. UNCHANGED <<sub, batch>> \/ Written(c, r)
    BY <1>1, <1>t, <2>1 DEF ReconcileCheck, Written
  <2>3. PICK x \in CheckState : check' = [check EXCEPT ![c] = x] /\ x.pc = "submit"
    BY <1>1, GotoState DEF ReconcileCheck, Phases
  <2>4. /\ check[c].pc = "reconcile"
        /\ UNCHANGED <<share, requests, edits, turns, streak, hasty>>
    BY <1>1 DEF ReconcileCheck
  <2> HIDE DEF r
  <2> QED
    BY <1>t, <2>2, <2>3, <2>4, StepKeeps
<1>2. CASE MarkInvalid(c)
  <2> DEFINE r == mark_subscription_invalid(Store(c))
  <2>1. Kept(Store(c), r) /\ StaysAbout(Store(c), r)
    BY <1>t, InvalidKeeps
  <2>2. Written(c, r)
    BY <1>2, <1>t, <2>1 DEF MarkInvalid, Written
  <2>3. PICK x \in CheckState : check' = [check EXCEPT ![c] = x] /\ x.pc = "search"
    BY <1>2, GotoState DEF MarkInvalid, Phases
  <2>4. /\ check[c].pc = "invalid" /\ UNCHANGED <<share, requests, edits, turns, hasty>>
        /\ streak' \in 0..FailureCap
    BY <1>2, <1>t, SubscriptionAssumption DEF MarkInvalid
  <2> HIDE DEF r
  <2> QED
    BY <1>t, <2>2, <2>3, <2>4, StepKeeps
<1> QED
  BY <1>1, <1>2

\* It searches for other sources, or submits a transfer.
LEMMA SearchStepKeeps ==
  ASSUME SourcesInv, NEW c \in Kinds_, Search(c) \/ SubmitTransfer(c)
  PROVE  SourcesInv' /\ ProgressStep
<1>t. Facts(c)
  BY CheckFacts
<1> USE DEF Facts
<1>1. CASE Search(c) /\ check[c].sub.searched
  <2>1. /\ check[c].pc = "search" /\ UNCHANGED <<sub, batch>>
        /\ UNCHANGED <<share, requests, edits, turns, streak, hasty>> /\ Goto(c, "existing")
    BY <1>1 DEF Search
  <2>2. PICK x \in CheckState : check' = [check EXCEPT ![c] = x] /\ x.pc = "existing"
    BY <2>1, GotoState DEF Phases
  <2> QED
    BY <1>t, <2>1, <2>2, StepKeeps
<1>2. CASE Search(c) /\ ~check[c].sub.searched
  <2>1. PICK us \in search_source_candidates(check[c].sub) :
          /\ Put(c, [Store(c) EXCEPT !.candidates = us, !.searched = TRUE])
          /\ Goto(c, IF us = {} THEN "existing" ELSE "apply")
    BY <1>2 DEF Search
  <2> DEFINE t == [Store(c) EXCEPT !.candidates = us, !.searched = TRUE]
  <2>2. us \in SUBSET Urls
    BY DEF search_source_candidates
  <2>3. Kept(Store(c), t) /\ StaysAbout(Store(c), t)
    BY <1>t, <2>2, SearchKeeps
  <2>4. Written(c, t)
    BY <1>t, <2>1, <2>3 DEF Written
  <2>5. PICK x \in CheckState : check' = [check EXCEPT ![c] = x] /\ x.pc \in {"existing", "apply"}
    BY <2>1, GotoState DEF Phases
  <2>6. check[c].pc = "search" /\ UNCHANGED <<share, requests, edits, turns, streak, hasty>>
    BY <1>2 DEF Search
  <2> HIDE DEF t
  <2> QED
    BY <1>t, <2>4, <2>5, <2>6, StepKeeps
<1>3. CASE SubmitTransfer(c)
  <2>1. /\ check[c].pc = "submit" /\ Stop(c) /\ UNCHANGED <<sub, share, batch, edits, streak, hasty>>
    BY <1>3 DEF SubmitTransfer
  <2>2. requests' \subseteq SUBSET Episodes /\ turns' \in 0..MaxTurns
    <3>1. check[c].found \in SUBSET Episodes
      BY <1>t DEF CheckState
    <3> QED
      BY <1>3, <1>t, <3>1, CheckAssumption DEF SubmitTransfer, Turn
  <2>3. PICK x \in CheckState : check' = [check EXCEPT ![c] = x] /\ x.pc = (IF c = "batch" THEN "ended" ELSE "idle")
    BY <2>1, StopState
  <2> QED
    BY <1>t, <2>1, <2>2, <2>3, StepKeeps
<1> QED
  BY <1>1, <1>2, <1>3

\* It switches to a candidate that is alive and fits.
LEMMA TryApplyKeeps ==
  ASSUME SourcesInv, NEW c \in Kinds_, TryApply(c)
  PROVE  SourcesInv' /\ ProgressStep
<1> DEFINE s == Store(c)
           dead == {u \in s.candidates : ~share[u].alive}
           noted == record_candidate_failure(s, dead)
           fit == best_auto_candidate(noted, s.candidates \ dead, [v \in Urls |-> Size(v)])
           Onwards == IF check[c].pc = "apply" THEN Goto(c, "existing") ELSE Stop(c)
<1>t. Facts(c)
  BY CheckFacts
<1> USE DEF Facts
<1>1. /\ dead \in SUBSET Urls /\ s.candidates \in SUBSET Urls
  BY <1>t DEF Consistent, Record_
<1>2. Kept(s, noted) /\ StaysAbout(s, noted) /\ noted.url = s.url
  BY <1>t, <1>1, FailureNotedKeeps
<1>3. fit \subseteq Urls /\ \A u \in fit : u # s.url
  <2> HIDE DEF noted, dead, s
  <2> QED
    BY <1>1, <1>2 DEF best_auto_candidate, auto_eligible, can_apply
<1>4. /\ check[c].pc \in {"apply", "existing"} /\ UNCHANGED <<share, requests, edits, turns>>
  BY DEF TryApply
<1>5. \/ Onwards /\ UNCHANGED <<sub, batch, streak, hasty>>
      \/ Onwards /\ Put(c, noted) /\ UNCHANGED <<streak, hasty>>
      \/ /\ \E u \in fit : Put(c, apply_source_switch(noted, u))
         /\ Goto(c, "begin") /\ hasty' = (hasty \/ streak < Threshold_) /\ streak' = 0
  BY DEF TryApply
<1>6. Onwards => \E x \in CheckState :
        /\ check' = [check EXCEPT ![c] = x] /\ x.pc \in {"existing", "idle", "ended"}
        /\ c = "batch" \/ x.pc # "ended"
  BY StopState, GotoState DEF Phases
<1> HIDE DEF noted, fit, dead, Onwards
<1>7. CASE Onwards /\ UNCHANGED <<sub, batch, streak, hasty>>
  <2>1. PICK x \in CheckState :
          /\ check' = [check EXCEPT ![c] = x] /\ x.pc \in {"existing", "idle", "ended"}
          /\ c = "batch" \/ x.pc # "ended"
    BY <1>6, <1>7
  <2> QED
    BY <1>t, <1>4, <1>7, <2>1, StepKeeps
<1>8. CASE Onwards /\ Put(c, noted) /\ UNCHANGED <<streak, hasty>>
  <2>1. PICK x \in CheckState :
          /\ check' = [check EXCEPT ![c] = x] /\ x.pc \in {"existing", "idle", "ended"}
          /\ c = "batch" \/ x.pc # "ended"
    BY <1>6, <1>8
  <2>2. Written(c, noted)
    BY <1>t, <1>2, <1>8 DEF Written
  <2> QED
    BY <1>t, <1>4, <1>8, <2>1, <2>2, StepKeeps
<1>9. ASSUME NEW u \in fit, Put(c, apply_source_switch(noted, u)), Goto(c, "begin"),
             hasty' = (hasty \/ streak < Threshold_), streak' = 0
      PROVE  SourcesInv' /\ ProgressStep
  <2> DEFINE t == apply_source_switch(noted, u)
  <2>1. /\ Consistent(t) /\ AboutSource(t) /\ t.url = u /\ t.transferred = noted.transferred
        /\ t.present = noted.present /\ t.enabled = noted.enabled /\ t.total = noted.total
    BY <1>2, <1>3, SwitchTypes DEF Kept
  <2> HIDE DEF t
  <2>2. Kept(s, t)
    BY <1>2, <1>3, <2>1 DEF Kept, Undisturbed
  <2>3. Written(c, t)
    BY <1>9, <2>1, <2>2 DEF Written, StaysAbout, t
  <2>4. PICK x \in CheckState : check' = [check EXCEPT ![c] = x] /\ x.pc = "begin"
    BY <1>9, GotoState DEF Phases
  <2>5. streak' \in 0..FailureCap /\ hasty' \in BOOLEAN
    BY <1>9, SubscriptionAssumption
  <2> QED
    BY <1>t, <1>4, <2>3, <2>4, <2>5, StepKeeps
<1> QED
  BY <1>5, <1>7, <1>8, <1>9

----------------------------------------------------------------------------
(* Batches, transfers, the share and the hours. *)

\* A check of kind c takes the lock.
LEMMA LockKeeps ==
  ASSUME SourcesInv, NEW c \in Kinds_, Goto(c, "begin"), LockFree_, check[c].pc = "idle",
         c = "batch" => batch.pc = "running",
         edits' \in 0..MaxEdits, UNCHANGED <<sub, share, batch, requests, turns, streak, hasty>>
  PROVE  SourcesInv' /\ ProgressStep
<1>1. PICK x \in CheckState : check' = [check EXCEPT ![c] = x] /\ x.pc = "begin"
  BY GotoState DEF Phases
<1>2. check \in [Kinds_ -> CheckState]
  BY DEF SourcesInv, CheckTypeOK, CheckState
<1>3. check' \in [Kinds_ -> CheckState]
  BY <1>1, <1>2
<1>4. /\ check'["single"].pc = "idle" \/ check'["batch"].pc \in {"idle", "ended"}
      /\ check'["batch"].pc # "idle" => batch'.pc = "running"
      /\ check'["batch"].pc \in {"probe", "update"} => check'["batch"].sub.url = batch'.snap.url
      /\ check'["single"].pc # "ended"
  BY <1>1, <1>2 DEF SourcesInv, CheckTypeOK, Kinds_, LockFree_
<1>5. SourcesInv'
  BY <1>3, <1>4 DEF SourcesInv, CheckTypeOK, CheckState, Consistent, StaysAbout, AboutSource
<1>6. Undisturbed(sub, sub')
  BY DEF Undisturbed
<1> QED
  BY <1>5, <1>6, UndisturbedProgress

\* A single check begins, or the batch gets to its subscription.
LEMMA StartKeeps ==
  ASSUME SourcesInv, StartSingle \/ BatchLock
  PROVE  SourcesInv' /\ ProgressStep
<1>1. edits \in 0..MaxEdits
  BY DEF SourcesInv, CheckTypeOK
<1>2. "single" \in Kinds_ /\ "batch" \in Kinds_
  BY DEF Kinds_
<1>3. CASE StartSingle
  BY <1>1, <1>2, <1>3, LockKeeps, CheckAssumption DEF StartSingle, Edit
<1>4. CASE BatchLock
  BY <1>1, <1>2, <1>4, LockKeeps DEF BatchLock
<1> QED
  BY <1>3, <1>4

\* A batch takes its snapshot.
LEMMA StartBatchKeeps ==
  ASSUME SourcesInv, StartBatch
  PROVE  SourcesInv' /\ ProgressStep
<1>1. /\ batch' = [pc |-> "running", snap |-> sub, original |-> sub, dirty |-> FALSE]
      /\ UNCHANGED <<sub, share, check, requests, edits, turns, streak, hasty>>
      /\ batch.pc = "idle" /\ sub \in Record_
  BY DEF StartBatch, SourcesInv, Consistent
<1>2. /\ batch'.pc = "running" /\ batch'.snap = sub /\ batch'.original = sub
      /\ batch' \in BatchState
  BY <1>1 DEF BatchState
<1>3. check["batch"].pc = "idle"
  BY <1>1 DEF SourcesInv, CheckTypeOK
<1>4. CheckTypeOK'
  BY <1>1, <1>2 DEF SourcesInv, CheckTypeOK, BatchState
<1>5. SourcesInv'
  BY <1>1, <1>2, <1>3, <1>4 DEF SourcesInv, StaysAbout, AboutSource, Consistent
<1>6. Undisturbed(sub, sub')
  BY <1>1 DEF Undisturbed
<1> QED
  BY <1>5, <1>6, UndisturbedProgress

\* A batch merges what it made of the snapshot into the record of now.
LEMMA MergeBatchKeeps ==
  ASSUME SourcesInv, MergeBatch
  PROVE  /\ SourcesInv' /\ ProgressStep
         /\ AboutSource(sub) /\ AboutSource(batch.original) => AboutSource(sub')
         /\ sub'.start = sub.start
         /\ sub'.url # sub.url => SwitchedInBatch(batch.original, batch.snap)
<1>0. PICK reworded \in BOOLEAN :
        sub' = IF batch.dirty /\ sub.present
               THEN merge_check_results(sub, batch.original, batch.snap, reworded) ELSE sub
  BY DEF MergeBatch
<1> DEFINE t == merge_check_results(sub, batch.original, batch.snap, reworded)
<1>1. /\ Kept(sub, t) /\ (AboutSource(sub) /\ AboutSource(batch.original) => AboutSource(t))
      /\ t.start = sub.start
      /\ t.url # sub.url => SwitchedInBatch(batch.original, batch.snap)
  BY RecordMerged DEF SourcesInv
<1>2. /\ check' = [check EXCEPT !["batch"] = NoCheck] /\ batch' = NoBatch
      /\ sub' \in {sub, t} /\ UNCHANGED <<share, requests, edits, turns, streak, hasty>>
  BY <1>0 DEF MergeBatch
<1> HIDE DEF t
<1>3. /\ Consistent(sub') /\ Undisturbed(sub, sub')
      /\ AboutSource(sub) /\ AboutSource(batch.original) => AboutSource(sub')
      /\ sub'.start = sub.start
      /\ sub'.url # sub.url => SwitchedInBatch(batch.original, batch.snap)
  BY <1>1, <1>2 DEF Kept, SourcesInv, Undisturbed
<1>4. Consistent(Nothing)
  BY NothingIsConsistent DEF SourcesInv, Consistent, Record_
<1>5. NoCheck \in CheckState /\ NoCheck.pc = "idle"
  BY <1>4 DEF NoCheck, CheckState, Phases, Consistent
<1>6. /\ NoBatch \in BatchState /\ NoBatch.snap = Nothing /\ NoBatch.original = Nothing
      /\ NoBatch.pc = "idle"
  BY <1>4 DEF NoBatch, BatchState, Consistent
<1>7. check \in [Kinds_ -> CheckState]
  BY DEF SourcesInv, CheckTypeOK, CheckState
<1>8. check' \in [Kinds_ -> CheckState] /\ check'["batch"].pc = "idle"
  BY <1>2, <1>5, <1>7 DEF Kinds_
<1>9. CheckTypeOK'
  BY <1>2, <1>3, <1>6, <1>8 DEF SourcesInv, CheckTypeOK, BatchState, CheckState, Consistent
<1>10. SourcesInv'
  BY <1>2, <1>3, <1>4, <1>6, <1>8, <1>9 DEF SourcesInv, StaysAbout
<1> QED
  BY <1>3, <1>10, UndisturbedProgress

\* Time passes, shares change, a request is lost.
LEMMA RestKeeps ==
  ASSUME SourcesInv,
         \/ CooldownEnds
         \/ \E u \in Urls : Release(u) \/ Flip(u)
         \/ \E r \in requests : LoseTransfer(r)
  PROVE  SourcesInv' /\ ProgressStep
<1>1. CASE CooldownEnds
  <2>1. /\ Consistent(sub') /\ Undisturbed(sub, sub')
    BY <1>1 DEF CooldownEnds, SourcesInv, Consistent, Undisturbed, Record_
  <2>2. UNCHANGED <<share, batch, check, requests, edits, turns, streak, hasty>>
    BY <1>1 DEF CooldownEnds
  <2>3. SourcesInv'
    BY <2>1, <2>2 DEF SourcesInv, CheckTypeOK, Consistent, StaysAbout, AboutSource
  <2> QED
    BY <2>1, <2>3, UndisturbedProgress
<1>2. ASSUME NEW u \in Urls, Release(u) \/ Flip(u) PROVE SourcesInv' /\ ProgressStep
  <2>1. UNCHANGED <<sub, batch, check, requests, edits, streak, hasty>>
    BY <1>2 DEF Release, Flip
  <2>2. share' \in [Urls -> [size : 0..Last, alive : BOOLEAN]]
    <3>1. share \in [Urls -> [size : 0..Last, alive : BOOLEAN]]
      BY DEF SourcesInv, CheckTypeOK
    <3>2. CASE Release(u)
      <4>1. share[u].size + 1 \in 0..Last
        BY <3>1, <3>2, SubscriptionAssumption DEF Release
      <4> QED
        BY <3>1, <3>2, <4>1 DEF Release
    <3>3. CASE Flip(u)
      <4>1. PICK b \in BOOLEAN : share' = [share EXCEPT ![u].alive = b]
        <5>1. CASE share[u].alive = TRUE
          BY <3>3, <5>1 DEF Flip
        <5>2. CASE share[u].alive = FALSE
          BY <3>3, <5>2 DEF Flip
        <5>3. share[u].alive \in BOOLEAN
          BY <3>1
        <5> QED
          BY <5>1, <5>2, <5>3
      <4> QED
        BY <3>1, <4>1
    <3> QED
      BY <1>2, <3>2, <3>3
  <2>3. turns' \in 0..MaxTurns
    BY <1>2, CheckAssumption DEF Release, Flip, Turn, SourcesInv, CheckTypeOK
  <2>4. SourcesInv'
    BY <2>1, <2>2, <2>3 DEF SourcesInv, CheckTypeOK, Consistent, StaysAbout, AboutSource
  <2>5. Undisturbed(sub, sub')
    BY <2>1 DEF Undisturbed
  <2> QED
    BY <2>4, <2>5, UndisturbedProgress
<1>3. ASSUME NEW r \in requests, LoseTransfer(r) PROVE SourcesInv' /\ ProgressStep
  <2>1. /\ UNCHANGED <<sub, share, batch, check, edits, streak, hasty>>
        /\ requests' \subseteq SUBSET Episodes /\ turns' \in 0..MaxTurns
    BY <1>3, CheckAssumption DEF LoseTransfer, Turn, SourcesInv, CheckTypeOK
  <2>2. SourcesInv'
    BY <2>1 DEF SourcesInv, CheckTypeOK, Consistent, StaysAbout, AboutSource
  <2>3. Undisturbed(sub, sub')
    BY <2>1 DEF Undisturbed
  <2> QED
    BY <2>2, <2>3, UndisturbedProgress
<1> QED
  BY <1>1, <1>2, <1>3

\* A transfer records what it copied.
LEMMA TransferKeeps ==
  ASSUME SourcesInv, NEW r \in requests, Transfer(r)
  PROVE  SourcesInv' /\ ProgressStep
<1> DEFINE got == IF sub.present /\ share[sub.url].alive THEN r \cap (1..Size(sub.url)) ELSE {}
           s == [sub EXCEPT !.transferred = @ \cup got]
<1>1. r \in SUBSET Episodes /\ sub \in Record_
  BY DEF SourcesInv, CheckTypeOK, Consistent
<1>2. got \in SUBSET Episodes
  BY <1>1
<1>3. Consistent(s) /\ Undisturbed(sub, s)
  <2> HIDE DEF got
  <2> QED
    BY <1>1, <1>2 DEF Consistent, Undisturbed, Record_, SourcesInv
<1>4. sub' \in {s, Completed(s)}
  BY DEF Transfer
<1>5. Consistent(sub') /\ Undisturbed(sub, sub')
  <2> HIDE DEF s
  <2>1. CASE sub' = s
    BY <1>3, <2>1
  <2>2. CASE sub' = Completed(s)
    <3>1. Consistent(Completed(s)) /\ Undisturbed(s, Completed(s)) /\ Completed(s).completed
      BY <1>3, CompletedKeeps DEF Kept, Completed, Consistent, Record_
    <3> QED
      BY <1>3, <2>2, <3>1 DEF Undisturbed
  <2> QED
    BY <1>4, <2>1, <2>2
<1>6. /\ UNCHANGED <<share, batch, check, edits, turns, streak, hasty>>
      /\ requests' \subseteq SUBSET Episodes
  BY DEF Transfer, SourcesInv, CheckTypeOK
<1>7. SourcesInv'
  BY <1>5, <1>6 DEF SourcesInv, CheckTypeOK, Consistent, StaysAbout, AboutSource
<1> QED
  BY <1>5, <1>7, UndisturbedProgress

\* The steps of EvidenceKept and LinkStays.
EvidenceStep ==
  MergeBatch /\ AboutSource(sub) /\ AboutSource(batch.original) => AboutSource(sub')
LinkStep ==
  MergeBatch =>
    /\ sub'.start = sub.start
    /\ sub'.url # sub.url => SwitchedInBatch(batch.original, batch.snap)

\* Nothing runs at first.
LEMMA SourcesStart == CheckInit => SourcesInv
<1> SUFFICES ASSUME CheckInit PROVE SourcesInv
  OBVIOUS
<1>1. PICK u \in Urls, total \in Totals :
        /\ sub = Fresh(u, total)
        /\ share = [v \in Urls |-> [size |-> IF v = u THEN 1 ELSE Last, alive |-> TRUE]]
  BY DEF CheckInit
<1>2. total \in 0..Last /\ Last \in Nat
  BY CheckAssumption, SubscriptionAssumption
<1>3. Consistent(sub) /\ sub \in Record_
  BY <1>1, <1>2, FreshTypes DEF Consistent
<1>4. Consistent(Nothing) /\ AboutSource(Nothing)
  BY NothingIsConsistent
<1>5. NoCheck \in CheckState /\ NoCheck.pc = "idle"
  BY <1>4 DEF NoCheck, CheckState, Phases, Consistent
<1>6. /\ NoBatch \in BatchState /\ NoBatch.snap = Nothing /\ NoBatch.original = Nothing
      /\ NoBatch.pc = "idle"
  BY <1>4 DEF NoBatch, BatchState, Consistent
<1>7. share \in [Urls -> [size : 0..Last, alive : BOOLEAN]]
  BY <1>1, SubscriptionAssumption
<1>8. /\ batch = NoBatch /\ check = [c \in Kinds_ |-> NoCheck] /\ requests = {}
      /\ edits = 0 /\ turns = 0 /\ streak = 0 /\ hasty = FALSE
  BY DEF CheckInit, AtRest
<1>9. check \in [Kinds_ -> CheckState] /\ \A c \in Kinds_ : check[c].pc = "idle"
  BY <1>5, <1>8
<1>10. CheckTypeOK
  <2>1. /\ requests \subseteq SUBSET Episodes /\ edits \in 0..MaxEdits /\ turns \in 0..MaxTurns
        /\ streak \in 0..FailureCap /\ hasty \in BOOLEAN
    <3>1. MaxEdits \in Nat /\ MaxTurns \in Nat /\ FailureCap \in Nat
      BY CheckAssumption, SubscriptionAssumption
    <3>2. edits \in 0..MaxEdits /\ turns \in 0..MaxTurns /\ streak \in 0..FailureCap
      BY <1>8, <3>1
    <3>3. requests \subseteq SUBSET Episodes /\ hasty \in BOOLEAN
      BY <1>8
    <3> QED
      BY <3>2, <3>3
  <2>2. /\ check["single"].pc = "idle" \/ check["batch"].pc \in {"idle", "ended"}
        /\ check["batch"].pc # "idle" => batch.pc = "running"
    BY <1>9 DEF Kinds_
  <2> QED
    BY <1>3, <1>6, <1>7, <1>8, <1>9, <2>1, <2>2 DEF CheckTypeOK, CheckState, BatchState
<1> QED
  BY <1>3, <1>4, <1>6, <1>8, <1>9, <1>10 DEF SourcesInv, StaysAbout, Kinds_

\* Every step keeps the invariant and is one progress allows.
LEMMA SourcesStep ==
  ASSUME SourcesInv, CheckNext
  PROVE  SourcesInv' /\ ProgressStep /\ EvidenceStep /\ LinkStep
<1>1. SourcesInv' /\ ProgressStep
  <2>1. ASSUME NEW c \in Kinds_, CheckStep(c) \/ ProbeFails(c) PROVE SourcesInv' /\ ProgressStep
    BY <2>1, BeginKeeps, ProbeKeeps, UpdateCheckKeeps, MarkKeeps, SearchStepKeeps, TryApplyKeeps
       DEF CheckStep
  <2> QED
    BY <2>1, UserKeeps, StartKeeps, StartBatchKeeps, MergeBatchKeeps, RestKeeps, TransferKeeps
       DEF CheckNext
<1>2. EvidenceStep /\ LinkStep
  BY MergeBatchKeeps DEF EvidenceStep, LinkStep
<1> QED
  BY <1>1, <1>2

\* No check, transfer or merge of a batch (subscription_check.rs,
\* merge_check_results) takes back a mark of a transfer, that a record is there
\* or deleted, whether it is enabled, a total, or a completion its marks justify;
\* a merge leaves the first episode wanted, and the link unless the batch switched
\* it, and a probe about another link only where there was one before.
THEOREM ChecksKeep == SubscriptionsSpec => MergeKeeps
<1> DEFINE Inv == side = "sources" => SourcesInv
<1>1. SubscriptionsInit => Inv
  BY SourcesStart DEF SubscriptionsInit
<1>2. ASSUME Inv, SubscriptionsNext
      PROVE  Inv' /\ ((ProgressStep /\ EvidenceStep /\ LinkStep) \/ UNCHANGED cvars)
  <2>1. CASE Sources(CheckNext)
    BY <1>2, <2>1, SourcesStep DEF Sources
  <2>2. CASE Seasons(SeasonNext)
    BY <2>2 DEF Seasons
  <2> QED
    BY <1>2, <2>1, <2>2 DEF SubscriptionsNext
<1>3. Inv /\ UNCHANGED subscription_vars => Inv' /\ UNCHANGED cvars
  BY DEF subscription_vars, cvars, SourcesInv, CheckTypeOK, Consistent, StaysAbout, AboutSource
<1>4. Inv /\ [SubscriptionsNext]_subscription_vars => Inv' /\ [ProgressStep]_cvars /\ [EvidenceStep]_cvars /\ [LinkStep]_cvars
  BY <1>2, <1>3
<1>5. SubscriptionsSpec => [][ProgressStep]_cvars /\ [][EvidenceStep]_cvars /\ [][LinkStep]_cvars
  BY <1>1, <1>4, PTL DEF SubscriptionsSpec
<1> QED
  BY <1>5 DEF MergeKeeps, ProgressStays, EvidenceKept, LinkStays, ProgressStep, EvidenceStep, LinkStep

----------------------------------------------------------------------------
(* Seasons: what is remembered of the episodes. *)

Evidence(s) == known_episode_keys(s) \cup transferred_episode_keys(s)
KeysOf(files, s) == UNION {state_keys(f, season_start(s)) : f \in files}

\* The types the proofs need.
MemoryTypes ==
  /\ memory \in Memory /\ content \subseteq Videos /\ waiting \subseteq SUBSET Videos
  /\ checking.pc \in {"idle", "probed", "reconcile"} /\ checking.files \subseteq Videos
  /\ moving.pc \in {"idle", "copy", "mark", "finish"} /\ moving.files \subseteq Videos
  /\ DOMAIN checking = {"pc", "then", "files"} /\ DOMAIN moving = {"pc", "then", "files"}
  /\ checking.pc = "probed" => checking.then \in Memory
  /\ moving.pc # "idle" => moving.then \in Memory

\* A check works on a record of the same seasons, whose evidence there still is,
\* and on files that are found.
CheckTrue == checking.pc = "probed" =>
  /\ checking.then.seasons = memory.seasons /\ checking.then.total = memory.total
  /\ Evidence(checking.then) \subseteq Evidence(memory)
  /\ KeysOf(checking.files, memory) \subseteq found

\* A transfer works on a record of the same seasons, on files of episodes the
\* drive has not, each of another.
MoveTrue ==
  /\ moving.pc # "idle" => moving.then.seasons = memory.seasons
  /\ moving.pc = "copy" => \A f \in moving.files :
       /\ state_keys(f, season_start(memory)) \cap transferred_episode_keys(memory) = {}
       /\ \A g \in moving.files : f # g =>
            state_keys(f, season_start(memory)) \cap state_keys(g, season_start(memory)) = {}

\* The drive has what counts as transferred and what is about to be marked.
DriveTrue ==
  drive = transferred_episode_keys(memory) \cup (IF moving.pc = "mark" THEN Copied ELSE {})
KnownTrue == known_episode_keys(memory) \subseteq found \cup drive
DoneTrue == memory.completed /\ memory.total > 0 => reached_target(memory, {})

SeasonInv == MemoryTypes /\ CheckTrue /\ MoveTrue /\ DriveTrue /\ KnownTrue /\ DoneTrue

----------------------------------------------------------------------------
(* Seasons and keys. *)

\* The first season is one of the subscription's.
LEMMA StartSeason ==
  ASSUME NEW s \in Memory
  PROVE  season_start(s) \in s.seasons /\ season_start(s) \in AllSeasons
<1>1. s.seasons \in SUBSET AllSeasons /\ s.seasons # {}
  BY DEF Memory
<1>2. AllSeasons \subseteq Nat
  BY DEF AllSeasons, MaxSeason
<1>3. \E n \in s.seasons : \A m \in s.seasons : n <= m
  BY <1>1, <1>2, Least
<1> QED
  BY <1>1, <1>3 DEF season_start, Smallest

\* A file has a season, and the same when it is asked again.
LEMMA SeasonOfFile ==
  ASSUME NEW f \in Videos, NEW n \in AllSeasons
  PROVE  /\ season_of(f, n) \in AllSeasons
         /\ \A m : season_of(f, season_of(f, m)) = season_of(f, m)
BY RulesAssumption DEF season_of, AllSeasons, MaxSeason

\* So has a reference, of an old record too.
LEMMA SeasonOfRef ==
  ASSUME NEW n \in 0..MaxSeason, NEW d \in AllSeasons
  PROVE  OfSeason(n, d) \in AllSeasons
BY DEF OfSeason, AllSeasons, MaxSeason

\* A season that is named stays, whatever the first one is.
LEMMA NamedSeason ==
  ASSUME NEW n \in AllSeasons, NEW d
  PROVE  OfSeason(n, d) = n /\ n # 0
BY DEF OfSeason, AllSeasons, MaxSeason

\* The first episode of a file is one it holds.
LEMMA FileEpisodes ==
  ASSUME NEW f \in Videos
  PROVE  first[f] \in AllEpisodes /\ first[f] \in Range_(f) /\ Range_(f) \subseteq AllEpisodes
<1>1. /\ first[f] \in 1..MaxEpisode /\ last[f] \in 1..MaxEpisode /\ first[f] <= last[f]
      /\ MaxEpisode \in Nat
  BY RulesAssumption DEF AllEpisodes, MaxEpisode
<1> QED
  BY <1>1 DEF AllEpisodes, Range_

\* The members of the three sets of keys.
LEMMA InRefKeys ==
  ASSUME NEW refs, NEW d, NEW k
  PROVE  k \in RefKeys(refs, d) <=>
           \E r \in refs : /\ r[1] \notin extras
                           /\ k = <<season_of(r[1], OfSeason(r[2], d)), first[r[1]]>>
BY DEF RefKeys, state_keys

\* A key without a season is of the default one.
LEMMA InParsed ==
  ASSUME NEW keys, NEW d, NEW k
  PROVE  k \in parse_keys(keys, d) <=> \E q \in keys : k = <<OfSeason(q[1], d), q[2]>>
BY DEF parse_keys

\* The key of a file is its season and its first episode.
LEMMA InKeysOf ==
  ASSUME NEW files, NEW s, NEW k
  PROVE  k \in KeysOf(files, s) <=>
           \E f \in files : f \notin extras /\ k = <<season_of(f, season_start(s)), first[f]>>
BY DEF KeysOf, state_keys

\* What is remembered names seasons and episodes.
LEMMA KeyTypes ==
  ASSUME NEW s \in Memory
  PROVE  /\ transferred_episode_keys(s) \subseteq AllSeasons \X AllEpisodes
         /\ known_episode_keys(s) \subseteq AllSeasons \X AllEpisodes
<1> DEFINE d == season_start(s)
<1>1. d \in AllSeasons
  BY StartSeason
<1> HIDE DEF d
<1>2. /\ s.refs \subseteq Videos \X (0..MaxSeason) /\ s.keys \subseteq (0..MaxSeason) \X AllEpisodes
      /\ s.seen \subseteq Videos \X AllSeasons /\ s.past \subseteq AllSeasons \X AllEpisodes
      /\ s.known \subseteq AllEpisodes
  BY DEF Memory
<1>3. ASSUME NEW refs \in SUBSET (Videos \X (0..MaxSeason)), NEW k \in RefKeys(refs, d)
      PROVE  k \in AllSeasons \X AllEpisodes
  <2>1. PICK r \in refs : k = <<season_of(r[1], OfSeason(r[2], d)), first[r[1]]>>
    BY InRefKeys
  <2>2. r[1] \in Videos /\ r[2] \in 0..MaxSeason
    OBVIOUS
  <2>3. OfSeason(r[2], d) \in AllSeasons
    BY <1>1, <2>2, SeasonOfRef
  <2>4. season_of(r[1], OfSeason(r[2], d)) \in AllSeasons /\ first[r[1]] \in AllEpisodes
    BY <2>2, <2>3, SeasonOfFile, FileEpisodes
  <2> QED
    BY <2>1, <2>4
<1>4. ASSUME NEW k \in parse_keys(s.keys, d) PROVE k \in AllSeasons \X AllEpisodes
  <2>1. PICK q \in s.keys : k = <<OfSeason(q[1], d), q[2]>>
    BY InParsed
  <2>2. q[1] \in 0..MaxSeason /\ q[2] \in AllEpisodes
    BY <1>2
  <2>3. OfSeason(q[1], d) \in AllSeasons
    BY <1>1, <2>2, SeasonOfRef
  <2> QED
    BY <2>1, <2>2, <2>3
<1>5. s.seen \in SUBSET (Videos \X (0..MaxSeason))
  BY <1>2 DEF AllSeasons
<1>6. {d} \X s.known \subseteq AllSeasons \X AllEpisodes
  BY <1>1, <1>2
<1> QED
  BY <1>2, <1>3, <1>4, <1>5, <1>6 DEF transferred_episode_keys, known_episode_keys, d

----------------------------------------------------------------------------
(* What the operations leave of what is remembered. *)

\* Two records that remember the same.
Alike(s, t) ==
  /\ t.seasons = s.seasons /\ t.refs = s.refs /\ t.keys = s.keys /\ t.seen = s.seen
  /\ t.past = s.past /\ t.known = s.known

\* They have the same evidence.
LEMMA AlikeKeys ==
  ASSUME NEW s, NEW t, Alike(s, t)
  PROVE  /\ season_start(t) = season_start(s) /\ known_episode_keys(t) = known_episode_keys(s)
         /\ transferred_episode_keys(t) = transferred_episode_keys(s)
         /\ t.total = s.total => reached_target(t, {}) = reached_target(s, {})
BY DEF Alike, season_start, known_episode_keys, transferred_episode_keys, reached_target, ReachedIn

\* More evidence of the same seasons reaches what less of it reached.
LEMMA ReachedMore ==
  ASSUME NEW s, NEW E, NEW F, E \subseteq F, ReachedIn(s, E)
  PROVE  ReachedIn(s, F)
BY DEF ReachedIn

\* Transferred files are evidence.
LEMMA FilesReach ==
  ASSUME NEW s, reached_by_files(s)
  PROVE  reached_target(s, {})
BY DEF reached_by_files, reached_target, ReachedIn, transferred_episode_keys

\* The reconciliation changes the completion only, and leaves one that is deserved.
LEMMA ReconciledAlike ==
  ASSUME NEW s \in Memory
  PROVE  /\ reconcile(s) \in Memory /\ Alike(s, reconcile(s)) /\ reconcile(s).total = s.total
         /\ reconcile(s).completed /\ s.total > 0 => reached_target(reconcile(s), {})
<1> DEFINE c == IF s.completed THEN s.total = 0 \/ reached_target(s, {}) ELSE reached_by_files(s)
           t == reconcile(s)
<1>1. t = [s EXCEPT !.completed = c]
  BY DEF reconcile
<1>2. c \in BOOLEAN
  BY DEF reached_by_files, reached_target, ReachedIn
<1>3. c => s.total = 0 \/ reached_target(s, {})
  BY FilesReach
<1>4. t \in Memory /\ Alike(s, t) /\ t.total = s.total /\ t.completed = c
  <2> HIDE DEF c, t
  <2> QED
    BY <1>1, <1>2 DEF Memory, Alike
<1>5. reached_target(t, {}) = reached_target(s, {})
  BY <1>4, AlikeKeys
<1>6. s.total \in Nat
  BY DEF Memory
<1> HIDE DEF t
<1>7. ASSUME t.completed, s.total > 0 PROVE reached_target(t, {})
  <2>1. s.total # 0
    BY <1>6, <1>7
  <2>2. c
    BY <1>4, <1>7, Zenon
  <2> QED
    BY <1>3, <1>5, <2>1, <2>2, Zenon
<1> QED
  BY <1>4, <1>5, <1>7, Zenon DEF t

\* A transfer's mark adds exactly the episodes of its files.
LEMMA Marked_ ==
  ASSUME NEW s \in Memory, NEW then \in Memory, then.seasons = s.seasons, NEW files \in SUBSET Videos
  PROVE  LET t == mark_transferred(s, then, files)
             added == UNION {{season_of(f, season_start(then))} \X Range_(f) : f \in files \ extras}
         IN /\ t \in Memory /\ t.seasons = s.seasons /\ t.total = s.total
            /\ t.completed = s.completed
            /\ known_episode_keys(t) = known_episode_keys(s)
            /\ transferred_episode_keys(t) = transferred_episode_keys(s) \cup added
<1> DEFINE t == mark_transferred(s, then, files)
           d == season_start(s)
           newrefs == {<<f, season_of(f, d)>> : f \in files}
           newkeys == UNION {FiledKeys(then, f) : f \in files}
           added == UNION {{season_of(f, d)} \X Range_(f) : f \in files \ extras}
<1>1. d \in AllSeasons /\ season_start(then) = d
  BY StartSeason DEF season_start
<1>2. \A f \in files : /\ season_of(f, d) \in AllSeasons /\ Range_(f) \subseteq AllEpisodes
                       /\ first[f] \in Range_(f) /\ season_of(f, d) # 0
  BY <1>1, SeasonOfFile, FileEpisodes, NamedSeason
<1>3. AllSeasons \subseteq 0..MaxSeason /\ 0 \in 0..MaxSeason
  BY DEF AllSeasons, MaxSeason
<1> HIDE DEF d
<1>4. newrefs \in SUBSET (Videos \X (0..MaxSeason))
  <2> SUFFICES ASSUME NEW f \in files PROVE <<f, season_of(f, d)>> \in Videos \X (0..MaxSeason)
    OBVIOUS
  <2> QED
    BY <1>2, <1>3
<1>5. \A k : k \in newkeys <=> \E f \in files \ extras : \E e \in Range_(f) :
          k = <<season_of(f, d), e>> \/ (season_of(f, d) = d /\ k = <<0, e>>)
  <2>1. \A k : k \in newkeys <=> \E f \in files : k \in FiledKeys(then, f)
    OBVIOUS
  <2>2. ASSUME NEW k, NEW f \in files
        PROVE  k \in FiledKeys(then, f) <=> f \notin extras /\ \E e \in Range_(f) :
                 k = <<season_of(f, d), e>> \/ (season_of(f, d) = d /\ k = <<0, e>>)
    BY <1>1 DEF FiledKeys
  <2> HIDE DEF newkeys
  <2> QED
    BY <2>1, <2>2
<1>6. newkeys \in SUBSET ((0..MaxSeason) \X AllEpisodes)
  <2> HIDE DEF newkeys
  <2> SUFFICES ASSUME NEW k \in newkeys PROVE k \in (0..MaxSeason) \X AllEpisodes
    OBVIOUS
  <2> PICK f \in files \ extras : \E e \in Range_(f) :
          k = <<season_of(f, d), e>> \/ (season_of(f, d) = d /\ k = <<0, e>>)
    BY <1>5
  <2>1. PICK e \in Range_(f) : k = <<season_of(f, d), e>> \/ k = <<0, e>>
    OBVIOUS
  <2>2. e \in AllEpisodes /\ season_of(f, d) \in 0..MaxSeason /\ 0 \in 0..MaxSeason
    BY <1>2, <1>3
  <2> QED
    BY <2>1, <2>2
<1>7. t = [s EXCEPT !.refs = s.refs \cup newrefs, !.keys = s.keys \cup newkeys]
  BY <1>1 DEF mark_transferred, Memory
<1> HIDE DEF t, newrefs, newkeys
<1>8. /\ t \in Memory /\ t.seasons = s.seasons /\ t.total = s.total /\ t.completed = s.completed
      /\ t.refs = s.refs \cup newrefs /\ t.keys = s.keys \cup newkeys
      /\ t.seen = s.seen /\ t.past = s.past /\ t.known = s.known
  BY <1>4, <1>6, <1>7 DEF Memory
<1>9. season_start(t) = d
  BY <1>8 DEF season_start, d
<1>10. known_episode_keys(t) = known_episode_keys(s)
  BY <1>8, <1>9 DEF known_episode_keys, d
<1>11. \A k : k \in added <=> \E f \in files \ extras : \E e \in Range_(f) : k = <<season_of(f, d), e>>
  OBVIOUS
<1>12. parse_keys(newkeys, d) = added
  <2>1. ASSUME NEW k \in parse_keys(newkeys, d) PROVE k \in added
    <3>1. PICK q \in newkeys : k = <<OfSeason(q[1], d), q[2]>>
      BY InParsed
    <3> PICK f \in files \ extras : \E e \in Range_(f) :
            q = <<season_of(f, d), e>> \/ (season_of(f, d) = d /\ q = <<0, e>>)
      BY <1>5
    <3>2. PICK e \in Range_(f) :
            q = <<season_of(f, d), e>> \/ (season_of(f, d) = d /\ q = <<0, e>>)
      OBVIOUS
    <3>3. OfSeason(q[1], d) = season_of(f, d) /\ q[2] = e
      BY <1>2, <3>2 DEF OfSeason
    <3> QED
      BY <1>11, <3>1, <3>3
  <2>2. ASSUME NEW k \in added PROVE k \in parse_keys(newkeys, d)
    <3> PICK f \in files \ extras : \E e \in Range_(f) : k = <<season_of(f, d), e>>
      BY <1>11
    <3>1. PICK e \in Range_(f) : k = <<season_of(f, d), e>>
      OBVIOUS
    <3>2. <<season_of(f, d), e>> \in newkeys
      BY <1>5
    <3>3. <<OfSeason(season_of(f, d), d), e>> \in parse_keys(newkeys, d)
      BY <3>2, InParsed
    <3> QED
      BY <1>2, <3>1, <3>3 DEF OfSeason
  <2> QED
    BY <2>1, <2>2
<1>13. RefKeys(newrefs, d) \subseteq added
  <2> SUFFICES ASSUME NEW k \in RefKeys(newrefs, d) PROVE k \in added
    OBVIOUS
  <2>1. PICK r \in newrefs : r[1] \notin extras /\ k = <<season_of(r[1], OfSeason(r[2], d)), first[r[1]]>>
    BY InRefKeys
  <2>2. PICK f \in files : r = <<f, season_of(f, d)>>
    BY DEF newrefs
  <2>3. OfSeason(r[2], d) = season_of(f, d)
    BY <1>2, <2>2 DEF OfSeason
  <2>4. k = <<season_of(f, season_of(f, d)), first[f]>> /\ f \notin extras
    BY <2>1, <2>2, <2>3
  <2>5. season_of(f, season_of(f, d)) = season_of(f, d)
    BY <1>1, SeasonOfFile
  <2> QED
    BY <1>2, <1>11, <2>4, <2>5
<1>14. /\ parse_keys(s.keys \cup newkeys, d) = parse_keys(s.keys, d) \cup parse_keys(newkeys, d)
       /\ RefKeys(s.refs \cup newrefs, d) = RefKeys(s.refs, d) \cup RefKeys(newrefs, d)
  BY DEF parse_keys, RefKeys
<1> HIDE DEF added
<1>15. transferred_episode_keys(t) = transferred_episode_keys(s) \cup added
  BY <1>8, <1>9, <1>12, <1>13, <1>14 DEF transferred_episode_keys, d
<1> QED
  BY <1>1, <1>8, <1>10, <1>15 DEF t, added

\* The numbers of the first season, d, among new files.
NumbersOf(new, d) == {first[f] : f \in {g \in new \ extras : season_of(g, d) = d}}

\* What a check may write: nothing else is taken for found than its files, and
\* the evidence of a last episode stays.
SoundCheck(s, then, files, new, completed) ==
  LET t == record_check(s, then, files, new, completed)
      d == season_start(s) IN
    /\ t \in Memory /\ t.seasons = s.seasons /\ t.total = s.total
    /\ t.completed => s.completed \/ completed
    /\ transferred_episode_keys(t) = transferred_episode_keys(s)
    /\ known_episode_keys(t) \subseteq known_episode_keys(s) \cup KeysOf(files, s)
    /\ \A n : <<n, s.total>> \in Evidence(s) \cup ({d} \X NumbersOf(new, d))
                => <<n, s.total>> \in Evidence(t)

\* update_subscription_after_check is such a check.
LEMMA Checked ==
  ASSUME NEW s \in Memory, NEW then \in Memory, then.seasons = s.seasons,
         NEW files \in SUBSET Videos, NEW new \in SUBSET files, NEW completed \in BOOLEAN
  PROVE  SoundCheck(s, then, files, new, completed)
<1> DEFINE d == season_start(s)
           t == record_check(s, then, files, new, completed)
           filed == {f \in files : matches_season(s, f) /\ RulesPass(s, f)} \ s.ids
           numbers == NumbersOf(new, d)
           names == {<<f, season_of(f, d)>> : f \in filed}
           kept == {e \in s.known : s.total > 0 => e <= s.total}
<1>1. d \in AllSeasons /\ season_start(then) = d
  BY StartSeason DEF season_start
<1>2. t = [s EXCEPT !.ids = s.ids \cup filed, !.seen = s.seen \cup names,
             !.known = kept \cup numbers, !.completed = s.completed \/ completed]
  BY <1>1 DEF record_check, NumbersOf, Memory
<1> HIDE DEF d, t
<1>3. filed \in SUBSET files
  OBVIOUS
<1> HIDE DEF filed
<1>4. names \in SUBSET (Videos \X AllSeasons)
  <2> SUFFICES ASSUME NEW f \in filed PROVE <<f, season_of(f, d)>> \in Videos \X AllSeasons
    OBVIOUS
  <2> QED
    BY <1>1, <1>3, SeasonOfFile
<1>5. numbers \in SUBSET AllEpisodes
  BY FileEpisodes DEF NumbersOf
<1>6. kept \in SUBSET s.known /\ s.known \in SUBSET AllEpisodes
  BY DEF Memory
<1>7. s.ids \cup filed \in SUBSET Videos
  BY <1>3 DEF Memory
<1>8. \E b \in BOOLEAN : b = (s.completed \/ completed)
  OBVIOUS
<1>9. PICK b \in BOOLEAN : b = (s.completed \/ completed)
  BY <1>8
<1> HIDE DEF names, numbers, kept
<1>10. /\ t \in Memory /\ t.seasons = s.seasons /\ t.total = s.total /\ t.completed = b
       /\ t.refs = s.refs /\ t.keys = s.keys /\ t.past = s.past
       /\ t.seen = s.seen \cup names /\ t.known = kept \cup numbers
  BY <1>2, <1>4, <1>5, <1>6, <1>7, <1>9 DEF Memory
<1>11. t.completed => s.completed \/ completed
  BY <1>9, <1>10, Zenon
<1>12. season_start(t) = d
  BY <1>10 DEF season_start, d
<1>13. transferred_episode_keys(t) = transferred_episode_keys(s)
  BY <1>10, <1>12 DEF transferred_episode_keys, d
<1>14. RefKeys(s.seen \cup names, d) = RefKeys(s.seen, d) \cup RefKeys(names, d)
  BY DEF RefKeys
<1>15. RefKeys(names, d) \subseteq KeysOf(files, s)
  <2> SUFFICES ASSUME NEW k \in RefKeys(names, d) PROVE k \in KeysOf(files, s)
    OBVIOUS
  <2>1. PICK r \in names : r[1] \notin extras /\ k = <<season_of(r[1], OfSeason(r[2], d)), first[r[1]]>>
    BY InRefKeys
  <2>2. PICK f \in filed : r = <<f, season_of(f, d)>>
    BY DEF names
  <2>3. f \in files /\ f \in Videos
    BY <1>3
  <2>4. season_of(f, d) \in AllSeasons /\ season_of(f, season_of(f, d)) = season_of(f, d)
    BY <1>1, <2>3, SeasonOfFile
  <2>5. OfSeason(r[2], d) = season_of(f, d)
    BY <2>2, <2>4, NamedSeason
  <2>6. f \notin extras /\ k = <<season_of(f, d), first[f]>>
    BY <2>1, <2>2, <2>4, <2>5
  <2> QED
    BY <2>3, <2>6, InKeysOf DEF d
<1>16. {d} \X numbers \subseteq KeysOf(files, s)
  <2> SUFFICES ASSUME NEW e \in numbers PROVE <<d, e>> \in KeysOf(files, s)
    OBVIOUS
  <2>1. PICK f \in new \ extras : season_of(f, d) = d /\ e = first[f]
    BY DEF numbers, NumbersOf
  <2> QED
    BY <2>1, InKeysOf DEF d
<1>17. {d} \X (kept \cup numbers) = ({d} \X kept) \cup ({d} \X numbers)
  OBVIOUS
<1>18. {d} \X kept \subseteq {d} \X s.known
  BY <1>6
<1>19. known_episode_keys(t) =
         s.past \cup RefKeys(s.seen, d) \cup RefKeys(names, d) \cup ({d} \X kept) \cup ({d} \X numbers)
  BY <1>10, <1>12, <1>14, <1>17 DEF known_episode_keys
<1>20. known_episode_keys(s) = s.past \cup RefKeys(s.seen, d) \cup ({d} \X s.known)
  BY DEF known_episode_keys, d
<1>21. known_episode_keys(t) \subseteq known_episode_keys(s) \cup KeysOf(files, s)
  BY <1>15, <1>16, <1>18, <1>19, <1>20
<1>22. ASSUME NEW n, <<n, s.total>> \in Evidence(s) \cup ({d} \X numbers)
       PROVE  <<n, s.total>> \in Evidence(t)
  <2>1. s.total \in Nat
    BY DEF Memory
  <2>2. CASE <<n, s.total>> \in {d} \X s.known
    <3>1. n = d /\ s.total \in s.known
      BY <2>2
    <3>2. s.total \in kept
      BY <2>1, <3>1 DEF kept
    <3> QED
      BY <1>19, <3>1, <3>2 DEF Evidence
  <2>3. CASE <<n, s.total>> \notin {d} \X s.known
    BY <1>13, <1>19, <1>20, <1>22, <2>3 DEF Evidence
  <2> QED
    BY <2>2, <2>3
<1> QED
  BY <1>10, <1>11, <1>13, <1>21, <1>22 DEF SoundCheck, t, d, numbers

\* New seasons: every episode that was remembered is, and of the same season.
LEMMA Rebased ==
  ASSUME NEW s \in Memory, NEW S \in (SUBSET AllSeasons) \ {{}}, NEW total \in 0..MaxEpisode
  PROVE  LET t == Reseasoned(s, S, total) IN
           /\ t \in Memory /\ t.total = total /\ ~t.completed
           /\ transferred_episode_keys(t) = transferred_episode_keys(s)
           /\ known_episode_keys(t) = known_episode_keys(s)
<1> DEFINE old == season_start(s)
           now == Smallest(S)
           keys == parse_keys(s.keys, old)
           refs == {<<r[1], season_of(r[1], OfSeason(r[2], old))>> : r \in s.refs}
           past == s.past \cup ({old} \X s.known)
           bound == [s EXCEPT !.seasons = S, !.keys = keys, !.known = {}, !.refs = refs, !.past = past]
           numbers == {e \in AllEpisodes : <<now, e>> \in known_episode_keys(bound)}
           t == Reseasoned(s, S, total)
<1>1. /\ s.refs \subseteq Videos \X (0..MaxSeason) /\ s.keys \subseteq (0..MaxSeason) \X AllEpisodes
      /\ s.seen \subseteq Videos \X AllSeasons /\ s.past \subseteq AllSeasons \X AllEpisodes
      /\ s.known \subseteq AllEpisodes
  BY DEF Memory
<1>2. old \in AllSeasons
  BY StartSeason
<1>3. t = [bound EXCEPT !.known = numbers, !.total = total, !.completed = FALSE]
  BY DEF Reseasoned, rebase_season_progress, BoundKeys, season_start, Memory
<1> HIDE DEF old, now, t
<1>4. \A q \in s.keys : OfSeason(q[1], old) \in AllSeasons /\ q[2] \in AllEpisodes
  <2> SUFFICES ASSUME NEW q \in s.keys
               PROVE  OfSeason(q[1], old) \in AllSeasons /\ q[2] \in AllEpisodes
    OBVIOUS
  <2>1. q[1] \in 0..MaxSeason /\ q[2] \in AllEpisodes
    BY <1>1
  <2> QED
    BY <1>2, <2>1, SeasonOfRef
<1>5. ASSUME NEW r \in s.refs
      PROVE  /\ r[1] \in Videos /\ season_of(r[1], OfSeason(r[2], old)) \in AllSeasons
             /\ \A m : season_of(r[1], OfSeason(season_of(r[1], OfSeason(r[2], old)), m))
                         = season_of(r[1], OfSeason(r[2], old))
  <2>1. r[1] \in Videos /\ r[2] \in 0..MaxSeason
    BY <1>1
  <2>2. OfSeason(r[2], old) \in AllSeasons
    BY <1>2, <2>1, SeasonOfRef
  <2>3. season_of(r[1], OfSeason(r[2], old)) \in AllSeasons
    BY <2>1, <2>2, SeasonOfFile
  <2> QED
    BY <2>1, <2>2, <2>3, SeasonOfFile, NamedSeason
<1>6. keys \in SUBSET (AllSeasons \X AllEpisodes)
  <2> SUFFICES ASSUME NEW k \in keys PROVE k \in AllSeasons \X AllEpisodes
    OBVIOUS
  <2>1. PICK q \in s.keys : k = <<OfSeason(q[1], old), q[2]>>
    BY InParsed
  <2> QED
    BY <1>4, <2>1
<1>7. refs \in SUBSET (Videos \X AllSeasons)
  <2> SUFFICES ASSUME NEW r \in s.refs
               PROVE  <<r[1], season_of(r[1], OfSeason(r[2], old))>> \in Videos \X AllSeasons
    OBVIOUS
  <2> QED
    BY <1>5
<1>8. past \in SUBSET (AllSeasons \X AllEpisodes)
  BY <1>1, <1>2
<1>9. AllSeasons \subseteq 0..MaxSeason
  BY DEF AllSeasons, MaxSeason
<1>10. ASSUME NEW m PROVE parse_keys(keys, m) = keys
  <2>1. ASSUME NEW k \in keys PROVE k[1] \in AllSeasons /\ k = <<k[1], k[2]>>
    BY <1>6
  <2> HIDE DEF keys
  <2>2. \A k \in keys : <<OfSeason(k[1], m), k[2]>> = k
    BY <2>1, NamedSeason
  <2> QED
    BY <2>2 DEF parse_keys
<1>11. ASSUME NEW m PROVE RefKeys(refs, m) = RefKeys(s.refs, old)
  <2>1. ASSUME NEW k \in RefKeys(refs, m) PROVE k \in RefKeys(s.refs, old)
    <3>1. PICK q \in refs : q[1] \notin extras /\ k = <<season_of(q[1], OfSeason(q[2], m)), first[q[1]]>>
      BY InRefKeys
    <3>2. PICK r \in s.refs : q = <<r[1], season_of(r[1], OfSeason(r[2], old))>>
      OBVIOUS
    <3>3. r[1] \notin extras /\ k = <<season_of(r[1], OfSeason(r[2], old)), first[r[1]]>>
      BY <1>5, <3>1, <3>2
    <3> QED
      BY <3>3, InRefKeys
  <2>2. ASSUME NEW k \in RefKeys(s.refs, old) PROVE k \in RefKeys(refs, m)
    <3>1. PICK r \in s.refs : r[1] \notin extras /\ k = <<season_of(r[1], OfSeason(r[2], old)), first[r[1]]>>
      BY InRefKeys
    <3>2. PICK q \in refs : q = <<r[1], season_of(r[1], OfSeason(r[2], old))>>
      OBVIOUS
    <3>3. q[1] \notin extras /\ k = <<season_of(q[1], OfSeason(q[2], m)), first[q[1]]>>
      BY <1>5, <3>1, <3>2
    <3> QED
      BY <3>3, InRefKeys
  <2> QED
    BY <2>1, <2>2
<1>12. ASSUME NEW m PROVE RefKeys(s.seen, m) = RefKeys(s.seen, old)
  <2>1. \A r \in s.seen : OfSeason(r[2], m) = OfSeason(r[2], old)
    BY <1>1, NamedSeason
  <2> QED
    BY <2>1 DEF RefKeys
<1> HIDE DEF keys, refs
<1>13. /\ bound \in Memory /\ bound.seasons = S /\ bound.keys = keys /\ bound.refs = refs
       /\ bound.past = past /\ bound.seen = s.seen /\ bound.known = {}
  <2> HIDE DEF past
  <2> QED
    BY <1>6, <1>7, <1>8, <1>9 DEF Memory
<1>14. known_episode_keys(bound) = known_episode_keys(s)
  <2>1. season_start(bound) = now
    BY <1>13 DEF season_start, now
  <2>2. RefKeys(s.seen, now) = RefKeys(s.seen, old)
    BY <1>12
  <2>3. {now} \X bound.known = {}
    BY <1>13
  <2>4. known_episode_keys(bound) = past \cup RefKeys(s.seen, old)
    BY <1>13, <2>1, <2>2, <2>3 DEF known_episode_keys
  <2> QED
    BY <2>4 DEF known_episode_keys, old
<1> HIDE DEF bound
<1>15. /\ t \in Memory /\ t.total = total /\ ~t.completed /\ t.seasons = S
       /\ t.keys = keys /\ t.refs = refs /\ t.past = past /\ t.seen = s.seen /\ t.known = numbers
  BY <1>3, <1>13 DEF Memory
<1>16. season_start(t) = now
  BY <1>15 DEF season_start, now
<1>17. transferred_episode_keys(t) = transferred_episode_keys(s)
  <2>1. parse_keys(keys, now) = keys /\ RefKeys(refs, now) = RefKeys(s.refs, old)
    BY <1>10, <1>11
  <2> QED
    BY <1>15, <1>16, <2>1 DEF transferred_episode_keys, old, keys
<1>18. known_episode_keys(t) = known_episode_keys(s)
  <2>1. RefKeys(s.seen, now) = RefKeys(s.seen, old)
    BY <1>12
  <2>2. known_episode_keys(s) = past \cup RefKeys(s.seen, old)
    BY DEF known_episode_keys, old
  <2>3. {now} \X numbers \subseteq known_episode_keys(s)
    BY <1>14
  <2> QED
    BY <1>15, <1>16, <2>1, <2>2, <2>3 DEF known_episode_keys
<1> QED
  BY <1>15, <1>17, <1>18 DEF t

\* What a transfer chooses: no episode the record has, and each once.
LEMMA Chosen ==
  ASSUME NEW s \in Memory, NEW names, NEW files \in SUBSET Videos,
         NEW f \in files_to_transfer(s, names, files)
  PROVE  /\ f \in Videos
         /\ state_keys(f, season_start(s)) \cap transferred_episode_keys(s) = {}
         /\ \A g \in files_to_transfer(s, names, files) : f # g =>
              state_keys(f, season_start(s)) \cap state_keys(g, season_start(s)) = {}
<1> DEFINE chosen == files_to_transfer(s, names, files)
           best == Best(s, filter_transfer_candidates_by_targets(s, names, files))
<1>1. /\ \A g \in chosen : g \in best /\ ~Has(s, g)
      /\ best \subseteq Videos
  BY DEF files_to_transfer, filter_already_transferred_files, dedup_provider_episode_files,
         Best, filter_transfer_candidates_by_targets
<1>2. \A g, h \in best :
        state_keys(g, season_start(s)) \cap state_keys(h, season_start(s)) # {} => rank[h] <= rank[g]
  BY DEF Best
<1> HIDE DEF chosen, best
<1>3. f \in chosen
  BY DEF chosen
<1>4. ASSUME NEW g \in chosen, state_keys(f, season_start(s)) \cap state_keys(g, season_start(s)) # {}
      PROVE  f = g
  <2>1. f \in best /\ g \in best /\ f \in Videos /\ g \in Videos
    BY <1>1, <1>3
  <2>2. state_keys(g, season_start(s)) \cap state_keys(f, season_start(s)) # {}
    BY <1>4
  <2>3. rank[g] <= rank[f] /\ rank[f] <= rank[g]
    BY <1>2, <1>4, <2>1, <2>2
  <2>4. rank[f] \in Nat /\ rank[g] \in Nat
    BY <2>1, RulesAssumption
  <2>5. rank[f] = rank[g]
    BY <2>3, <2>4
  <2> QED
    BY <2>1, <2>5, RulesAssumption
<1> QED
  BY <1>1, <1>3, <1>4 DEF Has, chosen

----------------------------------------------------------------------------
(* The steps of the seasons. *)

\* A step that keeps the seasons, what counts as transferred, the running
\* transfer and the drive leaves their relation.
LEMMA SameMoves ==
  ASSUME SeasonInv, memory'.seasons = memory.seasons,
         transferred_episode_keys(memory') = transferred_episode_keys(memory),
         UNCHANGED <<moving, drive>>
  PROVE  MoveTrue' /\ DriveTrue'
<1>1. season_start(memory') = season_start(memory)
  BY DEF season_start
<1>2. Copied' = Copied
  BY DEF Copied
<1> QED
  BY <1>1, <1>2 DEF SeasonInv, MoveTrue, DriveTrue

\* A record with the same evidence keeps its completion deserved.
LEMMA SameReach ==
  ASSUME NEW s, NEW t, t.seasons = s.seasons, t.total = s.total, Evidence(s) \subseteq Evidence(t),
         reached_target(s, {})
  PROVE  reached_target(t, {})
<1>1. \A n \in s.seasons : <<n, s.total>> \in Evidence(s)
  BY DEF reached_target, ReachedIn, Evidence
<1> QED
  BY <1>1 DEF reached_target, ReachedIn, Evidence

\* Nothing is at work in it.
LEMMA IdleTypes ==
  Idle_.pc = "idle" /\ Idle_.files = {} /\ DOMAIN Idle_ = {"pc", "then", "files"}
BY DEF Idle_

\* The share changes.
LEMMA ShareKeeps ==
  ASSUME SeasonInv, NEW f \in Videos, Upload(f) \/ Withdraw(f)
  PROVE  SeasonInv'
<1>1. /\ UNCHANGED <<memory, checking, waiting, moving, drive, found>>
      /\ content' = content \cup {f} \/ content' = content \ {f}
  BY DEF Upload, Withdraw
<1>2. Copied' = Copied
  BY <1>1 DEF Copied
<1>3. MemoryTypes'
  BY <1>1 DEF SeasonInv, MemoryTypes
<1> QED
  BY <1>1, <1>2, <1>3 DEF SeasonInv, CheckTrue, MoveTrue, DriveTrue, KnownTrue, DoneTrue

\* A check begins with a record it may have reopened, on the files it finds.
LEMMA StartCheckKeeps ==
  ASSUME SeasonInv, StartCheck
  PROVE  SeasonInv'
<1> DEFINE c == memory.completed /\ (memory.total = 0 \/ reached_target(memory, {}))
           s == [memory EXCEPT !.completed = c]
<1>1. /\ ~s.completed /\ memory' = s
      /\ checking' = [pc |-> "probed", then |-> s, files |-> content]
      /\ found' = found \cup KeysOf(content, s)
      /\ UNCHANGED <<content, waiting, moving, changes, drive>>
  BY DEF StartCheck, KeysOf
<1>2. memory \in Memory /\ content \in SUBSET Videos
  BY DEF SeasonInv, MemoryTypes
<1>3. c \in BOOLEAN
  BY DEF reached_target, ReachedIn
<1>4. s \in Memory /\ Alike(memory, s) /\ s.total = memory.total
  <2> HIDE DEF c
  <2> QED
    BY <1>2, <1>3 DEF Memory, Alike
<1> HIDE DEF s
<1>5. /\ season_start(s) = season_start(memory) /\ known_episode_keys(s) = known_episode_keys(memory)
      /\ transferred_episode_keys(s) = transferred_episode_keys(memory)
      /\ s.seasons = memory.seasons
  BY <1>4, AlikeKeys DEF Alike
<1>6. MoveTrue' /\ DriveTrue'
  BY <1>1, <1>5, SameMoves
<1>7. MemoryTypes'
  <2>1. /\ checking'.pc = "probed" /\ checking'.then = s /\ checking'.files = content
        /\ DOMAIN checking' = {"pc", "then", "files"}
    BY <1>1
  <2> QED
    BY <1>1, <1>2, <1>4, <2>1 DEF SeasonInv, MemoryTypes
<1>8. CheckTrue'
  BY <1>1 DEF CheckTrue, Evidence
<1>9. KnownTrue'
  BY <1>1, <1>5 DEF SeasonInv, KnownTrue
<1>10. DoneTrue'
  BY <1>1 DEF DoneTrue
<1> QED
  BY <1>6, <1>7, <1>8, <1>9, <1>10 DEF SeasonInv

\* A check that ends files what it found with the seasons it read it with.
LEMMA EndCheckKeeps ==
  ASSUME SeasonInv, EndCheck
  PROVE  SeasonInv'
<1> DEFINE s == checking.then
           new == new_files(s, checking.files)
           candidates == candidate_files(s, checking.files)
           d == season_start(memory)
           numbers == NumbersOf(new, d)
           completed == IF candidates = {} THEN reached_target(s, numbers) ELSE reached_by_files(s)
           t == record_check(memory, s, checking.files, new, completed)
<1>1. /\ checking.pc = "probed" /\ s \in Memory /\ memory \in Memory /\ checking.files \in SUBSET Videos
      /\ s.seasons = memory.seasons /\ s.total = memory.total
      /\ Evidence(s) \subseteq Evidence(memory) /\ KeysOf(checking.files, memory) \subseteq found
  BY DEF EndCheck, SeasonInv, MemoryTypes, CheckTrue
<1>2. season_start(s) = d
  BY <1>1 DEF season_start
<1>3. /\ memory' = t /\ checking' = [checking EXCEPT !.pc = "reconcile", !.files = candidates]
      /\ UNCHANGED <<content, waiting, moving, changes, drive, found>>
  BY <1>2 DEF EndCheck, NumbersOf
<1>4. new \in SUBSET checking.files /\ candidates \in SUBSET checking.files
  BY DEF new_files, candidate_files, Best, Eligible_
<1>5. completed \in BOOLEAN
  BY DEF reached_target, reached_by_files, ReachedIn
<1> HIDE DEF s, new, candidates, completed
<1>6. /\ t \in Memory /\ t.seasons = memory.seasons /\ t.total = memory.total
      /\ t.completed => memory.completed \/ completed
      /\ transferred_episode_keys(t) = transferred_episode_keys(memory)
      /\ known_episode_keys(t) \subseteq known_episode_keys(memory) \cup KeysOf(checking.files, memory)
      /\ \A n : <<n, memory.total>> \in Evidence(memory) \cup ({d} \X numbers)
                  => <<n, memory.total>> \in Evidence(t)
  <2>1. /\ memory \in Memory /\ s \in Memory /\ s.seasons = memory.seasons
        /\ checking.files \in SUBSET Videos /\ new \in SUBSET checking.files
        /\ completed \in BOOLEAN
    BY <1>1, <1>4, <1>5
  <2>2. SoundCheck(memory, s, checking.files, new, completed)
    BY <2>1, Checked
  <2> QED
    BY <2>2 DEF SoundCheck
<1> HIDE DEF t
<1>7. MoveTrue' /\ DriveTrue'
  BY <1>3, <1>6, SameMoves
<1>8. MemoryTypes'
  <2>1. /\ checking'.pc = "reconcile" /\ checking'.files = candidates
        /\ DOMAIN checking' = {"pc", "then", "files"}
    BY <1>3 DEF SeasonInv, MemoryTypes
  <2>2. candidates \in SUBSET Videos
    BY <1>1, <1>4
  <2> QED
    BY <1>3, <1>6, <2>1, <2>2 DEF SeasonInv, MemoryTypes
<1>9. CheckTrue'
  BY <1>3, <1>8 DEF CheckTrue, SeasonInv, MemoryTypes
<1>10. KnownTrue'
  BY <1>1, <1>3, <1>6 DEF SeasonInv, KnownTrue
<1>11. ASSUME t.completed, t.total > 0 PROVE reached_target(t, {})
  <2>1. memory.total > 0
    BY <1>6, <1>11
  <2>2. \A n \in memory.seasons : <<n, memory.total>> \in Evidence(memory) \cup ({d} \X numbers)
    <3>1. CASE memory.completed
      BY <2>1, <3>1 DEF SeasonInv, DoneTrue, reached_target, ReachedIn, Evidence
    <3>2. CASE completed
      <4>1. \A n \in s.seasons :
              <<n, s.total>> \in Evidence(s) \cup ({d} \X numbers) \cup RefKeys(s.refs, d)
        BY <1>2, <3>2 DEF completed, reached_target, reached_by_files, ReachedIn, Evidence
      <4>2. RefKeys(s.refs, d) \subseteq Evidence(s)
        BY <1>2 DEF Evidence, transferred_episode_keys
      <4> QED
        BY <1>1, <4>1, <4>2
    <3> QED
      BY <1>6, <1>11, <3>1, <3>2
  <2>3. \A n \in t.seasons : <<n, t.total>> \in Evidence(t)
    BY <1>6, <2>2
  <2> QED
    BY <1>11, <2>3 DEF reached_target, ReachedIn, Evidence
<1>12. DoneTrue'
  BY <1>3, <1>11 DEF DoneTrue
<1> QED
  BY <1>7, <1>8, <1>9, <1>10, <1>12 DEF SeasonInv

\* A check ends with a request for a transfer.
LEMMA QueueKeeps ==
  ASSUME SeasonInv, QueueTransfer
  PROVE  SeasonInv'
<1>1. /\ memory' = reconcile(memory) /\ checking' = Idle_ /\ memory \in Memory
      /\ waiting' = waiting \/ waiting' = waiting \cup {checking.files}
      /\ UNCHANGED <<content, moving, changes, drive, found>>
  BY DEF QueueTransfer, SeasonInv, MemoryTypes
<1>2. /\ memory' \in Memory /\ Alike(memory, memory') /\ memory'.total = memory.total
      /\ memory'.completed /\ memory.total > 0 => reached_target(memory', {})
  BY <1>1, ReconciledAlike
<1>3. /\ memory'.seasons = memory.seasons /\ known_episode_keys(memory') = known_episode_keys(memory)
      /\ transferred_episode_keys(memory') = transferred_episode_keys(memory)
  BY <1>2, AlikeKeys DEF Alike
<1>4. MoveTrue' /\ DriveTrue'
  BY <1>1, <1>3, SameMoves
<1>5. MemoryTypes' /\ CheckTrue'
  BY <1>1, <1>2, IdleTypes DEF SeasonInv, MemoryTypes, CheckTrue
<1>6. KnownTrue' /\ DoneTrue'
  BY <1>1, <1>2, <1>3 DEF SeasonInv, KnownTrue, DoneTrue
<1> QED
  BY <1>4, <1>5, <1>6 DEF SeasonInv

\* A transfer begins: with files of episodes the record has not.
LEMMA StartTransferKeeps ==
  ASSUME SeasonInv, NEW names \in waiting, StartTransfer(names)
  PROVE  SeasonInv'
<1> DEFINE chosen == files_to_transfer(memory, names, content)
<1>1. /\ moving.pc = "idle" /\ waiting' = waiting \ {names}
      /\ moving' = IF chosen = {} THEN Idle_ ELSE [pc |-> "copy", then |-> memory, files |-> chosen]
      /\ UNCHANGED <<memory, content, checking, changes, drive, found>>
  BY DEF StartTransfer
<1>2. memory \in Memory /\ content \in SUBSET Videos
  BY DEF SeasonInv, MemoryTypes
<1>3. \A f \in chosen :
        /\ f \in Videos
        /\ state_keys(f, season_start(memory)) \cap transferred_episode_keys(memory) = {}
        /\ \A g \in chosen : f # g =>
             state_keys(f, season_start(memory)) \cap state_keys(g, season_start(memory)) = {}
  BY <1>2, Chosen
<1> HIDE DEF chosen
<1>4. \/ moving' = Idle_
      \/ /\ moving'.pc = "copy" /\ moving'.then = memory /\ moving'.files = chosen
         /\ DOMAIN moving' = {"pc", "then", "files"}
  BY <1>1
<1>5. moving'.pc \in {"idle", "copy"}
  BY <1>4, IdleTypes
<1>6. MemoryTypes'
  BY <1>1, <1>2, <1>3, <1>4, IdleTypes DEF SeasonInv, MemoryTypes
<1>7. MoveTrue'
  BY <1>1, <1>3, <1>4, IdleTypes DEF MoveTrue
<1>8. DriveTrue'
  BY <1>1, <1>5 DEF SeasonInv, DriveTrue
<1>9. CheckTrue' /\ KnownTrue' /\ DoneTrue'
  BY <1>1 DEF SeasonInv, CheckTrue, KnownTrue, DoneTrue
<1> QED
  BY <1>6, <1>7, <1>8, <1>9 DEF SeasonInv

\* The files come into the drive.
LEMMA CopyKeeps ==
  ASSUME SeasonInv, Copy
  PROVE  SeasonInv'
<1>1. /\ moving.pc = "copy" /\ drive' = drive \cup Copied /\ DOMAIN moving = {"pc", "then", "files"}
      /\ moving' = [moving EXCEPT !.pc = "mark"]
      /\ UNCHANGED <<memory, content, checking, waiting, changes, found>>
  BY DEF Copy, SeasonInv, MemoryTypes
<1>2. /\ moving'.pc = "mark" /\ moving'.then = moving.then /\ moving'.files = moving.files
      /\ DOMAIN moving' = {"pc", "then", "files"}
  BY <1>1
<1>3. Copied' = Copied
  BY <1>2 DEF Copied
<1>4. MemoryTypes' /\ MoveTrue'
  BY <1>1, <1>2 DEF SeasonInv, MemoryTypes, MoveTrue
<1>5. DriveTrue'
  BY <1>1, <1>2, <1>3 DEF SeasonInv, DriveTrue
<1>6. CheckTrue' /\ KnownTrue' /\ DoneTrue'
  BY <1>1 DEF SeasonInv, CheckTrue, KnownTrue, DoneTrue
<1> QED
  BY <1>4, <1>5, <1>6 DEF SeasonInv

\* The marks turn what was copied into what counts as transferred.
LEMMA MarkFilesKeeps ==
  ASSUME SeasonInv, Mark
  PROVE  SeasonInv'
<1>1. /\ moving.pc = "mark" /\ memory' = mark_transferred(memory, moving.then, moving.files)
      /\ moving' = [moving EXCEPT !.pc = "finish"] /\ DOMAIN moving = {"pc", "then", "files"}
      /\ UNCHANGED <<content, checking, waiting, changes, drive, found>>
  BY DEF Mark, SeasonInv, MemoryTypes
<1>2. /\ memory \in Memory /\ moving.then \in Memory /\ moving.then.seasons = memory.seasons
      /\ moving.files \in SUBSET Videos
  BY <1>1 DEF SeasonInv, MemoryTypes, MoveTrue
<1>3. /\ memory' \in Memory /\ memory'.seasons = memory.seasons /\ memory'.total = memory.total
      /\ memory'.completed = memory.completed
      /\ known_episode_keys(memory') = known_episode_keys(memory)
      /\ transferred_episode_keys(memory') = transferred_episode_keys(memory) \cup Copied
  BY <1>1, <1>2, Marked_ DEF Copied
<1>4. /\ moving'.pc = "finish" /\ moving'.then = moving.then /\ moving'.files = moving.files
      /\ DOMAIN moving' = {"pc", "then", "files"}
  BY <1>1
<1>5. Evidence(memory) \subseteq Evidence(memory') /\ season_start(memory') = season_start(memory)
  BY <1>3 DEF Evidence, season_start
<1>6. MemoryTypes'
  BY <1>1, <1>3, <1>4 DEF SeasonInv, MemoryTypes
<1>7. MoveTrue'
  BY <1>2, <1>3, <1>4 DEF MoveTrue
<1>8. DriveTrue'
  BY <1>1, <1>3, <1>4 DEF SeasonInv, DriveTrue
<1>9. CheckTrue'
  <2>1. KeysOf(checking.files, memory') = KeysOf(checking.files, memory)
    BY <1>5 DEF KeysOf
  <2> QED
    BY <1>1, <1>3, <1>5, <2>1 DEF SeasonInv, CheckTrue
<1>10. KnownTrue'
  BY <1>1, <1>3 DEF SeasonInv, KnownTrue
<1>11. DoneTrue'
  BY <1>3, <1>5, SameReach DEF SeasonInv, DoneTrue
<1> QED
  BY <1>6, <1>7, <1>8, <1>9, <1>10, <1>11 DEF SeasonInv

\* The transfer completes the subscription if its files reach the target.
LEMMA FinishKeeps ==
  ASSUME SeasonInv, FinishTransfer
  PROVE  SeasonInv'
<1> DEFINE c == memory.completed \/ reached_by_files(memory)
<1>1. /\ moving.pc = "finish" /\ moving' = Idle_ /\ memory \in Memory
      /\ memory' = [memory EXCEPT !.completed = c]
      /\ UNCHANGED <<content, checking, waiting, changes, drive, found>>
  BY DEF FinishTransfer, SeasonInv, MemoryTypes, Memory
<1>2. c \in BOOLEAN
  BY <1>1 DEF reached_by_files, ReachedIn, Memory
<1>3. memory' \in Memory /\ Alike(memory, memory') /\ memory'.total = memory.total /\ memory'.completed = c
  <2> HIDE DEF c
  <2> QED
    BY <1>1, <1>2 DEF Memory, Alike
<1>4. /\ season_start(memory') = season_start(memory)
      /\ known_episode_keys(memory') = known_episode_keys(memory)
      /\ transferred_episode_keys(memory') = transferred_episode_keys(memory)
      /\ reached_target(memory', {}) = reached_target(memory, {})
      /\ memory'.seasons = memory.seasons
  BY <1>3, AlikeKeys DEF Alike
<1>5. MemoryTypes' /\ MoveTrue'
  BY <1>1, <1>3, IdleTypes DEF SeasonInv, MemoryTypes, MoveTrue
<1>6. DriveTrue'
  <2>1. moving'.pc # "mark" /\ moving.pc # "mark"
    BY <1>1, IdleTypes
  <2> QED
    BY <1>1, <1>4, <2>1 DEF SeasonInv, DriveTrue
<1>7. CheckTrue'
  BY <1>1, <1>3, <1>4 DEF SeasonInv, CheckTrue, Evidence, KeysOf
<1>8. KnownTrue'
  BY <1>1, <1>4 DEF SeasonInv, KnownTrue
<1>9. ASSUME memory'.completed, memory'.total > 0 PROVE reached_target(memory', {})
  <2>1. memory.total > 0
    BY <1>3, <1>9
  <2>2. c
    BY <1>3, <1>9, Zenon
  <2>3. CASE memory.completed
    BY <1>4, <2>1, <2>3, Zenon DEF SeasonInv, DoneTrue
  <2>4. CASE reached_by_files(memory)
    BY <1>4, <2>4, FilesReach, Zenon
  <2> QED
    BY <2>2, <2>3, <2>4, Zenon
<1>10. DoneTrue'
  BY <1>9 DEF DoneTrue
<1> QED
  BY <1>5, <1>6, <1>7, <1>8, <1>10 DEF SeasonInv

\* Nothing runs: a new record that remembers the same keeps everything true.
LEMMA EditKeeps ==
  ASSUME SeasonInv, Quiet, memory' \in Memory,
         known_episode_keys(memory') = known_episode_keys(memory),
         transferred_episode_keys(memory') = transferred_episode_keys(memory), DoneTrue',
         UNCHANGED <<content, checking, waiting, moving, drive, found>>
  PROVE  SeasonInv'
<1>1. checking.pc = "idle" /\ moving.pc = "idle"
  BY DEF Quiet
<1>2. MemoryTypes' /\ CheckTrue' /\ MoveTrue'
  BY <1>1 DEF SeasonInv, MemoryTypes, CheckTrue, MoveTrue
<1>3. DriveTrue' /\ KnownTrue'
  BY <1>1 DEF SeasonInv, DriveTrue, KnownTrue
<1> QED
  BY <1>2, <1>3 DEF SeasonInv

\* The user changes the seasons.
LEMMA SetSeasonsKeeps ==
  ASSUME SeasonInv, ~Busy, NEW S \in SeasonChoices, NEW total \in Totals_, SetSeasons(S, total)
  PROVE  SeasonInv'
<1> DEFINE t == Reseasoned(memory, S, total)
<1>1. /\ Quiet /\ memory \in Memory /\ memory' = reconcile(t)
      /\ UNCHANGED <<content, checking, waiting, moving, drive, found>>
  BY DEF SetSeasons, SeasonInv, MemoryTypes
<1>2. S \in (SUBSET AllSeasons) \ {{}} /\ total \in 0..MaxEpisode
  BY SeasonAssumption
<1>3. /\ t \in Memory /\ transferred_episode_keys(t) = transferred_episode_keys(memory)
      /\ known_episode_keys(t) = known_episode_keys(memory)
  BY <1>1, <1>2, Rebased
<1> HIDE DEF t
<1>4. /\ memory' \in Memory /\ Alike(t, memory') /\ memory'.total = t.total
      /\ memory'.completed /\ t.total > 0 => reached_target(memory', {})
  BY <1>1, <1>3, ReconciledAlike
<1>5. /\ known_episode_keys(memory') = known_episode_keys(memory)
      /\ transferred_episode_keys(memory') = transferred_episode_keys(memory)
  BY <1>3, <1>4, AlikeKeys
<1>6. DoneTrue'
  BY <1>4 DEF DoneTrue
<1> QED
  BY <1>1, <1>4, <1>5, <1>6, EditKeeps

\* The user changes the first and the last episode.
LEMMA SetRulesKeeps ==
  ASSUME SeasonInv, ~Busy, NEW start \in Starts, NEW total \in Totals_, SetRules(start, total)
  PROVE  SeasonInv'
<1> DEFINE t == [memory EXCEPT !.start = start, !.total = total]
<1>1. /\ Quiet /\ memory \in Memory /\ memory' = reconcile(t)
      /\ UNCHANGED <<content, checking, waiting, moving, drive, found>>
  BY DEF SetRules, SeasonInv, MemoryTypes
<1>2. start \in 0..MaxEpisode /\ total \in 0..MaxEpisode
  BY SeasonAssumption
<1>3. t \in Memory /\ Alike(memory, t)
  BY <1>1, <1>2 DEF Memory, Alike
<1> HIDE DEF t
<1>4. /\ memory' \in Memory /\ Alike(t, memory') /\ memory'.total = t.total
      /\ memory'.completed /\ t.total > 0 => reached_target(memory', {})
  BY <1>1, <1>3, ReconciledAlike
<1>5. /\ known_episode_keys(memory') = known_episode_keys(memory)
      /\ transferred_episode_keys(memory') = transferred_episode_keys(memory)
  BY <1>3, <1>4, AlikeKeys
<1>6. DoneTrue'
  BY <1>4 DEF DoneTrue
<1> QED
  BY <1>1, <1>4, <1>5, <1>6, EditKeeps

\* Every step keeps the invariant.
LEMMA SeasonsStep ==
  ASSUME SeasonInv, ~Busy, SeasonNext
  PROVE  SeasonInv'
BY ShareKeeps, StartCheckKeeps, EndCheckKeeps, QueueKeeps, StartTransferKeeps, CopyKeeps,
   MarkFilesKeeps, FinishKeeps, SetSeasonsKeeps, SetRulesKeeps
   DEF SeasonNext, CheckStep_, TransferStep_

\* Nothing runs at first.
LEMMA SeasonsStart ==
  ASSUME memory \in Records, content \in SUBSET Videos, NoneRunning
  PROVE  SeasonInv
<1>1. /\ memory \in Memory /\ checking = Idle_ /\ moving = Idle_ /\ waiting = {}
      /\ drive = transferred_episode_keys(memory)
      /\ found = known_episode_keys(memory) \cup transferred_episode_keys(memory)
  BY SeasonAssumption DEF NoneRunning
<1>2. MemoryTypes /\ CheckTrue /\ MoveTrue
  BY <1>1, IdleTypes DEF MemoryTypes, CheckTrue, MoveTrue
<1>3. DriveTrue /\ KnownTrue
  BY <1>1, IdleTypes DEF DriveTrue, KnownTrue
<1>4. DoneTrue
  BY SeasonAssumption DEF DoneTrue
<1> QED
  BY <1>2, <1>3, <1>4 DEF SeasonInv

----------------------------------------------------------------------------
(* What follows for the record and for what is shown of it. *)

\* The invariant says where every piece of evidence comes from.
LEMMA EvidenceHolds == SeasonInv => EvidenceTrue
<1> SUFFICES ASSUME SeasonInv PROVE EvidenceTrue
  OBVIOUS
<1>1. TransferredTrue
  BY DEF SeasonInv, DriveTrue, TransferredTrue
<1>2. known_episode_keys(memory) \subseteq found \cup drive
  BY DEF SeasonInv, KnownTrue
<1>3. ASSUME memory.completed, memory.total > 0, NEW n \in memory.seasons
      PROVE  <<n, memory.total>> \in found \cup drive
  <2>1. reached_target(memory, {})
    BY <1>3 DEF SeasonInv, DoneTrue
  <2>2. <<n, memory.total>> \in known_episode_keys(memory) \cup transferred_episode_keys(memory)
    BY <1>3, <2>1 DEF reached_target, ReachedIn
  <2> QED
    BY <1>1, <1>2, <2>2 DEF TransferredTrue
<1> QED
  BY <1>1, <1>2, <1>3 DEF EvidenceTrue, CompletedTrue

\* The projection of a record to one season shows what is transferred of it and
\* what is known of it, whatever the form in which it is remembered.
LEMMA DetailShows ==
  ASSUME NEW s \in Memory, NEW n \in s.seasons
  PROVE  LET detail == season_detail(s, n)
             done == EpisodesOf(transferred_episode_keys(s), n)
             known == EpisodesOf(known_episode_keys(s), n)
         IN /\ detail.transferred = done /\ detail.discovered = known \cup done
            /\ \A e \in detail.missing : e \in AllEpisodes \ (known \cup done)
<1> DEFINE d == season_start(s)
           view == subscription_for_season(s, n)
           got == transferred_episode_keys(s)
           done == EpisodesOf(got, n)
           known == EpisodesOf(known_episode_keys(s), n)
           refs == ProjectedRefs(s, n)
           keys == ProjectedKeys(s, n)
           detail == season_detail(s, n)
<1>1. /\ n \in AllSeasons /\ d \in AllSeasons /\ s.refs \subseteq Videos \X (0..MaxSeason)
      /\ got \subseteq AllSeasons \X AllEpisodes
      /\ known_episode_keys(s) \subseteq AllSeasons \X AllEpisodes
  BY StartSeason, KeyTypes DEF Memory
<1>2. /\ view.keys = keys /\ view.refs = refs
      /\ view.known = {e \in AllEpisodes : <<n, e>> \in known_episode_keys(s)}
  BY DEF subscription_for_season, Memory
<1>3. view.known = known
  <2>1. \A e : e \in known <=> \E q \in known_episode_keys(s) : q[1] = n /\ e = q[2]
    BY DEF EpisodesOf
  <2>2. \A q \in known_episode_keys(s) : q = <<q[1], q[2]>> /\ q[2] \in AllEpisodes
    BY <1>1
  <2> HIDE DEF known, view
  <2>3. \A e : e \in known <=> e \in AllEpisodes /\ <<n, e>> \in known_episode_keys(s)
    BY <2>1, <2>2
  <2> QED
    BY <1>2, <2>3
<1>4. EpisodesOf(parse_keys(keys, n), n) = done
  <2>1. \A e : e \in done <=> \E q \in got : q[1] = n /\ e = q[2]
    BY DEF EpisodesOf
  <2>2. \A e : e \in EpisodesOf(parse_keys(keys, n), n) <=>
          \E k \in parse_keys(keys, n) : k[1] = n /\ e = k[2]
    BY DEF EpisodesOf
  <2>3. \A k : k \in keys <=> \E q \in got : q[1] = n /\ k = <<0, q[2]>>
    BY DEF ProjectedKeys
  <2> HIDE DEF keys, got, done
  <2>4. \A k : k \in parse_keys(keys, n) <=> \E q \in got : q[1] = n /\ k = <<n, q[2]>>
    <3>1. ASSUME NEW k PROVE k \in parse_keys(keys, n) <=> \E p \in keys : k = <<OfSeason(p[1], n), p[2]>>
      BY InParsed
    <3>2. \A p \in keys : OfSeason(p[1], n) = n
      BY <2>3 DEF OfSeason
    <3>3. ASSUME NEW k \in parse_keys(keys, n) PROVE \E q \in got : q[1] = n /\ k = <<n, q[2]>>
      <4>1. PICK p \in keys : k = <<OfSeason(p[1], n), p[2]>>
        BY <3>1
      <4>2. PICK q \in got : q[1] = n /\ p = <<0, q[2]>>
        BY <2>3
      <4> QED
        BY <3>2, <4>1, <4>2
    <3>4. ASSUME NEW q \in got, q[1] = n PROVE <<n, q[2]>> \in parse_keys(keys, n)
      <4>1. PICK p \in keys : p = <<0, q[2]>>
        BY <2>3, <3>4
      <4>2. <<OfSeason(p[1], n), p[2]>> = <<n, q[2]>>
        BY <3>2, <4>1
      <4> QED
        BY <3>1, <4>2
    <3> QED
      BY <3>3, <3>4
  <2>5. ASSUME NEW e PROVE e \in EpisodesOf(parse_keys(keys, n), n) <=> e \in done
    <3>1. ASSUME NEW k \in parse_keys(keys, n), k[1] = n, e = k[2] PROVE e \in done
      <4>1. PICK q \in got : q[1] = n /\ k = <<n, q[2]>>
        BY <2>4, <3>1
      <4> QED
        BY <2>1, <3>1, <4>1
    <3>2. ASSUME NEW q \in got, q[1] = n, e = q[2] PROVE e \in EpisodesOf(parse_keys(keys, n), n)
      <4>1. <<n, e>> \in parse_keys(keys, n)
        BY <2>4, <3>2
      <4> QED
        BY <2>2, <4>1
    <3> QED
      BY <2>1, <2>2, <3>1, <3>2
  <2> QED
    BY <2>5
<1>5. RefKeys(refs, n) \subseteq got
  <2> SUFFICES ASSUME NEW k \in RefKeys(refs, n) PROVE k \in got
    OBVIOUS
  <2>1. PICK p \in refs : p[1] \notin extras /\ k = <<season_of(p[1], OfSeason(p[2], n)), first[p[1]]>>
    BY InRefKeys
  <2>2. PICK r \in s.refs : p = <<r[1], season_of(r[1], OfSeason(r[2], d))>>
    BY DEF ProjectedRefs
  <2>3. r[1] \in Videos /\ r[2] \in 0..MaxSeason
    BY <1>1
  <2>4. OfSeason(r[2], d) \in AllSeasons
    BY <1>1, <2>3, SeasonOfRef
  <2>5. season_of(r[1], OfSeason(r[2], d)) \in AllSeasons
    BY <2>3, <2>4, SeasonOfFile
  <2>6. season_of(r[1], OfSeason(p[2], n)) = season_of(r[1], OfSeason(r[2], d))
    BY <2>2, <2>3, <2>4, <2>5, SeasonOfFile, NamedSeason
  <2>7. r[1] \notin extras /\ k = <<season_of(r[1], OfSeason(r[2], d)), first[r[1]]>>
    BY <2>1, <2>2, <2>6
  <2>8. k \in RefKeys(s.refs, d)
    BY <2>7, InRefKeys
  <2> QED
    BY <2>8 DEF transferred_episode_keys
<1>6. EpisodesOf(parse_keys(keys, n) \cup RefKeys(refs, n), n) = done
  <2>1. EpisodesOf(RefKeys(refs, n), n) \subseteq done
    BY <1>5 DEF EpisodesOf
  <2>2. EpisodesOf(parse_keys(keys, n) \cup RefKeys(refs, n), n)
          = EpisodesOf(parse_keys(keys, n), n) \cup EpisodesOf(RefKeys(refs, n), n)
    BY DEF EpisodesOf
  <2> QED
    BY <1>4, <2>1, <2>2
<1> HIDE DEF view, refs, keys, got, done, known
<1>7. detail = [transferred |-> done, discovered |-> done \cup known,
                missing |-> {e \in AllEpisodes : view.start <= e /\ e <= view.total} \ (done \cup known)]
  BY <1>2, <1>3, <1>6 DEF season_detail, view
<1> QED
  BY <1>7 DEF done, known, got

\* A deserved completion has the last episode of every season shown as found.
LEMMA PageHolds == SeasonInv => PageAgrees
<1> SUFFICES ASSUME SeasonInv, NEW n \in memory.seasons
             PROVE  LET detail == season_detail(memory, n)
                        done == EpisodesOf(transferred_episode_keys(memory), n)
                        known == EpisodesOf(known_episode_keys(memory), n) IN
                      /\ detail.transferred = done /\ detail.discovered = known \cup done
                      /\ memory.completed => memory.total \notin detail.missing
                      /\ \A e \in AllEpisodes : CalendarStatus(memory, detail, e, "past") = "ready" =>
                           <<n, e>> \in drive
  BY DEF PageAgrees
<1> DEFINE detail == season_detail(memory, n)
           got == transferred_episode_keys(memory)
           known == known_episode_keys(memory)
<1>1. /\ memory \in Memory /\ got \subseteq drive
      /\ memory.total \in 0..MaxEpisode
  BY DEF SeasonInv, MemoryTypes, DriveTrue, Memory
<1>2. /\ detail.transferred = EpisodesOf(got, n)
      /\ detail.discovered = EpisodesOf(known, n) \cup EpisodesOf(got, n)
      /\ \A e \in detail.missing : e \in AllEpisodes \ (EpisodesOf(known, n) \cup EpisodesOf(got, n))
  BY <1>1, DetailShows
<1> HIDE DEF detail
<1>3. \A k \in got : k = <<k[1], k[2]>>
  BY <1>1, KeyTypes
<1>4. ASSUME memory.completed PROVE memory.total \notin detail.missing
  <2>1. CASE memory.total = 0
    BY <1>2, <2>1 DEF AllEpisodes
  <2>2. CASE memory.total # 0
    <3>1. memory.total > 0
      BY <1>1, <2>2
    <3>2. reached_target(memory, {})
      BY <1>4, <3>1 DEF SeasonInv, DoneTrue
    <3>3. <<n, memory.total>> \in known \cup got
      BY <3>2 DEF reached_target, ReachedIn
    <3>4. memory.total \in EpisodesOf(known, n) \cup EpisodesOf(got, n)
      BY <3>3 DEF EpisodesOf
    <3> QED
      BY <1>2, <3>4
  <2> QED
    BY <2>1, <2>2
<1>5. ASSUME NEW e \in AllEpisodes, CalendarStatus(memory, detail, e, "past") = "ready"
      PROVE  <<n, e>> \in drive
  <2>1. e \in detail.discovered /\ e \notin detail.discovered \ detail.transferred
    BY <1>5 DEF CalendarStatus
  <2>2. e \in EpisodesOf(got, n)
    BY <1>2, <2>1
  <2>3. PICK k \in got : k[1] = n /\ k[2] = e
    BY <2>2 DEF EpisodesOf
  <2> QED
    BY <1>1, <1>3, <2>3
<1> QED
  BY <1>2, <1>4, <1>5 DEF detail

\* What a transfer copies when it copies.
CopyStep == moving.pc = "copy" /\ moving'.pc = "mark" =>
  /\ \A f \in moving.files : state_keys(f, season_start(moving.then)) \cap drive = {}
  /\ \A f, g \in moving.files : f # g =>
       state_keys(f, season_start(moving.then)) \cap state_keys(g, season_start(moving.then)) = {}

\* While files are copied the drive has what counts as transferred, and nothing else.
LEMMA CopyHolds == SeasonInv => CopyStep
<1> SUFFICES ASSUME SeasonInv, moving.pc = "copy" PROVE CopyStep
  BY DEF CopyStep
<1>1. season_start(moving.then) = season_start(memory)
  BY DEF SeasonInv, MoveTrue, season_start
<1>2. drive = transferred_episode_keys(memory)
  BY DEF SeasonInv, DriveTrue
<1> QED
  BY <1>1, <1>2 DEF SeasonInv, MoveTrue, CopyStep

\* The seasons' invariant, when no edit comes between the snapshot of a check or
\* a transfer and its write: on the side of the sources nothing of it moves.
LEMMA SeasonsHold ==
  ASSUME ~Busy
  PROVE  SubscriptionsSpec => []SeasonInv /\ [][CopyStep]_pvars
<1>1. SubscriptionsInit => SeasonInv
  <2>1. (CHOOSE s \in Records : TRUE) \in Records
    BY SeasonAssumption
  <2>2. \A c \in Shares : c \in SUBSET Videos
    BY SeasonAssumption
  <2> QED
    BY <2>1, <2>2, SeasonsStart DEF SubscriptionsInit, SeasonInit
<1>2. ASSUME SeasonInv, UNCHANGED pvars PROVE SeasonInv'
  <2>1. UNCHANGED <<memory, content, checking, waiting, moving, drive, found>>
    BY <1>2 DEF pvars
  <2>2. Copied' = Copied
    BY <2>1 DEF Copied
  <2> QED
    BY <1>2, <2>1, <2>2 DEF SeasonInv, MemoryTypes, CheckTrue, MoveTrue, DriveTrue, KnownTrue, DoneTrue
<1>3. SeasonInv /\ [SubscriptionsNext]_subscription_vars => SeasonInv' /\ CopyStep
  BY <1>2, SeasonsStep, CopyHolds DEF SubscriptionsNext, Sources, Seasons, subscription_vars
<1> QED
  BY <1>1, <1>3, PTL DEF SubscriptionsSpec

\* What counts as transferred is in the drive and what counts as known was found,
\* of that episode of that season, through every legal change of the seasons
\* (rebase_season_progress, mark_files_as_transferred, update_subscription_after_check).
THEOREM EvidenceStays ==
  ASSUME ~Busy
  PROVE  SubscriptionsSpec => []EvidenceTrue
BY SeasonsHold, EvidenceHolds, PTL

\* The detail page and the calendar say of a season what checks and transfers take
\* for it (build_season_detail, subscription_for_season, build_item).
THEOREM PagesAgree ==
  ASSUME ~Busy
  PROVE  SubscriptionsSpec => []PageAgrees
BY SeasonsHold, PageHolds, PTL

\* No transfer copies an episode the drive has, and none copies one twice
\* (filter_already_transferred_files, dedup_provider_episode_files).
THEOREM EpisodesCopiedOnce ==
  ASSUME ~Busy
  PROVE  SubscriptionsSpec => CopiedOnce
BY SeasonsHold, PTL DEF CopiedOnce, CopyStep
=============================================================================
