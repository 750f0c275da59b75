---------------------------- MODULE SeasonProgress ----------------------------
(***************************************************************************)
(* The life of a subscription of several seasons: files come and go in the  *)
(* share, checks work on a snapshot of the record and queue transfers, a    *)
(* transfer works on a snapshot of its own, the user changes the seasons    *)
(* and the rules.  What is remembered must stay true of the same episodes.  *)
(***************************************************************************)
EXTENDS EpisodeRules

CONSTANTS
  Records,        \* the records a subscription may start with
  Shares,         \* what the share may hold at first
  Starts, Totals_, SeasonChoices,   \* what the user may set
  MaxChanges,     \* bound: changes of the share and of the record
  Busy            \* whether the user may change the record during a check or transfer

\* A record to start with is complete only if it has the evidence: a completion
\* the user sets by hand is in SubscriptionCheck.
ASSUME SeasonAssumption ==
  /\ Records \subseteq Memory /\ Records # {} /\ Shares \subseteq SUBSET Videos
  /\ Starts \subseteq 0..MaxEpisode /\ Totals_ \subseteq 0..MaxEpisode
  /\ SeasonChoices \subseteq (SUBSET AllSeasons) \ {{}} /\ MaxChanges \in Nat /\ Busy \in BOOLEAN
  /\ \A s \in Records : s.completed /\ s.total > 0 => reached_target(s, {})

VARIABLES
  memory,     \* the stored record
  content,    \* the files in the share
  checking,   \* the running check: its snapshot of the record and of the share
  waiting,    \* the queued transfers: the names each was given
  moving,     \* the running transfer: its snapshot, its files
  changes,
  drive,      \* history: the episodes copied into the drive, with their season
  found       \* history: the episodes checks have come upon

pvars == <<memory, content, checking, waiting, moving, changes, drive, found>>

Idle_ == [pc |-> "idle", then |-> [seasons |-> {1}], files |-> {}]
AllKeys == AllSeasons \X AllEpisodes

\* What every variable may hold.
SeasonTypeOK ==
  /\ memory \in Memory /\ content \subseteq Videos /\ waiting \subseteq SUBSET Videos
  /\ checking.pc \in {"idle", "probed", "reconcile"} /\ checking.files \subseteq Videos
  /\ moving.pc \in {"idle", "copy", "mark", "finish"} /\ moving.files \subseteq Videos
  /\ changes \in 0..MaxChanges /\ drive \subseteq AllKeys /\ found \subseteq AllKeys

NoneRunning ==
  /\ checking = Idle_ /\ waiting = {} /\ moving = Idle_ /\ changes = 0
  /\ drive = transferred_episode_keys(memory)
  /\ found = known_episode_keys(memory) \cup transferred_episode_keys(memory)
SeasonInit == memory \in Records /\ content \in Shares /\ NoneRunning

Change == changes < MaxChanges /\ changes' = changes + 1

\* The owner of the share adds a file, or takes one out.
Upload(f) ==
  /\ f \notin content /\ content' = content \cup {f} /\ Change
  /\ UNCHANGED <<memory, checking, waiting, moving, drive, found>>
Withdraw(f) ==
  /\ f \in content /\ content' = content \ {f} /\ Change
  /\ UNCHANGED <<memory, checking, waiting, moving, drive, found>>

----------------------------------------------------------------------------
\* check_subscription reads the record, reopens what is not complete, refuses
\* what is, and probes the share.
StartCheck ==
  /\ checking.pc = "idle"
  /\ LET s == [memory EXCEPT !.completed = @ /\ (memory.total = 0 \/ reached_target(memory, {}))] IN
       /\ ~s.completed /\ memory' = s
       /\ checking' = [pc |-> "probed", then |-> s, files |-> content]
       /\ found' = found \cup UNION {state_keys(f, season_start(s)) : f \in content}
  /\ UNCHANGED <<content, waiting, moving, changes, drive>>

\* Everything is decided with the snapshot, and merged into the record of now.
EndCheck ==
  /\ checking.pc = "probed"
  /\ LET s == checking.then
         new == new_files(s, checking.files)
         candidates == candidate_files(s, checking.files)
         numbers == {first[f] : f \in {g \in new \ extras :
                       season_of(g, season_start(s)) = season_start(s)}}
         completed == IF candidates = {} THEN reached_target(s, numbers) ELSE reached_by_files(s) IN
       /\ memory' = record_check(memory, s, checking.files, new, completed)
       /\ checking' = [checking EXCEPT !.pc = "reconcile", !.files = candidates]
  /\ UNCHANGED <<content, waiting, moving, changes, drive, found>>

\* reconcile_completion, then submit_subscription_transfer; a waiting job with
\* the same files is the same job.
QueueTransfer ==
  /\ checking.pc = "reconcile" /\ memory' = reconcile(memory) /\ checking' = Idle_
  /\ waiting' = IF checking.files = {} THEN waiting ELSE waiting \cup {checking.files}
  /\ UNCHANGED <<content, moving, changes, drive, found>>

\* The job selects among what the share holds by now.
StartTransfer(names) ==
  /\ moving.pc = "idle" /\ names \in waiting /\ waiting' = waiting \ {names}
  /\ LET chosen == files_to_transfer(memory, names, content) IN
       moving' = IF chosen = {} THEN Idle_ ELSE [pc |-> "copy", then |-> memory, files |-> chosen]
  /\ UNCHANGED <<memory, content, checking, changes, drive, found>>

Copied == UNION {{season_of(f, season_start(moving.then))} \X Range_(f) : f \in moving.files \ extras}
Copy ==
  /\ moving.pc = "copy" /\ drive' = drive \cup Copied
  /\ moving' = [moving EXCEPT !.pc = "mark"]
  /\ UNCHANGED <<memory, content, checking, waiting, changes, found>>
Mark ==
  /\ moving.pc = "mark" /\ memory' = mark_transferred(memory, moving.then, moving.files)
  /\ moving' = [moving EXCEPT !.pc = "finish"]
  /\ UNCHANGED <<content, checking, waiting, changes, drive, found>>
\* complete_if_transferred_target_reached.
FinishTransfer ==
  /\ moving.pc = "finish" /\ moving' = Idle_
  /\ memory' = [memory EXCEPT !.completed = @ \/ reached_by_files(memory)]
  /\ UNCHANGED <<content, checking, waiting, changes, drive, found>>

----------------------------------------------------------------------------
\* update_subscription: the seasons, the first and the last episode.  With new
\* seasons the old total and the completion are void.
Quiet == checking.pc = "idle" /\ waiting = {} /\ moving.pc = "idle"
Reseasoned(s, S, total) ==
  [rebase_season_progress([s EXCEPT !.seasons = S], season_start(s)) EXCEPT
     !.total = total, !.completed = FALSE]
SetSeasons(S, total) ==
  /\ S # memory.seasons /\ (Busy \/ Quiet) /\ Change
  /\ memory' = reconcile(Reseasoned(memory, S, total))
  /\ UNCHANGED <<content, checking, waiting, moving, drive, found>>
SetRules(start, total) ==
  /\ (Busy \/ Quiet) /\ Change
  /\ memory' = reconcile([memory EXCEPT !.start = start, !.total = total])
  /\ memory' # memory
  /\ UNCHANGED <<content, checking, waiting, moving, drive, found>>

CheckStep_ == StartCheck \/ EndCheck \/ QueueTransfer
TransferStep_ ==
  (\E names \in waiting : StartTransfer(names)) \/ Copy \/ Mark \/ FinishTransfer
SeasonNext ==
  \/ CheckStep_ \/ TransferStep_
  \/ \E f \in Videos : Upload(f) \/ Withdraw(f)
  \/ \E S \in SeasonChoices, total \in Totals_ : SetSeasons(S, total)
  \/ \E start \in Starts, total \in Totals_ : SetRules(start, total)

SeasonSpec == SeasonInit /\ [][SeasonNext]_pvars /\ WF_pvars(CheckStep_) /\ WF_pvars(TransferStep_)

----------------------------------------------------------------------------
\* What counts as transferred is in the drive: of that episode, of that season.
TransferredTrue == transferred_episode_keys(memory) \subseteq drive

\* A file is not copied when the drive has its episode, in whatever file it came:
\* another version, a collection split up later, before or after an edit.
CopiedOnce == [][moving.pc = "copy" /\ moving'.pc = "mark" =>
  /\ \A f \in moving.files : state_keys(f, season_start(moving.then)) \cap drive = {}
  /\ \A f, g \in moving.files : f # g =>
       state_keys(f, season_start(moving.then)) \cap state_keys(g, season_start(moving.then)) = {}]_pvars

\* A completed subscription has come upon the last episode of all its seasons;
\* one whose total was cleared since keeps its completion.
CompletedTrue == memory.completed /\ memory.total > 0 =>
  \A n \in memory.seasons : <<n, memory.total>> \in found \cup drive

\* What counts as transferred is in the drive, and what counts as found was
\* found: of that episode, of that season, through every change of the seasons
\* (rebase_season_progress, mark_files_as_transferred).
EvidenceTrue ==
  /\ TransferredTrue
  /\ known_episode_keys(memory) \subseteq found \cup drive
  /\ CompletedTrue

\* What the detail page and the calendar call transferred, and found, of a season
\* is what checks and transfers take for it.
PageAgrees == \A n \in memory.seasons :
  LET detail == season_detail(memory, n)
      done == EpisodesOf(transferred_episode_keys(memory), n)
      known == EpisodesOf(known_episode_keys(memory), n) IN
    /\ detail.transferred = done /\ detail.discovered = known \cup done
    /\ memory.completed => memory.total \notin detail.missing
    /\ \A e \in AllEpisodes : CalendarStatus(memory, detail, e, "past") = "ready" =>
         <<n, e>> \in drive

\* What the preview shows as transferred, a check and its transfer would take.
PreviewKept == build_transfer_plan(memory, content) \subseteq
  files_to_transfer(memory, candidate_files(memory, content), content)

\* The episode is in the share, of a season and of the numbers the user asked for.
Wanted(n, e) ==
  /\ n \in memory.seasons /\ (n = season_start(memory) => memory.start <= e)
  /\ (memory.total > 0 => e <= memory.total) /\ ~memory.completed
  /\ \E f \in content \ extras : first[f] = e /\ season_of(f, season_start(memory)) = n
\* Every episode that is wanted and stays so is copied: of later seasons too,
\* whatever the first episode to take, and after the seasons are changed.
SeasonServed == \A n \in AllSeasons, e \in AllEpisodes : []<>(Wanted(n, e) => <<n, e>> \in drive)
=============================================================================
