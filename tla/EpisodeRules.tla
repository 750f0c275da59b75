----------------------------- MODULE EpisodeRules -----------------------------
(***************************************************************************)
(* Which episode of which season a file is, what the rules let through, and *)
(* what a subscription remembers of it (services/episode.rs, the filters of *)
(* the check, the selection of the transfer, the preview, the detail page). *)
(* A subscription covers several seasons; some files do not say theirs, and *)
(* records of old versions do not say it either.                            *)
(***************************************************************************)
EXTENDS Naturals, FiniteSets

CONSTANTS
  Videos,         \* the video files a share may hold
  hint,           \* hint[f]: the season its name or directory gives, or 0
  first, last,    \* the episodes it holds; the first one stands for the file
  extras,         \* the files marked SP, OVA or OAD: their number is no episode
  marked,         \* the files whose episode the built-in patterns recognise; in
                  \* the others only the episode_regex of the subscription does
  rank,           \* is_better_episode_duplicate_candidate: the higher the better
  OnlyLatest      \* the rule only_latest

MaxSeason == 2
MaxEpisode == 2
AllSeasons == 1..MaxSeason
AllEpisodes == 1..MaxEpisode

ASSUME RulesAssumption ==
  /\ IsFiniteSet(Videos) /\ extras \subseteq Videos /\ marked \subseteq Videos
  /\ hint \in [Videos -> 0..MaxSeason] /\ OnlyLatest \in BOOLEAN
  /\ first \in [Videos -> AllEpisodes] /\ last \in [Videos -> AllEpisodes]
  /\ \A f \in Videos : first[f] <= last[f]
  /\ rank \in [Videos -> Nat] /\ \A f, g \in Videos : rank[f] = rank[g] => f = g

\* What a record remembers.  refs: transferred_files, a file and the season it
\* was filed under (0 in an old record); keys: transferred_file_keys, scoped, or
\* of season 0 ("ep:1"); ids, seen, past: known_file_keys that name a file of
\* the share, known_files, known_file_keys that name an episode; known:
\* known_episodes, numbers of the first season.  start and total: 0 if not set.
Memory ==
  [seasons : (SUBSET AllSeasons) \ {{}}, start : 0..MaxEpisode, total : 0..MaxEpisode,
   refs : SUBSET (Videos \X (0..MaxSeason)), keys : SUBSET ((0..MaxSeason) \X AllEpisodes),
   ids : SUBSET Videos, seen : SUBSET (Videos \X AllSeasons),
   past : SUBSET (AllSeasons \X AllEpisodes), known : SUBSET AllEpisodes,
   completed : BOOLEAN]

Smallest(S) == CHOOSE n \in S : \A m \in S : n <= m
season_start(s) == Smallest(s.seasons)
is_multi_season(s) == Cardinality(s.seasons) > 1
Range_(f) == first[f]..last[f]

----------------------------------------------------------------------------
\* resolve_file_season, subscription_file_matches_season, episode_state_key:
\* none for an extra.
season_of(f, default) == IF hint[f] # 0 THEN hint[f] ELSE default
matches_season(s, f) == hint[f] # 0 => hint[f] \in s.seasons
state_keys(f, default) == IF f \in extras THEN {} ELSE {<<season_of(f, default), first[f]>>}

OfSeason(n, default) == IF n = 0 THEN default ELSE n
RefKeys(refs, default) == UNION {state_keys(r[1], OfSeason(r[2], default)) : r \in refs}
parse_keys(keys, default) == {<<OfSeason(k[1], default), k[2]>> : k \in keys}
transferred_episode_keys(s) ==
  parse_keys(s.keys, season_start(s)) \cup RefKeys(s.refs, season_start(s))
known_episode_keys(s) ==
  s.past \cup RefKeys(s.seen, season_start(s)) \cup ({season_start(s)} \X s.known)

\* One file for an episode, the best one; extras do not compete.
Best(s, files) ==
  {f \in files : \A g \in files :
     state_keys(f, season_start(s)) \cap state_keys(g, season_start(s)) # {} => rank[g] <= rank[f]}

\* transfer_rule_skip_reason finds nothing: the check reads the number with the
\* built-in patterns only.
RulesPass(s, f) == f \in marked /\ (s.total > 0 => first[f] <= s.total)
\* Mutation: the first episode to take holds for every season.
MutBeforeStart(s, f) == first[f] < s.start
is_before_start_episode(s, f) ==
  season_of(f, season_start(s)) = season_start(s) /\ first[f] < s.start
Eligible_(s, files) ==
  {f \in files : matches_season(s, f) /\ ~is_before_start_episode(s, f) /\ RulesPass(s, f)}
Has(s, f) == state_keys(f, season_start(s)) \cap transferred_episode_keys(s) # {}
\* An extra is remembered by its name and season.
HasExtra(s, f) == f \in extras /\ \E r \in s.refs :
  r[1] = f /\ season_of(f, OfSeason(r[2], season_start(s))) = season_of(f, season_start(s))

new_files(s, files) ==
  Best(s, {f \in Eligible_(s, files) : /\ ~Has(s, f) /\ f \notin s.ids
     /\ state_keys(f, season_start(s)) \cap ({season_start(s)} \X s.known) = {}})
candidate_files(s, files) == {f \in Eligible_(s, files) : ~Has(s, f) /\ ~HasExtra(s, f)}

\* The transfer job: the names it was given, or other files of the same episodes,
\* that the subscription covers; the best of each episode; none it has.
matches_name(s, names, f) == f \in names
  \/ state_keys(f, season_start(s)) \cap UNION {state_keys(n, season_start(s)) : n \in names} # {}
filter_transfer_candidates_by_targets(s, names, files) ==
  {f \in files : matches_season(s, f) /\ matches_name(s, names, f)}
filter_already_transferred_files(s, files) == {f \in files : ~Has(s, f) /\ ~HasExtra(s, f)}
dedup_provider_episode_files(s, files) == Best(s, files)
files_to_transfer(s, names, files) ==
  filter_already_transferred_files(s,
    dedup_provider_episode_files(s, filter_transfer_candidates_by_targets(s, names, files)))

\* build_transfer_plan, which the preview shows: the episode is read with the
\* episode_regex, the first episode to take holds for every season, and only
\* here is only_latest looked at.
\* Mutation: it shows the files of every season.
MutPlanPass(s, f) ==
  (s.total > 0 => first[f] <= s.total) /\ ~(first[f] < s.start) /\ ~Has(s, f) /\ ~HasExtra(s, f)
PlanPass(s, f) ==
  /\ matches_season(s, f) /\ (s.total > 0 => first[f] <= s.total) /\ ~(first[f] < s.start)
  /\ ~Has(s, f) /\ ~HasExtra(s, f)
apply_duplicate_episode_strategy(s, files) == Best(s, files)
build_transfer_plan(s, files) ==
  LET plan == apply_duplicate_episode_strategy(s, {f \in files : PlanPass(s, f)}) IN
    {f \in plan : OnlyLatest => \A g \in plan : first[g] <= first[f]}

----------------------------------------------------------------------------
\* mark_files_as_transferred: files of a season, by a job that started with t;
\* every episode a file holds gets a key, one of the first season of t two.
FiledKeys(t, f) ==
  LET n == season_of(f, season_start(t)) IN
    IF f \in extras THEN {}
    ELSE ({n} \X Range_(f)) \cup (IF n = season_start(t) THEN {0} \X Range_(f) ELSE {})
\* Mutation: a file that holds several episodes is recorded as its first one.
MutMarkTransferred(s, t, files) ==
  [s EXCEPT !.refs = @ \cup {<<f, season_of(f, season_start(t))>> : f \in files},
            !.keys = @ \cup UNION {state_keys(f, season_start(t)) : f \in files}]
mark_transferred(s, t, files) ==
  [s EXCEPT !.refs = @ \cup {<<f, season_of(f, season_start(t))>> : f \in files},
            !.keys = @ \cup UNION {FiledKeys(t, f) : f \in files}]

\* update_subscription_after_check: files are filed as the record of now says,
\* the new numbers of the first season are those of the record of then.
record_check(s, then, files, new, completed) ==
  LET filed == {f \in files : matches_season(s, f) /\ RulesPass(s, f)} \ s.ids
      numbers == {first[f] : f \in {g \in new \ extras :
                    season_of(g, season_start(then)) = season_start(then)}} IN
    [s EXCEPT !.ids = @ \cup filed,
       !.seen = @ \cup {<<f, season_of(f, season_start(s))>> : f \in filed},
       !.known = {e \in @ : s.total > 0 => e <= s.total} \cup numbers,
       !.completed = @ \/ completed]

\* rebase_season_progress: what has no season belongs to the old first one.
\* Mutation: the names are bound to it, the keys are not.
MutBoundKeys(keys, old) == keys
BoundKeys(keys, old) == parse_keys(keys, old)
rebase_season_progress(s, old) ==
  LET bound == [s EXCEPT !.keys = BoundKeys(@, old), !.known = {},
                  !.refs = {<<r[1], season_of(r[1], OfSeason(r[2], old))>> : r \in s.refs},
                  !.past = @ \cup ({old} \X s.known)] IN
    [bound EXCEPT !.known = {e \in AllEpisodes : <<season_start(s), e>> \in known_episode_keys(bound)}]

\* Completion: the last episode of every season.  Mutation: of the first one.
MutReachedIn(s, evidence) == s.total > 0 /\ <<season_start(s), s.total>> \in evidence
ReachedIn(s, evidence) == s.total > 0 /\ \A n \in s.seasons : <<n, s.total>> \in evidence
reached_target(s, more) ==
  ReachedIn(s, known_episode_keys(s) \cup transferred_episode_keys(s)
               \cup ({season_start(s)} \X more))
reached_by_files(s) == ReachedIn(s, RefKeys(s.refs, season_start(s)))
reconcile(s) ==
  [s EXCEPT !.completed = IF @ THEN s.total = 0 \/ reached_target(s, {}) ELSE reached_by_files(s)]

----------------------------------------------------------------------------
\* subscription_for_season: the record as the detail page and the calendar show
\* one season of it.
ProjectedRefs(s, n) ==
  {<<r[1], season_of(r[1], OfSeason(r[2], season_start(s)))>> :
     r \in {q \in s.refs : RefKeys({q}, season_start(s)) \cap ({n} \X AllEpisodes) # {}}}
\* Mutation: a key without a season is shown in every season.
MutProjectedKeys(s, n) == {<<0, k[2]>> : k \in {q \in s.keys : q[1] \in {0, n}}}
ProjectedKeys(s, n) == {<<0, k[2]>> : k \in {q \in transferred_episode_keys(s) : q[1] = n}}
subscription_for_season(s, n) ==
  [s EXCEPT !.seasons = {n}, !.refs = ProjectedRefs(s, n),
     !.start = IF n = season_start(s) THEN @ ELSE 0,
     !.total = IF is_multi_season(s) THEN 0 ELSE @,
     !.keys = ProjectedKeys(s, n),
     !.seen = {r \in @ : season_of(r[1], r[2]) = n},
     !.known = {e \in AllEpisodes : <<n, e>> \in known_episode_keys(s)}]

\* build_season_detail: the episodes transferred, found, missing up to the last
\* one; what the last probe and the history of notifications add is left out.
EpisodesOf(pairs, n) == {k[2] : k \in {q \in pairs : q[1] = n}}
season_detail(s, n) ==
  LET view == subscription_for_season(s, n)
      done == EpisodesOf(parse_keys(view.keys, n) \cup RefKeys(view.refs, n), n) IN
    [transferred |-> done, discovered |-> done \cup view.known,
     missing |-> {e \in AllEpisodes : view.start <= e /\ e <= view.total}
                   \ (done \cup view.known)]

\* build_item of the calendar: what it says of an episode that was to be aired
\* on the day given, for a subscription that only transfers.
CalendarStatus(s, detail, e, day) ==
  IF s.completed /\ day # "later" /\ e \notin detail.discovered THEN "completed_missing"
  ELSE IF e \in detail.discovered \ detail.transferred THEN "pending_transfer"
  ELSE IF day = "past" /\ e \notin detail.discovered THEN "aired_undiscovered"
  ELSE IF e \in detail.discovered THEN "ready" ELSE "scheduled"
=============================================================================
