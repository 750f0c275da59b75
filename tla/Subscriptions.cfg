\* One subscription with two sources, and its progress over two seasons of two
\* episodes in files of several versions.
SPECIFICATION SubscriptionsSpec
CONSTANTS
  NoUrl = NoUrl
  Urls = {u1, u2}
  Last = 2
  Totals = {2}
  FailureCap = 1
  Threshold_ = 1
  AutoApply = TRUE
  MaxEdits = 1
  MaxTurns = 1
  v1 = v1
  v2 = v2
  pack = pack
  s2 = s2
  t2 = t2
  sp = sp
  Videos <- All
  hint <- hint_
  first <- first_
  last <- last_
  rank <- rank_
  extras <- extras_
  marked <- All
  OnlyLatest = FALSE
  Records <- Kept
  Starts = {0, 2}
  Totals_ = {0, 2}
  SeasonChoices = {{1}, {2}, {1, 2}}
  Shares <- Shares_
  MaxChanges = 2
  Busy = FALSE
INVARIANT EvidenceTrue PageAgrees
PROPERTY MergeKeeps EpisodeServed CopiedOnce SeasonServed
CHECK_DEADLOCK FALSE
