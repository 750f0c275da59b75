\* Metadata scrapes: lost signals, backoff, cancellation, clearing, retry, shutdown and restart.
CONSTANTS
  t = t
  m = m
  p = p
  Keys = {m}
  KindOf <- OneScrape
  Priorities = {"high"}
  MaxJobs = 1
  MaxStored = 1
  Retain = 1
  ArchiveBatch = 1
  Capacity = 1
  MaxAttempts = 2
  MaxCrashes = 1
  MaxFaults = 0
  GraceExpires = TRUE
SPECIFICATION FairSpec
INVARIANT QueuedHasNoTask
PROPERTY SuccessStays QueuedIsServed RunningSettles
