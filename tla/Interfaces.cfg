\* Messages: two edits, one restart, one write or submission that fails.  Commands: three
\* updates, two at a time, one accident.  Timeline: two jobs, one retry by hand,
\* a summary over the two newest events.
CONSTANTS
  Items <- MCItems
  levelOf <- MCLevelOf
  textOf <- MCTextOf
  Channels = {"telegram"}
  MinLevel = "info"
  QuietAllowsError = TRUE
  Dedup = TRUE
  MaxAttempts = 1
  MaxEdits = 2
  MaxCrashes = 1
  MaxRefusals = 1
  Users = {alice, bob}
  alice = alice
  bob = bob
  x = x
  y = y
  Requests <- MCRequests
  Hits = {x, y}
  Keep = 1
  MaxUpdates = 3
  MAX_CONCURRENT_UPDATES = 2
  MaxRare = 1
  NoticeCapacity = 2
  MaxEvents = 7
  SummaryLimit = 2
  MaxAutoAttempts = 2
  MaxChain = 2
  MaxRetries = 1
  MaxClock = 2
  MaxAccidents = 1
  r1 = r1
  Retries = {r1}
  Tabs = {t1}
  t1 = t1
  Browsers = {b1}
  b1 = b1
  MaxSubs = 1
  OverlapTime = 1
  MaxTime = 2
  MaxMade = 4
  MaxFaults = 1
SPECIFICATION InterfacesSpec
SYMMETRY Symmetric
INVARIANT DigestKept ConfirmationsHold TimelineTrue SettingsHold
CHECK_DEADLOCK FALSE
