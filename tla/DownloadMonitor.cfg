\* Two seconds in which downloads are submitted, one failed write or restart,
\* retries, and a clearing; one push remembered, one result removed.
SPECIFICATION MonitorSpec
CONSTANTS
  Gids <- MCGids
  Files <- MCFiles
  fileOf <- MCFileOf
  Target = {"f1", "f2"}
  Scanners = {"monitor"}
  Window = FALSE
  MaxBatch = 2
  MaxFaults = 1
  MaxClears = 1
  MaxPushed = 1
  MaxGone = 1
INVARIANT ToldOnce NoticeFollowsRecord
PROPERTY BatchAnnounced TargetCompletes
CHECK_DEADLOCK FALSE
