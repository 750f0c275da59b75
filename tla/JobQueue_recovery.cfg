\* A restart from any job file, with room for one signal, itself crashing.
CONSTANTS
  t = t
  m = m
  p = p
  Keys = {t, m, p}
  KindOf <- OneOfEach
  Priorities = {}
  MaxJobs = 4
  MaxStored = 4
  Retain = 1
  ArchiveBatch = 1
  Capacity = 1
  MaxAttempts = 2
  MaxCrashes = 1
  MaxFaults = 0
  GraceExpires = FALSE
SPECIFICATION RecoverySpec
INVARIANT RecoveryKeepsOne
PROPERTY RecoverySettles
CHECK_DEADLOCK FALSE
