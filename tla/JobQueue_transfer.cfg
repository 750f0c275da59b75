\* A transfer and the push it queues: crash, shutdown beyond its grace period,
\* a failing disk.
CONSTANTS
  t = t
  m = m
  p = p
  Keys = {t, p}
  KindOf <- TransferAndPush
  Priorities = {}
  MaxJobs = 2
  MaxStored = 2
  Retain = 1
  ArchiveBatch = 1
  Capacity = 1
  MaxAttempts = 1
  MaxCrashes = 1
  MaxFaults = 1
  GraceExpires = TRUE
SPECIFICATION Spec
INVARIANT UniqueActiveTransfer
INVARIANT OncePerAttempt
PROPERTY FinishedTransferStays
PROPERTY PushNotReplayed
