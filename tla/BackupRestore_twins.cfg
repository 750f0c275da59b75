\* A second process is started after a restore.
CONSTANTS
  lock = lock
  jobs = jobs
  subs = subs
  p = p
  q = q
  Procs = {p, q}
  Stores = {jobs, subs}
  LockFile = lock
  Order <- PathOrder
  Uploads <- Foreign
  Retention = 1
  Budget = 2
  MaxWrites = 0
  MaxOps = 1
  MaxFaults = 0
  MaxStops = 1
SPECIFICATION BackupSpec
INVARIANT SingleInstance
CHECK_DEADLOCK FALSE
