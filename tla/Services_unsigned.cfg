\* The client has no signature key: the checksum is all that is verified, as the
\* documentation says of this case.  The rest as in Services.cfg.
CONSTANTS
  lock = lock
  jobsFile = jobsFile
  subsFile = subsFile
  p = p
  update1 = update1
  update2 = update2
  h1 = h1
  h2 = h2
  Procs = {p}
  Stores = {jobsFile, subsFile}
  LockFile = lock
  Order <- PathOrder
  Uploads <- Foreign
  Retention = 1
  Budget = 2
  MaxWrites = 2
  MaxOps = 2
  MaxFaults = 1
  MaxStops = 2
  Calls = {update1, update2}
  Versions = {"1", "2", "3"}
  Installed = "1"
  Docker = TRUE
  Signing = FALSE
  MaxTrouble = 2
  MaxRequests = 2
  Intervals = {10, 20}
  Hours = 3
  Handlers = {h1}
  Concurrent = FALSE
  MaxCron = 2
  Releases = {2, 3}
  Schemas = {0, 1, 2, 3}
  MaxChanges = 2
  MaxDamage = 2
  Limit <- OneEach
  MaxLog = 2
  MaxNew = 1
  Events <- Ages
SPECIFICATION ServicesSpec

PROPERTY ChecksumSuffices
CHECK_DEADLOCK FALSE
