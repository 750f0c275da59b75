\* Limits lowered and raised while jobs run, exclusion, maintenance; three jobs
\* of two groups pushed and popped in every order; every kind of call of the
\* store by two callers on two records of two attempts, a failed write and a crash
\* anywhere.
CONSTANTS
  none = none
  a = a
  b = b
  manual = manual
  ta = ta
  ma = ma
  tb = tb
  all = all
  hi = hi
  pa = pa
  pb = pb
  Jobs = {ta, ma, all, hi}
  Keys = {a, none, manual}
  fairness_key <- Group1
  class <- ClassOf
  subscription <- SubOf
  bulk = {all}
  priority <- PrioOf
  NoSubscription = none
  SettingsChoices <- Varying
  Threshold = 1
  Results = {"succeeded", "retryable", "permanent", "other"}
  Refusals = TRUE
  Pushed = {ta, ma, hi}
  c1 = c1
  c2 = c2
  nobody = nobody
  Clients = {c1, c2}
  Nobody = nobody
  MaxJobs = 2
  MaxAttempts = 2
  MaxStored = 1
  Retain = 0
  MaxArchived = 1
  MaxFaults = 1
  MaxCrashes = 1
SYMMETRY Callers
SPECIFICATION PartsSpec
INVARIANT AdmissionSound WeightedFair ReadersAgree
PROPERTY PoolSpec HistorySpec
