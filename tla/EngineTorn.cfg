SPECIFICATION Spec
CONSTANTS
  t1 = t1
  l1 = l1
  l2 = l2
  Task = {t1}
  Lease = {l1, l2}
  NoLease = NoLease
  HasJournal = TRUE
  Timeout = {1}
  RetryDelay = 1
  MaxAttempts = 0
  Faults = {"torn"}
  MaxFaults = 1
  MaxCrashes = 1
INVARIANT GrantIsDurable
