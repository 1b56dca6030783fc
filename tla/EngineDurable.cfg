SPECIFICATION Spec
CONSTANTS
  t1 = t1
  t2 = t2
  l1 = l1
  l2 = l2
  Task = {t1, t2}
  Lease = {l1, l2}
  NoLease = NoLease
  HasJournal = TRUE
  Timeout = {2}
  RetryDelay = 1
  MaxAttempts = 2
  Faults = {"backend", "reply", "append"}
  MaxFaults = 2
  MaxCrashes = 2
SYMMETRY Symmetry
INVARIANTS
  GrantIsDurable
PROPERTIES
  LeaseHoldsUntilDeadline
  ImplementsContract
