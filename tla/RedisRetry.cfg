SPECIFICATION RetrySpec
CONSTANTS
  t1 = t1
  t2 = t2
  l1 = l1
  l2 = l2
  Task = {t1, t2}
  Lease = {l1, l2}
  NoLease = NoLease
  MaxCharges = 2
  MaxRetries = 1
  MaxLate = 1
  MaxLost = 3
  MaxCrashes = 1
SYMMETRY Symmetry
INVARIANTS
  RetryTypeOK
  NothingLost
  ClosedOncePerClaim

  
CHECK_DEADLOCK FALSE
