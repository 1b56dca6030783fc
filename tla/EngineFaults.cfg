SPECIFICATION Spec
CONSTANTS
  t1 = t1
  t2 = t2
  l1 = l1
  l2 = l2
  l3 = l3
  Task = {t1, t2}
  Lease = {l1, l2, l3}
  NoLease = NoLease
  HasJournal = TRUE
  Timeout = {1}
  RetryDelay = 1
  MaxAttempts = 2
  Faults = {"backend", "reply", "append", "torn"}
  MaxFaults = 2
  MaxCrashes = 1
SYMMETRY Symmetry
INVARIANTS
  TypeOK
  OnePlace
  FenceAgrees
  ClosedIsReleased
  JournalTruthful
  HeldIsLeased
  LeaseIsScheduled
  RetryCap
  LeaseKeepsItsTerms

  
