SPECIFICATION FairSpec
CONSTANTS
  q1 = q1
  q2 = q2
  q3 = q3
  l1 = l1
  c1 = c1
  c2 = c2
  Queue = {q1, q2, q3}
  Lease = {l1}
  Client = {c1, c2}
  MaxQueues = 2
  MaxFaults = 1
  MaxCrashes = 1
INVARIANTS
  ServiceTypeOK
  OneEnginePerQueue
PROPERTIES
  AckFindsItsLease
  EveryCallReturns
  LapsedIsReaped
  
