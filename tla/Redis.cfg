SPECIFICATION RedisSpec
CONSTANTS
  t1 = t1
  t2 = t2
  t3 = t3
  l1 = l1
  l2 = l2
  Task = {t1, t2, t3}
  Lease = {l1, l2}
  NoLease = NoLease
  MaxCharges = 2
SYMMETRY Symmetry
INVARIANTS
  RedisTypeOK
  HashesAgree
  RecoveryAgrees
PROPERTIES
  ImplementsBackend
