SPECIFICATION WalSpec
CONSTANTS
  t1 = t1
  l1 = l1
  l2 = l2
  Task = {t1}
  Lease = {l1, l2}
  NoLease = NoLease
  Fetched <- MCFetched
  ClosedBy = {"ack", "expire"}
  MaxFrames = 4
  MaxFaults = 1
  MaxCrashes = 2
SYMMETRY Symmetry

  
  
PROPERTIES
  ImplementsJournal
