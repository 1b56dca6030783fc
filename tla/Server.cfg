SPECIFICATION FairSpec
CONSTANTS
  c1 = c1
  c2 = c2
  c3 = c3
  Conn = {c1, c2, c3}
  MaxConns = 2
  MaxErrors = 1
INVARIANTS
  SlotsAndHandlersAgree
  JournalsOutliveRequests
PROPERTIES
  ShutdownCompletes
  QueueMoves
CHECK_DEADLOCK FALSE
