SPECIFICATION FairSpec
CONSTANTS
  Scripts <- MCScripts
  Payloads <- MCPayloads
  MaxBulk = 4
  MaxArray = 10
  MaxTimeout = 2
INVARIANTS
  ConnTypeOK
  OnlyWhatWasAsked
  RepliesFollowRequests
PROPERTIES
  EveryRequestAnswered
  HandlerEnds
CHECK_DEADLOCK FALSE
