SPECIFICATION FairSpec
CONSTANTS
  Blocking = {b1}
  Async = {a1}
  Posting = {}
  Tcp = TRUE
  Disturbed = FALSE
  MaxCalls = 0
PROPERTIES
  Released
  CalledBack
  DestroyEnds
  ConnectReturns
  Notified
CHECK_DEADLOCK FALSE
