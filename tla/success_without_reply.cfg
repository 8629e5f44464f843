SPECIFICATION Spec
CONSTANTS
  Blocking = {b1}
  Async = {}
  Posting = {}
  Tcp = FALSE
  Disturbed = FALSE
  MaxCalls = 0
INVARIANTS
  SuccessMeansReply
CHECK_DEADLOCK FALSE
