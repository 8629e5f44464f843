SPECIFICATION Spec
CONSTANTS
  Blocking = {b1}
  Async = {a1}
  Posting = {p1}
  Tcp = TRUE
  Disturbed = TRUE
  MaxCalls = 1
INVARIANTS
  SentIntact
  CalledOnce
  AnswersBelong
PROPERTIES
  NoWriteAfterReturn
CHECK_DEADLOCK FALSE
