SPECIFICATION FairSpec
CONSTANTS
  App = {u1}
  Run = Run
  NoOne = NoOne
  MaxName = 1
  MaxConns = 1
  MaxOps = 0
PROPERTIES
  StaysConnected
CHECK_DEADLOCK FALSE
