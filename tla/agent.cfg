SPECIFICATION FairSpec
CONSTANTS
  App = {u1, u2}
  Run = Run
  NoOne = NoOne
  MaxName = 2
  MaxConns = 2
  MaxOps = 2
INVARIANTS
  HandlersRepeated
  OneConnection
  ClosedIsQuiet
PROPERTIES
  Reconnects
  CloseReturns
CHECK_DEADLOCK FALSE
