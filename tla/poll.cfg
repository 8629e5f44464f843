SPECIFICATION FairSpec
CONSTANTS
  beep_timeout = 2
  MaxConns = 2
  MaxStarts = 2
INVARIANTS
  FrontIsOldest
PROPERTIES
  OnlySilentShut
  SilentDropped
  StopEnds
CHECK_DEADLOCK FALSE
