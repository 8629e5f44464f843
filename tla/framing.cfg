SPECIFICATION FairSpec
CONSTANTS
  buf_size = 5
  HEADER_SIZE = 2
  Length = {2, 3, 5, 6}
  MaxFrames = 3
INVARIANTS
  TypeOK
  DeliveredIntact
  NothingStranded
  DroppedForCause
PROPERTIES
  FrameArrives
CHECK_DEADLOCK FALSE
