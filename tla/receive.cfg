SPECIFICATION FairSpec
CONSTANTS
  bufsize = 5
  Header = 2
  Length = {2, 3, 5, 6}
  Responses <- MCResponses
  Requests <- MCRequests
  MaxFrames = 3
INVARIANTS
  GivenIntact
  RequestIntact
PROPERTIES
  AllGiven
CHECK_DEADLOCK FALSE
