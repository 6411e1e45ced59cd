SPECIFICATION FairSpec
CONSTANTS
  HTTP_ONE_PACKET_SIZE = 3
  MaxBody = 2
  Responses <- MCResponses
CHECK_DEADLOCK FALSE
INVARIANTS
  WokenWithResponse
  BodyExact
PROPERTIES
  ReturnsUnclosed
  WaitingReturns
