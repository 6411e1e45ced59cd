SPECIFICATION FairSpec
CONSTANTS
  Worker = {w1}
  Url = {u1, u2, u3}
  MainUrl = u1
  Pages = {{}, {u2}, {u1, u3}, {u2, u3}}
  running_url_max = 3
  MaxPolicy = 2
  SizeT = 16
  FaultBound = 3
CHECK_DEADLOCK FALSE
PROPERTIES
  EventuallyFinished
