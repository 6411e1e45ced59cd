SPECIFICATION Spec
CONSTANTS
  Worker = {w1, w2}
  Url = {u1, u2, u3}
  MainUrl = u1
  Pages = {{}, {u1, u2}, {u2, u3}}
  running_url_max = 2
  MaxPolicy = 0
  SizeT = 16
  FaultBound = 0
SYMMETRY WorkerSymmetry
CHECK_DEADLOCK FALSE
INVARIANTS
  NothingNew
