SPECIFICATION Spec
CONSTANTS
  Client = {c1}
  None = None
  total = 2
  MaxRun = 1
  MaxJob = 1
  SizeT = 8
CHECK_DEADLOCK FALSE
INVARIANTS
  ActionSignalHeard
