SPECIFICATION Spec
CONSTANTS
  Caller = {c1, c2}
  pool_size = 2
  MaxIndex = 6
CHECK_DEADLOCK FALSE
INVARIANTS
  ChosenIsService
