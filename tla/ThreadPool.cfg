SPECIFICATION FairSpec
CONSTANTS
  Client = {c1}
  None = None
  total = 2
  MaxRun = 2
  MaxJob = 2
  SizeT = 8
CHECK_DEADLOCK FALSE
INVARIANTS
  RunningCountExact
  PoolFull
PROPERTIES
  ImplementsQueue
  AwakeThreadDrains
  StopEndsThreads
