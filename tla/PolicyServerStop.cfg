SPECIFICATION SysSpec
CONSTANTS
  Plugin = {p1, p2}
  Worker = {w1, w2}
  Triggers <- PluginTriggers
  Bases <- TaskTriggers
  MaxPull = 2
  pool_size = 2
CHECK_DEADLOCK FALSE
INVARIANTS
  PoolStopped
