SPECIFICATION Spec
CONSTANTS
  ts = ts
  tk = tk
  tv = tv
  tkv = tkv
  Thread = main
  Table = {ts, tk, tv}
  Closure = {}
  Udata = {u}
  String = {s}
  Num = num
  NULL = null
  Mode <- MCMode
  Root = {}
  HasGC = {u}
  GCSWEEPMAX = 1
  MaxStack = 2
  MaxTables = 1
  MaxEntries = 1
  CollectsAtClose = FALSE
  Kinds = {"normal", "gen"}
INVARIANTS
  NoDangling
  ColorInvariants
  OldSuffix
  FinalizedOnce
PROPERTIES
  FinalizersCalled
