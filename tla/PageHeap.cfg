SPECIFICATION Spec
CONSTANTS
  NPages = 4
  kMaxPages = 2
  Granularity = 1
  kDefaultReleaseDelay = 2
  kMaxReleaseDelay = 2
  kForcedCoalesceInterval = 4
  Class = {1, 2}
  class_to_pages <- MCPages
  MaxRequest = 3
  Aligns = {2}
  kHash = 1
  Config <- MCConfig
INVARIANTS SpansSound LookupsRight ServesWithinLimit
PROPERTIES KeepsPromise
