SPECIFICATION Spec
CONSTANTS
  Thread = {t1, t2}
  Class = {1, 2}
  Span = {s1, s2}
  None = None
  Objects <- MCObjects
  num_objects_to_move <- MCMove
  cache_size_0 <- MCCache0
  max_cache_size <- MCMaxCache
  ByteSize <- MCBytes
  kMaxOverages = 0
  kMaxDynamicFreeListLength = 2
  kStealAmount = 1
  kMinThreadCacheSize = 1
  kTries = 2
  overall_thread_cache_size = 2
  MaxLive = 1
SYMMETRY Symmetry
INVARIANTS
  OneOwner
  CentralExact
  CachesExact
  NoHoldAndWait
