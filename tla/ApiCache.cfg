SPECIFICATION Spec
CONSTANTS
  Threads = {t1, t2}
  Keys = {report, quote}
  Reports = {report}
  MemoryFirst = {quote}
  Nothing = Nothing
  Ttl = 1
  DefaultTtl = 2
  MaxMemory = 1
  EvictCount = 1
  RedisFails = TRUE
  MaxDelay = 1
  MaxTime = 3
  MaxVersion = 1
SYMMETRY ThreadSymmetry
INVARIANTS
  MemoryBounded
  StalenessBounded
  CoherentUnlessRaced
