SPECIFICATION FairSpec
CONSTANTS
  Threads = {t1, t2, t3}
  Configs = {cLoader, cMetrics}
  LoaderConfig = cLoader
  Free = Free
  MaxEngines = 4
  MaxDisposals = 1
INVARIANTS
  EngineShared
  LocksNested
PROPERTIES
  CallsReturnUnlessHung
CHECK_DEADLOCK FALSE
