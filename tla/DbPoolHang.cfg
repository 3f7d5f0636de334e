SPECIFICATION FairSpec
CONSTANTS
  Threads = {t1, t2}
  Configs = {cLoader, cMetrics}
  LoaderConfig = cLoader
  Free = Free
  MaxEngines = 2
  MaxDisposals = 0
PROPERTY FactoryReturns
CHECK_DEADLOCK FALSE
