SPECIFICATION FairSpec
CONSTANTS
  SourceJobs = {macro, fund}
  DerivedJobs = {sector}
  MacroJob = macro
  FixedJobs = {macro, sector}
  Metrics = metrics
  Refresh = refresh
  Bank = bank
  Main = main
  Backfill = backfill
  LastDay = 1
  MaxStarts = 2
  Workers = 1
  WritesFail = TRUE
  PoolReturns = TRUE
PROPERTY RunEnds
CHECK_DEADLOCK FALSE
