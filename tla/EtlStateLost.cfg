SPECIFICATION Spec
CONSTANTS
  SourceJobs = {macro, fund}
  DerivedJobs = {sector}
  MacroJob = macro
  FixedJobs = {macro, sector}
  Metrics = metrics
  Refresh = refresh
  Bank = bank
  Main = main
  Backfill = backfill
  LastDay = 1
  MaxStarts = 1
  Workers = 2
  WritesFail = FALSE
  PoolReturns = TRUE
INVARIANT RecordedAfterSuccess
CHECK_DEADLOCK FALSE
