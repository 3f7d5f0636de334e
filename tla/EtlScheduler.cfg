SPECIFICATION Spec
CONSTANTS
  SourceJobs = {macro, fund}
  DerivedJobs = {sector}
  MacroJob = macro
  FixedJobs = {macro, sector}
  Metrics = metrics
  Refresh = refresh
  Bank = bank
  Main = main
  Backfill = backfill
  LastDay = 2
  MaxStarts = 2
  Workers = 2
  WritesFail = FALSE
  PoolReturns = TRUE
INVARIANTS
  WatermarkSound
  SkippedIsCovered
  StagesInOrder
  RecordedUnlessMixed
CHECK_DEADLOCK FALSE
