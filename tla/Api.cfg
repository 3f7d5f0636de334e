CONSTANTS
  Callers = {c1, c2}
  Keys = {k1, k2, k3}
  Workers <- MCWorkers
  MaxRows = 2
  Refresher = job
  Extras = {detail}
  MaxMarket = 1
  Symbols = {1, 2, 3}
  Foreign = {2}
  Indices = {3}
  Limit = 2
  Databases <- MCDatabases
  MaxSourced = 1
  MaxBeside = 1
  Rows = {r1, r2}
  Values = {v1, v2}
  Partitions = {1, 2}
  MaxBlocks = 4
  LastDay = 2
  MaxRuns = 2
  Scored = 6
  Sessions = 6
  Warm = 1
  Step = 2
  SampleStep = 1
  Horizons = {1, 2}
  MinRows = 2
  MinDates = 3
  MinValidation = 1
  Buckets = 2
  Window = 2
  Calendars = {{}, {1, 2}, {1, 2, 3, 4}, {2, 4}, {1, 3, 4}}
  Subject = 1
  Components = {2, 3}
  Pieces = 3
  MaxNews = 2
  MaxPeers = 1
  MaxThemes = 1
  MaxSectors = 1
  MaxChains = 2
  Related <- MCRelated
  SectorLists <- MCSectors
  MinSample = 2
  MinIndex = 2
  StaleDays = 1
  Cash = {0, 12, 30}
  Owed = {5, 25}
  Prices = {6, 14}
  Torn = Torn
  Nothing = Nothing
SPECIFICATION ApiSpec
INVARIANTS
  ApiTypes
  JobsClaimsBacked
  BestInHand
  ReportsFollowTargets
  PoolShowsWish
  ShownOnce
  BacktestsAgree
  AnalysesAgree
  AnalysesSound
PROPERTIES
  JobsClaimsReleased
  NothingWorsens
CHECK_DEADLOCK FALSE
