CONSTANTS
  Threads = {t1, t2}
  Stocks = {1, 2}
  HongKong = {2}
  Names = {a, b}
  Tokens = {a, b}
  News = {1}
  Tables = {"stock_intraday_kline", "events", "buyback", "stock_research_items"}
  BatchSize = 1
  MinHk = 1
  MaxStarts = 2
  MaxBatches = 2
  LastDay = 2
  LastUnit = 3
  Torn = Torn
  NoPayload = NoPayload
  Nothing = Nothing
SPECIFICATION EtlSpec
SYMMETRY Interchangeable
INVARIANTS
  EtlTypes
  ProgressBacked
  FetchedIsKept
  AnsweredInFull
  FetchedAsAsked
  BlockedWasRejected
  RelationsMatch
  BatchesWhole
CHECK_DEADLOCK FALSE
