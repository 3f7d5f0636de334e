CONSTANTS
  Components = {c1}
  Entries = {e1, e2}
  Requests = {f1, f2}
  Nothing = Nothing
  None = None
  Never <- MCNever
  StaleTime = 1
  CacheTime = 1
  MaxAge = 1
  RetryDelay = 0
  Retries = 1
  MaxVersion = 1
  Users = {a, b}
  Crowds = {{}, {a, b, s1}, {a, s1, s2, "legacy"}}
  Symbols = {s1, s2}
  MaxTargets = 1
  MaxChecks = 1
  MaxFetches = 1
  MaxWrites = 1
  Unrecorded = {s1, s2}
SPECIFICATION WebSpec
INVARIANTS
  WebTypes
  RefetchSeesWrites
  LoadingIsBacked
  WishesHold
  ShownIsOwned
PROPERTIES
  KeepsPromise
  StaysSubscribed
