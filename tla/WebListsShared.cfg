CONSTANTS
  Components = {c1}
  Entries = {e1, e2}
  Requests = {f1, f2}
  Nothing = Nothing
  None = None
  Never <- MCNever
  StaleTime = 1
  CacheTime = 1
  MaxAge = 1
  RetryDelay = 0
  Retries = 0
  MaxVersion = 1
  Users = {a, b}
  Crowds = {{a, b, s1}}
  Symbols = {s1}
  MaxTargets = 1
  MaxChecks = 1
  MaxFetches = 1
  MaxWrites = 1
  Unrecorded = {}
SPECIFICATION WebSpec
INVARIANTS
  EachUserTheirOwn
