SPECIFICATION FairSpec
CONSTANTS
  Proc = {p1, p2}
  None = None
  Absent = Absent
  Empty = Empty
  Garbled = Garbled
  WritesFail = TRUE
INVARIANTS
  MutualExclusionUnlessRaced
  WorkerOwnsFile
PROPERTIES
  StaleLockReplaced
