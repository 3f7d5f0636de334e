SPECIFICATION Spec
CONSTANTS
  Proc = {p1, p2}
  None = None
  Absent = Absent
  Empty = Empty
  Garbled = Garbled
  WritesFail = FALSE
INVARIANT NoDuplicateRuns
