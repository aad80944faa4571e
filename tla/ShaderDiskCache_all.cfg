SPECIFICATION Spec
CONSTANTS
  k1 = k1  k2 = k2  v1 = v1  v2 = v2  p1 = p1  p2 = p2
  Procs = {p1, p2}
  Versions = {v1, v2}
  Keys = {k1, k2}
  Name <- SharedName
  MaxStarts = 1
  MaxJobs = 1
  None = None
INVARIANTS NeverMisled VisibleIsWhole FlushCovers
CHECK_DEADLOCK FALSE
