CONSTANTS
  Keys = {k1, k2}
  Items = {i1, i2, c1}
  Workers = {w1, w2}
  Blank = {}
  Corrupt = {c1}
  None = None
  MaxFaults = 1
SPECIFICATION FairSpec
CHECK_DEADLOCK FALSE
INVARIANT CorruptNeverAttempted
PROPERTIES AdmittedEventuallyRuns
