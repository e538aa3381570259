CONSTANTS
  Keys = {k1, k2}
  Items = {i1, i2, i3, i4}
  Workers = {w1, w2}
  Blank = {i4}
  Corrupt = {}
  None = None
  MaxFaults = 2
SPECIFICATION Spec
INVARIANTS TypeOK AtMostOneInFlight CompletesItsOwnItem NeverOrphaned
PROPERTY SerialSpec
SYMMETRY Symmetry
CHECK_DEADLOCK FALSE
