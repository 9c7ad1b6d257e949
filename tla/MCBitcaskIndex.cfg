CONSTANTS
  Keys = {k1, k2}
  Values = {v1, v2}
  none = none
  LogSize = 2
  MaxWrites = 5
  MaxStamp = 1
  Happens = {"quit", "any", "merge"}
SYMMETRY Symmetry
SPECIFICATION Spec
INVARIANT IndexExact
CHECK_DEADLOCK FALSE
