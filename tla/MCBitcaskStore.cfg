CONSTANTS
  Keys = {k1, k2}
  Values = {v1, v2}
  none = none
  LogSize = 3
  MaxWrites = 5
  MaxStamp = 1
  Happens = {"quit", "crash", "any", "torn", "merge", "remerge"}
SYMMETRY Symmetry
SPECIFICATION Spec
PROPERTY IsAStore
CHECK_DEADLOCK FALSE
