CONSTANTS
  Keys = {k1, k2}
  MaxTime = 1
  Numbers = {0, 1}
  MaxLen = 1
  MaxSaves = 2
  MaxBeside = 0
  Children = {c1}
SYMMETRY KeySymmetry
SPECIFICATION Spec
INVARIANTS
  TtlHasKey
  OneMoment
PROPERTY OthersUntouched
