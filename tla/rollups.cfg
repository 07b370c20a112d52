SPECIFICATION Spec
CONSTANTS
  Rows = {r1, r2, r3}
  Operators = {o1, o2}
  Lengths = {3, 6}
  MaxTime = 5
  Minute = 2
  Hour = 2
  RawTTL = 3
  RollupTTL = 5
  MaxLate = 1
  MaxDrops = 1
  MaxCrashes = 1
SYMMETRY Symmetric
INVARIANTS
  TypeOK
  CountedOnce
  FilledSoFar
  PlanIsRight
