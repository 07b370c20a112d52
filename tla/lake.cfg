SPECIFICATION Spec
CONSTANTS
  w1 = w1
  w2 = w2
  e1 = e1
  e2 = e2
  Windows = {w1, w2}
  Exporters = {e1, e2}
  Batches = 2
  Mixed = Mixed
  None = None
SYMMETRY Symmetry
INVARIANTS
  QueryIsHonest
