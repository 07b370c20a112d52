SPECIFICATION Spec
CONSTANTS
  a = a
  b = b
  c = c
  Dims = {"tenant_id"}
  Stored = {"tenant_id"}
  Columns = {"tenant_id"}
  Values = {a, b, c}
  Registries <- Steady
  Syncers = {s1}
  MaxCount = 1
  MaxSyncs = 2
  MaxCrashes = 0
INVARIANTS
  WithinBudget
