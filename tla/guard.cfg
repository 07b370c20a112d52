SPECIFICATION FairSpec
CONSTANTS
  a = a
  b = b
  c = c
  Dims = {"tenant_id", "region", "spans", "gpu"}
  Stored = {"tenant_id", "region", "spans"}
  Columns = {"tenant_id", "region"}
  Values = {a, b}
  Registries <- Revised
  Syncers = {s1}
  MaxCount = 1
  MaxSyncs = 2
  MaxCrashes = 1
INVARIANTS
  TypeOK
  NoOrphanDimension
PROPERTIES
  OtherMeansUnregistered
  EventuallyVisible
