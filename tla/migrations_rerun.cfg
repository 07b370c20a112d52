SPECIFICATION Spec
CONSTANTS
  Catalogue <- Shipped
  Releases <- ThreeReleases
  Runners = {r1}
  WatermarkTable = "cold_export_watermark"
  MaxMark = 1
  MaxCrashes = 1
  MaxEdits = 0
INVARIANTS
  HalfAppliedIsSafe
