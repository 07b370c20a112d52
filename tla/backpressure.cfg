SPECIFICATION Spec
CONSTANTS
  Target = 1
  MaxProbes = 1
  OldLag = 1
  StallConsumer = TRUE
  RecoveredLag = 0
  MinPeakLag = 2
  MinProbes = 0
  MinAchievement = 90
  MinDelivery = 50
  MaxUnaccounted = 20
  FineSampling = TRUE
  MaxMishaps = 1
  None = None
CHECK_DEADLOCK FALSE
INVARIANTS
  TypeOK
  LossIsClaimed
PROPERTIES
  RecoveryIsReal
