SPECIFICATION LoadSpec
CONSTANTS
  MaxSteps = 2
  Leads = {1}
  TTFTs = {2}
  Decodes = {0, 2}
  ToolTimes = {1}
  Deadline = 3
  Failures = {"timeout", "server_error"}
  Profile = "burst"
  Sustained = 1
  Burst = 4
  BurstPeriod = 2
  BurstDuration = 1
  RampDuration = 2
  Unit = 2
  MaxCredit = 6
  w1 = w1
  w2 = w2
  Workers = {w1, w2}
  Duration = 3
  MaxDelay = 2
  MaxQueueSize = 3
  MaxFailures = 1
  NoTrace = NoTrace
SYMMETRY Symmetry
CHECK_DEADLOCK FALSE
INVARIANTS
  LoadTypeOK
  TallyIsWhole
  Paced
  TraceNests
