SPECIFICATION FairSpec
CONSTANTS
  Rows = {r1, r2}
  Tokens <- TwoSums
  Traces = {a}
  TokensOf <- OneToken
  TraceOf <- OneTrace
  Epoch <- BeforeAll
  MaxTime = 6
  Hour = 2
  Day = 4
  Width = 2
  Margin = 1
  TTL = 4
  MaxLate = 1
  Budget <- AnyOne
INVARIANTS
  TypeOK
  Coverage
  FilesMatchTheirRows
  NoFileStraddlesWatermark
  OneCopyUnlessInterrupted
PROPERTIES
  NoSilentLoss
  EventuallyArchived
  ImplementsArchive
