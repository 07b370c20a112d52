SPECIFICATION Spec
CONSTANTS
  Rows = {r1, r2}
  Tokens <- TwoSums
  Traces = {a}
  TokensOf <- OneToken
  TraceOf <- OneTrace
  Epoch <- BeforeAll
  MaxTime = 7
  Hour = 2
  Day = 4
  Width = 2
  Margin = 1
  TTL = 4
  MaxLate = 1
  Budget <- OneRewind
SYMMETRY RowSymmetry
PROPERTIES
  ReexportIsSafe
