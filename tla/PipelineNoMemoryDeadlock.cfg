CONSTANTS
  a = a
  b = b
  Clients = {a, b}
  MaxConcurrency = 4
  ProcessingBatch = 1
  InitialTimestamp = 0
  MaxAppends = 4
  WaitKinds = {"committed"}
  DebugBuild = FALSE
  InsertMayFail = TRUE
SPECIFICATION FairSpec
PROPERTY MarkReturns
