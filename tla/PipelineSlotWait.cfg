CONSTANTS
  a = a
  b = b
  Clients = {a, b}
  MaxConcurrency = 2
  ProcessingBatch = 1
  InitialTimestamp = 0
  MaxAppends = 3
  WaitKinds = {"committed"}
  DebugBuild = FALSE
  InsertMayFail = FALSE
SPECIFICATION FairSpec
PROPERTY SlotWaitEnds
