CONSTANTS
  a = a
  b = b
  Clients = {a, b}
  MaxConcurrency = 2
  ProcessingBatch = 1
  InitialTimestamp = 1
  MaxAppends = 3
  WaitKinds = {"committed", "persisted"}
  DebugBuild = TRUE
  InsertMayFail = FALSE
SPECIFICATION FairSpec
INVARIANTS
  TypeOK
  PersistedBehindCommitted
  SlotIsFree
  CompletedWaitHolds
  CodeAsserts
PROPERTIES
  TimestampsNeverDecrease
  WaitEnds
