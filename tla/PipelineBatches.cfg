CONSTANTS
  a = a
  b = b
  Clients = {a, b}
  MaxConcurrency = 4
  ProcessingBatch = 2
  InitialTimestamp = 0
  MaxAppends = 6
  WaitKinds = {"committed"}
  DebugBuild = FALSE
  InsertMayFail = TRUE
SPECIFICATION Spec
SYMMETRY ClientSymmetry
INVARIANTS
  BatchesAreDisjoint
  NoTimestampIsLost
  CommittedIsDurable
  SlotIsFree
PROPERTIES
  ImplementsCommitSpec
