SPECIFICATION Spec
CONSTANTS
  Capacity = 2
  MaxCrashes = 1
  MaxOperations = 3
  CrashInExtension = TRUE
INVARIANT FreeOffsetBehindLists
CHECK_DEADLOCK FALSE
