SPECIFICATION Spec
CONSTANTS
  Regions <- MCOneRegion
  Reader = reader
  Nobody = nobody
  Capacity = 5
  Sizes = {1, 2}
  SplitCells = {}
  MaxAppends = 3
  MaxReads = 1
  MaxFrees = 1
  MaxCrashes = 2
INVARIANTS VisibleIsCommittedLog IteratorSeesLog AppendOffsetIsTail OneRuntimePerRegion
CHECK_DEADLOCK FALSE
