SPECIFICATION Spec
CONSTANTS
  Regions <- MCOneRegion
  Reader = reader
  Nobody = nobody
  Capacity = 5
  Sizes = {1, 2}
  SplitCells = {2}
  MaxAppends = 3
  MaxReads = 0
  MaxFrees = 0
  MaxCrashes = 2
INVARIANT AppendIsAtomic
CHECK_DEADLOCK FALSE
