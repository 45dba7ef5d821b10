SPECIFICATION Spec
CONSTANTS
  Regions <- MCRegions
  Reader = reader
  Nobody = nobody
  Capacity = 5
  Sizes = {1}
  SplitCells = {}
  MaxAppends = 3
  MaxReads = 0
  MaxFrees = 1
  MaxCrashes = 2
INVARIANT TypeOK
PROPERTY ImplementsLogSpec
CHECK_DEADLOCK FALSE
