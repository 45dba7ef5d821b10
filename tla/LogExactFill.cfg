SPECIFICATION Spec
CONSTANTS
  Regions <- MCRegions
  Reader = reader
  Nobody = nobody
  Capacity = 4
  Sizes = {1}
  SplitCells = {}
  MaxAppends = 2
  MaxReads = 0
  MaxFrees = 0
  MaxCrashes = 0
INVARIANT RegionHeadersIntact
CHECK_DEADLOCK FALSE
