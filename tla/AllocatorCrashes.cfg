SPECIFICATION Spec
CONSTANTS
  Capacity = 3
  MaxCrashes = 2
  MaxOperations = 5
  CrashInExtension = FALSE
INVARIANTS TypeOK InitializationIsWhole EachRegionInOneList SlistAsserts NewRegionIsEmpty IterationIsComplete
PROPERTIES OpenMarksRegions ImplementsAllocatorSpec
CHECK_DEADLOCK FALSE
