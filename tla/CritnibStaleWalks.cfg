SPECIFICATION CritnibFairSpec
CONSTANTS
  Readers = {r}
  Writers = {w}
  Keys = {0, 1, 2, 3}
  Values <- MCValues
  Fanout = 3
  Digits = 2
  DeletedLife = 2
  MaxNodes = 2
  MaxLeaves = 3
  MaxInserts = 3
  MaxRemoves = 3
  LookedUp = {0}
INVARIANTS CritnibTypeOK OperationsAreExact ObjectsHaveOnePlace QueriesAreRight
PROPERTY ImplementsCritnibSpec
CHECK_DEADLOCK FALSE
