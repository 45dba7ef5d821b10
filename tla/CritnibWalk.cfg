SPECIFICATION CritnibFairSpec
CONSTANTS
  Readers = {r}
  Writers = {w}
  Keys = {0, 2, 3}
  Values <- MCValues
  Fanout = 2
  Digits = 2
  DeletedLife = 1
  MaxNodes = 2
  MaxLeaves = 3
  MaxRemoves = 3
  MaxInserts = 3
  LookedUp = {2}
PROPERTY GetEnds
CHECK_DEADLOCK FALSE
