SPECIFICATION FairSpec
CONSTANTS
  k1 = k1
  k2 = k2
  c1 = c1
  c2 = c2
  none = none
  Callers <- TwoCallers
  Main = c1
  NumTables = 1
  Keys <- OneKey
  FlushRows = 1
  BadRows <- BadSecond
  Faults <- AnyFault
  MaxFaults = 1
  BatchSizes <- OneOrTwo
  MaxRows = 3
  MaxWrites = 1
INVARIANTS SingleFlush NoRowLost
PROPERTIES NewerRowWins ImplementsOrderedWrites SyncReturns ExitCompletes
\* The process may end with a caller waiting for a task put after the stop item.
CHECK_DEADLOCK FALSE
