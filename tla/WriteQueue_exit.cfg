SPECIFICATION Spec
CONSTANTS
  k1 = k1
  k2 = k2
  c1 = c1
  c2 = c2
  none = none
  Callers <- OneCaller
  Main = c1
  NumTables = 2
  Keys <- TwoKeys
  FlushRows = 2
  BadRows <- NoBadRow
  Faults <- CrashFaults
  MaxFaults = 1
  BatchSizes <- OneOrTwo
  MaxRows = 2
  MaxWrites = 2
INVARIANTS AppliedInCallOrder RowsBeforeWrites TablesInOrder ExitKeepsRows
