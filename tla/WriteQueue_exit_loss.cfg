SPECIFICATION Spec
CONSTANTS
  k1 = k1
  k2 = k2
  c1 = c1
  c2 = c2
  none = none
  Callers <- OneCaller
  Main = c1
  NumTables = 1
  Keys <- TwoKeys
  FlushRows = 1
  BadRows <- NoBadRow
  Faults <- NoFault
  MaxFaults = 0
  BatchSizes <- OneOrTwo
  MaxRows = 2
  MaxWrites = 1
INVARIANT ExitKeepsRows
