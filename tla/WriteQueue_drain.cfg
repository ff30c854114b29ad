SPECIFICATION FairSpec
CONSTANTS
  k1 = k1
  k2 = k2
  c1 = c1
  c2 = c2
  none = none
  Callers <- TwoCallers
  Main = none
  NumTables = 1
  Keys <- TwoKeys
  FlushRows = 2
  BadRows <- BadSecond
  Faults <- WriteFaults
  MaxFaults = 1
  BatchSizes <- OneOrTwo
  MaxRows = 3
  MaxWrites = 1
INVARIANT FlushScheduled
PROPERTY RowsDrain
