SPECIFICATION Spec
CONSTANTS
  Names = {x, y}
  Addrs <- AddressSet
  Statements <- AliasStatements
  MaxStates = 2
  MaxPlain = 1
  MaxMoves = 0
  None = None
INVARIANT RestoredExactly
CHECK_DEADLOCK FALSE
