SPECIFICATION Spec
CONSTANTS
  Names = {x, y}
  Addrs <- AddressSet
  Statements <- AllStatements
  MaxStates = 3
  MaxPlain = 1
  MaxMoves = 1
  None = None
INVARIANT RestoredAsRecorded
INVARIANT ArgumentsAsGiven
INVARIANT RegistryIsCurrent
CHECK_DEADLOCK FALSE
