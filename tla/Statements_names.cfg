SPECIFICATION Spec
CONSTANTS
  x = x
  y = y
  Names <- Variables
  Targets <- LeftSides
  MaxStatements = 3
  None = None
INVARIANTS BoundToCurrent NoneLeft
PROPERTIES NeverBack
CHECK_DEADLOCK FALSE
