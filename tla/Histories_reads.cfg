SPECIFICATION Spec
CONSTANTS
  Calls <- ThreeCalls
  Categories <- LoadsOnly
  Outputs <- OwnOfLoads
  MaxStates = 3
  MaxLag = 2
  MaxUses = 1
  None = None
INVARIANTS CursorOnPath ViewAccountsForSteps CopiesReplayable LastCallFound
\* The bounds end every behaviour; a user may stop at any point.
CHECK_DEADLOCK FALSE
