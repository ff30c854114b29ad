SPECIFICATION Spec
CONSTANTS
  t1 = t1
  load = load
  slider = slider
  NoState = NoState
  Threads <- OneThread
  Calls <- Load
  Interactions <- Slider
  Settled = TRUE
  MaxStates = 4
  MaxRestarts = 0
  MaxReadFaults = 0
  MaxQueue = 1
INVARIANTS BranchesDiverge ReplayShadows
\* The bounds end every behaviour; a user may stop at any point.
CHECK_DEADLOCK FALSE
