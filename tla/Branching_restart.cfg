SPECIFICATION Spec
CONSTANTS
  t1 = t1
  load = load
  slider = slider
  NoState = NoState
  Threads <- OneThread
  Calls <- Load
  Interactions <- Slider
  Settled = FALSE
  MaxStates = 3
  MaxRestarts = 1
  MaxReadFaults = 1
  MaxQueue = 1
INVARIANTS Resumable ChainStored LineageConnected
\* The bounds end every behaviour; a user may stop at any point.
CHECK_DEADLOCK FALSE
