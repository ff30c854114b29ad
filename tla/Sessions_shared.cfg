SPECIFICATION Spec
CONSTANTS
  Procs = {p, q}
  Functions = {f}
  Calls <- AllCalls
  MaxCalls = 5
  MaxCrashes = 1
  None = None
SYMMETRY Symmetry
INVARIANT FoundCanResume
INVARIANT DetailComplete
INVARIANT OneOperationPerName
INVARIANT NoOrphans
INVARIANT RemovedStaysRemoved
INVARIANT UntagRemovesAll
\* The bounds end every behaviour.
CHECK_DEADLOCK FALSE
