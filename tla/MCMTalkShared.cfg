\* Two goroutines that call Connect and Close whenever they like.
CONSTANTS
  Callers = {c1, c2}
  MaxDials = 2
  Serialized = FALSE
  AwaitClosed = FALSE
  Deadline = FALSE
SYMMETRY CallerSymmetry
SPECIFICATION Spec
INVARIANTS
  WaitGroupCountsLoops
  ConnectedHasOwner
  WaiterIsWoken
CHECK_DEADLOCK FALSE
