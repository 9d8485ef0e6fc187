\* One goroutine that reconnects as soon as Connected() is false.
CONSTANTS
  Callers = {c1}
  MaxDials = 2
  Serialized = TRUE
  AwaitClosed = FALSE
  Deadline = TRUE
SPECIFICATION Spec
INVARIANT StoppedLoopClosedItsChannel
CHECK_DEADLOCK FALSE
