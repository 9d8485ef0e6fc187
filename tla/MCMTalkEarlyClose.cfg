\* One goroutine calls Close while another is still inside Connect.
CONSTANTS
  Callers = {c1, c2}
  MaxDials = 1
  Serialized = FALSE
  AwaitClosed = TRUE
  Deadline = TRUE
SPECIFICATION Spec
PROPERTY CloseWaitsForLoops
CHECK_DEADLOCK FALSE
