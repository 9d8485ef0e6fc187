\* Two goroutines share the client.
CONSTANTS
  Callers = {c1, c2}
  Packages = {p}
  Retries = {0}
  Forced = {FALSE}
  MaxCheckins = 1
  MaxInstalls = 1
SPECIFICATION Spec
INVARIANTS
  ConcurrentUseIsSafe
CHECK_DEADLOCK FALSE
