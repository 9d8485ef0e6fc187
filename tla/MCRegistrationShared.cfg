\* Two goroutines share the client, one package.
CONSTANTS
  Callers = {c1, c2}
  Packages = {p}
  Retries = {0}
  Forced = {FALSE}
  MaxCheckins = 2
  MaxInstalls = 2
SYMMETRY CallerSymmetry
SPECIFICATION Spec
INVARIANTS
  TypeOK
  DeviceTogether
PROPERTIES
  NothingForgotten
CHECK_DEADLOCK FALSE
