\* One goroutine, one package.
CONSTANTS
  Callers = {c1}
  Packages = {p}
  Retries = {0}
  Forced = {FALSE, TRUE}
  MaxCheckins = 1
  MaxInstalls = 1
SPECIFICATION Spec
PROPERTIES
  ExpiredTokenNotSent
