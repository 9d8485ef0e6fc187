\* One goroutine, two packages, no retry or one.
CONSTANTS
  Callers = {c1}
  Packages = {p, q}
  Retries = {0, 1}
  Forced = {FALSE, TRUE}
  MaxCheckins = 2
  MaxInstalls = 2
SPECIFICATION FairSpec
INVARIANTS
  RequestsAreConsistent
  RejectedNotResent
PROPERTIES
  SuccessIsUsable
  GivesUpAfterAllAttempts
  FlowReturns
