\* Two goroutines that take turns and wait for Closed() before reconnecting.
CONSTANTS
  Callers = {c1, c2}
  MaxDials = 3
  Serialized = TRUE
  AwaitClosed = TRUE
  Deadline = TRUE
SPECIFICATION FairSpec
INVARIANTS
  NoPanic
  FieldsNotShared
  NoSocketLeak
  ClosedHasReason
PROPERTIES
  CloseWaitsForLoops
  CloseReturns
  ConnectReturns
  EndIsAnnounced
  ImplementsContract
  ContractIsFair
