\* A sealed, a broken and an ephemeral message, two faults, one heartbeat.
\* Reading with nothing on its way, the faults used up, is no deadlock.
CONSTANTS
  N = 3
  Sealed = {1}
  Garbled = {2}
  Ephemeral = {3}
  Keys = {1, 2, 3, 4, 5}
  MaxFaults = 2
  MaxPings = 1
  MaxInFlight = 2
SPECIFICATION MCSpec
INVARIANTS
  NothingLost
  OnlyBrokenDropped
  NoRepeatInProcess
  AckedWasHandled
PROPERTIES
  LoopKeepsConnection
  EveryMessageHandled
  ImplementsMailbox
CHECK_DEADLOCK FALSE
