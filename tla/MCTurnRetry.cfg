SPECIFICATION Spec
CONSTANTS
  MaxTurns = 1
  MaxItems = 1
  MaxStreams = 2
  MaxErrors = 0
  Capacity = 2
  MaxCrashes = 0
INVARIANTS
  RetrySucceeds
CHECK_DEADLOCK FALSE
