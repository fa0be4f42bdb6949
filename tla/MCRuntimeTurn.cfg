SPECIFICATION FairSpec
CONSTANTS
  MaxTurns = 2
  MaxItems = 1
  MaxStreams = 2
  MaxErrors = 2
  Capacity = 2
  MaxCrashes = 1
INVARIANTS
  NoToolWithoutApproval
  ErrorIsFinal
  CompletedIsClean
PROPERTIES
  EndsOnce
  EndAnnounced
CHECK_DEADLOCK FALSE
