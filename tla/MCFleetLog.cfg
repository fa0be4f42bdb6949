SPECIFICATION Spec
CONSTANTS
  r1 = r1
  t1 = t1
  w1 = w1
  slack = slack
  NoWorker = NoWorker
  Run = {r1}
  Task = {t1}
  Worker = {w1}
  Channel = {slack}
  Result = {"Pass"}
  RunOf <- MCRunOf
  InitialEvents = 1
  MaxActive = 1
  MaxLeases = 2
  MaxSeq = 4
  MaxTime = 1
  Modes <- Apart
  MaxRecords <- MCMaxRecords
PROPERTIES
  CompactionPreservesState
  ImplementsLedger
  NumbersGivenOnce
CHECK_DEADLOCK FALSE
