SPECIFICATION Spec
CONSTANTS
  t1 = t1
  t2 = t2
  w1 = w1
  w2 = w2
  NoTask = NoTask
  Task = {t1, t2}
  Worker = {w1, w2}
  MaxErrors = 2
  MaxCrashes = 2
INVARIANTS
  QueueExact
  OneRunner
  RunsOnce
PROPERTIES
  ImplementsBoard
  CancelWins
  QueueServed
CHECK_DEADLOCK FALSE
