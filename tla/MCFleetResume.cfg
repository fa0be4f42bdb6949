SPECIFICATION SchedSpec
CONSTANTS
  r1 = r1
  t1 = t1
  t2 = t2
  w1 = w1
  w2 = w2
  slack = slack
  p1 = p1
  p2 = p2
  NoWorker = NoWorker
  Run = {r1}
  Task = {t1}
  Worker = {w1}
  Channel = {slack}
  Result = {"Fail"}
  RunOf <- MCRunOf
  InitialEvents = 1
  MaxActive = 1
  MaxLeases = 3
  MaxSeq = 12
  MaxTime = 3
  Proc = {p1, p2}
  Supervised = r1
  Ticker = {p2}
  MaxAttempts = 2
  HeartbeatTimeout = 1
  LeaseSeconds = 1
  MaxProgress = 1
  MaxRestarts = 1
  MaxCrashes = 1
CHECK_DEADLOCK FALSE
INVARIANTS
  RetryBudget
  EscalatesOnlyExhausted
