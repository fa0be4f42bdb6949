SPECIFICATION ManagerSpec
CONSTANTS
  r1 = r1
  r2 = r2
  t1 = t1
  t2 = t2
  t3 = t3
  w1 = w1
  w2 = w2
  slack = slack
  m1 = m1
  m2 = m2
  NoWorker = NoWorker
  Run = {r1}
  Task = {t1, t2}
  Worker = {w1}
  Channel = {slack}
  Result = {"Pass", "Fail"}
  RunOf <- OneRun
  InitialEvents = 1
  MaxActive = 1
  MaxLeases = 2
  MaxSeq = 20
  MaxTime = 1
  Manager = {m1, m2}
  Creator = {m1}
  ManagedRun <- SameRun
  WorkerIds <- OneWorker
  VerifierResult = {"Pass", "Fail"}
  MaxCrashes = 1
CHECK_DEADLOCK FALSE
INVARIANTS
  CompletedMeansPassed
  NoLostProcess
