SPECIFICATION Spec
CONSTANTS
  r1 = r1
  t1 = t1
  t2 = t2
  w1 = w1
  w2 = w2
  slack = slack
  NoWorker = NoWorker
  Run = {r1}
  Task = {t1, t2}
  Worker = {w1, w2}
  Channel = {slack}
  Result = {"Pass"}
  RunOf <- MCRunOf
  InitialEvents = 1
  MaxActive = 1
  MaxLeases = 2
  MaxSeq = 3
  MaxTime = 1
SYMMETRY Symmetry
INVARIANTS
  OneLeasePerWorker
  ReceiptFenced
  CompletedHasReceipt
  AlertFenced
PROPERTIES
  TerminalAttemptIsFinal
  ImplementsLease
CHECK_DEADLOCK FALSE
