SPECIFICATION Spec
CONSTANTS
  a1 = a1
  a2 = a2
  c1 = c1
  h1 = h1
  Automation = {a1}
  Caller = {c1}
  Host = {}
  BoardTask <- Records
  MaxRuns = 3
  Period = 1
  Grace = 0
  Window = 3
  MaxTime = 2
  Outcome = {"Completed"}
  MaxFaults = 1

CHECK_DEADLOCK FALSE
INVARIANT SlotHandedOnce
