SPECIFICATION Spec
CONSTANTS
  a1 = a1
  a2 = a2
  c1 = c1
  h1 = h1
  Automation = {a1}
  Caller = {c1}
  Host = {h1}
  BoardTask <- Records
  MaxRuns = 2
  Period = 1
  Grace = 0
  Window = 2
  MaxTime = 2
  Outcome = {"Completed", "Failed"}
  MaxFaults = 1
CHECK_DEADLOCK FALSE
INVARIANTS
  OneRunPerSlot
  NonOverlap
  RunMatchesTask
PROPERTY
  RunSettles
