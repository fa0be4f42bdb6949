SPECIFICATION Spec
CONSTANTS
  a = a
  b = b
  c1 = c1
  c2 = c2
  NoThread = NoThread
  NoCall = NoCall
  Thread = {a, b}
  Call = {c1, c2}
  MaxActive = 1
  MaxTurns = 2
  MaxEngines = 2
  MaxFaults = 1
INVARIANTS
  OwnReport
SYMMETRY Symmetry
