SPECIFICATION Spec
CONSTANTS
  r1 = r1
  r2 = r2
  i1 = i1
  i2 = i2
  None = None
  Runs = {r1}
  Faulty = {}
  Ids = {i1}
  MaxMoves = 0
INVARIANTS
  SpentIsPreserved
CHECK_DEADLOCK FALSE
