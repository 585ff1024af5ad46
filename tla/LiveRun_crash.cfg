SPECIFICATION Spec
CONSTANTS
  r1 = r1
  r2 = r2
  i1 = i1
  i2 = i2
  None = None
  Runs = {r1, r2}
  Faulty = {r1}
  Ids = {i1, i2}
  MaxMoves = 1
INVARIANTS
  FinalIsVerifiable
  NamesAreOwn
  SpentIsDocumented
  RecordsAreTrue
  SpentIsConcluded
PROPERTIES
  NothingIsOverwritten
CHECK_DEADLOCK FALSE
