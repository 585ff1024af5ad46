SPECIFICATION FairSpec
CONSTANTS
  f = f
  g = g
  pipe = pipe
  dir = dir
  x = x
  y = y
  None = None
  Files = {f, g}
  Others = {pipe, dir}
  Pipes = {pipe}
  Bytes = {x, y}
  MaxBytes = 2
  MaxLength = 3
  MaxEdits = 2
INVARIANTS
  OutcomeIsOfAMoment
PROPERTIES
  ReadEnds
CHECK_DEADLOCK FALSE
