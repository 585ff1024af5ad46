SPECIFICATION Spec
CONSTANTS
  Preparers = {p1, p2}
  Lives = {l1, l2}
  Issuers = {i1, i2}
  MaxFunds = 1
  MaxEdits = 2
  Elsewhere = Elsewhere
  None = None
SYMMETRY Symmetry
INVARIANTS
  IInv
  OneIssuerPerKey
  PaidAsChecked
  UncoveredIsExplained
CHECK_DEADLOCK FALSE
