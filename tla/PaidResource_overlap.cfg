SPECIFICATION FairSpec
CONSTANTS
  i1 = i1
  i2 = i2
  paid = paid
  other = other
  a1 = a1
  a2 = a2
  partial = partial
  unnamed = unnamed
  n1 = n1
  n2 = n2
  None = None
  NumRequests = 3
  Identifiers = {i1}
  Fingerprints = {paid, other}
  Protected = {paid, other}
  Authorizations = {a1, a2}
  Malformed = {partial, unnamed}
  Identities = {n1, n2}
  Identity <- Pairs
  Inputs <- OverlapInputs
  Capacity = 1
  IdentifierRequired = TRUE
  Droppable = {}
  Closing = {}
  Words = {"free text"}
INVARIANTS
  OneSettlementPerIdentifier
  CachedOnlyToPayer
PROPERTIES
  EveryRequestAnswered
  ImplementsChargeOnce
CHECK_DEADLOCK FALSE
