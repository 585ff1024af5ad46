SPECIFICATION Spec
CONSTANTS
  Calls = {c1, c2, c3}
  Authorizers = {a1, a2}
  Nonces = {n1}
  None = None
INVARIANTS
  DuplicateOfASuccess
PROPERTIES
  ImplementsAuthorizationState
CHECK_DEADLOCK FALSE
