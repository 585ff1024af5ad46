SPECIFICATION Spec
CONSTANTS
    None = None
    Garbled = Garbled
    k1 = k1  k2 = k2
    n1 = n1  n2 = n2
    a1 = a1
    m1 = m1  m2 = m2
    p1 = p1
    c1 = c1
    x1 = x1  x2 = x2
    u1 = u1  u2 = u2
    i1 = i1  i2 = i2
    b1 = b1  b2 = b2
    e1 = e1
    Runs <- MCRunsThrown
    Reissued <- MCReissued
    Found <- MCFound
    SuppliedKeys <- MCSuppliedKeys
    MaxChanges = 0
INVARIANTS
    EveryRunVerifies
CHECK_DEADLOCK FALSE
