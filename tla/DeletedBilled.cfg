SPECIFICATION ServicesSpec
CONSTANTS
  g1 = g1  g2 = g2  n1 = n1  n2 = n2  k1 = k1  k2 = k2  o1 = o1
  u1 = u1  u2 = u2  d1 = d1  d2 = d2  s1 = s1  w1 = w1  w2 = w2
  NoOp = NoOp  NoEvent = NoEvent
  Ops = {g1, g2, n1, n2, k1, k2, o1}
  KindOf <- Kinds
  ScopeOf <- ScopesOf
  UnitsOf <- Units
  OpGroups = {{g1, g2}, {n1, n2}, {n1, g1}, {k1, o1}, {k1, k2}}
  Callers = {u1, u2}
  Allowance = 1
  CompanyLimit = 1
  CompanyUse = 2
  ReservationTTL = 2
  MaxClock = 3
  Deliveries = {d1, d2}
  Scripts <- DisputeOnly
  MaxFailures = 1
  Sessions = {s1}
  LockTimeout = 1
  PostBound = 1
  CreationWindow = 3
  RecoveryWorkers = {w1, w2}
  MaxAttempts = 2
  MaxOverruns = 2
INVARIANTS DeletedIsNotBilled
CHECK_DEADLOCK FALSE
