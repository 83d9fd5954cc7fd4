SPECIFICATION Spec
CONSTANTS
  u1 = u1
  r1 = r1
  r2 = r2
  None = None
  Users = {u1}
  Requests = {r1, r2}
  Subs = {s1}
  UserOf <- MCUserOf
  Backend = "sqlite"
  Costs = {0, 1, 2}
  TopUps = {1}
  LimitSets <- TwoPlans
  MaxMicros = 2
  MaxTime = 1
SYMMETRY Symmetry
CHECK_DEADLOCK FALSE
PROPERTIES
  QuotaRespected
  OveruseMeansBroke
  ImplementsLedger
