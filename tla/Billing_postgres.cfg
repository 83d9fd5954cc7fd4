SPECIFICATION Spec
CONSTANTS
  u1 = u1
  r1 = r1
  r2 = r2
  None = None
  Users = {u1}
  Requests = {r1, r2}
  Subs = {s1}
  UserOf <- MCUserOf
  Backend = "postgres"
  Costs = {0, 2}
  TopUps = {1}
  LimitSets <- TotalOnly
  MaxMicros = 2
  MaxTime = 0
CHECK_DEADLOCK FALSE
INVARIANTS
  TypeOK
  LogMatchesEvents
PROPERTIES
  DebitWithinEvent
  SettlementEnds
