SPECIFICATION Spec
CONSTANTS
  Requests = {r1}
  Clients = {c1, c2}
  None = None
  NotifyCap = 1
  SendCap = 1
  MaxCrashes = 1
CHECK_DEADLOCK FALSE
INVARIANTS
  ClientsCatchUp
PROPERTIES
  ResultStays
  PendingEnds
