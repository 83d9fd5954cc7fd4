SPECIFICATION Spec
CONSTANTS
  Admins = {a1, a2}
  Users = {u1}
  Plans = {p1, p2}
  Subs = {s1, s2}
  None = None
  MaxTime = 1
SYMMETRY Symmetry
INVARIANTS
  OneInForce
  PlanInForceExists
PROPERTIES
  CancelledForEver
