SPECIFICATION Spec
CONSTANTS
  Channels = {1, 2, 3}
  g1 = g1
  g2 = g2
  u1 = u1
  u2 = u2
  m1 = m1
  m2 = m2
  Groups = {g1}
  Users = {u1, u2}
  Models = {m1, m2}
  Requests = {r1, r2}
  Admins = {a1}
  Priorities = {1, 2, 100}
  Rows <- MCRows
  Mappings <- MCMappings
  Starts <- TwoChannels
  MaxEdits = 1
  None = None
SYMMETRY AnyRequest
INVARIANTS
  TypeOK
  EvenWhileSteady
PROPERTIES
  OnlyUsable
  BestTier
  BoundServed
