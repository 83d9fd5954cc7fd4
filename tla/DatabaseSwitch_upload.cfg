SPECIFICATION Spec
CONSTANTS
  Uploads = {u1}
  Tasks = {}
  Requests = {r1}
  None = None
CHECK_DEADLOCK FALSE
INVARIANTS
  ComponentsUsable
