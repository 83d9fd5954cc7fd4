SPECIFICATION Spec
CONSTANTS
  Uploads = {u1}
  Tasks = {t1, t2}
  Requests = {r1}
  None = None
CHECK_DEADLOCK FALSE
INVARIANTS
  OneTask
  ComponentsFollow
  ResultsKept
PROPERTIES
  TaskEnds
