SPECIFICATION Spec
CONSTANTS
  Requests = {r1}
  None = None
  MaxCrashes = 0
PROPERTIES
  RemovedIsPersisted
