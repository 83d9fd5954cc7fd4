SPECIFICATION Spec
CONSTANTS
  Requests = {r1}
  None = None
  MaxCrashes = 1
INVARIANTS
  GetFindsStored
PROPERTIES
  ArchiveKeeps
  MemoryDrains
