CONSTANTS
  N = 2
  Sizes = {2, 3}
  Target = 2
  MaxEvents = 1
  QueueSize = 4
  Faults = TRUE
SPECIFICATION Spec
INVARIANTS TypeOK StoresKeepBuffers  Reachable
