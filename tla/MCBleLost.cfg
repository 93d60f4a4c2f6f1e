CONSTANTS
  N = 2
  Sizes = {3}
  Target = 2
  MaxEvents = 1
  QueueSize = 4
  Faults = FALSE
SPECIFICATION Spec
INVARIANTS BackOverTheAir
