CONSTANTS
  N = 16
  Slots = 4
  SchedSize = 30
  Hosts <- MCWindow4
  None = None
SPECIFICATION Spec
INVARIANTS ElementsKeepBuffers
