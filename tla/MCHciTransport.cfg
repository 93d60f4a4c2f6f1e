CONSTANTS
  Modulus = 4
  MaxRetry = 1
  Buffers = 2
  LineSize = 2
  Uses <- MCUses
  None = None
SPECIFICATION FairSpec
INVARIANTS TypeOK InStep
PROPERTIES WriteEnds KeepsPromise
CHECK_DEADLOCK FALSE
