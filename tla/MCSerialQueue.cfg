CONSTANTS
  N = 4
  Slots = 3
  SchedSize = 5
  Hosts <- MCHosts
  None = None
SPECIFICATION FairSpec
INVARIANTS TypeOK  PacedKeepBuffers  StaysListening
 
