CONSTANTS
  BankChunks = 4
  PageChunks = 2
  BlMaxChunks = 2
  QueueSize = 4
  Erased = Erased
  Garbage = Garbage
  NoInit = NoInit
  BadInit = BadInit
  Word <- MCWord
  Images <- MCImages
  SwdImages <- MCSwd
  StartPackets <- MCAllPackets
  Links = {TRUE, FALSE}
  Restarts = FALSE
SPECIFICATION Spec
INVARIANTS TypeOK  UpdateComplete  CompleteIsSafe OverrunBlocks
PROPERTIES InvalidBeforeData
