CONSTANTS
  BankChunks = 4
  PageChunks = 2
  BlMaxChunks = 2
  QueueSize = 4
  Erased = Erased
  Garbage = Garbage
  NoInit = NoInit
  BadInit = BadInit
  Word <- MCWord
  Images <- MCOneImage
  SwdImages <- MCSwd
  StartPackets <- MCOnePacket
  Links = {TRUE, FALSE}
  Restarts = FALSE
SPECIFICATION FairSpec
PROPERTIES  Recovers
