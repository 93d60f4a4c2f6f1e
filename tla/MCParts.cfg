CONSTANTS
  N = 16
  t1 = t1
  QSize = 3
  Timer <- OneTimer
  Sd = Sd
  NoEvent = NoEvent
  Pages = 2
  PageWords = 2
  Value = {0, 1}
  MaxLen = 3
  NoPage = 99
  DataFrames <- LineData
  AckFrames <- LineAcks
  BufSize = 5
  AckBufSize = 2
  MaxDamage = 3
  BankChunks = 2
  Word = {1, 2}
  Old <- OldImage
  Updates <- MCUpdates
  Erased = 0
SPECIFICATION PartsSpec
INVARIANTS StatesSound SdNotForgotten 
PROPERTIES KeepsPromise KeepsOrder DecidesAsAsked KeepsPages Resyncs
