CONSTANTS
  DataFrames <- TwoData
  AckFrames <- OneAck
  BufSize = 5
  AckBufSize = 2
  MaxDamage = 3
SPECIFICATION Spec
INVARIANTS NeverDeaf
