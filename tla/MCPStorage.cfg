SPECIFICATION FairSpec
CONSTANTS
  QSize = 4
  store = store
  erase = erase
  NoCommand = NoCommand
  Command <- MCCommand
  Rounds <- MCRounds
  Answers = {"SUCCESS", "BUSY"}
INVARIANTS TypeOK WorksOnHead
PROPERTIES KeepsOrder NeverSleeps HeadAdvances
CHECK_DEADLOCK FALSE
