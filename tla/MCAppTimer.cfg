CONSTANTS
  once = once
  again = again
  Off = Off
  Timer <- MCTimer
  Period <- MCPeriod
  Ticks = {2}
  Modulus = 9
  Offset = 1
  OpQueue = 3
  Callers = {"main", "isr"}
  Latency = 1
SPECIFICATION Spec
INVARIANTS TypeOK ListIsSound NotLate
PROPERTIES KeepsTime
