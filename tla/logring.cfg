SPECIFICATION Spec
CONSTANTS
  Tasks = {main, other}
  MainTask = main
  Messages <- MCMessages
  Gates = {1, 2}
  DefaultGate = 1
  Capacity = 8
  LastLogMax = 5
  MaxOffset = 10
  Nobody = Nobody
  NoGate = NoGate
INVARIANTS
  GateIsSaved
PROPERTIES
  ResponseIsNewestUnread
