SPECIFICATION Spec
CONSTANTS
  Vectors <- MCVectors
  Wrap = 12
  ResponseTimeout = 2
  ReadGap = 2
  WriteGap = 3
  SilenceGap = 1
  ReplyWithin = 2
  PauseWithin = 1
  LoopWithin = 1
  MaxIdle = 8
INVARIANTS
  NeverParked
