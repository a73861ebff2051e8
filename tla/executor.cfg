SPECIFICATION FairSpec
CONSTANTS
  Vectors <- MCVectors
  Wrap = 12
  ResponseTimeout = 2
  ReadGap = 2
  WriteGap = 3
  SilenceGap = 1
  ReplyWithin = 2
  PauseWithin = 1
  LoopWithin = 1
  MaxIdle = 4
INVARIANTS
  RepliesThenNothing
  NeverParked
PROPERTIES
  ImplementsBatchExecutor
  ReplyIsToThisCommand
  GapHonoured
  BatchEnds
