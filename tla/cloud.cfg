SPECIFICATION MCSpec
CONSTANTS
  a1 = a1
  a2 = a2
  Accounts = {a1, a2}
  NoAccount = NoAccount
  Interval = 3
  LoopMax = 2
  Wrap = 9
  MaxReceived = 5
  TruncatedSize = 4
  BodySizes = {2, 4, 5}
  LogSizes = {1, 3}
INVARIANTS
  SessionAsSet
  KeptAlive
  Accounted
  PublishedIsWhole
PROPERTIES
  ConnectsAtLast
  AnswersInOrder
