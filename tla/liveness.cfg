SPECIFICATION FairSpec
CONSTANTS
  two = two
  one = one
  bad = bad
  Contents = {two}
  NoLines = NoLines
  ValidLines <- MCValidLines
  Keys = {0, 1}
  Oversized = {}
  NvsFaults = FALSE
  RetryInitial = 1
  RetryMax = 1
  MaxRevision = 2
  Environment = {}
PROPERTIES
  RequestServed
  CycleEnds
  RetriedUntilDelivered
