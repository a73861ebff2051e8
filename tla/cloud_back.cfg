SPECIFICATION Spec
CONSTANTS
  two = two
  one = one
  bad = bad
  Contents = {two, one}
  NoLines = NoLines
  ValidLines <- MCValidLines
  Keys = {0, 1}
  Oversized = {}
  NvsFaults = FALSE
  RetryInitial = 1
  RetryMax = 2
  MaxRevision = 3
  Environment = {}
PROPERTIES
  CloudBackIsOfThisCycle
