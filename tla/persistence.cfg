SPECIFICATION Spec
CONSTANTS
  two = two
  one = one
  bad = bad
  Contents = {two, one}
  NoLines = NoLines
  ValidLines <- MCValidLines
  Keys = {0}
  Oversized = {one}
  NvsFaults = TRUE
  RetryInitial = 1
  RetryMax = 1
  MaxRevision = 2
  Environment = {"persist_switch", "power_cut", "lazy_preferences"}
INVARIANTS
  StateMatchesStore
PROPERTIES
  NvsMirrorsStore
  NeverFiresEarly
