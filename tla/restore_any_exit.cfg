SPECIFICATION Spec
CONSTANTS
  MaxTries = 3
INVARIANTS
  RestoreRunsOnEveryExit
CHECK_DEADLOCK FALSE
