SPECIFICATION FairSpec
CONSTANTS
  MaxTries = 3
INVARIANTS
  RestoredOrTold
  ScansOurDongle
PROPERTIES
  InterruptExits
CHECK_DEADLOCK FALSE
