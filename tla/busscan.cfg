SPECIFICATION FairSpec
CONSTANTS
  d = d
  x = x
  Clients = {d, x}
  PlantOf <- MCPlantOf
  NoClient = NoClient
  MaxChannels = 2
  Last = 3
  ResponseCap = 2
  MaxFaults = 1
INVARIANTS
  FoundIsThere
  NoDeviceMissed
  ReadyIsLive
  NoLostWakeup
PROPERTIES
  ScanEnds
CHECK_DEADLOCK FALSE
