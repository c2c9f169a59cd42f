SPECIFICATION FairSpec
CONSTANTS
  RunCount = 3
  SlotCount = 1
  MaxMsgs = 1
  MaxSpawn = 3
  MaxCalls = 2
  MaxRestarts = 0
  Timing = "quiet"
  Features = {"idle"}
  Faults = {"crash"}
CHECK_DEADLOCK FALSE

PROPERTIES QueuedStarts MessageServed
