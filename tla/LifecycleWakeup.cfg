SPECIFICATION FairSpec
CONSTANTS
  RunCount = 2
  SlotCount = 1
  MaxMsgs = 1
  MaxSpawn = 2
  MaxCalls = 2
  MaxRestarts = 0
  Timing = "quiet"
  Features = {"idle"}
  Faults = {"provision"}
CHECK_DEADLOCK FALSE

PROPERTIES QueuedStarts
