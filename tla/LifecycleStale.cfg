SPECIFICATION Spec
CONSTANTS
  RunCount = 1
  SlotCount = 1
  MaxMsgs = 2
  MaxSpawn = 2
  MaxCalls = 2
  MaxRestarts = 0
  Timing = "quiet"
  Features = {"idle"}
  Faults = {}
CHECK_DEADLOCK FALSE

PROPERTIES FreshWorkerServes
