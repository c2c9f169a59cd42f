SPECIFICATION Spec
CONSTANTS
  RunCount = 1
  SlotCount = 1
  MaxMsgs = 2
  MaxSpawn = 2
  MaxCalls = 2
  MaxRestarts = 1
  Timing = "quiet"
  Features = {}
  Faults = {}
CHECK_DEADLOCK FALSE
INVARIANTS OneWorkerAlways

