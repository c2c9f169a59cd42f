SPECIFICATION Spec
CONSTANTS
  RunCount = 1
  SlotCount = 1
  MaxMsgs = 3
  MaxSpawn = 3
  MaxCalls = 3
  MaxRestarts = 0
  Timing = "quiet"
  Features = {}
  Faults = {"crash"}
CHECK_DEADLOCK FALSE
INVARIANTS NoLostMessageAlways
