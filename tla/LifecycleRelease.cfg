SPECIFICATION Spec
CONSTANTS
  RunCount = 1
  SlotCount = 1
  MaxMsgs = 2
  MaxSpawn = 3
  MaxCalls = 2
  MaxRestarts = 0
  Timing = "attached"
  Features = {"idle"}
  Faults = {}
CHECK_DEADLOCK FALSE
INVARIANTS OneWorker

