SPECIFICATION Spec
CONSTANTS
  RunCount = 2
  SlotCount = 1
  MaxMsgs = 3
  MaxSpawn = 3
  MaxCalls = 3
  MaxRestarts = 0
  Timing = "patient"
  Features = {"idle"}
  Faults = {"setup", "provision", "mount", "persist", "boot", "crash"}
CHECK_DEADLOCK FALSE
INVARIANTS OneStarter HandleTruth OneWorker
