SPECIFICATION Spec
CONSTANTS
  RunCount = 1
  SlotCount = 1
  MaxMsgs = 3
  MaxSpawn = 3
  MaxCalls = 3
  MaxRestarts = 2
  Timing = "attached"
  Features = {}
  Faults = {"setup", "provision", "mount", "boot", "crash"}
CHECK_DEADLOCK FALSE
INVARIANTS OneWorker NoLostMessage AnsweredOnce
