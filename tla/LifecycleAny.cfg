SPECIFICATION Spec
CONSTANTS
  RunCount = 1
  SlotCount = 1
  MaxMsgs = 2
  MaxSpawn = 2
  MaxCalls = 2
  MaxRestarts = 0
  Timing = "any"
  Features = {"idle", "stop", "archive", "repos", "slow", "tardy"}
  Faults = {"setup", "clone", "provision", "mount", "persist", "boot", "crash"}
CHECK_DEADLOCK FALSE
INVARIANTS SetupHasOwner

