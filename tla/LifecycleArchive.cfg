SPECIFICATION Spec
CONSTANTS
  RunCount = 1
  SlotCount = 1
  MaxMsgs = 1
  MaxSpawn = 1
  MaxCalls = 2
  MaxRestarts = 0
  Timing = "quiet"
  Features = {"archive"}
  Faults = {}
CHECK_DEADLOCK FALSE

PROPERTIES ArchivedFinal
