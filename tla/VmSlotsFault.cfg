SPECIFICATION Spec
CONSTANTS
  NoRun = NoRun
  Runs = {r1, r2}
  SlotCount = 1
  MaxSpawn = 1
  MaxEdits = 1
  MaxRestarts = 0
  StopRequests = FALSE
  Overlaps = {}
  DiskFaults = {"copy"}
CHECK_DEADLOCK FALSE
INVARIANT NoLostFilesAlways
