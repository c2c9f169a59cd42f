SPECIFICATION Spec
CONSTANTS
  NoRun = NoRun
  Runs = {r1, r2}
  SlotCount = 1
  MaxSpawn = 1
  MaxEdits = 0
  MaxRestarts = 0
  StopRequests = TRUE
  Overlaps = {}
  DiskFaults = {}
CHECK_DEADLOCK FALSE
INVARIANT SlotExclusive
