SPECIFICATION Spec
CONSTANTS
  NoRun = NoRun
  Runs = {r1, r2}
  SlotCount = 1
  MaxSpawn = 2
  MaxEdits = 0
  MaxRestarts = 0
  StopRequests = FALSE
  Overlaps = {"again"}
  DiskFaults = {}
CHECK_DEADLOCK FALSE
INVARIANT SlotExclusive
