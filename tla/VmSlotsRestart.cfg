SPECIFICATION Spec
CONSTANTS
  NoRun = NoRun
  Runs = {r1, r2}
  SlotCount = 1
  MaxSpawn = 1
  MaxEdits = 0
  MaxRestarts = 1
  StopRequests = FALSE
  Overlaps = {}
  DiskFaults = {}
CHECK_DEADLOCK FALSE
PROPERTY UmountSparesWorkers
