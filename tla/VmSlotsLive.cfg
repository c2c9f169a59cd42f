SPECIFICATION FairSpec
CONSTANTS
  NoRun = NoRun
  Runs = {r1, r2}
  SlotCount = 1
  MaxSpawn = 1
  MaxEdits = 0
  MaxRestarts = 1
  StopRequests = TRUE
  Overlaps = {"slow"}
  DiskFaults = {"mount"}
CHECK_DEADLOCK FALSE
PROPERTY SlotComesBack
