SPECIFICATION Spec
CONSTANTS
  NoRun = NoRun
  Runs = {r1, r2, r3}
  SlotCount = 2
  MaxSpawn = 2
  MaxEdits = 2
  MaxRestarts = 0
  StopRequests = FALSE
  Overlaps = {}
  DiskFaults = {"mount", "restore", "copy"}
CHECK_DEADLOCK FALSE
INVARIANTS
  SlotExclusive
  WorkerKeepsSlot
  DurableIsOwn
  NoLostFiles
PROPERTY ImplementsLease
SYMMETRY RunSymmetry
