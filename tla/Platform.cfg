SPECIFICATION ServicesSpec
CONSTANTS
  Parts = {"desk", "tools", "stream", "files", "autos", "hooks", "rates"}
  Runs = {r1}
  Limit = 1
  MaxProcs = 1
  MaxSent = 1
  MaxStarts = 1
  MaxStops = 0
  MaxCuts = 0
  DeskFaults = {}
  Reads = {"read"}
  Greps = {}
  Bashes = {}
  Sleeps = {"sleep"}
  Edits = {"edit"}
  MaxTools = 2
  WrapAt = 1
  MaxSockets = 1
  MaxEvents = 2
  MaxBreaks = 0
  Jobs = {j1, j2}
  VmSlots = 1
  PoolSize = 1
  StoreMax = 1
  MaxCopies = 2
  MaxRefills = 1
  MaxAsked = 1
  FileFaults = {"clone", "kill", "install", "copy", "worker"}
  AutoCount = 2
  MaxClock = 2
  MaxTicks = 2
  MaxFired = 3
  MaxEdits = 1
  AutoFaults = {"throw", "crash", "followUp"}
  MaxSubscriptionWakes = 2
  MaxCiAutofix = 1
  MaxKeys = 2
  MaxHooks = 3
  Deliveries <- SomeDeliveries
  HookFaults = {"throw", "archive"}
  MaxPosts = 0
  MaxCrashes = 0
  MaxLoads = 0
  MaxSaves = 2
  StoreFaults = {}
  Sessions = {s1, s2}
  PerWindow <- SomeRates
  Burst <- SomeBursts
  AtOnce <- FewAtOnce
  Window = 3
  StepTtl = 2
  MaxMoment = 4
  MaxChats = 3
  MaxAsks = 4
  MaxViewers = 2
SYMMETRY RunSymmetry
CONSTRAINT Small
CHECK_DEADLOCK FALSE
INVARIANTS ServicesTypeOK WorkKept CleanBuilds FiresOnce WakesOnce LeasesCounted RateHolds
