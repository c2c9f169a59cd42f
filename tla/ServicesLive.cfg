SPECIFICATION ServicesFairSpec
CONSTANTS
  Parts = {"desk", "tools", "stream"}
  Runs = {r1}
  Limit = 1
  MaxProcs = 3
  MaxSent = 2
  MaxStarts = 2
  MaxStops = 0
  MaxCuts = 1
  DeskFaults = {"again", "crash", "late"}
  Reads = {}
  Greps = {"grep"}
  Bashes = {}
  Sleeps = {}
  Edits = {"edit"}
  MaxTools = 2
  WrapAt = 1
  MaxSockets = 2
  MaxEvents = 3
  MaxBreaks = 1
  Jobs = {j1}
  VmSlots = 1
  PoolSize = 1
  StoreMax = 0
  MaxCopies = 2
  MaxRefills = 1
  MaxAsked = 2
  FileFaults = {"clone", "kill", "install", "copy", "worker"}
  AutoCount = 2
  MaxClock = 2
  MaxTicks = 2
  MaxFired = 3
  MaxEdits = 1
  AutoFaults = {"throw", "crash", "followUp"}
  MaxSubscriptionWakes = 2
  MaxCiAutofix = 1
  MaxKeys = 2
  MaxHooks = 3
  Deliveries <- SomeDeliveries
  HookFaults = {"throw", "archive"}
  MaxPosts = 0
  MaxCrashes = 0
  MaxLoads = 0
  MaxSaves = 2
  StoreFaults = {}
  Sessions = {s1, s2}
  PerWindow <- SomeRates
  Burst <- SomeBursts
  AtOnce <- FewAtOnce
  Window = 3
  StepTtl = 2
  MaxMoment = 4
  MaxChats = 3
  MaxAsks = 3
  MaxViewers = 2
CHECK_DEADLOCK FALSE
PROPERTIES DeskServed TurnEndsAnyway CaughtUp
