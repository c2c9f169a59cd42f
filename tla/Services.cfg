SPECIFICATION ServicesSpec
CONSTANTS
  Parts = {"desk", "tools", "stream", "store"}
  Runs = {r1, r2}
  Limit = 1
  MaxProcs = 2
  MaxSent = 2
  MaxStarts = 2
  MaxStops = 1
  MaxCuts = 1
  DeskFaults = {"prepare", "claim", "again", "crash", "late"}
  Reads = {"read"}
  Greps = {}
  Bashes = {"bash"}
  Sleeps = {}
  Edits = {}
  MaxTools = 3
  WrapAt = 2
  MaxSockets = 2
  MaxEvents = 3
  MaxBreaks = 1
  Jobs = {j1}
  VmSlots = 1
  PoolSize = 1
  StoreMax = 1
  MaxCopies = 1
  MaxRefills = 0
  MaxAsked = 0
  FileFaults = {}
  AutoCount = 2
  MaxClock = 2
  MaxTicks = 2
  MaxFired = 3
  MaxEdits = 0
  AutoFaults = {}
  MaxSubscriptionWakes = 2
  MaxCiAutofix = 1
  MaxKeys = 2
  MaxHooks = 3
  Deliveries <- SomeDeliveries
  HookFaults = {}
  MaxPosts = 2
  MaxCrashes = 1
  MaxLoads = 2
  MaxSaves = 2
  StoreFaults = {"torn", "mirror", "order", "disk", "slow"}
  Sessions = {s1, s2}
  PerWindow <- SomeRates
  Burst <- SomeBursts
  AtOnce <- FewAtOnce
  Window = 3
  StepTtl = 2
  MaxMoment = 4
  MaxChats = 3
  MaxAsks = 3
  MaxViewers = 2
SYMMETRY RunSymmetry
CONSTRAINT Small
CHECK_DEADLOCK FALSE
INVARIANTS HostOneWorker HostLimit OneHand RepeatsAnswered StoryOnce StoryWhole NothingForgotten PicturesKept StaysDeleted
