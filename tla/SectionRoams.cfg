CONSTANTS
    Harts = {0, 1, 2, 3}
    StackHarts = {0, 1, 2}
    BuiltCores = {0, 1}
    BootTasks <- MTable
    Daemon = "daemon"
    BootPinned = {"cli"}
    StealFrom = 2
    MtimePerTick = 2
    DelaySpans = {4, 5}
    UsLimit = 4
    BusyUs = {TRUE, FALSE}
    Increments = {2}
    MaxMtime = 8
    t1 = t1
    t2 = t2
    Timers = {t1, t2}
    Slots = 2
    PoolSize = 3
    QueueLen = 1
    Periods = {1, 3}
    NewPeriods = {1}
    IsrTimers = {t1}
    j1 = j1
    j2 = j2
    Jobs = {j1, j2}
    EdfJobs = {j1, j2}
    ObjectWaiters = {j2}
    Retimed = {j1}
    ReleaseSlots = 2
    MaxRelease = 2
    JobPeriods = {2}
    Spans = {1}
    MaxTicks = 2
    Movers = {1, 2, 3, 4, 5}
    Kind <- MKind
    Rank <- MRank
    Home <- MHome
    PrioScale = 4
    CfsWeight = 3
    Hysteresis = 3
    StealMin = 2
    TimerPrio = 3
    BalancePeriod = 2
    MaxMoves = 4
    MaxRuntime = 1
    HeapSize = 24
    Hdr = 2
    MinBlock = 2
    AlignLog2 = 1
    SlBits = 1
    Word = 32
    Requests = {1, 6, 31}
    Pools = {1}
    BlockCounts = {2, 3}
    i1 = i1
    i2 = i2
    i3 = i3
    nil = nil
    Items = {i1, i2, i3}
    NullItem = nil
    Keys = {0, 1, 2}
    InodeCount = 3
    FdCount = 2
    DirCount = 2
    Paths <- MPaths
    Stems <- MStems
    NameMax = 2
    PathDepth = 3
    OpenFlags <- MFlags
    FirstCapacity = 2
    MaxFile = 3
    Chunks <- MChunks
    Offsets = {1}
    MaxSeek = 1
    MaxInUse = 4
    MountSlots = 2
    MpMax = 4
    MountPoints <- MMounts
    Args <- MArgs
    MaxDepth = 2
    PathMax = 8
    TrackMax = 2
    IoChunk = 1
    BenchFile <- MBench
    u1 = u1
    u2 = u2
    u3 = u3
    Tasks = {u1, u2, u3}
    Queues = {m1}
    NoQueue = NoQueue
    NoTask = NoTask
    NumCores = 2
    MaxPrio = 2
    CreationPrio <- MThreePrio
    Suspendable = {}
    Deletable = {}
    Reprioritized = {}
    Pool = {m1}
    Ceilings = {2}
    MaxRecursive = 1
    DetectDepth = 16
    DeleteHeld = FALSE
    k1 = k1
    k2 = k2
    LockCores = {0, 1}
    Callers = {k1, k2}
    NoCaller = NoCaller
    HomeOf <- MHomeOf
    Roams = TRUE
    MaxCrit = 2
    Printers = {0}
    Kickers = {k1}
    Devs = {"cpu", "uart", "plic", "clint", "ipi", "uart2", "twin"}
    NoDev = "none"
    DevName <- MDevName
    DevClass <- MDevClass
    BoardDevs <- MBoard
    MaxDevs = 6
    Sources = {1, 2}
    MaxIrqPrio = 2
    SyscallMax = 1
    SyscallMaxes = {1, 3}
    IrqTasks = {1, 2}
    Extras = {"twin"}
    Outcomes <- MOutcomes
    WakeWhileNesting = FALSE
    Parts = {"sections"}
    LineCap = 4
    HistMax = 2
    Typed = {"a", " "}
    Submitted <- MSubmitted
    MaxEntered = 3
    Listings <- MListings
    Letters <- MLetters
    Counts = {2}
    Patterns <- MPatterns
    UndoMax = 2
    ClipMax = 1
    IndexShort = FALSE
    MaxWork = 4
SPECIFICATION ServicesSpec
INVARIANTS OneInside
CHECK_DEADLOCK FALSE
