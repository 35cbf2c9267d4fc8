SPECIFICATION Spec

CONSTANTS
    hi = hi
    lo1 = lo1
    lo2 = lo2
    idle = idle
    Task = {hi, lo1, lo2, idle}
    IdleTask = idle
    TaskPrio <- MCTaskPrio
    Slice <- MCSlice
    TickMod = 7
    Delays = {1, 2}
    Forever = Forever
    MaxNest = 1

    c1 = c1
    c2 = c2
    Client = {c1, c2}
    HeapSize = 21
    Header = 3
    MinSize = 3
    Requests = {1, 4, 9}
    MaxHeld = 2

    log1 = log1
    log2 = log2
    Logger = {log1, log2}
    NoOwner = NoOwner
    BufSize = 3
    BlkMax = 3
    FrameSizes = {1, 2}

INVARIANTS
    HighestRuns
    ReadyListed
    HeapIntact
    RefusedOnlyWhenFull
    LogsWhole
    LogsInOrder

PROPERTIES
    OnTime
    FairShare
