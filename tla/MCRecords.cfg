SPECIFICATION RecordsSpec
CONSTANTS
    Callers = {c1, c2, c3}
    Names = {n1, n2}
    FsNames = {n2}
    Seed = seed
    Workers = {w1, w2}
    Earlier = {m1, m2}
    Starts <- MCStarts
    Limit = 1
    ScanLimit = 2
    MaxSecond = 2
    Faults = {"expire", "redis", "crash"}
    Null = Null
    None = None
SYMMETRY RecordsSymmetry
CHECK_DEADLOCK FALSE
INVARIANTS
    EntriesHaveRecords
    SequentialWhenAlone
    ProjectsDiffer
    PageIsRight
    ThreadHasSession
    InProgressHasWorker
    CachedAssistantIsRow
PROPERTIES
    DroppedWhenDead
    LifeCycle
