SPECIFICATION Spec
CONSTANTS
    m1 = m1
    m2 = m2
    m3 = m3
    m4 = m4
    Models = {m1, m2}
    NoModel = NoModel
    Requests = {r1, r2}
    WD = WD
    MaxAddress = 2
    MaxUnloads = 0
    MaxRetries = 1
    LRULimit = 1
    Groups <- NoGroups
    Pinned = {}
    ForceEviction = TRUE
    BusyCheck = FALSE
    IdleCheck = FALSE
    MemoryCheck = FALSE
    SerialLoads = FALSE
    DeadlinesExpire = FALSE
INVARIANTS LimitKept
CHECK_DEADLOCK FALSE
