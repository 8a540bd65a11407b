SPECIFICATION Spec
CONSTANTS
    m1 = m1
    m2 = m2
    m3 = m3
    m4 = m4
    Models = {m1, m2, m3, m4}
    NoModel = NoModel
    Requests = {r1, r2, r3}
    WD = WD
    MaxAddress = 3
    MaxUnloads = 1
    MaxRetries = 2
    LRULimit = 2
    Groups <- OneGroup
    Pinned = {m4}
    ForceEviction = TRUE
    BusyCheck = FALSE
    IdleCheck = FALSE
    MemoryCheck = FALSE
    SerialLoads = TRUE
    DeadlinesExpire = FALSE
SYMMETRY Symmetry
INVARIANTS LimitKept GroupsExclusive NothingEscapes
CHECK_DEADLOCK FALSE
