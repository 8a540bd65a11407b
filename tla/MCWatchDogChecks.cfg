SPECIFICATION FairSpec
CONSTANTS
    m1 = m1
    m2 = m2
    m3 = m3
    m4 = m4
    Models = {m1, m2}
    NoModel = NoModel
    Requests = {r1, r2}
    WD = WD
    MaxAddress = 2
    MaxUnloads = 1
    MaxRetries = 2
    LRULimit = 1
    Groups <- NoGroups
    Pinned = {m2}
    ForceEviction = FALSE
    BusyCheck = TRUE
    IdleCheck = TRUE
    MemoryCheck = TRUE
    SerialLoads = FALSE
    DeadlinesExpire = TRUE
INVARIANTS BusyMatchesCalls EvictsOnlyEligible
PROPERTIES LoadsFinish
CHECK_DEADLOCK FALSE
