SPECIFICATION FairSpec
CONSTANTS
    Requests = {r1, r2}
    Stoppers = {s1}
    NoThread = NoThread
    MaxHandle = 2
    MaxCrashes = 1
    MaxStopFailures = 1
    ForceConfigured = TRUE
INVARIANTS
    SingleFlight
    ShutdownIsAlone
    LeaderOwnsEmptySlot
    NoOrphanProcess
PROPERTIES
    IsOneSlot
    ShutdownsReturn
    RequestsReturn
CHECK_DEADLOCK FALSE
