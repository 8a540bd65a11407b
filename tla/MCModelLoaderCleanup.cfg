\* One load fails, the load that follows it succeeds.
SPECIFICATION Spec
CONSTANTS
    Requests = {r1, r2}
    Stoppers = {s1}
    NoThread = NoThread
    MaxHandle = 2
    MaxCrashes = 0
    MaxStopFailures = 0
    ForceConfigured = FALSE
INVARIANTS
    CleanupUnloadsNothing
CHECK_DEADLOCK FALSE
