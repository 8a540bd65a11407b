\* A process crashes while two requests probe it.
SPECIFICATION Spec
CONSTANTS
    Requests = {r1, r2}
    Stoppers = {s1}
    NoThread = NoThread
    MaxHandle = 2
    MaxCrashes = 1
    MaxStopFailures = 0
    ForceConfigured = FALSE
INVARIANTS
    ReapsWhatItProbed
CHECK_DEADLOCK FALSE
