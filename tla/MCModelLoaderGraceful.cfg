\* A request calls the model while it is being unloaded.
SPECIFICATION Spec
CONSTANTS
    Requests = {r1}
    Stoppers = {s1}
    NoThread = NoThread
    MaxHandle = 1
    MaxCrashes = 0
    MaxStopFailures = 0
    ForceConfigured = FALSE
PROPERTIES
    GracefulWaitsForCalls
CHECK_DEADLOCK FALSE
