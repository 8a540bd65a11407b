SPECIFICATION Spec
CONSTANTS
    Keys = {k1, k2}
    Backends = {b1}
    None = None
    Installs = {i1}
    Forced = {}
    Stops = {}
    ExactStops = {e1}
    Deletes = {}
    Upgrades = {}
    MaxPort = 3
    MaxProc = 3
    MaxRequests = 2
    MaxDir = 1
    SurvivesDeadline = FALSE
    OtherHost = TRUE
INVARIANT MismatchMeansReplaced
CHECK_DEADLOCK FALSE
