SPECIFICATION Spec
CONSTANTS
    Keys = {k1, k2}
    Backends = {b1}
    None = None
    Installs = {i1}
    Forced = {}
    Stops = {}
    ExactStops = {}
    Deletes = {}
    Upgrades = {}
    MaxPort = 3
    MaxProc = 3
    MaxRequests = 1
    MaxDir = 1
    SurvivesDeadline = TRUE
    OtherHost = FALSE
INVARIANT PortReserved
CHECK_DEADLOCK FALSE
