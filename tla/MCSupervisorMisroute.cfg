SPECIFICATION Spec
CONSTANTS
    Keys = {k1, k2}
    Backends = {b1}
    None = None
    Installs = {i1, i2, i3}
    Forced = {}
    Stops = {}
    ExactStops = {}
    Deletes = {}
    Upgrades = {}
    MaxPort = 3
    MaxProc = 3
    MaxRequests = 3
    MaxDir = 1
    SurvivesDeadline = FALSE
    OtherHost = FALSE
INVARIANT NoMisroute
CHECK_DEADLOCK FALSE
