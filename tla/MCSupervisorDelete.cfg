SPECIFICATION Spec
CONSTANTS
    Keys = {k1, k2}
    Backends = {b1}
    None = None
    Installs = {i1}
    Forced = {}
    Stops = {s1}
    ExactStops = {}
    Deletes = {d1}
    Upgrades = {}
    MaxPort = 3
    MaxProc = 3
    MaxRequests = 3
    MaxDir = 1
    SurvivesDeadline = FALSE
    OtherHost = FALSE
INVARIANT DeletedAreGone
CHECK_DEADLOCK FALSE
