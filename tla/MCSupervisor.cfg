SPECIFICATION Spec
CONSTANTS
    Keys = {k1, k2}
    Backends = {b1}
    None = None
    Installs = {i1, i2, f1}
    Forced = {f1}
    Stops = {s1}
    ExactStops = {e1}
    Deletes = {d1}
    Upgrades = {u1}
    MaxPort = 2
    MaxProc = 3
    MaxRequests = 3
    MaxDir = 2
    SurvivesDeadline = FALSE
    OtherHost = FALSE
SYMMETRY Symmetry
INVARIANTS PortsPartitioned PortReserved ClaimProtects AnswersIntact
CHECK_DEADLOCK FALSE
