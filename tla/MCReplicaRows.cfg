SPECIFICATION FairSpec
CONSTANTS
    f1 = f1
    f2 = f2
    r1 = r1
    r2 = r2
    l1 = l1
    l2 = l2
    c1 = c1
    c2 = c2
    Slots = {s1}
    Frontends = {f1, f2}
    Requests = {r1, r2}
    Loads = {l1}
    Cleaners = {c1}
    Home <- OwnHome
    None = None
    Impatient = {r1}
    OtherHost = {s1}
    MaxRevision = 2
    Returns = FALSE
INVARIANTS StaleRowsQuarantined CountsAreBacked
PROPERTIES QuarantineEnds LeaksAreSwept
CHECK_DEADLOCK FALSE
