SPECIFICATION FairSpec
CONSTANTS
    f1 = f1
    f2 = f2
    Frontends = {f1, f2}
    Home = f1
    WithContext = TRUE
    Stops = {s1}
    MaxTicks = 1
    MaxCrashes = 1
    MaxLag = 1
INVARIANTS OutcomeRecorded FinalWordArrives
PROPERTIES RowSettles OrphanEnds CancelArrives
CHECK_DEADLOCK FALSE
