SPECIFICATION FairSpec
CONSTANTS
    Threads = {t1, t2, t3}
    Entries = {e1, e2, e3, e4}
    NoEntry = NoEntry
PROPERTIES
    IsOneLock
    NoStarvation
CHECK_DEADLOCK TRUE
