SPECIFICATION FairSpec
CONSTANTS
    Admins = {t1}
    Models = {}
    Kinds = {"lru"}
    NoAdmin = NoAdmin
PROPERTIES RestartReturns
CHECK_DEADLOCK FALSE
