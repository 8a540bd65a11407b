SPECIFICATION FairSpec
CONSTANTS
    MaxHistoryItems = 1
    CompactionTrigger = 2
    MaxItems = 0
    MaxCallItems = 0
    MaxDeletes = 0
    MaxVADs = 1
    MaxResponses = 2
    maxAssistantToolTurns = 1
    StreamLLM = FALSE
    TokenLimits = {NoLimit}
    NoLimit = NoLimit
    low = low
INVARIANTS NoneOutlivesSession OneLive
PROPERTIES IsSessionTree SessionEnds CompactionEnds
CHECK_DEADLOCK FALSE
