SPECIFICATION Spec
CONSTANTS
    MaxHistoryItems = 1
    CompactionTrigger = 2
    MaxItems = 0
    MaxCallItems = 0
    MaxDeletes = 1
    MaxVADs = 0
    MaxResponses = 2
    maxAssistantToolTurns = 1
    StreamLLM = FALSE
    TokenLimits = {NoLimit, low}
    low = low
    NoLimit = NoLimit
INVARIANTS LimitIsRestored
CHECK_DEADLOCK FALSE
