SPECIFICATION Spec
CONSTANTS
    MaxHistoryItems = 1
    CompactionTrigger = 2
    MaxItems = 2
    MaxCallItems = 3
    MaxDeletes = 1
    MaxVADs = 0
    MaxResponses = 2
    maxAssistantToolTurns = 2
    StreamLLM = TRUE
    TokenLimits = {NoLimit}
    NoLimit = NoLimit
    low = low
INVARIANTS NothingForgotten MemoryIsOlder
CHECK_DEADLOCK FALSE
