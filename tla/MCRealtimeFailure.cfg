SPECIFICATION Spec
CONSTANTS
    MaxHistoryItems = 1
    CompactionTrigger = 2
    MaxItems = 0
    MaxCallItems = 0
    MaxDeletes = 1
    MaxVADs = 0
    MaxResponses = 2
    maxAssistantToolTurns = 2
    StreamLLM = TRUE
    TokenLimits = {NoLimit}
    NoLimit = NoLimit
    low = low
PROPERTIES FailureIsRecorded
CHECK_DEADLOCK FALSE
