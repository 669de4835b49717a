SPECIFICATION HistorySpec
CONSTANTS
    TurnCount = 3
    MaxOpen = 2
    KeepLimit = 2
    FetchLimit = 4
    PageSize = 3
    SummaryTokens = 2
    SystemTokens = 1
    MemoryTokens = 1
    Windows = {1, 2, 3, 5}
    Contexts <- MCContexts
INVARIANTS
    HistoryRight
    PromptTrimmed
PROPERTIES
    TurnsEnd
CHECK_DEADLOCK FALSE
