SPECIFICATION Spec
CONSTANTS
    Turns = {t1, t2}
    Streams = {t1}
    RequestsPerMinute = 1
    DailyQuota = 5
    ReportAt = 4
    RequestQuota = 3
    PromptSizes = {1, 2}
    BilledSizes = {0, 2, 3}
    Parallel = 2
    MaxCalls = 3
    MaxDays = 2
    Faults = {"call", "orchestrator", "save", "record", "crash", "disconnect"}
INVARIANTS
    UsageRight
    TurnWhole
PROPERTIES
    RefusedForGood
    EventuallyCounted
CHECK_DEADLOCK FALSE
