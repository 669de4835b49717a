SPECIFICATION Spec
CONSTANTS
    LegalAgent = legal
    ContractAgent = contract
    Answer = answer
    Second = second
    Third = third
    Templates = {research, review}
    LegalResearch = research
    MaxPlanSteps = 3
    WordCount = 2
    Scores = {1, 2}
    Ids = {answer, second, third, "extra"}
    Proposals <- MCProposals
    FailoverConfigured = TRUE
    RequestTime = 3
    PlannerTime = 2
    MinFailoverTime = 1
    MaxAttempts = 2
    Slices = 2
    DetectedSets <- MCDetectedSets
    MaxPauses = 2
INVARIANTS
    PlanFollowed
    ApprovalKept
    ResponseRight
PROPERTIES
    EventuallyAnswered
CHECK_DEADLOCK FALSE
