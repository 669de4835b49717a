SPECIFICATION Spec
CONSTANTS
    Answers = {a1, a2}
    Calls = {search, send, forbidden, delegate, barred}
    Gated = {send}
    Denied = {forbidden, barred}
    Delegations = {delegate, barred}
    RetrieverAllowed = TRUE
    MaxAttempts = 2
    NoText = NoText
    NoCall = NoCall
    Message = Message
    Limits <- RunLimits
INVARIANTS UnverifiedNotShown
CHECK_DEADLOCK FALSE
