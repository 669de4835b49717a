SPECIFICATION SavedSpec
CONSTANTS
    a = a
    b = b
    w1 = w1
    w2 = w2
    t1 = t1
    t2 = t2
    Writers = {w1, w2}
    Chats = {t1, t2}
    Teams <- MCTeams
    Contents = {a, b}
    Profile = {a}
    Cost <- MCCost
    MaxIds = 2
    MaxDay = 1
    Retention = 1
    Limit = 1
    BatchSize <- MCBatchSize
    TopK = 2
    MaxProfile = 1
    MaxTokens = 3
INVARIANTS
    RowsRight
    SelectionRight
PROPERTIES
    TransactionsEnd
CHECK_DEADLOCK FALSE
