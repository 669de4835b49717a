\* Every request, worker and purge may come to its end: nothing is left to do.
CONSTANTS
    p1 = p1
    p2 = p2
    w1 = w1
    w2 = w2
    old = old
    NoUser = NoUser
    NoRole = NoRole
    People <- MCPeople
    Requests <- MCPeople
    Workers <- MCWorkers
    OldRows <- MCOldRows
    Spellings <- MCSpellings
    Normalised <- MCNormalised
    PoolSize = 2
    MaxEdits = 1
    MaxRestarts = 1
SPECIFICATION MCSpec
INVARIANTS
    AccountsRight
    AuditRight
PROPERTIES
    StepsAllowed
    AllServed
CHECK_DEADLOCK FALSE
