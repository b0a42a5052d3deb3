SPECIFICATION SearchSpec
CONSTANTS
    Limit = 4
    Cut = 2
    MaxLogs = 8
    MaxRestarts = 2
    Asked <- MCAsked
CHECK_DEADLOCK FALSE
INVARIANTS
    Bounded
    InOrder
    SearchInOrder
PROPERTY
    ImplementsBoundedLog
