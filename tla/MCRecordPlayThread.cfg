SPECIFICATION Spec
CONSTANTS
    Rows = 2
    MaxPlays = 2
    MaxTry = 1
    MaxSignals = 1
INVARIANT
    OneRefreshThread
CHECK_DEADLOCK FALSE
