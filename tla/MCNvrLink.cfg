CONSTANTS
    Nvrs <- MCNvrs
    Fds <- MCFds
    OUTSIDE = OUTSIDE
    NONE = NONE
    HearMax = 2
    MaxOutside = 1
SPECIFICATION Spec
INVARIANTS
    NoFdLeak
    NoForeignClose
    StatusTellsTruth
    CommandReachesItsNvr
