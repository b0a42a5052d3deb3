SPECIFICATION FairSpec
CONSTANTS
    Nvrs = {n1, n2}
    Files <- MCFiles
    MaxClicks = 2
CHECK_DEADLOCK FALSE
INVARIANTS
    DoneIsComplete
    EndIsDestroyed
PROPERTIES
    StopsWhatEnded
    DownloadEnds
