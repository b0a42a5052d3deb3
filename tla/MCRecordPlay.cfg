SPECIFICATION FairSpec
CONSTANTS
    Rows = 2
    MaxPlays = 2
    MaxTry = 1
    MaxSignals = 1
PROPERTIES
    ClosesWhatEnded
    PlayingEnds
CHECK_DEADLOCK FALSE
