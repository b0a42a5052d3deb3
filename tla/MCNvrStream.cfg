SPECIFICATION FairSpec
CONSTANTS
    Messages <- MCMessages
    Hdr = 3
    MaxSize = 5
    MaxBreaks = 2
PROPERTIES
    LosesNothingInStep
    ImplementsPacketFeed
    Arrives
CHECK_DEADLOCK FALSE
