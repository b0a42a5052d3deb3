SPECIFICATION MCSpec
CONSTANTS
    FirstYear = 2096
    LastYear = 2104
    Years = {1999, 2000, 2001, 2099, 2100, 2101}
    Given <- MCGiven
    ClockTop <- MCClockTop
    MaxPresses = 3
    Layouts <- MCLayouts
    LastGroup = 3
    FewCameras = 12
    MaxTouches = 1
    Keys <- MCKeys
    Default <- MCDefault
    Top <- MCTop
    Shipped <- MCShipped
    MaxTroubles = 3
    MaxBoots = 5
    Silence <- MCSilence
    AskPeriod = 3
    Pace = 2
    AnswerTime = 1
    MaxFaults = 4
    LcdPeriod = 4
    MaxMishaps = 4
    MaxTurns = 2
    CarCount = 2
    DoorCount = 1
    PecuCount = 2
    CameraOf <- MCCameraOf
    CarMessages <- MCCarMessages
    PecuMessages <- MCPecuMessages
    FtpFiles = 2
    Digits <- MCDigits
    CameraFiles <- MCCameraFiles
    VideoNums = {4, 6}
    MaxListed = 3
    PlaceGroups = 8
    MaxImage = 32
    SkipTicks = 3
    NameChars <- MCNameChars
    MaxName = 3
    Finds <- MCFinds
    MaxLists = 2
INVARIANTS
    WantedDayExists
    TwoBootsMend
    OwnAnswers
    TableAgrees
    NameComesOut
    DeskTellsTruth
    HearingSocketStays
PROPERTIES
    OnlyMonthsMislead
    
    PollComesNearer
    CastIsHeard
    VolumeArrives
    
    
    LossIsSeen
CHECK_DEADLOCK FALSE
