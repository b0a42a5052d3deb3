CONSTANTS
    Nvrs <- OneNvr
    Fds <- MCFds
    OUTSIDE = OUTSIDE
    NONE = NONE
    HearMax = 2
    MaxOutside = 1
SPECIFICATION FairSpec
PROPERTIES
    LinkRecovers
