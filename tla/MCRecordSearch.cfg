SPECIFICATION Spec
CONSTANTS
    Nvrs = 2
    GiveUp = 2
    FillTime = 2
    MaxParts = 2
    MaxReports = 1
    MaxSearches = 2
    MaxDownloads = 1
INVARIANTS
    ButtonInTime
    AnswersItsSearch
    RowsPlayWhatTheyShow
    ShortAnswerIsWhole
