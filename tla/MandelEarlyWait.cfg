SPECIFICATION FairSpec
CONSTANTS
    N = 3
    YChars = 7
    MayWaitEarly = TRUE
    CreateMayFail = FALSE
PROPERTIES ThreadsFinish
CHECK_DEADLOCK FALSE
