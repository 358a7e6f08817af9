SPECIFICATION FairSpec
CONSTANTS
    N = 3
    YChars = 7
    MayWaitEarly = TRUE
    CreateMayFail = TRUE
INVARIANTS PictureIsRight
PROPERTIES ImplementsPlotter IntactThreadsFinish
CHECK_DEADLOCK FALSE
