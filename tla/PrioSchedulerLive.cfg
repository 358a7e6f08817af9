SPECIFICATION FairSpec
CONSTANTS
    sh = sh
    t1 = t1
    Tasks = {sh, t1}
    Shell = sh
    NInitial = 1
    Ids = {0, 1}
PROPERTIES HighGetsProcessor TurnsAreTaken
CHECK_DEADLOCK FALSE
