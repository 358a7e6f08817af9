SPECIFICATION FairSpec
CONSTANTS
    sh = sh
    t1 = t1
    t2 = t2
    Tasks = {sh, t1, t2}
    Shell = sh
    NInitial = 1
    Ids = {0, 2}
INVARIANTS ListIsUnreaped RepliesAreTrue
PROPERTIES NothingFails ImplementsDispatcher EveryRequestIsAnswered
CHECK_DEADLOCK FALSE
