SPECIFICATION FairSpec
CONSTANTS
    t1 = t1
    t2 = t2
    t3 = t3
    Tasks = {t1, t2, t3}
    Early = {}
    Outside = {"CONT"}
PROPERTIES EveryTaskGetsItsTurn SchedulerExits StraysAreStopped
