SPECIFICATION KFairSpec
CONSTANTS
    c1 = c1
    c2 = c2
    c3 = c3
    k1 = k1
    k2 = k2
    Children = {c1,c2,c3}
    Teachers = {k1,k2}
    Ratio = 2
INVARIANTS KTypeOK CountersAreRight EnoughTeachers NotAllAsleep
PROPERTIES KeepsMoving
