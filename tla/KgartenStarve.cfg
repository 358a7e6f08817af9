SPECIFICATION LuckySpec
CONSTANTS
    c1 = c1
    k1 = k1
    Children = {c1}
    Teachers = {k1}
    Ratio = 1
PROPERTIES EveryoneReenters
