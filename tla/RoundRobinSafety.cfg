SPECIFICATION Spec
CONSTANTS
    Tasks = {t1, t2, t3}
    Early = {"STOP"}
    Outside = {"STOP", "KILL"}
    t1 = t1
    t2 = t2
    t3 = t3
SYMMETRY TaskSymmetry
INVARIANTS TypeOK AllParkedAtStart OneRunner ListIsUnreaped
PROPERTIES HandlersNeverFail ImplementsDispatcher
