SPECIFICATION Spec
CONSTANTS
    NULL = NULL
    a1 = a1
    a2 = a2
    a3 = a3
    a4 = a4
    a5 = a5
    Addrs = {a1, a2, a3, a4, a5}
    p1 = p1
    p2 = p2
    p3 = p3
    p4 = p4
    Pids = {p1, p2, p3, p4}
    MaxId = 5
SYMMETRY Alike
INVARIANTS RingsAreSound
PROPERTIES ImplementsTaskLists
