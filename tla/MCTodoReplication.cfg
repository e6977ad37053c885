CONSTANTS
    t1 = t1
    t2 = t2
    k1 = k1
    Null = Null
    Writers = {t1, t2}
    NTodos = 3
    Workers = {k1}
    Limit = 2
    Capacity = 1
    Initially = {{1, 2, 3}, {1, 2}}
    MaxClock = 2
    MaxFaults = 1
SPECIFICATION Spec
SYMMETRY Symmetry
INVARIANT TypeOK
INVARIANT GapsAreExplained
INVARIANT EventsSuffice
CHECK_DEADLOCK FALSE
