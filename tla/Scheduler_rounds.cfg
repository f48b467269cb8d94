SPECIFICATION OSpec
CONSTANTS
    t1 = t1
    t2 = t2
    t3 = t3
    m1 = m1
    m2 = m2
    m3 = m3
    NULL = NULL
    Task = {t1, t2, t3}
    Machine = {m1, m2, m3}
    Filter = {}
    AutoFree = {TRUE}
    MaxCycle = 1
    HostBreaks = FALSE
    Patient = t1
    Hasty = t2
SYMMETRY OSymmetry
INVARIANTS
    OvertakenAtMostTwice
PROPERTIES
    ImplementsQueues
