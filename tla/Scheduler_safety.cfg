SPECIFICATION Spec
CONSTANTS
    t1 = t1
    t2 = t2
    t3 = t3
    m1 = m1
    m2 = m2
    NULL = NULL
    Task = {t1, t2, t3}
    Machine = {m1, m2}
    Filter = {m1, m2}
    AutoFree = {FALSE}
    MaxCycle = 1
    HostBreaks = TRUE
SYMMETRY Symmetry
INVARIANTS
    TypeOK
    NoInternalFatal
    ListsWellFormed
    RingWellFormed
    SessionInSync
PROPERTIES
    IdleMeansIdle
