SPECIFICATION Spec
CONSTANTS
    v1 = v1
    v2 = v2
    m1 = m1
    m2 = m2
    NULL = NULL
    Thread = {v1, v2}
    Machine = {m1, m2}
    HlistInc = 1
    MaxTasks = 2
    MaxNested = 2
SYMMETRY Symmetry
INVARIANTS
    TypeOK
    IdsAreDistinct
    WorkersAreFound
    SessionIsInnermost
    ReportsAreWhole
    SecondErrorIsLast
    HolderGoesOn
CHECK_DEADLOCK FALSE
