SPECIFICATION FairSpec
CONSTANTS
    t1 = t1
    t2 = t2
    t3 = t3
    m1 = m1
    m2 = m2
    NULL = NULL
    Task = {t1, t2}
    Machine = {m1, m2}
    Filter = {}
    AutoFree = {TRUE, FALSE}
    MaxCycle = 1
    HostBreaks = FALSE
PROPERTIES
    EveryTaskSteps
    ClosingEnds
    GoReturns
