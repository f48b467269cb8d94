SPECIFICATION Spec
CONSTANTS
    t1 = t1
    t2 = t2
    m1 = m1
    NULL = NULL
    Task = {t1, t2}
    Machine = {m1}
    Filter = {m1}
    AutoFree = {TRUE}
    MaxCycle = 1
    HostBreaks = FALSE
INVARIANT
    ExceptionReportedAlone
