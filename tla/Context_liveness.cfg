SPECIFICATION FairSpec
CONSTANTS
    t1 = t1
    t2 = t2
    t3 = t3
    t4 = t4
    NULL = NULL
    Task = {t1, t2, t3}
    Programs = {{"catch", "reset", "continue", "event", "abort", "uncaught"},
                {"catch", "closeVM", "contexts"}}
    MaxDeep = 2
PROPERTIES
    ClosingEnds
    CatcherRuns
