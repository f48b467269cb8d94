SPECIFICATION Spec
CONSTANTS
    t1 = t1
    t2 = t2
    t3 = t3
    t4 = t4
    NULL = NULL
    Task = {t1, t2, t3, t4}
    Programs = {{"catch", "reset", "event", "abort", "free"},
                {"catch", "reset", "continue", "abort"},
                {"catch", "continue", "abort", "free"},
                {"catch", "continue", "event", "abort", "uncaught"},
                {"catch", "event", "closeVM", "contexts"},
                {"catch", "reset", "sibling", "uncaught", "event"},
                {"sibling", "event", "abort", "closeVM"}}
    MaxDeep = 3
SYMMETRY Symmetry
INVARIANTS
    TypeOK
    NoInternalFatal
    OneRunner
    NobodyForgotten
    ClosersFirst
    NoDangling
    DumpSucceeds
PROPERTIES
    LeavesToRoot
    BlocksWhole
    ImplementsBranches
