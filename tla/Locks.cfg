SPECIFICATION LSpec
CONSTANTS
    s1 = s1
    s2 = s2
    s3 = s3
    s4 = s4
    s5 = s5
    s6 = s6
    e1 = e1
    NULL = NULL
    Task = {s1, s2, s3, s4, s5, s6}
    Event = {e1}
    Callbacks <- OneCallback
    Kinds = {"lock", "lock2"}
    Rounds = 2
    TasksPerRound = 3
    UnlockId = 2
INVARIANTS
    MutualExclusion
    LockedCounts
PROPERTIES
    LockGranted
    ProgramEnds
CHECK_DEADLOCK FALSE
