SPECIFICATION Spec
CONSTANTS
    t1 = t1
    t2 = t2
    t3 = t3
    t4 = t4
    NULL = NULL
    Task = {t1, t2, t3}
    Programs = {{"catch", "abort", "sibling"}}
    MaxDeep = 1
SYMMETRY Symmetry
PROPERTIES
    LeavesToRoot
