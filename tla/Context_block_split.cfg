SPECIFICATION Spec
CONSTANTS
    t1 = t1
    t2 = t2
    t3 = t3
    t4 = t4
    NULL = NULL
    Task = {t1, t2, t3}
    Programs = {{"catch", "continue", "sibling"}}
    MaxDeep = 1
SYMMETRY Symmetry
PROPERTIES
    BlocksWhole
