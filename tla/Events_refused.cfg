SPECIFICATION Spec
CONSTANTS
    s1 = s1
    s2 = s2
    s3 = s3
    s4 = s4
    e1 = e1
    e2 = e2
    NULL = NULL
    Task = {s1, s2}
    Event = {e1, e2}
    Callbacks <- SomeCallbacks
SYMMETRY Symmetry
PROPERTIES
    RefusedStaysBound
