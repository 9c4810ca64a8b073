SPECIFICATION Spec
CONSTANTS
    g1 = g1
    g2 = g2
    g3 = g3
    m1 = m1
    m2 = m2
    m3 = m3
    m4 = m4
    m5 = m5
    f1 = f1
    None = None
    Callers = {g1}
    Publishes <- MCTwo
    Foreign = {}
    Configurations = {{"read"}}
    MaxFrames = 2
CHECK_DEADLOCK FALSE
SYMMETRY MCSymmetry
INVARIANTS
    AckIsOwn
