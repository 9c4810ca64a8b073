SPECIFICATION Spec
CONSTANTS
    p1 = p1
    p2 = p2
    x1 = x1
    x2 = x2
    m1 = m1
    m2 = m2
    m3 = m3
    m4 = m4
    None = None
    Callers = {p1}
    Timers = {x1, x2}
    Messages = {m1, m2, m3}
    MaxBatch = 2
    Delays = {TRUE}
    SendMayFail = FALSE
CHECK_DEADLOCK FALSE
SYMMETRY MCSymmetry
INVARIANTS
    ClosedMeansSent
