SPECIFICATION Spec
CONSTANTS
    t1 = t1
    t2 = t2
    t3 = t3
    bad = bad
    q1 = q1
    q2 = q2
    q3 = q3
    s1 = s1
    s2 = s2
    c1 = c1
    c2 = c2
    k1 = k1
    k2 = k2
    a = a
    None = None
    Topics = {t1, t2, t3, bad}
    InvalidNames = {bad}
    Partitions = {q1, q2, q3}
    Subs = {s1}
    Callers = {c1, c2}
    Closers = {k1, k2}
    Batches <- MCBatches
    MaxTopics = 2
    MaxLog = 1
CHECK_DEADLOCK FALSE
SYMMETRY MCSymmetry
INVARIANTS
    TypeOK
    QuietAfterClose
    NobodyIsStuck
PROPERTIES
    RefusalsAreTrue
    TopicIsOneLog
