SPECIFICATION FairSpec
CONSTANTS
    p1 = p1
    p2 = p2
    s1 = s1
    s2 = s2
    r1 = r1
    r2 = r2
    a = a
    b = b
    Closer = Closer
    NoOne = NoOne
    Payloads = {a, b}
    Publishers = {p1, p2}
    Subs = {s1, s2}
    Readers = {r1}
    SubOf <- MCSubOfOne
    Batches <- MCBatches
    ReadSizes <- MCReadSizes
    StoreMayFail = FALSE
    MaxLog = 4
    MaxInt = 7
CHECK_DEADLOCK FALSE
INVARIANTS
    NoLostWakeup
    ReadMeetsContract
PROPERTIES
    UnreadIsRead
    CloseEndsRead
