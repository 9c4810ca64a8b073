SPECIFICATION Spec
CONSTANTS
    c1 = c1
    c2 = c2
    h1 = h1
    h2 = h2
    h3 = h3
    h4 = h4
    Conns = {c1, c2}
    Headers = {h1, h2, h3, h4}
    NoHeader = NoHeader
    Scenarios <- MCScenarios
    Base = 10
    Len16 = 1
    Len32 = 2
    Len64 = 4
    IntMax = 49
    MaxPayload = 12
    Magic = 7
    Version = 1
    MaxTopicNameLen = 3
    Control = {0}
    Noise = {0, 1, 2, 8}
    MaxTopics = 4
    MaxCalls = 2
    StreamBatch = 2
    MaxLog = 2
    Cuts = {0, 8}
CHECK_DEADLOCK FALSE
SYMMETRY MCSymmetry
INVARIANTS
    NothingMisread
    CallIsCarriedOut
    StoredFitsPush
    PushedIsLog
    HeadersExclusive
PROPERTIES
    RemoteIsOneLog
