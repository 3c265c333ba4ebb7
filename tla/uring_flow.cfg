CONSTANTS
    Fds = {fd1}
    Contexts = {c1}
    None = None
    Workers = {w1, w2}
    SqSize = 8
    NBufs = 1
    ChunkUnits = 3
    FrameUnits = 2
    RespUnits = 2
    MaxConns = 1
    MaxUnits = 8
    kMaxInflightPerConn = 1
    MaySerializeFail = FALSE
SPECIFICATION FairSpec
INVARIANTS
    SendBufferStable
    PendingExact
    PendingBounded
    ConnectionsNotDeaf
    NoLostWakeup
PROPERTIES
    RequestsSettle
