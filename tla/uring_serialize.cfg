CONSTANTS
    Fds = {fd1}
    Contexts = {c1}
    None = None
    Workers = {w1}
    SqSize = 8
    NBufs = 1
    ChunkUnits = 1
    FrameUnits = 1
    RespUnits = 1
    MaxConns = 1
    MaxUnits = 2
    kMaxInflightPerConn = 1
    MaySerializeFail = TRUE
SPECIFICATION Spec
INVARIANT PendingExact
