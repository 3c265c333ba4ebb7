CONSTANTS
    Fds = {fd1, fd2}
    Contexts = {c1, c2}
    None = None
    Workers = {w1}
    SqSize = 2
    NBufs = 1
    ChunkUnits = 1
    FrameUnits = 1
    RespUnits = 1
    MaxConns = 2
    MaxUnits = 1
    kMaxInflightPerConn = 2
    MaySerializeFail = FALSE
SPECIFICATION FairSpec
PROPERTY RequestsSettle
