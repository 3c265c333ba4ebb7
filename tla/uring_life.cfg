CONSTANTS
    Fds = {fd1, fd2}
    Contexts = {c1, c2}
    None = None
    Workers = {w1}
    SqSize = 2
    NBufs = 1
    ChunkUnits = 2
    FrameUnits = 1
    RespUnits = 1
    MaxConns = 2
    MaxUnits = 2
    kMaxInflightPerConn = 2
    MaySerializeFail = FALSE
SPECIFICATION Spec
SYMMETRY Symmetry
INVARIANTS
    TypeOK
    IInv
    ContextPartition
    InflightExact
    HandlersOnLiveContexts
    DescriptorsOwned
    LiveOpsOnOwnSocket
    ResponsesToAsker
    PermanentOps
    BuffersConserved
PROPERTY RecycledUntouched
