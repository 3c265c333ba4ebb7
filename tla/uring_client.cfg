CONSTANTS
    Fds = {3, 4}
    ReqLen = 2
    MaxBlocking = 4
    MaxAsync = 2
    Users = {"call", "blocking", "callbacks"}
    MaxFaults = 1
SPECIFICATION FairSpec
CHECK_DEADLOCK FALSE
INVARIANTS
    NothingLeftBehind
    SocketsClosed
    ResponseWhole
    CalledBackOnce
PROPERTIES
    CallReturns
