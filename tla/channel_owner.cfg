CONSTANTS
    Calls = {c1, c2, c3}
    Hosts = {h1}
    NoHost = NoHost
    NoCall = NoCall
    FrameParts = 1
    MaxConns = 2
    Timeouts = TRUE
    MayReenter = TRUE
SPECIFICATION Spec
SYMMETRY Symmetry
INVARIANTS
    PendingOwned
    OneReceiver
    DestructorSettles
CHECK_DEADLOCK FALSE
