CONSTANTS
    Calls = {c1, c2}
    Hosts = {h1}
    NoHost = NoHost
    NoCall = NoCall
    FrameParts = 1
    MaxConns = 2
    Timeouts = FALSE
    MayReenter = FALSE
SPECIFICATION FairSpec

PROPERTY BrokenCallsSettle
