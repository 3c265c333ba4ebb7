CONSTANTS
    Calls = {c1, c2}
    Hosts = {h1, h2}
    NoHost = NoHost
    NoCall = NoCall
    FrameParts = 1
    MaxConns = 2
    Timeouts = TRUE
    MayReenter = FALSE
SPECIFICATION FairSpec
PROPERTIES
    KeepsPromise
    ConnectionGivenUp
