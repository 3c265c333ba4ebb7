CONSTANTS
    Calls = {c1, c2}
    Hosts = {h1}
    NoHost = NoHost
    NoCall = NoCall
    FrameParts = 2
    MaxConns = 2
    Timeouts = TRUE
    MayReenter = FALSE
SPECIFICATION Spec
SYMMETRY Symmetry
INVARIANT FramesWhole
