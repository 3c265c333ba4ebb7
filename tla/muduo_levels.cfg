CONSTANTS
    MaxFrames = 1
    Conns = {c1}
    IoThreads = {t1}
    Workers = {w1}
    Streams <- MCStreams
    LogThreads <- MCLogThreads
SPECIFICATION Spec
CHECK_DEADLOCK FALSE
INVARIANT
    LevelsRight
