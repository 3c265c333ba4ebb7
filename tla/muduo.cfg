CONSTANTS
    MaxFrames = 2
    Conns = {c1, c2}
    IoThreads = {t1}
    Workers = {w1}
    Streams <- MCStreams
    LogThreads <- MCLogThreads
SPECIFICATION FairSpec
CHECK_DEADLOCK FALSE
INVARIANTS
    FramesExact
    AnsweredOnce
    DropsReported
PROPERTIES
    ValidAnswered
    AllWritten
