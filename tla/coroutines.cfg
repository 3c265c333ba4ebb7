CONSTANTS
    Frames = {f1, f2, f3}
    Main = Main
    None = None
    SqEntries = 1
    MaxSteps = 8
    MaxFaults = 1
SPECIFICATION FairSpec
INVARIANTS
    WakersExact
    NoLeak
PROPERTY
    SyncWaitReturns
