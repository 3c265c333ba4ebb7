CONSTANTS
    Methods = {m1}
    Providers = {p1, p2}
    TtlSec = 3
    HttpTimeout = 0
    MaxLeases = 2
    MaxPicks = 1
    MayCompact = TRUE
SPECIFICATION FairSpec
INVARIANTS
    ViewIsSnapshot
PROPERTIES
    ConvergesUnlessStranded
    DeadLeave
