CONSTANTS
    Methods = {m1}
    Providers = {p1}
    TtlSec = 3
    HttpTimeout = 0
    MaxLeases = 2
    MaxPicks = 0
    MayCompact = TRUE
SPECIFICATION FairSpec
PROPERTY ViewConverges
