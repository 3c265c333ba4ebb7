CONSTANTS
    Methods = {m1}
    Providers = {p1}
    TtlSec = 10
    HttpTimeout = 3
    MaxLeases = 1
SPECIFICATION RegSpec
CHECK_DEADLOCK FALSE
INVARIANT OneFailureTolerated
