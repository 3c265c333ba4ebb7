CONSTANTS
    Methods = {m1, m2}
    Providers = {p1}
    TtlSec = 10
    HttpTimeout = 3
    MaxLeases = 2
SPECIFICATION RegSpec
SYMMETRY Symmetry
CHECK_DEADLOCK FALSE
INVARIANTS
    ServingListed
    RenewedLeaseLives
