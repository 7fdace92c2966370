\* Two workers whose clocks differ by up to one tick, a lease of six ticks of which
\* two are reserved, four claims.
SPECIFICATION Spec
CONSTANTS
    Workers = {w1, w2}
    Lease = 6
    Timeout = 3
    Reserve = 2
    Bases = {2, 5}
    Cap = 3
    MaxInt = 7
    Skew = 1
    MaxClaims = 4
    Horizon = 14
SYMMETRY MCSymmetry
INVARIANTS
    TypeOK
    OneExchange
    LeaseCoversDelivery
PROPERTIES
    ReserveIsWhole
    RetriesBackOff
CHECK_DEADLOCK FALSE
