\* Two processes with a delivery goroutine each, two disturbances.
SPECIFICATION FairSpec
CONSTANTS
    Processes = {p1, p2}
    Pool = {g1}
    Configs <- MCChanged
    RetentionEnabled = TRUE
    ShutdownTimeout = 1
    MaxRequests = 1
    MaxInterference = 2
INVARIANTS
    TypeOK
    ShutdownIsBoundedAndOrderly
PROPERTIES
    AdminSettles
