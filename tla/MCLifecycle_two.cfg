\* Two processes; the address changes while the first one creates its admin.
SPECIFICATION Spec
CONSTANTS
    Processes = {p1, p2}
    Pool = {g1}
    Configs <- MCChanged
    RetentionEnabled = FALSE
    ShutdownTimeout = 1
    MaxRequests = 1
    MaxInterference = 1
INVARIANTS
    OneAdmin
