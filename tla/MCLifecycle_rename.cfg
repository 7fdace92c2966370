\* One process; the configured address changes, the password does not.
SPECIFICATION FairSpec
CONSTANTS
    Processes = {p1}
    Pool = {g1}
    Configs <- MCRenamed
    RetentionEnabled = FALSE
    ShutdownTimeout = 1
    MaxRequests = 1
    MaxInterference = 1
PROPERTIES
    AccountMatchesConfig
