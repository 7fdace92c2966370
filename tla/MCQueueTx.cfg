\* Two webhooks of one source, two workers, two requests at a time.
SPECIFICATION Spec
CONSTANTS
    Hooks <- MCHooks
    Sources = {s1}
    SourceOf <- MCOneSource
    Workers = {w1, w2}
    Requests = {r1, r2}
    MaxClaims = 2
    MaxInterference = 2
SYMMETRY MCSymmetry
INVARIANTS
    TypeOK
    NoLockCycle
    OpenAttemptIsCurrent
    PauseReachesLaterClaims
PROPERTIES
    StepsOfTheQueue
CHECK_DEADLOCK FALSE
