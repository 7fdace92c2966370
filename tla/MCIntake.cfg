\* Every header of up to three parts, two secrets, numbers of eight bits.
SPECIFICATION Spec
CONSTANTS
    Secrets = {"k1", "k2"}
    Times <- MCTimes
    Tolerances = {0, 1, 2}
    Now = 20
    Headers <- MCHeaders
    Second = 8
    Half = 128
INVARIANTS
    TypeOK
    StoredIsGenuine
    GenuineIsNotRefused
CHECK_DEADLOCK FALSE
