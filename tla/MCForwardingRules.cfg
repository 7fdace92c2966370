\* One rule, two edits at a time, five requests.
SPECIFICATION Spec
CONSTANTS
    Sources = {"github"}
    Editors = {e1, e2}
    Secrets = {"k1"}
    Headers = {"X-Sig"}
    MaxRequests = 5
SYMMETRY MCSymmetry
INVARIANTS
    TypeOK
    VerificationIsWhole
PROPERTIES
    PauseIsSeparate
CHECK_DEADLOCK FALSE
