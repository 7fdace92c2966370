\* Two clients, three requests, a limit of two, windows of two ticks, three of them.
SPECIFICATION Spec
CONSTANTS
    Clients = {c1, c2}
    Requests = {r1, r2, r3}
    MaxAttempts = 2
    Window = 2
    Horizon = 7
SYMMETRY MCSymmetry
INVARIANTS
    TypeOK
    SlotsBounded
    SlotsAreReservations
PROPERTIES
    OldRequestsDoNotCount
    LockoutHolds
