\* One webhook through long histories: two processes of one worker each, three
\* disturbances of any kind.
SPECIFICATION Spec
CONSTANTS
    Hooks = {h1}
    Sources = {s1}
    SourceOf <- MCOneSource
    Workers = {w1, w2}
    Pools = {{w1}, {w2}}
    RuleAttempts = {1, 2}
    Replies = {"none", "whole"}
    MaxInterference = 3
SYMMETRY MCSymmetry
INVARIANTS
    TypeOK
    FencingTokens
    ClaimIsFresh
    RowsWakeUp
    OneOpenAttempt
    OutcomeMatchesHistory
    FailureCountMatchesHistory
    RetriesBounded
    SettledIsFinal
    ResponseFollowsHistory
PROPERTIES
    HistoryIsAppendOnly
    ActiveDeliveryUntouched
    LimitDecides
    ImplementsQueue
CHECK_DEADLOCK FALSE
