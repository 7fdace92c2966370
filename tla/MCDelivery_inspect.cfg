\* The inspect page's note on truncated responses.
SPECIFICATION Spec
CONSTANTS
    Hooks = {h1}
    Sources = {s1}
    SourceOf <- MCOneSource
    Workers = {w1}
    Pools = {{w1}}
    RuleAttempts = {2}
    Replies = {"none", "cut"}
    MaxInterference = 1
INVARIANTS
    TruncationIsShown
CHECK_DEADLOCK FALSE
