\* Liveness: two webhooks of different sources, either of which may be paused.
SPECIFICATION FairSpec
CONSTANTS
    Hooks = {h1, h2}
    Sources = {s1, s2}
    SourceOf <- MCOwnSource
    Workers = {w1}
    Pools = {{w1}}
    RuleAttempts = {0}
    Replies = {"none"}
    MaxInterference = 2
PROPERTIES
    AllSettle
    ImplementsQueue
CHECK_DEADLOCK FALSE
