SPECIFICATION TurnFairSpec
CONSTANTS
    None = None
    small = small
    large = large
    tiny = tiny
    Callers = {small, large}
    Est <- MCEst
    MaxRequests = 3
    RequestCost = 2
    RefillRequests = 1
    InitialRequests = 4
    MaxTokens = 10
    RefillTokens = 3
    InitialTokens = 10
    MaxConcurrent = 1
    BackoffBase = 1
    BackoffFactor = 2
    BackoffMax = 3
    RetryAfters = {0, 3}
    Reports = {0, 12}
    MinDelay = 1
    MaxDelay = 2
    MaxThrottles = 2
    MaxRetries = 1
INVARIANTS
    RateConforms
    PermitFollowsTurn
PROPERTIES
    QueueIsServed
    AbortStopsTurn
    TurnEnds
