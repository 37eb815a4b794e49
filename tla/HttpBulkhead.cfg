CONSTANTS
    Callers = {c1}
    MaxRequests = 1
    Threshold = 1
    Timeout = 1
    Pair = {p1, p2}
    Endpoints = {e1, e2}
    CacheSize = 1
    BreakerRequests = 1
    BreakerThreshold = 2
    BreakerTimeout = 1
    RetryLimit = 2
    RetryDuration = 1
    RetryMaxInterval = 2
    MaxConcurrent = 1
    ChainAttempts = 2
    Buckets = 2
    Protection = 1
    ProbeInterval = 1
    MaxPerTick = 3
    WindowSize = 3
    WindowInterval = 2
    MaxAdds = 2
    BudgetAttempts = 3
    RatioNum = 1
    RatioDen = 3
    BudgetTotal = 7
SPECIFICATION AllSpec
INVARIANT BulkheadBounds
CHECK_DEADLOCK FALSE
