CONSTANTS
    Items = 4
    WorkerCounts = {2}
    MaxTokens <- MaxTokensMC
    Rate <- RateMC
    TokenEstimates = {2}
    MaxConcurrent = 1
    Timeout = 1
    MaxRetries = 2
    MaxPause = 1
    LoopDelay = 1
SPECIFICATION Spec
CHECK_DEADLOCK FALSE
INVARIANT LimitsAsDocumented
