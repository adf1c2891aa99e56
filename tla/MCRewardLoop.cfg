CONSTANTS
    Items = 3
    WorkerCounts = {1, 3}
    MaxTokens <- MaxTokensMC
    Rate <- RateMC
    TokenEstimates = {2, 4}
    MaxConcurrent = 1
    Timeout = 1
    MaxRetries = 2
    MaxPause = 1
    LoopDelay = 1
SPECIFICATION FairSpec
CHECK_DEADLOCK FALSE
INVARIANTS
    BucketInv
    SlotsKept
    BatchOutcome
PROPERTIES
    LimitedBatchEnds
