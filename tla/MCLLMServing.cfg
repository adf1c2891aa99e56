SPECIFICATION FairSpec
CONSTANTS
    Standalone = {a, b}
    Hybrid = {h}
    Requests = {r1}
    Validators = {q}
    MaxTurns = 2
    MaxVersion = 2
    CacheSize = 1
    PartialRollout = TRUE
    a = a
    b = b
    h = h
    r1 = r1
    q = q
CHECK_DEADLOCK FALSE
INVARIANTS
    QuietDuringSync
    PoolUniform
    SpanCovers
    ValidatedVersion
    PoolInv
PROPERTIES
    CallsComplete
    StagesComplete
