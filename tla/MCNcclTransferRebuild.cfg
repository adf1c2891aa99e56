CONSTANTS
    BucketSize = 2
    WeightLists <- Lists
    Pool = {1, 2}
    MaxUpdates = 2
SPECIFICATION Spec
CHECK_DEADLOCK FALSE
INVARIANT RebuiltAfterChange
