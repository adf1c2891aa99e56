CONSTANTS
    BucketSize = 2
    WeightLists <- Lists
    RolloutSizes = {1, 2, 3}
    TrainerWorldSize = 2
    MaxUpdates = 2
SPECIFICATION FairSpec
CHECK_DEADLOCK FALSE
INVARIANTS
    ChainInv
PROPERTIES
    UpdateCompletes
    ImplementsDelivery
