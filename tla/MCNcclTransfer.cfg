CONSTANTS
    BucketSize = 2
    WeightLists <- Lists
    Pool = {1, 2}
    MaxUpdates = 2
SPECIFICATION FairSpec
CHECK_DEADLOCK FALSE
INVARIANTS
    BroadcastInv
    GroupMatchesReplicas
PROPERTIES
    UpdateCompletes
    ImplementsDelivery
