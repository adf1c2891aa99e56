CONSTANTS
    TotalSamples = 7
    RequiredSamples = 1
    TriggerSyncStep = 2
    StalenessPercent = 125
    ReplicaSlots = 2
    PendingCap = 1
    TestFreq = 2
    MaxFailures = 1
SPECIFICATION FairSpec
CHECK_DEADLOCK FALSE
INVARIANTS
    StalenessBound
    QueueLag
    FinishSignalKept
    EverySampleAccounted
    PauseOwned
PROPERTIES
    Terminates
    PauseRecovered
