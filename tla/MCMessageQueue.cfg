CONSTANTS
    c1 = c1
    c2 = c2
    Consumers <- ConsumersMC
    MaxQueueSize = 2
    ProducedBound = 5
    ValidateBound = 1
SPECIFICATION MQFairSpec
CHECK_DEADLOCK FALSE
INVARIANTS
    HoldsNewestRun
    NoLostWakeup
PROPERTIES
    ShutdownReleasesConsumers
    ImplementsFifo
