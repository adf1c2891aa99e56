CONSTANTS
    StepsPerEpoch = 3
    TotalEpochs = 3
    TotalSteps = {8, 9, 10}
    CriticWarmup = 2
    TestFreq = 2
    SaveFreq = 2
    MaxRestarts = 3
SPECIFICATION FairSpec
CHECK_DEADLOCK FALSE
INVARIANTS
    OffPolicyInv
    RestartCost
PROPERTIES
    FitEnds
