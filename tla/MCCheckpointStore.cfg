CONSTANTS
    Roles <- ActorCritic
    Keep = 2
    SaveFreq = 2
    TriggerSyncStep = 2
    VersionBound = 5
    CrashBound = 2
SPECIFICATION Spec
CHECK_DEADLOCK FALSE
INVARIANTS
    TrackedComplete
    BrokenOnlyWhenTorn
    LostProgress
    DiskInv
