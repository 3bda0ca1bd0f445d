SPECIFICATION FairSpec
CONSTANTS
    MaxCalls = 5
INVARIANTS
    MutualExclusion
PROPERTIES
    ImplementsMutex
    AcquireReturns
    FirmwareServed
CHECK_DEADLOCK FALSE
