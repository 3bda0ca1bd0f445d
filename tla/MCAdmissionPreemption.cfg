SPECIFICATION FairSpec
CONSTANTS
    HalfRange = 4
    QueueCapacity = 3
    PreemptionFences = {7}
    PreemptWhileOwed = FALSE
    Contexts = {c1}
    NoContext = NoContext
    PagingWorkers = {p1}
    RenderWorkers = {r1}
    PendingCapacity = 2
    Failures = {}
    ScanoutVsync = TRUE
    PreemptDuringDelivery = TRUE
    Kinds = {"present", "render"}
    MaxFence = 2
    MaxPreemptions = 2
    MaxResets = 0
CHECK_DEADLOCK FALSE
INVARIANTS
    PreemptedOnce
PROPERTIES
    OnlyRacesFault
    PreemptionAnswered
