SPECIFICATION Spec
CONSTANTS
    HalfRange = 4
    QueueCapacity = 3
    PreemptionFences = {7}
    PreemptWhileOwed = FALSE
    Contexts = {c1}
    NoContext = NoContext
    PagingWorkers = {p1, p2}
    RenderWorkers = {r1, r2}
    PendingCapacity = 2
    Failures = {"paging", "bind", "backend", "poll"}
    ScanoutVsync = FALSE
    PreemptDuringDelivery = FALSE
    Kinds = {"paging", "render"}
    MaxFence = 2
    MaxPreemptions = 1
    MaxResets = 1
SYMMETRY WorkerSymmetry
CHECK_DEADLOCK FALSE
INVARIANTS
    OneJob
    EngineReleased
PROPERTIES
    SchedulerRefined
