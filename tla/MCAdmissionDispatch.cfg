SPECIFICATION Spec
CONSTANTS
    HalfRange = 4
    QueueCapacity = 3
    PreemptionFences = {7}
    PreemptWhileOwed = FALSE
    Contexts = {c1, c2}
    NoContext = NoContext
    PagingWorkers = {p1, p2}
    RenderWorkers = {r1, r2}
    PendingCapacity = 2
    Failures = {}
    ScanoutVsync = FALSE
    PreemptDuringDelivery = FALSE
    Kinds = {"paging", "touch", "present", "render"}
    MaxFence = 3
    MaxPreemptions = 1
    MaxResets = 0
SYMMETRY WorkerSymmetry
CHECK_DEADLOCK FALSE
INVARIANTS
    ContextsCoherent
    QueueCoherent
    OnlyRenderLost
    IdleAccurate
PROPERTIES
    InOrderUndisturbed
