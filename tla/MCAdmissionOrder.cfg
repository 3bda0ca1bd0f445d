SPECIFICATION Spec
CONSTANTS
    HalfRange = 6
    QueueCapacity = 3
    PreemptionFences = {7}
    PreemptWhileOwed = FALSE
    Contexts = {c1}
    NoContext = NoContext
    PagingWorkers = {p1}
    RenderWorkers = {r1}
    PendingCapacity = 2
    Failures = {}
    ScanoutVsync = FALSE
    PreemptDuringDelivery = FALSE
    Kinds = {"paging", "render"}
    MaxFence = 4
    MaxPreemptions = 1
    MaxResets = 0
CHECK_DEADLOCK FALSE
PROPERTIES
    ReportsInOrder
