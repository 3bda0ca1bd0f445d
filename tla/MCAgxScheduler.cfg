SPECIFICATION Spec
CONSTANTS
    HalfRange = 5
    QueueCapacity = 3
    PreemptionFences = {7}
    PreemptWhileOwed = FALSE
INVARIANTS
    TypeOK
    PreemptedFitsArray
    FencesOrdered
    ActiveCanComplete
    OwedResubmittable
    OwedAccepted
