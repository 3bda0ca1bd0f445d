SPECIFICATION FairSpec
CONSTANTS
    PacketLimit = 2
    RetryLimit = 1
    MaxReports = 2
    QuietUntil = 9
    MaxFaults = 2
    MaxStarts = 2
INVARIANTS
    NotLeftMasked
    InitialisationTimed
PROPERTIES
    StoppedQuiet
    DeliveredIntact
    Drained
    TrackpadInitEnds
CHECK_DEADLOCK FALSE
