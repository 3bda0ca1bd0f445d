SPECIFICATION FairSpec
CONSTANTS
  Kinds = {"render", "joined", "compute"}
  FailingSends = {"render", "joined"}
  Capacity = 4
  StampModulus = 2
  MaxFence = 2
  MaxFaults = 1
INVARIANTS
  EventsAccepted
  LayersAgree
  ManagerInitialised
PROPERTIES
  ImplementsJobEngine
  OnlyPendingRuns
  JobEnds
CHECK_DEADLOCK FALSE
