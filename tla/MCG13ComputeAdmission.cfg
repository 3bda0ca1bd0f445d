SPECIFICATION Spec
CONSTANTS
  Kinds = {"render", "compute"}
  FailingSends = {"compute"}
  Capacity = 4
  StampModulus = 2
  MaxFence = 2
  MaxFaults = 0
INVARIANTS
  RefusedNeverReached
CHECK_DEADLOCK FALSE
