SPECIFICATION Spec
CONSTANTS
  Delegations = {d1, d2, d3}
  Cap = 1
  QueueCap = 3
  GroupSize = 3
  WaitSets <- OnesAndTwos
  MaxWaits = 1
INVARIANTS
  WaitsAreServed
CHECK_DEADLOCK FALSE
