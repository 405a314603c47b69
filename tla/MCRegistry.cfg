SPECIFICATION Spec
CONSTANTS
  Delegations = {d1, d2, d3}
  Cap = 2
  QueueCap = 2
  GroupSize = 3
  WaitSets <- OnesAndTwos
  MaxWaits = 1
INVARIANTS
  TypeOK
  SlotsMatchChildren
  EndIsTold
  WireInOrder
  OtherWaitsAreServed
PROPERTIES
  KeepsContract
  QueuedIsServed
CHECK_DEADLOCK FALSE
