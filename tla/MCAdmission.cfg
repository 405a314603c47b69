SPECIFICATION Spec
CONSTANTS
  Delegations = {d1, d2, d3, d4, d5}
  Cap = 2
  QueueCap = 3
  GroupSize = 3
INVARIANTS
  TypeOK
  SlotsRespected
  OnePlace
  GroupDiscipline
  NoWedge
PROPERTIES
  NoOvertaking
  EventuallyServed
