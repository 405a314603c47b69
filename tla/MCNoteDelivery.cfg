SPECIFICATION Spec
CONSTANTS
  Notes = 7
  MaxCards = 3
  RingSize = 3
INVARIANTS
  TypeOK
  EachNoteOnceInOrder
  CardsCarryResults
PROPERTIES
  HeldIsSent
CHECK_DEADLOCK FALSE
