CONSTANTS
  a = a
  b = b
  p = p
  None = None
  Sessions = {a, b}
  Readers = {a}
  ProjectOf <- OneProject
  Window = 1
  Retention = 2
  StartCap = 1
  MaxTime = 3
  MaxMessages = 3
SPECIFICATION BusSpec
INVARIANTS
  BusTypeOK
  OnceInOrder
  NothingIsSkipped
PROPERTY BacklogStaysGated
CHECK_DEADLOCK FALSE
