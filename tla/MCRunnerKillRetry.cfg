SPECIFICATION Spec
CONSTANTS
  Requests <- AnyRequest
  Watchdog = TRUE
  MaxEvents = 3
PROPERTIES
  AbortedChildDies
CHECK_DEADLOCK FALSE
