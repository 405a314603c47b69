SPECIFICATION Spec
CONSTANTS
  Requests <- AnyRequest
  Watchdog = TRUE
  MaxEvents = 3
INVARIANTS
  RestartAgrees
CHECK_DEADLOCK FALSE
