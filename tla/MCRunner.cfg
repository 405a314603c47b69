SPECIFICATION Spec
CONSTANTS
  Requests <- AnyRequest
  Watchdog = TRUE
  MaxEvents = 3
INVARIANTS
  TypeOK
  SettledOnce
  TimersAreHeld
  LogTellsTheOutcome
PROPERTIES
  RunSettles
  UnretriedChildDies
CHECK_DEADLOCK FALSE
