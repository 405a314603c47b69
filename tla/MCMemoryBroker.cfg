CONSTANTS
  Clients = {c1, c2, c3}
  Free = Free
  MaxSessions = 2
  MaxIds = 4
SPECIFICATION Spec
INVARIANTS
  TypeOK
  AnswersReachTheirCaller
  OneProxy
CHECK_DEADLOCK FALSE
SYMMETRY ClientSymmetry
