CONSTANTS
  Procs = {p1, p2}
  Keys = {k1, k2}
  Values = {v1, v2}
  Absent = Absent
  NoFile = NoFile
  Never = Never
  Free = Free
SPECIFICATION Spec
INVARIANTS
  TypeOK
  StoreWritesStand
  MissedOnlyInMigration
PROPERTY KeysSurvive
CHECK_DEADLOCK FALSE
SYMMETRY StoreSymmetry
