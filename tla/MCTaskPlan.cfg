CONSTANTS
  Contents <- SomeContents
  Records = {r1, r2}
  Evidence = {e}
  MaxRevision = 4
  MaxEvidence = 2
SPECIFICATION Spec
INVARIANTS
  TypeOK
  RevisionNamesTheDocument
  FinishedInOrder
  WavesAreSafe
  RepeatedCallIsNoOp
CHECK_DEADLOCK FALSE
SYMMETRY RecordSymmetry
