SPECIFICATION Spec
CONSTANTS
  r1 = r1
  r2 = r2
  r3 = r3
  r4 = r4
  Request <- MCRequest
  Handler <- MCRequest
  Maker <- MCRequest
  Limit = 2
  Entity <- MCEntity
  Detected <- MCDetected
  RetainedKinds <- MCRetainedKinds
  MaxOutputs = 1
  MaxRestarts = 1
CHECK_DEADLOCK FALSE
SYMMETRY MCSymmetry
INVARIANTS
  TypeOK
  PermitsAreHandedOn
  AnalysisIsOfOnePiece
  ExcusedByReviewer
  OneIdentity
