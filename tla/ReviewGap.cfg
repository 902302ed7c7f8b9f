SPECIFICATION Spec
CONSTANTS
  r1 = r1
  r2 = r2
  r3 = r3
  r4 = r4
  Request <- MCThreeRequests
  Handler <- MCThreeRequests
  Maker <- MCThreeRequests
  Limit = 2
  Entity <- MCEntity
  Detected <- MCMailDetected
  RetainedKinds <- MCRetainedKinds
  MaxOutputs = 1
  MaxRestarts = 0
CHECK_DEADLOCK FALSE
INVARIANT
  ReviewedBeforeRelease
