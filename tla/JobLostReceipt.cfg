SPECIFICATION SpecFromTransformed
CONSTANTS
  Request = {r1, r2}
  None = None
  MaxRequests = 6
  MaxFaults = 1
SYMMETRY Symmetry
CHECK_DEADLOCK FALSE
INVARIANTS
  DestroyedHasReceipt
