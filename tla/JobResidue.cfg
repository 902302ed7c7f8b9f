SPECIFICATION SpecFromTransformed
CONSTANTS
  Request = {r1, r2}
  None = None
  MaxRequests = 6
  MaxFaults = 0
SYMMETRY Symmetry
CHECK_DEADLOCK FALSE
INVARIANTS
  OnlyTombstoneRemains
