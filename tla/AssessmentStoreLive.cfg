SPECIFICATION LiveSpec
CONSTANTS
  Key = {k1}
  Input = {i1, i2}
  Request = {r1, r2}
  None = None
  LeaseSeconds = 2
  MaxClock = 6
  MaxCrashes = 2
PROPERTIES
  PendingIsDecided
