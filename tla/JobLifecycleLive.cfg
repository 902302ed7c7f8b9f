SPECIFICATION LiveSpec
CONSTANTS
  Request = {r1, r2}
  None = None
  MaxRequests = 3
  MaxFaults = 1
CHECK_DEADLOCK FALSE
PROPERTIES
  ExpiredIsErased
