SPECIFICATION Spec
CONSTANTS
  Key = {k1}
  Input = {i1, i2}
  Request = {r1, r2, r3}
  None = None
  LeaseSeconds = 2
  MaxClock = 5
  MaxCrashes = 1
SYMMETRY Symmetry
INVARIANTS
  TypeOK
  SingleLiveHolder
  NewestAttemptDecides
  DeliveredIsStored
PROPERTIES
  KeepsPromise
