CONSTANTS
  ann = ann
  bob = bob
  k1 = k1
  k2 = k2
  good = good
  bad = bad
  NoRegistry = NoRegistry
  Reviewer <- MCReviewer
  Key <- MCKey
  KeysOf <- MCKeysOf
  ClockOffset <- MCClockOffset
  Assessment <- MCAssessment
  Verdict <- MCVerdict
  Registries <- MCRegistries
  Content = {c1}
  TTL = 1
  MaxReviewAge = 1
  VerifyReviewAge = 1
  Skew = 0
  ClockError = 1
  MaxTime = 3
  MaxApprovals = 3
  MaxDecisions = 2
  MaxIssued = 1
  MaxSigner = 2
SPECIFICATION Spec
INVARIANTS
  TypeOK
  AcceptedIsFresh
PROPERTIES
  AuthorityNotRevived
  IssuedIsAcceptable
  ImplementsDualControl
