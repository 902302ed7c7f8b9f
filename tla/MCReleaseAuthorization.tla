----------------------- MODULE MCReleaseAuthorization -----------------------
EXTENDS ReleaseAuthorization, TLC

CONSTANTS ann, bob, k1, k2, good, bad

MCReviewer == {ann, bob}
MCKey == {k1, k2}
MCKeysOf == (ann :> {k1}) @@ (bob :> {k2})
MCClockOffset == (ann :> 1) @@ (bob :> 0)
MCAssessment == {good, bad}
MCVerdict == (good :> "GO") @@ (bad :> "REVIEW")

Entry(r, k, on, to) == [role |-> r, key |-> k, active |-> on, from |-> 0, until |-> to]

(* Both roles staffed; ann revoked and bob's key about to run out; both     *)
(* people in one role.                                                      *)
Staffed ==
  (ann :> Entry("RIGHTS_REVIEWER", k1, TRUE, 9)) @@
  (bob :> Entry("RELEASE_MANAGER", k2, TRUE, 9))
Revoked ==
  (ann :> Entry("RIGHTS_REVIEWER", k1, FALSE, 9)) @@
  (bob :> Entry("RELEASE_MANAGER", k2, TRUE, 1))
Doubled ==
  (ann :> Entry("RELEASE_MANAGER", k1, TRUE, 9)) @@
  (bob :> Entry("RELEASE_MANAGER", k2, TRUE, 9))

MCRegistries == {Staffed, Revoked, Doubled}
=============================================================================
