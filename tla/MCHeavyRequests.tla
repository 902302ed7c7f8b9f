---------------------------- MODULE MCHeavyRequests ----------------------------
(* A file with an ambiguous name, an e-mail address and a QR code in it.    *)
EXTENDS HeavyRequests, TLC

CONSTANTS r1, r2, r3, r4

MCRequest == {r1, r2, r3, r4}

MCThreeRequests == {r1, r2, r3}

MCEntity == {"name", "mail", "code"}

Name == [entity |-> "name", kind |-> "context", review |-> "PENDING"]
Mail == [entity |-> "mail", kind |-> "direct", review |-> "NOT_REQUIRED"]
Code == [entity |-> "code", kind |-> "visual", review |-> "PENDING"]

MCDetected == <<Name, Code>>

MCMailDetected == <<Mail, Name, Name>>

MCRetainedKinds == {}

MCSymmetry == Permutations(MCRequest)
=============================================================================
