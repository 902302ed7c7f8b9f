---------------------------- MODULE DualControl ----------------------------
(* What the release boundary promises, without clocks, signatures, files or *)
(* receipts: an item (one assessment placed at one content slot of a CMS)   *)
(* is released only if its assessment says GO and, under the trust in force *)
(* at that moment, a rights reviewer and another person who is release      *)
(* manager have both consented to exactly this item.                        *)

CONSTANTS Reviewer,   \* the people who may review
          Item,       \* what can be released
          Go          \* the items whose assessment says GO

VARIABLES trust,      \* trust[p]: the role person p is trusted with now
          consent,    \* the <<person, item>> pairs consented to so far
          released    \* the items released so far

vars == <<trust, consent, released>>

Roles == {"RIGHTS_REVIEWER", "RELEASE_MANAGER"}

Init ==
  /\ trust \in [Reviewer -> Roles \cup {"NONE"}]
  /\ consent = {}
  /\ released = {}

(* The operator replaces the registry of trusted reviewers.                 *)
ChangeTrust ==
  /\ trust' \in [Reviewer -> Roles \cup {"NONE"}]
  /\ UNCHANGED <<consent, released>>

Consent(p, i) ==
  /\ consent' = consent \cup {<<p, i>>}
  /\ UNCHANGED <<trust, released>>

Release(i) ==
  /\ i \in Go
  /\ \A role \in Roles : \E p \in Reviewer : trust[p] = role /\ <<p, i>> \in consent
  /\ released' = released \cup {i}
  /\ UNCHANGED <<trust, consent>>

Next ==
  \/ ChangeTrust
  \/ \E p \in Reviewer, i \in Item : Consent(p, i)
  \/ \E i \in Item : Release(i)

Spec == Init /\ [][Next]_vars
=============================================================================
