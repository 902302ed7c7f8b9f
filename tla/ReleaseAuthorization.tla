------------------------ MODULE ReleaseAuthorization ------------------------
(* The release boundary of RightsGate (rightsgate/integration.py,           *)
(* rightsgate/release_authorization.py and their endpoints in api.py).      *)
(*                                                                          *)
(* A completed assessment is turned into a signed CMS decision receipt that *)
(* authorizes nothing.  Reviewers sign attestations for one such receipt.   *)
(* A GO receipt and the attestations of both roles, checked against the     *)
(* operator's registry file of the moment, are exchanged for a short-lived  *)
(* authorization; the CMS has it verified, against the registry and the     *)
(* clock of that later moment, before it publishes.                         *)
(*                                                                          *)
(* Commitments are collision free and signatures unforgeable, so a hash of  *)
(* a document is the document itself, and a document carries the generation *)
(* of the installation key, or the reviewer's key, that signed it.          *)
EXTENDS Integers, FiniteSets

CONSTANTS
  Reviewer,          \* people who sign attestations
  Key,               \* reviewer key pairs
  KeysOf,            \* the key pairs each person has had
  Assessment,        \* stored assessments
  Content,           \* content slots of the CMS
  Verdict,           \* the deployment decision of each assessment
  Registries,        \* registry documents the operator may install
  NoRegistry,        \* no (readable) registry file
  TTL,               \* rightsgate_release_authorization_ttl_seconds
  MaxReviewAge,      \* rightsgate_max_review_age_seconds, used at issue
  VerifyReviewAge,   \* the 86_400 seconds used at verification
  Skew,              \* the five minutes a timestamp may lie in the future
  ClockOffset,       \* how far each reviewer's clock is ahead (or behind)
  ClockError,        \* a bound on these offsets
  MaxTime, MaxDecisions, MaxApprovals, MaxIssued, MaxSigner   \* bounds of the instance

Roles == {"RIGHTS_REVIEWER", "RELEASE_MANAGER"}

(* A reviewer's entry in a registry document.                               *)
TrustedReviewer ==
  [role : Roles, key : Key, active : BOOLEAN, from : Int, until : Int]

ASSUME ReleaseAssumption ==
  /\ {TTL, Skew, ClockError, MaxReviewAge, VerifyReviewAge} \subseteq Nat
  /\ TTL > 0
  /\ MaxTime \in Nat /\ MaxSigner \in Nat \ {0}
  /\ ClockOffset \in [Reviewer -> -ClockError .. ClockError]
  /\ KeysOf \in [Reviewer -> SUBSET Key]
  /\ Verdict \in [Assessment -> {"GO", "REVIEW", "BLOCK"}]
  /\ NoRegistry \notin Registries
  /\ \A R \in Registries :
        /\ DOMAIN R \subseteq Reviewer
        /\ \A p \in DOMAIN R : R[p] \in TrustedReviewer
        /\ \A p, q \in DOMAIN R : R[p].key = R[q].key => p = q

VARIABLES
  now,        \* the clock of the installation
  signer,     \* generation of the installation's signing key
  registry,   \* what the registry file holds
  assessedAt, \* when an assessment was completed (-1: it is not)
  decisions,  \* CMS decision receipts handed out
  approvals,  \* attestations reviewers have signed
  issued,     \* payloads of the authorizations handed out
  released    \* <<assessment, content>> pairs the CMS has published

vars == <<now, signer, registry, assessedAt, decisions, approvals, issued, released>>

Decision ==
  [assessment : Assessment, content : Content,
   verdict : {"GO", "REVIEW", "BLOCK"}, at : Nat, signer : Nat]

(* "signedAt" is the true time of the signature; the code sees only "at".   *)
Attestation ==
  [reviewer : Reviewer, role : Roles, key : Key, decision : Decision,
   at : Int, signedAt : Nat]

(* The payload of an authorization refers to documents that exist.          *)
AuthorizationPayload ==
  [decision : decisions, approvals : SUBSET approvals, registry : Registries,
   issued : Nat, expires : Nat, signer : Nat]

Init ==
  /\ now = 0
  /\ signer = 1
  /\ registry \in Registries \cup {NoRegistry}
  /\ assessedAt = [a \in Assessment |-> -1]
  /\ decisions = {} /\ approvals = {} /\ issued = {} /\ released = {}

-----------------------------------------------------------------------------
(* _validate_approvals                                                      *)

(* Mutant of Trusted: the asserted role is believed.                        *)
TrustedInAnyRole(x, R) ==
  /\ x.reviewer \in DOMAIN R
  /\ R[x.reviewer].active
  /\ R[x.reviewer].key = x.key
  /\ R[x.reviewer].from =< x.at /\ x.at =< R[x.reviewer].until

(* The reviewer is listed, active, in the asserted role, with the key that  *)
(* verifies the signature, and the review lies in the key's window.         *)
Trusted(x, R) ==
  /\ x.reviewer \in DOMAIN R
  /\ R[x.reviewer].active
  /\ R[x.reviewer].role = x.role
  /\ R[x.reviewer].key = x.key
  /\ R[x.reviewer].from =< x.at /\ x.at =< R[x.reviewer].until

(* Mutant of Timely: reviews do not age.                                    *)
TimelyForEver(x, d, age) == x.at >= d.at /\ x.at =< now + Skew

Timely(x, d, age) ==
  /\ x.at >= d.at
  /\ x.at =< now + Skew
  /\ now - x.at =< age

(* A request carries the approvals of at least two distinct reviewers.      *)
Request(A) ==
  /\ Cardinality(A) \in 2 .. 10
  /\ \A x, y \in A : x.reviewer = y.reviewer => x = y

(* verify_cms_decision_receipt: signed by the key this installation has now.*)
VerifiedDecision(d) == d.signer = signer

Approved(d, A, R, age) ==
  /\ VerifiedDecision(d)
  /\ d.verdict = "GO"
  /\ \A x \in A : Trusted(x, R) /\ Timely(x, d, age) /\ x.decision = d
  /\ Roles \subseteq {x.role : x \in A}

(* _load_reviewer_registry answers 503 without a readable, valid file.      *)
RegistryLoaded == registry # NoRegistry

(* Mutant of Accepts: the bundled approvals are not compared with those the *)
(* payload was issued for.                                                  *)
AcceptsOtherApprovals(b) ==
  /\ RegistryLoaded
  /\ b.payload.expires >= now
  /\ b.payload.issued =< now + Skew
  /\ b.payload.signer = signer
  /\ b.payload.registry = registry
  /\ b.payload.decision = b.decision
  /\ Request(b.approvals)
  /\ Approved(b.decision, b.approvals, registry, VerifyReviewAge)

(* verify_release_authorization_receipt, for a bundle of a signed payload   *)
(* with the decision receipt and the approvals that accompany it.           *)
Accepts(b) ==
  /\ RegistryLoaded
  /\ b.payload.expires >= now
  /\ b.payload.issued =< now + Skew
  /\ b.payload.signer = signer
  /\ b.payload.registry = registry
  /\ b.payload.decision = b.decision
  /\ b.payload.approvals = b.approvals
  /\ Request(b.approvals)
  /\ Approved(b.decision, b.approvals, registry, VerifyReviewAge)

(* What a caller can put together from documents that were really signed.   *)
Bundle == [payload : issued, decision : decisions, approvals : SUBSET approvals]

-----------------------------------------------------------------------------
(* The endpoints                                                            *)

(* build_cms_decision_receipt: deterministic, and repeats what was assessed.*)
DecisionReceipt(a, c) ==
  [assessment |-> a, content |-> c, verdict |-> Verdict[a],
   at |-> assessedAt[a], signer |-> signer]

(* Mutant of Decide: the state of the stored record is not looked at.       *)
DecideTooEarly(a, c) ==
  /\ Cardinality(decisions) < MaxDecisions
  /\ decisions' = decisions \cup {DecisionReceipt(a, c)}
  /\ UNCHANGED <<now, signer, registry, assessedAt, approvals, issued, released>>

(* create_cms_decision_receipt, for a complete assessment only.             *)
Decide(a, c) ==
  /\ assessedAt[a] # -1
  /\ Cardinality(decisions) < MaxDecisions
  /\ decisions' = decisions \cup {DecisionReceipt(a, c)}
  /\ UNCHANGED <<now, signer, registry, assessedAt, approvals, issued, released>>

(* build_release_authorization_receipt binds the decision, the approvals,   *)
(* the registry and the window in one signed payload.                       *)
Authorization(d, A) ==
  [decision |-> d, approvals |-> A, registry |-> registry,
   issued |-> now, expires |-> now + TTL, signer |-> signer]

(* Mutant of Issue: two approvals of one reviewer count as two.             *)
IssueToOneReviewer(d, A) ==
  /\ RegistryLoaded
  /\ Cardinality(issued) < MaxIssued
  /\ Approved(d, A, registry, MaxReviewAge)
  /\ issued' = issued \cup {Authorization(d, A)}
  /\ UNCHANGED <<now, signer, registry, assessedAt, decisions, approvals, released>>

(* create_release_authorization.                                            *)
Issue(d, A) ==
  /\ RegistryLoaded
  /\ Cardinality(issued) < MaxIssued
  /\ Request(A)
  /\ Approved(d, A, registry, MaxReviewAge)
  /\ issued' = issued \cup {Authorization(d, A)}
  /\ UNCHANGED <<now, signer, registry, assessedAt, decisions, approvals, released>>

(* The CMS publishes after verify_release_authorization returned true.      *)
Release(b) ==
  /\ Accepts(b)
  /\ released' = released \cup {<<b.decision.assessment, b.decision.content>>}
  /\ UNCHANGED <<now, signer, registry, assessedAt, decisions, approvals, issued>>

-----------------------------------------------------------------------------
(* The environment                                                          *)

(* execute_assessment completes an assessment (module AssessmentStore).     *)
Assess(a) ==
  /\ assessedAt[a] = -1
  /\ assessedAt' = [assessedAt EXCEPT ![a] = now]
  /\ UNCHANGED <<now, signer, registry, decisions, approvals, issued, released>>

(* A reviewer signs, in whatever role, with a clock that may be off.        *)
Approve(p, role, k, d) ==
  /\ k \in KeysOf[p]
  /\ Cardinality(approvals) < MaxApprovals
  /\ approvals' = approvals \cup
       {[reviewer |-> p, role |-> role, key |-> k, decision |-> d,
         at |-> now + ClockOffset[p], signedAt |-> now]}
  /\ UNCHANGED <<now, signer, registry, assessedAt, decisions, issued, released>>

(* The operator replaces or removes the registry file.                      *)
SetRegistry(R) ==
  /\ registry' = R
  /\ UNCHANGED <<now, signer, assessedAt, decisions, approvals, issued, released>>

(* The key file is lost; _private_key creates another on its next use.      *)
RotateSigner ==
  /\ signer < MaxSigner
  /\ signer' = signer + 1
  /\ UNCHANGED <<now, registry, assessedAt, decisions, approvals, issued, released>>

Tick ==
  /\ now < MaxTime
  /\ now' = now + 1
  /\ UNCHANGED <<signer, registry, assessedAt, decisions, approvals, issued, released>>

Next ==
  \/ \E a \in Assessment : Assess(a)
  \/ \E a \in Assessment, c \in Content : Decide(a, c)
  \/ \E p \in Reviewer, role \in Roles, k \in Key, d \in decisions : Approve(p, role, k, d)
  \/ \E d \in decisions, A \in SUBSET approvals : Issue(d, A)
  \/ \E b \in Bundle : Release(b)
  \/ \E R \in Registries \cup {NoRegistry} : SetRegistry(R)
  \/ RotateSigner
  \/ Tick

Spec == Init /\ [][Next]_vars

-----------------------------------------------------------------------------
(* Properties                                                               *)

(* Documents are well formed: a receipt exists only for a completed         *)
(* assessment and carries its verdict, an authorization only for documents  *)
(* that exist (the validators of CMSDecisionPayload and of                  *)
(* ReleaseAuthorizationPayload).                                            *)
TypeOK ==
  /\ now \in 0 .. MaxTime
  /\ signer \in 1 .. MaxSigner
  /\ registry \in Registries \cup {NoRegistry}
  /\ assessedAt \in [Assessment -> Nat \cup {-1}]
  /\ decisions \subseteq Decision
  /\ approvals \subseteq Attestation
  /\ issued \subseteq AuthorizationPayload
  /\ released \subseteq Assessment \X Content

(* Whatever is accepted rests on reviews that were really signed after the  *)
(* assessment and no longer ago than the age the verification allows, up to *)
(* the error of the reviewers' clocks, and on an authorization within its   *)
(* time to live, also when the same attestations are exchanged again and    *)
(* again for new authorizations.                                            *)
AcceptedIsFresh ==
  \A b \in Bundle : Accepts(b) =>
    /\ now =< b.payload.issued + TTL
    /\ \A x \in b.approvals :
          /\ now =< x.signedAt + VerifyReviewAge + ClockError
          /\ assessedAt[x.decision.assessment] \in 0 .. x.signedAt + ClockError

(* A refused authorization stays refused: only putting back the registry it *)
(* was issued under can make an existing authorization acceptable; no lapse *)
(* of time, key loss, new review or new receipt does.                       *)
AuthorityNotRevived ==
  [][\A b \in Bundle' :
       b.payload \in issued /\ registry' = registry /\ Accepts(b)' => Accepts(b)]_vars

(* The two checks agree: when verification allows reviews as old as issue   *)
(* does, an authorization just handed out is one the CMS can use.           *)
IssuedIsAcceptable ==
  [][MaxReviewAge =< VerifyReviewAge =>
       \A p \in issued' \ issued :
         Accepts([payload |-> p, decision |-> p.decision, approvals |-> p.approvals])']_vars

(* The role the registry file of the moment trusts a person with.           *)
RoleInForce ==
  [p \in Reviewer |->
     IF registry # NoRegistry /\ p \in DOMAIN registry /\ registry[p].active
       THEN registry[p].role ELSE "NONE"]

(* The abstract promise, as this module keeps it.                           *)
Promise == INSTANCE DualControl WITH
  Item <- Assessment \X Content,
  Go <- {a \in Assessment : Verdict[a] = "GO"} \X Content,
  trust <- RoleInForce,
  consent <- {<<x.reviewer, <<x.decision.assessment, x.decision.content>>>> : x \in approvals},
  released <- released

(* Publication needs GO and both roles, held by two people at the time of   *)
(* publication, for exactly this assessment and content slot.               *)
ImplementsDualControl == Promise!Spec
=============================================================================
