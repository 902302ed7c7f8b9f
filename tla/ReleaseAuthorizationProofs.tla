--------------------- MODULE ReleaseAuthorizationProofs ---------------------
(* Proofs about ReleaseAuthorization for every number of reviewers,         *)
(* assessments and content slots, every set of registry documents, every    *)
(* age, time to live, skew and clock error.                                 *)
EXTENDS ReleaseAuthorization, TLAPS

(* Abbreviations that every proof may expand.                               *)
USE DEF RegistryLoaded, VerifiedDecision, DecisionReceipt, Authorization, AuthorizationPayload

(* A decision receipt repeats what was assessed.                            *)
DecisionOK(d) ==
  /\ d.verdict = Verdict[d.assessment]
  /\ d.at = assessedAt[d.assessment]
  /\ d.signer =< signer

(* An attestation was signed in the past, for a receipt that existed.       *)
ApprovalOK(x) ==
  /\ x.decision \in decisions
  /\ x.signedAt =< now
  /\ x.at = x.signedAt + ClockOffset[x.reviewer]

(* What was checked when the authorization was issued, and does not change. *)
CheckedAtIssue(p) ==
  /\ p.decision.verdict = "GO"
  /\ p.decision.signer = p.signer
  /\ Request(p.approvals)
  /\ Roles \subseteq {x.role : x \in p.approvals}
  /\ \A x \in p.approvals :
        /\ Trusted(x, p.registry)
        /\ x.decision = p.decision
        /\ x.at >= p.decision.at
        /\ x.at =< p.issued + Skew

IssuedOK(p) ==
  /\ p.issued =< now
  /\ p.expires = p.issued + TTL
  /\ p.signer =< signer
  /\ CheckedAtIssue(p)

IInv ==
  /\ TypeOK
  /\ \A d \in decisions : DecisionOK(d)
  /\ \A x \in approvals : ApprovalOK(x)
  /\ \A p \in issued : IssuedOK(p)

(* The initial states: nothing has been signed.                             *)
LEMMA InitIInv == Init => IInv
<1> SUFFICES ASSUME Init PROVE IInv
  OBVIOUS
<1>1. TypeOK
  BY ReleaseAssumption DEF Init, TypeOK
<1> QED
  BY <1>1 DEF Init, IInv

(* Completing an assessment touches no receipt: none existed for it.        *)
LEMMA AssessIInv ==
  ASSUME IInv, NEW a \in Assessment, Assess(a)
  PROVE  IInv'
<1> USE DEF Assess
<1>1. TypeOK'
  BY ReleaseAssumption DEF IInv, TypeOK
<1>2. ASSUME NEW d \in decisions' PROVE DecisionOK(d)'
  <2>1. d \in Decision /\ DecisionOK(d)
    BY DEF IInv, TypeOK
  <2>2. d.at # -1 /\ d.assessment \in Assessment
    BY <2>1 DEF Decision
  <2>3. d.assessment # a
    BY <2>1, <2>2 DEF DecisionOK
  <2> QED
    BY <2>1, <2>2, <2>3 DEF DecisionOK, IInv, TypeOK
<1>3. \A x \in approvals' : ApprovalOK(x)'
  BY DEF IInv, ApprovalOK
<1>4. \A p \in issued' : IssuedOK(p)'
  BY DEF IInv, IssuedOK, CheckedAtIssue, Request, Trusted
<1> QED
  BY <1>1, <1>2, <1>3, <1>4 DEF IInv

(* A new decision receipt repeats the stored assessment.                    *)
LEMMA DecideIInv ==
  ASSUME IInv, NEW a \in Assessment, NEW c \in Content, Decide(a, c)
  PROVE  IInv'
<1> DEFINE new == [assessment |-> a, content |-> c, verdict |-> Verdict[a],
                   at |-> assessedAt[a], signer |-> signer]
<1> USE DEF Decide
<1>0. new \in Decision
  BY ReleaseAssumption DEF IInv, TypeOK, Decision
<1>1. TypeOK'
  <2>1. decisions' \subseteq Decision
    BY <1>0 DEF IInv, TypeOK
  <2>2. decisions \subseteq decisions'
    OBVIOUS
  <2>3. issued' \subseteq
          [decision : decisions', approvals : SUBSET approvals', registry : Registries,
           issued : Nat, expires : Nat, signer : Nat]
    BY <2>2 DEF IInv, TypeOK
  <2> QED
    BY <2>1, <2>3 DEF IInv, TypeOK
<1>2. ASSUME NEW d \in decisions' PROVE DecisionOK(d)'
  <2>1. CASE d \in decisions
    BY <2>1 DEF IInv, DecisionOK
  <2>2. CASE d = new
    BY <2>2 DEF IInv, TypeOK, DecisionOK
  <2> QED
    BY <2>1, <2>2
<1>3. \A x \in approvals' : ApprovalOK(x)'
  BY DEF IInv, ApprovalOK
<1>4. \A p \in issued' : IssuedOK(p)'
  BY DEF IInv, IssuedOK, CheckedAtIssue, Request, Trusted
<1> QED
  BY <1>1, <1>2, <1>3, <1>4 DEF IInv

(* A new attestation bears the time of its reviewer's clock.                *)
LEMMA ApproveIInv ==
  ASSUME IInv, NEW p \in Reviewer, NEW role \in Roles, NEW k \in Key,
         NEW d \in decisions, Approve(p, role, k, d)
  PROVE  IInv'
<1> DEFINE new == [reviewer |-> p, role |-> role, key |-> k, decision |-> d,
                   at |-> now + ClockOffset[p], signedAt |-> now]
<1> USE DEF Approve
<1>0. new \in Attestation
  BY ReleaseAssumption DEF IInv, TypeOK, Attestation
<1>1. TypeOK'
  <2>1. approvals' \subseteq Attestation /\ approvals \subseteq approvals'
    BY <1>0 DEF IInv, TypeOK
  <2>2. issued' \subseteq
          [decision : decisions', approvals : SUBSET approvals', registry : Registries,
           issued : Nat, expires : Nat, signer : Nat]
    BY <2>1 DEF IInv, TypeOK
  <2> QED
    BY <2>1, <2>2 DEF IInv, TypeOK
<1>2. \A e \in decisions' : DecisionOK(e)'
  BY DEF IInv, DecisionOK
<1>3. ASSUME NEW x \in approvals' PROVE ApprovalOK(x)'
  <2>1. CASE x \in approvals
    BY <2>1 DEF IInv, ApprovalOK
  <2>2. CASE x = new
    BY <2>2 DEF IInv, TypeOK, ApprovalOK
  <2> QED
    BY <2>1, <2>2
<1>4. \A q \in issued' : IssuedOK(q)'
  BY DEF IInv, IssuedOK, CheckedAtIssue, Request, Trusted
<1> QED
  BY <1>1, <1>2, <1>3, <1>4 DEF IInv

(* An authorization is issued for what has just been checked.               *)
LEMMA IssueIInv ==
  ASSUME IInv, NEW d \in decisions, NEW A \in SUBSET approvals, Issue(d, A)
  PROVE  IInv'
<1> DEFINE new == [decision |-> d, approvals |-> A, registry |-> registry,
                   issued |-> now, expires |-> now + TTL, signer |-> signer]
<1> USE DEF Issue
<1>0. new \in [decision : decisions, approvals : SUBSET approvals, registry : Registries,
               issued : Nat, expires : Nat, signer : Nat]
  BY ReleaseAssumption DEF IInv, TypeOK
<1>1. TypeOK'
  BY <1>0 DEF IInv, TypeOK
<1>2. \A e \in decisions' : DecisionOK(e)'
  BY DEF IInv, DecisionOK
<1>3. \A x \in approvals' : ApprovalOK(x)'
  BY DEF IInv, ApprovalOK
<1>4. ASSUME NEW q \in issued' PROVE IssuedOK(q)'
  <2>1. CASE q \in issued
    BY <2>1 DEF IInv, IssuedOK, CheckedAtIssue, Request, Trusted
  <2>2. CASE q = new
    <3>1. CheckedAtIssue(new)
      BY DEF Approved, Timely, CheckedAtIssue
    <3>2. CheckedAtIssue(new)'
      BY <3>1 DEF CheckedAtIssue, Request, Trusted
    <3>3. now' = now /\ signer' = signer /\ now \in Nat /\ signer \in Nat
      BY ReleaseAssumption DEF IInv, TypeOK
    <3> QED
      BY <2>2, <3>2, <3>3 DEF IssuedOK
  <2> QED
    BY <2>1, <2>2
<1> QED
  BY <1>1, <1>2, <1>3, <1>4 DEF IInv

(* Steps that sign nothing: publication, a new registry, a new key, time.   *)
LEMMA QuietIInv ==
  ASSUME IInv, UNCHANGED <<assessedAt, decisions, approvals, issued>>,
         now' \in 0 .. MaxTime, signer' \in 1 .. MaxSigner, now =< now', signer =< signer',
         registry' \in Registries \cup {NoRegistry},
         released' \subseteq Assessment \X Content
  PROVE  IInv'
<1>0. now \in Int /\ signer \in Int /\ now' \in Int /\ signer' \in Int
  BY ReleaseAssumption DEF IInv, TypeOK
<1>1. TypeOK'
  BY DEF IInv, TypeOK
<1>2. ASSUME NEW d \in decisions' PROVE DecisionOK(d)'
  <2>1. d.signer \in Int /\ DecisionOK(d)
    BY DEF IInv, TypeOK, Decision
  <2> QED
    BY <1>0, <2>1 DEF DecisionOK
<1>3. ASSUME NEW x \in approvals' PROVE ApprovalOK(x)'
  <2>1. x.signedAt \in Int /\ ApprovalOK(x)
    BY DEF IInv, TypeOK, Attestation
  <2> QED
    BY <1>0, <2>1 DEF ApprovalOK
<1>4. ASSUME NEW p \in issued' PROVE IssuedOK(p)'
  <2>1. p.issued \in Int /\ p.signer \in Int /\ IssuedOK(p)
    BY DEF IInv, TypeOK
  <2>2. CheckedAtIssue(p)'
    BY <2>1 DEF IssuedOK, CheckedAtIssue, Request, Trusted
  <2> QED
    BY <1>0, <2>1, <2>2 DEF IssuedOK
<1> QED
  BY <1>1, <1>2, <1>3, <1>4 DEF IInv

(* The invariant is inductive.                                              *)
LEMMA NextIInv == IInv /\ [Next]_vars => IInv'
<1> SUFFICES ASSUME IInv, [Next]_vars PROVE IInv'
  OBVIOUS
<1>0. /\ now \in 0 .. MaxTime /\ signer \in 1 .. MaxSigner
      /\ registry \in Registries \cup {NoRegistry}
      /\ released \subseteq Assessment \X Content
      /\ MaxTime \in Nat /\ MaxSigner \in Nat
  BY ReleaseAssumption DEF IInv, TypeOK
<1>1. CASE \E a \in Assessment : Assess(a)
  BY <1>1, AssessIInv
<1>2. CASE \E a \in Assessment, c \in Content : Decide(a, c)
  BY <1>2, DecideIInv
<1>3. CASE \E p \in Reviewer, role \in Roles, k \in Key, d \in decisions :
             Approve(p, role, k, d)
  BY <1>3, ApproveIInv
<1>4. CASE \E d \in decisions, A \in SUBSET approvals : Issue(d, A)
  BY <1>4, IssueIInv
<1>5. CASE \E b \in Bundle : Release(b)
  <2> PICK b \in Bundle : Release(b)
    BY <1>5
  <2>1. b.decision \in Decision
    BY DEF Bundle, IInv, TypeOK
  <2>2. <<b.decision.assessment, b.decision.content>> \in Assessment \X Content
    BY <2>1 DEF Decision
  <2>3. released' \subseteq Assessment \X Content
    BY <1>0, <2>2 DEF Release
  <2> QED
    BY <1>0, <2>3, QuietIInv DEF Release
<1>6. CASE \E R \in Registries \cup {NoRegistry} : SetRegistry(R)
  BY <1>0, <1>6, QuietIInv DEF SetRegistry
<1>7. CASE RotateSigner
  BY <1>0, <1>7, QuietIInv DEF RotateSigner
<1>8. CASE Tick
  BY <1>0, <1>8, QuietIInv DEF Tick
<1>9. CASE UNCHANGED vars
  BY <1>0, <1>9, QuietIInv DEF vars
<1> QED
  BY <1>1, <1>2, <1>3, <1>4, <1>5, <1>6, <1>7, <1>8, <1>9 DEF Next

\* The inductive invariant holds throughout.
LEMMA Invariance == Spec => []IInv
  BY InitIInv, NextIInv, PTL DEF Spec

(* Receipts and authorizations are well formed, and refer to documents that *)
(* exist, in every reachable state.                                         *)
THEOREM TypeCorrect == Spec => []TypeOK
<1>1. IInv => TypeOK
  BY DEF IInv
<1> QED
  BY <1>1, Invariance, PTL

(* Whatever verify_release_authorization_receipt accepts rests on reviews   *)
(* signed after the assessment and within the allowed age.                  *)
THEOREM Freshness == Spec => []AcceptedIsFresh
<1>1. IInv => AcceptedIsFresh
  <2> SUFFICES ASSUME IInv, NEW b \in Bundle, Accepts(b)
               PROVE  /\ now =< b.payload.issued + TTL
                      /\ \A x \in b.approvals :
                           /\ now =< x.signedAt + VerifyReviewAge + ClockError
                           /\ assessedAt[x.decision.assessment] \in 0 .. x.signedAt + ClockError
    BY DEF AcceptedIsFresh
  <2>1. b.payload \in issued /\ b.decision \in decisions /\ b.approvals \subseteq approvals
    BY DEF Bundle
  <2>2. now =< b.payload.issued + TTL
    BY <2>1 DEF IInv, IssuedOK, Accepts
  <2>3. ASSUME NEW x \in b.approvals
        PROVE  /\ now =< x.signedAt + VerifyReviewAge + ClockError
               /\ assessedAt[x.decision.assessment] \in 0 .. x.signedAt + ClockError
    <3>1. x \in Attestation /\ ApprovalOK(x)
      BY <2>1 DEF IInv, TypeOK
    <3>2. x.decision = b.decision /\ x.at >= b.decision.at /\ now - x.at =< VerifyReviewAge
      BY DEF Accepts, Approved, Timely
    <3>3. b.decision \in Decision /\ DecisionOK(b.decision)
      BY <2>1 DEF IInv, TypeOK
    <3>4. b.decision.at = assessedAt[x.decision.assessment] /\ b.decision.at \in Nat
      BY <3>2, <3>3 DEF Decision, DecisionOK
    <3>5. /\ x.at = x.signedAt + ClockOffset[x.reviewer]
          /\ x.signedAt \in Nat /\ x.at \in Int
          /\ ClockOffset[x.reviewer] \in -ClockError .. ClockError
          /\ ClockError \in Nat /\ VerifyReviewAge \in Nat /\ now \in Nat
      BY <3>1, ReleaseAssumption DEF Attestation, ApprovalOK, IInv, TypeOK
    <3> QED
      BY <3>2, <3>4, <3>5
  <2> QED
    BY <2>2, <2>3
<1> QED
  BY <1>1, Invariance, PTL

(* A refused authorization can be made acceptable only by putting back the  *)
(* registry it was issued under.                                            *)
THEOREM NoRevival == Spec => AuthorityNotRevived
<1> DEFINE Gained(b) == b.payload \in issued /\ registry' = registry /\ Accepts(b)'
<1>1. ASSUME IInv, [Next]_vars, NEW b \in Bundle', Gained(b) PROVE Accepts(b)
  <2>1. /\ b.payload \in issued /\ registry' = registry /\ Accepts(b)'
        /\ IssuedOK(b.payload)
    BY <1>1 DEF IInv
  <2>2. now =< now' /\ signer =< signer' /\ {now, now', signer, signer'} \subseteq Int
    <3>1. {now, signer} \subseteq Int
      BY <1>1, ReleaseAssumption DEF IInv, TypeOK
    <3> QED
      BY <1>1, <3>1 DEF Next, vars, Assess, Decide, Approve, Issue, Release, SetRegistry,
                        RotateSigner, Tick
  <2>3. /\ b.payload.issued \in Int /\ b.payload.expires \in Int /\ b.payload.signer \in Int
        /\ Skew \in Nat
    BY <1>1, <2>1, ReleaseAssumption DEF IInv, TypeOK
  <2>4. /\ registry # NoRegistry
        /\ b.payload.expires >= now'
        /\ b.payload.signer = signer'
        /\ b.payload.registry = registry
        /\ b.payload.decision = b.decision
        /\ b.payload.approvals = b.approvals
        /\ Request(b.approvals)
        /\ Approved(b.decision, b.approvals, registry, VerifyReviewAge)'
    BY <2>1 DEF Accepts, Request
  <2>5. b.payload.signer = signer
    BY <2>1, <2>2, <2>3, <2>4 DEF IssuedOK
  <2>6. b.payload.expires >= now /\ b.payload.issued =< now + Skew
    BY <2>1, <2>2, <2>3, <2>4 DEF IssuedOK
  <2>7. CheckedAtIssue(b.payload)
    BY <2>1 DEF IssuedOK
  <2>8. ASSUME NEW x \in b.approvals
        PROVE  /\ Trusted(x, registry) /\ x.decision = b.decision
               /\ Timely(x, b.decision, VerifyReviewAge)
    <3>1. /\ Trusted(x, registry) /\ x.decision = b.decision
          /\ x.at >= b.decision.at /\ x.at =< b.payload.issued + Skew
      BY <2>4, <2>7 DEF CheckedAtIssue
    <3>2. x.at \in Int
      <4>1. x \in approvals
        BY <1>1, <2>1, <2>4 DEF IInv, TypeOK
      <4> QED
        BY <1>1, <4>1 DEF IInv, TypeOK, Attestation
    <3>3. now' - x.at =< VerifyReviewAge
      BY <2>4 DEF Approved, Timely
    <3>4. b.payload.issued =< now
      BY <2>1 DEF IssuedOK
    <3>5. x.at =< now + Skew /\ now - x.at =< VerifyReviewAge
      BY <2>2, <2>3, <3>1, <3>2, <3>3, <3>4, ReleaseAssumption
    <3> QED
      BY <3>1, <3>5 DEF Timely
  <2>9. Approved(b.decision, b.approvals, registry, VerifyReviewAge)
    BY <2>4, <2>5, <2>7, <2>8 DEF Approved, CheckedAtIssue
  <2> QED
    BY <2>4, <2>5, <2>6, <2>9 DEF Accepts
<1>2. IInv /\ [Next]_vars =>
        [\A b \in Bundle' :
           b.payload \in issued /\ registry' = registry /\ Accepts(b)' => Accepts(b)]_vars
  BY <1>1
<1> QED
  BY <1>2, Invariance, PTL DEF Spec, AuthorityNotRevived

(* An authorization just issued is one verification accepts.                *)
THEOREM IssuedIsUsable == Spec => IssuedIsAcceptable
<1> DEFINE Full(p) == [payload |-> p, decision |-> p.decision, approvals |-> p.approvals]
<1>1. ASSUME IInv, [Next]_vars, MaxReviewAge =< VerifyReviewAge,
             NEW p \in issued' \ issued
      PROVE  Accepts(Full(p))'
  <2>1. PICK d \in decisions, A \in SUBSET approvals : Issue(d, A)
    BY <1>1 DEF Next, vars, Assess, Decide, Approve, Issue, Release, SetRegistry,
                RotateSigner, Tick
  <2>2. p = [decision |-> d, approvals |-> A, registry |-> registry,
             issued |-> now, expires |-> now + TTL, signer |-> signer]
    BY <1>1, <2>1 DEF Issue
  <2>3. /\ registry # NoRegistry /\ Request(A)
        /\ Approved(d, A, registry, MaxReviewAge)
        /\ now' = now /\ signer' = signer /\ registry' = registry
    BY <2>1 DEF Issue
  <2>4. now \in Nat /\ TTL \in Nat /\ Skew \in Nat /\ MaxReviewAge \in Nat /\ VerifyReviewAge \in Nat
    BY <1>1, ReleaseAssumption DEF IInv, TypeOK
  <2>5. ASSUME NEW x \in A PROVE Timely(x, d, VerifyReviewAge)
    <3>1. x.at \in Int
      BY <1>1 DEF IInv, TypeOK, Attestation
    <3> QED
      BY <1>1, <2>3, <2>4, <3>1 DEF Approved, Timely
  <2>6. Approved(d, A, registry, VerifyReviewAge)'
    BY <2>3, <2>5 DEF Approved, Timely, Trusted
  <2>7. Request(A)'
    BY <2>3 DEF Request
  <2> QED
    BY <2>2, <2>3, <2>4, <2>6, <2>7 DEF Accepts
<1>2. IInv /\ [Next]_vars =>
        [MaxReviewAge =< VerifyReviewAge =>
           \A p \in issued' \ issued :
             Accepts([payload |-> p, decision |-> p.decision, approvals |-> p.approvals])']_vars
  BY <1>1
<1> QED
  BY <1>2, Invariance, PTL DEF Spec, IssuedIsAcceptable

-----------------------------------------------------------------------------
(* ReleaseAuthorization implements DualControl.                             *)

(* The mapping of trust yields roles.                                       *)
LEMMA RoleInForceType ==
  ASSUME registry \in Registries \cup {NoRegistry}
  PROVE  RoleInForce \in [Reviewer -> Promise!Roles \cup {"NONE"}]
<1> SUFFICES ASSUME NEW p \in Reviewer, registry # NoRegistry, p \in DOMAIN registry
             PROVE  registry[p].role \in Promise!Roles
  BY DEF RoleInForce
<1>1. registry[p] \in TrustedReviewer
  BY ReleaseAssumption
<1> QED
  BY <1>1 DEF TrustedReviewer, Roles, Promise!Roles

(* Publication is a step of the promise: the verdict was GO, and everyone   *)
(* whose approval counted holds the role now and signed for this very item. *)
LEMMA ReleaseKeepsPromise ==
  ASSUME IInv, NEW b \in Bundle, Release(b)
  PROVE  Promise!Next
<1> DEFINE item == <<b.decision.assessment, b.decision.content>>
           consents == {<<x.reviewer, <<x.decision.assessment, x.decision.content>>>> :
                          x \in approvals}
<1>1. b.decision \in Decision /\ DecisionOK(b.decision) /\ b.approvals \subseteq approvals
  BY DEF Bundle, IInv, TypeOK
<1>2. /\ b.decision.verdict = "GO" /\ registry # NoRegistry
      /\ \A x \in b.approvals : Trusted(x, registry) /\ x.decision = b.decision
      /\ Roles \subseteq {x.role : x \in b.approvals}
  BY DEF Release, Accepts, Approved
<1>3. item \in {a \in Assessment : Verdict[a] = "GO"} \X Content
  BY <1>1, <1>2 DEF Decision, DecisionOK
<1>4. ASSUME NEW role \in Promise!Roles
      PROVE  \E p \in Reviewer : RoleInForce[p] = role /\ <<p, item>> \in consents
  <2>1. PICK x \in b.approvals : x.role = role
    BY <1>2 DEF Roles, Promise!Roles
  <2>2. x \in approvals /\ x.reviewer \in Reviewer
    BY <1>1 DEF IInv, TypeOK, Attestation
  <2>3. RoleInForce[x.reviewer] = role
    BY <1>2, <2>1, <2>2 DEF Trusted, RoleInForce
  <2>4. <<x.reviewer, item>> \in consents
    BY <1>2, <2>2
  <2> QED
    BY <2>2, <2>3, <2>4
<1>5. released' = released \cup {item} /\ UNCHANGED <<registry, approvals>>
  BY DEF Release
<1>6. RoleInForce' = RoleInForce /\ consents' = consents
  BY <1>5 DEF RoleInForce
<1>7. Promise!Release(item)
  BY <1>3, <1>4, <1>5, <1>6 DEF Promise!Release
<1>8. item \in Assessment \X Content
  BY <1>3
<1> QED
  BY <1>7, <1>8 DEF Promise!Next

(* The detailed endpoints keep the promise of DualControl: whatever is      *)
(* published had GO and the consent of both roles in force at that moment.  *)
THEOREM Implementation == Spec => ImplementsDualControl
<1> DEFINE consents == {<<x.reviewer, <<x.decision.assessment, x.decision.content>>>> :
                          x \in approvals}
<1>1. Init => Promise!Init
  BY RoleInForceType DEF Init, Promise!Init
<1>2. IInv /\ IInv' /\ [Next]_vars => [Promise!Next]_Promise!vars
  <2> SUFFICES ASSUME IInv, IInv', [Next]_vars PROVE [Promise!Next]_Promise!vars
    OBVIOUS
  <2>1. ASSUME UNCHANGED <<registry, approvals, released>>
        PROVE  UNCHANGED Promise!vars
    BY <2>1 DEF Promise!vars, RoleInForce
  <2>2. CASE \E p \in Reviewer, role \in Roles, k \in Key, d \in decisions :
               Approve(p, role, k, d)
    <3>1. PICK p \in Reviewer, role \in Roles, k \in Key, d \in decisions :
                 Approve(p, role, k, d)
      BY <2>2
    <3>2. d \in Decision
      BY DEF IInv, TypeOK
    <3>3. <<d.assessment, d.content>> \in Assessment \X Content
      BY <3>2 DEF Decision
    <3> DEFINE new == [reviewer |-> p, role |-> role, key |-> k, decision |-> d,
                       at |-> now + ClockOffset[p], signedAt |-> now]
    <3>4. approvals' = approvals \cup {new} /\ UNCHANGED <<registry, released>>
      BY <3>1 DEF Approve
    <3>5. consents' = consents \cup {<<p, <<d.assessment, d.content>>>>}
      <4> DEFINE tag(x) == <<x.reviewer, <<x.decision.assessment, x.decision.content>>>>
      <4>1. tag(new) = <<p, <<d.assessment, d.content>>>>
        OBVIOUS
      <4> HIDE DEF new, tag
      <4>2. {tag(x) : x \in approvals'} = {tag(x) : x \in approvals} \cup {tag(new)}
        BY <3>4
      <4> QED
        BY <4>1, <4>2 DEF tag
    <3>6. RoleInForce' = RoleInForce
      BY <3>4 DEF RoleInForce
    <3>7. Promise!Consent(p, <<d.assessment, d.content>>)
      BY <3>4, <3>5, <3>6 DEF Promise!Consent
    <3> QED
      BY <3>3, <3>7 DEF Promise!Next
  <2>3. CASE \E b \in Bundle : Release(b)
    BY <2>3, ReleaseKeepsPromise
  <2>4. CASE \E R \in Registries \cup {NoRegistry} : SetRegistry(R)
    <3>1. UNCHANGED <<approvals, released>>
      BY <2>4 DEF SetRegistry
    <3>2. RoleInForce' \in [Reviewer -> Promise!Roles \cup {"NONE"}]
      <4>1. registry' \in Registries \cup {NoRegistry}
        BY <2>4 DEF SetRegistry
      <4>2. \A q \in Reviewer :
              registry' # NoRegistry /\ q \in DOMAIN registry' =>
                registry'[q].role \in Promise!Roles
        BY <4>1, ReleaseAssumption DEF TrustedReviewer, Roles, Promise!Roles
      <4> QED
        BY <4>2 DEF RoleInForce
    <3> QED
      BY <3>1, <3>2 DEF Promise!Next, Promise!ChangeTrust
  <2>5. CASE \/ \E a \in Assessment : Assess(a)
             \/ \E a \in Assessment, c \in Content : Decide(a, c)
             \/ \E d \in decisions, A \in SUBSET approvals : Issue(d, A)
             \/ RotateSigner \/ Tick \/ UNCHANGED vars
    BY <2>1, <2>5 DEF Assess, Decide, Issue, RotateSigner, Tick, vars
  <2> QED
    BY <2>2, <2>3, <2>4, <2>5 DEF Next
<1> QED
  BY <1>1, <1>2, Invariance, PTL DEF Spec, ImplementsDualControl, Promise!Spec
=============================================================================
