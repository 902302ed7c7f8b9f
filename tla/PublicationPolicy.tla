--------------------------- MODULE PublicationPolicy ---------------------------
(* The deterministic publication policy (rightsgate/policy.py).  A reason   *)
(* is the id of the rule it cites; a policy lists the value sets it allows, *)
(* the components it requires, its switches and its regulatory rules.       *)
EXTENDS GovernedRights

ContextReasons(context, policy) ==
  {r \in {"channel", "audience", "brand", "territory"} :
     ~ Within(IF r = "territory" THEN context.territories ELSE {context[r]},
              policy.allowed[r])}

(* Required components that are absent or not fully available.              *)
Missing(policy, components) ==
  {id \in policy.required :
     ~ \E c \in components : c.id = id /\ c.state = "AVAILABLE"}

ProvenanceBlocks(policy, provenance) ==
  IF policy.blockTampered /\ provenance.verdict = "TAMPERED"
  THEN {"provenance.tampered"} ELSE {}

ProvenanceReviews(policy, provenance) ==
  (IF provenance.verdict = "TAMPERED" /\ ~policy.blockTampered
     THEN {"provenance.tampered"} ELSE {})
  \cup (IF provenance.verdict # "UNKNOWN" THEN {}
        ELSE IF policy.requireProvenance THEN {"provenance.known"}
        ELSE {"provenance.release-floor"})
  \cup (IF provenance.state # "COMPLETE" THEN {"provenance.complete"} ELSE {})

(* A licence conflict that may not block falls through to the consent rule, *)
(* whose switch then decides.                                               *)
ConflictRule(policy, rights, licenceConflict) ==
  IF licenceConflict /\ policy.blockUnlicensed THEN "rights.licence-coverage"
  ELSE IF rights.verdict # "POLICY_CONFLICT" THEN "none"
  ELSE IF policy.blockUnconsented THEN "rights.consent-coverage"
  ELSE "rights.policy-conflict"

RightsBlocks(policy, rights, licenceConflict) ==
  {ConflictRule(policy, rights, licenceConflict)}
    \cap {"rights.licence-coverage", "rights.consent-coverage"}

RightsReviews(policy, rights, licenceConflict) ==
  ({ConflictRule(policy, rights, licenceConflict)} \cap {"rights.policy-conflict"})
  \cup (IF rights.verdict = "CLEAR" THEN {}
        ELSE IF policy.requireClearance THEN {"rights.clearance"}
        ELSE {"rights.release-floor"})
  \cup (IF rights.state # "COMPLETE" THEN {"rights.complete"} ELSE {})

RegulatoryRuleMatches(rule, context, provenance, rights) ==
  /\ \A r \in {"channel", "audience", "brand"} : Within({context[r]}, rule.scope[r])
  /\ "*" \in rule.scope.territory \/ context.territories \cap rule.scope.territory # {}
  /\ rule.provenance # {} => provenance.verdict \in rule.provenance
  /\ rule.rights # {} => rights.verdict \in rule.rights

RegulatoryReasons(effect, policy, context, provenance, rights) ==
  {r.id : r \in {x \in policy.rules :
     x.effect = effect /\ RegulatoryRuleMatches(x, context, provenance, rights)}}

BlockReasons(context, policy, provenance, rights, licenceConflict) ==
  ContextReasons(context, policy)
  \cup ProvenanceBlocks(policy, provenance)
  \cup RightsBlocks(policy, rights, licenceConflict)
  \cup RegulatoryReasons("BLOCK", policy, context, provenance, rights)

ReviewReasons(context, policy, provenance, rights, licenceConflict, components) ==
  Missing(policy, components)
  \cup ProvenanceReviews(policy, provenance)
  \cup RightsReviews(policy, rights, licenceConflict)
  \cup RegulatoryReasons("REVIEW", policy, context, provenance, rights)

IncompleteInputs(policy, provenance, rights, components) ==
  \/ Missing(policy, components) # {}
  \/ provenance.state # "COMPLETE" \/ rights.state # "COMPLETE"

(* Any reason to block outweighs every reason to review.                    *)
Decision(block, review) ==
  IF block # {} THEN "BLOCK" ELSE IF review # {} THEN "REVIEW" ELSE "GO"

PolicyEvidence(decision) ==
  Evidence(<<"policy">>, "POLICY_RULE", "policy-compiler",
           CASE decision = "GO" -> "SUPPORTS"
             [] decision = "BLOCK" -> "CONTRADICTS"
             [] OTHER -> "NEUTRAL", "none", {})

PolicyClaim(decision) ==
  Claim(<<"policy-release">>,
        CASE decision = "GO" -> "SUPPORTED"
          [] decision = "BLOCK" -> "CONTRADICTED"
          [] OTHER -> "UNKNOWN", TRUE, {<<"policy">>})

EvaluatePublicationPolicy(context, policy, provenance, rights, licenceConflict, components) ==
  LET block == BlockReasons(context, policy, provenance, rights, licenceConflict)
      review == ReviewReasons(context, policy, provenance, rights, licenceConflict, components)
      decision == Decision(block, review)
  IN [decision |-> decision,
      citations |-> CASE decision = "BLOCK" -> block
                      [] decision = "REVIEW" -> review
                      [] OTHER -> {"release.go"},
      state |-> IF decision = "REVIEW"
                     /\ IncompleteInputs(policy, provenance, rights, components)
                THEN "PARTIAL" ELSE "COMPLETE"]
=============================================================================
