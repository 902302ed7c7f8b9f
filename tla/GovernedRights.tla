---------------------------- MODULE GovernedRights ----------------------------
(* Licence and consent coverage (rightsgate/rights/licensing.py and         *)
(* consent.py).  A scope is a set of values, "*" the wildcard; values are   *)
(* casefolded and stripped by the registries' validators.  The intended use *)
(* of a context is kept as the caller wrote it and with its blanks stripped.*)
EXTENDS AssessmentContracts

Within(wanted, scope) == "*" \in scope \/ wanted \subseteq scope

LicenceCovers(licence, context, at) ==
  /\ licence.state = "ACTIVE"
  /\ licence.from <= at /\ at <= licence.until
  /\ Within(context.territories, licence.territories)
  /\ Within({context.channel}, licence.channels)
  /\ Within({context.use.stripped}, licence.uses)

CandidateReferences(evidence) ==
  {e.subject : e \in {x \in evidence : /\ x.kind = "REFERENCE_MATCH"
                                       /\ x.polarity = "SUPPORTS"
                                       /\ x.subject # "none"}}

(* Slip: territories may be covered by several licences between them.       *)
CoveringTogether(reference, registry, context, at) ==
  {l \in registry : reference \in l.references
                      /\ \E t \in context.territories :
                            LicenceCovers(l, [context EXCEPT !.territories = {t}], at)}

CoveringLicences(reference, registry, context, at) ==
  {l \in registry : reference \in l.references /\ LicenceCovers(l, context, at)}

LicenceEvidence(reference, covering) ==
  Evidence(<<"licence", reference>>, "LICENCE_RECORD", "licence-evaluator",
           IF covering # {} THEN "SUPPORTS" ELSE "CONTRADICTS",
           reference, {l.id : l \in covering})

LicenceClaim(reference, covering) ==
  Claim(<<"licence", reference>>,
        IF covering # {} THEN "SUPPORTED" ELSE "CONTRADICTED",
        TRUE, {<<"licence", reference>>})

(* Every candidate needs one licence that covers the whole context alone.   *)
EvaluateCandidateLicences(matches, registry, context, at) ==
  LET candidates == CandidateReferences(matches)
      covering(r) == CoveringLicences(r, registry, context, at)
  IN [component  |-> Component("licence-evaluator", "AVAILABLE"),
      candidates |-> candidates,
      conflict   |-> \E r \in candidates : covering(r) = {},
      evidence   |-> {LicenceEvidence(r, covering(r)) : r \in candidates},
      claims     |-> IF candidates = {}
                     THEN {Claim(<<"licence-not-assessed">>, "NOT_ASSESSED", FALSE, {})}
                     ELSE {LicenceClaim(r, covering(r)) : r \in candidates}]

ScopeCovers(grant, context, at) ==
  /\ grant.from <= at /\ at <= grant.until
  /\ Within(context.territories, grant.territories)
  /\ Within({context.channel}, grant.channels)
  /\ Within({context.use.written}, grant.uses)

NoCandidate(modality) ==
  LET query == <<modality, "consent-query">>
  IN [component |-> Component(modality, "AVAILABLE"),
      evidence  |-> {Evidence(query, "REFERENCE_MATCH", modality, "CONTRADICTS", "none", {})},
      claims    |-> {Claim(<<modality, "candidate">>, "CONTRADICTED", FALSE, {query})},
      subjects  |-> {},
      conflict  |-> FALSE]

ConsentEvidence(modality, template, covered) ==
  Evidence(<<modality, "consent", template.id>>, "CONSENT_RECORD", modality,
           IF covered THEN "SUPPORTS" ELSE "CONTRADICTS",
           template.consent.subject, {template.consent.id})

ConsentClaim(modality, template, covered) ==
  Claim(<<modality, "consent", template.id>>,
        IF covered THEN "SUPPORTED" ELSE "CONTRADICTED",
        TRUE, {<<modality, "consent", template.id>>})

(* Each matching template is judged by its own grant: one that does not     *)
(* cover the context is a conflict, whatever the others allow.              *)
MatchedConsents(modality, matches, context, at) ==
  LET covered(t) == ScopeCovers(t.consent, context, at)
  IN [component |-> Component(modality, "AVAILABLE"),
      evidence  |-> {ConsentEvidence(modality, t, covered(t)) : t \in matches},
      claims    |-> {ConsentClaim(modality, t, covered(t)) : t \in matches},
      subjects  |-> {t.consent.subject : t \in matches},
      conflict  |-> \E t \in matches : ~covered(t)]

(* analyze_likeness_consent and analyze_voice_consent, "matches" being the  *)
(* templates within the distance or above the similarity they ask for.      *)
AnalyzeConsent(modality, matches, context, at) ==
  IF matches = {} THEN NoCandidate(modality)
                  ELSE MatchedConsents(modality, matches, context, at)
=============================================================================
