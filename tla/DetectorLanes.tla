---------------------------- MODULE DetectorLanes ----------------------------
(* The detector adapters of the executor: what they conclude from what      *)
(* their numeric code observed, which is an input here.  Confidences are    *)
(* in hundredths.  An observation of an image is a record:                  *)
(*   decoded   "yes", "no" (broken pixel data) or "over-budget"             *)
(*   markers   "none", "tool" or "tool-and-fields" in the metadata          *)
(*   edited    a marker is one of partial editing                           *)
(*   residual  "unmeasured", "quiet" or "anomalous" pixel statistics        *)
(*   matched   references within the Hamming distance                       *)
(*   features  both sides have local features to compare                    *)
(*   localized references that pass the geometric check                     *)
EXTENDS AssessmentContracts, Sequences

Lane(component, evidence, claims, assessment) ==
  [component |-> component, evidence |-> evidence, claims |-> claims,
   assessment |-> assessment]

Nothing == Assessed("COMPLETE", "UNKNOWN", 0)
Unavailable == Assessed("UNAVAILABLE", "UNKNOWN", 0)

-----------------------------------------------------------------------------
(* Content credentials (provenance/c2pa.py).  A present manifest is         *)
(* observed as its validation state, whether a failure code is one of a     *)
(* mismatch, and the generative source types it declares.                   *)

UnknownWithoutManifest ==
  Lane(Component("c2pa", "AVAILABLE"), {},
       {Claim(<<"c2pa-presence">>, "UNKNOWN", FALSE, {})}, Nothing)

C2PAFailure ==
  Lane(Component("c2pa", "DEGRADED"),
       {Evidence(<<"c2pa-failure">>, "COMPONENT_FAILURE", "c2pa", "NEUTRAL", "none", {})},
       {Claim(<<"c2pa-integrity">>, "NOT_ASSESSED", FALSE, {})}, Unavailable)

DeclaredSource(m) ==
  IF "composite" \in m.sources THEN "PARTIALLY_GENERATED"
  ELSE IF "trained" \in m.sources THEN "AI_GENERATED" ELSE "UNKNOWN"

CredentialAssessment(m) ==
  CASE m.state = "invalid" ->
         Assessed("COMPLETE", IF m.mismatch THEN "TAMPERED" ELSE "UNKNOWN", 100)
    [] m.state = "valid"   -> Assessed("COMPLETE", DeclaredSource(m), 95)
    [] m.state = "trusted" -> Assessed("COMPLETE", DeclaredSource(m), 100)
    [] OTHER -> Nothing

CredentialIntegrity(m) ==
  CASE m.state = "invalid" -> "CONTRADICTED"
    [] m.state \in {"valid", "trusted"} -> "SUPPORTED"
    [] OTHER -> "UNKNOWN"

PolarityOf(outcome) ==
  CASE outcome = "SUPPORTED" -> "SUPPORTS"
    [] outcome = "CONTRADICTED" -> "CONTRADICTS"
    [] OTHER -> "NEUTRAL"

MapObservation(m) ==
  LET item == <<"c2pa">>
      integrity == CredentialIntegrity(m)
      assessment == CredentialAssessment(m)
  IN Lane(Component("c2pa", "AVAILABLE"),
          {Evidence(item, "CONTENT_CREDENTIAL", "c2pa", PolarityOf(integrity), "none", {})},
          {Claim(<<"c2pa-integrity">>, integrity, FALSE,
                 IF integrity = "UNKNOWN" THEN {} ELSE {item})}
          \cup {Claim(<<"c2pa-ai-source">>, "SUPPORTED", FALSE, {item}) :
                  v \in {assessment.verdict} \cap {"AI_GENERATED", "PARTIALLY_GENERATED"}},
          assessment)

VerifyC2PA(manifest) ==
  CASE manifest.read = "absent" -> UnknownWithoutManifest
    [] manifest.read = "error"  -> C2PAFailure
    [] OTHER -> MapObservation(manifest)

-----------------------------------------------------------------------------
(* Forensic triage of one image (provenance/image_forensics.py).            *)

ForensicFailure ==
  Lane(Component("forensics", "DEGRADED"),
       {Evidence(<<"forensics-failure">>, "COMPONENT_FAILURE", "forensics",
                 "NEUTRAL", "none", {})},
       {Claim(<<"forensics">>, "NOT_ASSESSED", FALSE, {})}, Unavailable)

MetadataAssessment(o) ==
  IF o.markers = "none" THEN Nothing
  ELSE Assessed("COMPLETE",
                IF o.edited THEN "PARTIALLY_GENERATED" ELSE "AI_GENERATED",
                IF o.markers = "tool" THEN 70 ELSE 85)

MetadataEvidence(o) ==
  IF o.markers = "none" THEN {}
  ELSE {Evidence(<<"metadata">>, "METADATA", "forensics", "SUPPORTS", "none", {})}

ResidualEvidence(o) ==
  IF o.residual = "unmeasured" THEN {}
  ELSE {Evidence(<<"residual">>, "FORENSIC_SIGNAL", "forensics",
                 IF o.residual = "anomalous" THEN "SUPPORTS" ELSE "NEUTRAL", "none", {})}

(* The residual statistics are evidence for a reviewer and never a verdict. *)
InspectImageForensics(o) ==
  IF o.decoded # "yes" THEN ForensicFailure
  ELSE Lane(Component("forensics", "AVAILABLE"),
            MetadataEvidence(o) \cup ResidualEvidence(o),
            {Claim(<<"metadata">>, IF o.markers = "none" THEN "UNKNOWN" ELSE "SUPPORTED",
                   FALSE, Ids(MetadataEvidence(o)))}
            \cup {Claim(e.id, IF o.residual = "anomalous" THEN "SUPPORTED" ELSE "CONTRADICTED",
                        FALSE, {e.id}) : e \in ResidualEvidence(o)},
            MetadataAssessment(o))

-----------------------------------------------------------------------------
(* Visible watermarks (provenance/watermark.py).  "intact" are the profiles *)
(* whose region matches its template.                                       *)

SelectedProfiles(registry, brand) ==
  {p \in registry : "*" \in p.brands \/ brand \in p.brands}

WatermarkFailure ==
  Lane(Component("watermark", "DEGRADED"), {},
       {Claim(<<"watermark-failure">>, "NOT_ASSESSED", TRUE, {})}, Unavailable)

NoWatermarkApplies ==
  Lane(Component("watermark", "AVAILABLE"), {},
       {Claim(<<"watermark-applicability">>, "NOT_ASSESSED", FALSE, {})}, Nothing)

CheckedWatermarks(profiles, intact) ==
  LET item(p) == <<"watermark", p.id>>
      damaged == {p \in profiles : p.id \notin intact}
  IN Lane(Component("watermark", "AVAILABLE"),
          {Evidence(item(p), "WATERMARK", "watermark",
                    IF p \in damaged THEN "CONTRADICTS" ELSE "SUPPORTS", "none", {}) :
             p \in profiles},
          {Claim(item(p), IF p \in damaged THEN "CONTRADICTED" ELSE "SUPPORTED",
                 TRUE, {item(p)}) : p \in profiles},
          IF damaged # {} THEN Assessed("COMPLETE", "TAMPERED", 60) ELSE Nothing)

VerifyVisibleWatermarks(registry, brand, o, intact) ==
  LET selected == SelectedProfiles(registry, brand) IN
  IF selected = {} THEN NoWatermarkApplies
  ELSE IF o.decoded # "yes" THEN WatermarkFailure
  ELSE CheckedWatermarks(selected, intact)

-----------------------------------------------------------------------------
(* Governed references (rights/image_registry.py, rights/localization.py).  *)

MatchFailure ==
  Lane(Component("image-registry", "DEGRADED"),
       {Evidence(<<"rights-failure">>, "COMPONENT_FAILURE", "image-registry",
                 "NEUTRAL", "none", {})},
       {Claim(<<"rights-registry">>, "NOT_ASSESSED", FALSE, {})}, Unavailable)

NoMatch ==
  LET query == <<"rights-query">> IN
  Lane(Component("image-registry", "AVAILABLE"),
       {Evidence(query, "REFERENCE_MATCH", "image-registry", "CONTRADICTS", "none", {})},
       {Claim(<<"rights-registry">>, "CONTRADICTED", FALSE, {query})}, Nothing)

MatchReferenceImage(o) ==
  IF o.decoded # "yes" THEN MatchFailure
  ELSE IF o.matched = {} THEN NoMatch
  ELSE Lane(Component("image-registry", "AVAILABLE"),
            {Evidence(<<"rights-match", r>>, "REFERENCE_MATCH", "image-registry",
                      "SUPPORTS", r, {}) : r \in o.matched},
            {Claim(<<"rights-match", r>>, "SUPPORTED", FALSE, {<<"rights-match", r>>}) :
               r \in o.matched},
            Assessed("COMPLETE", "POTENTIAL_EXPOSURE", 80))

LocalizationFailure ==
  [component |-> Component("localizer", "DEGRADED"), evidence |-> {},
   claims |-> {Claim(<<"localization">>, "NOT_ASSESSED", FALSE, {})}]

NothingLocalized ==
  LET query == <<"localization-query">> IN
  [component |-> Component("localizer", "AVAILABLE"),
   evidence |-> {Evidence(query, "REFERENCE_MATCH", "localizer", "CONTRADICTS", "none", {})},
   claims |-> {Claim(<<"localization">>, "CONTRADICTED", FALSE, {query})}]

LocalizeReferenceImages(o) ==
  IF o.decoded # "yes" \/ ~o.features THEN LocalizationFailure
  ELSE IF o.localized = {} THEN NothingLocalized
  ELSE [component |-> Component("localizer", "AVAILABLE"),
        evidence |-> {Evidence(<<"localization", r>>, "REFERENCE_MATCH", "localizer",
                               "SUPPORTS", r, {}) : r \in o.localized},
        claims |-> {Claim(<<"localization", r>>, "SUPPORTED", FALSE,
                          {<<"localization", r>>}) : r \in o.localized}]

-----------------------------------------------------------------------------
(* Video frames (video_analysis.py): each selected frame goes through the   *)
(* image lanes, and its records are rebound to the video under ids of their *)
(* own.                                                                     *)

MapFrameEvidence(evidence, frame) ==
  {[e EXCEPT !.id = Append(@, frame)] : e \in evidence}

(* Slip: claims keep the evidence ids of the frame's own assessment.        *)
MapFrameClaimsOnly(claims, frame) ==
  {[c EXCEPT !.id = Append(@, frame)] : c \in claims}

MapFrameClaims(claims, frame) ==
  {[c EXCEPT !.id = Append(@, frame),
             !.evidence = {Append(i, frame) : i \in @}] : c \in claims}

FrameEvidence(lanes) ==
  UNION {MapFrameEvidence(lanes[i].evidence, i) : i \in DOMAIN lanes}

FrameClaims(lanes) ==
  UNION {MapFrameClaims(lanes[i].claims, i) : i \in DOMAIN lanes}

AggregateComponent(lanes) ==
  LET states == {lanes[i].component.state : i \in DOMAIN lanes} IN
  Component(lanes[1].component.id,
            IF "UNAVAILABLE" \in states THEN "UNAVAILABLE"
            ELSE IF "DEGRADED" \in states THEN "DEGRADED" ELSE "AVAILABLE")

(* Slip: one complete assessment is taken for all of them.                  *)
CombinedStateOfAny(assessments) ==
  IF \E i \in DOMAIN assessments : assessments[i].state = "COMPLETE"
  THEN "COMPLETE" ELSE "UNAVAILABLE"

(* The state several assessments have together.                             *)
CombinedState(assessments) ==
  LET states == {assessments[i].state : i \in DOMAIN assessments} IN
  IF states = {"UNAVAILABLE"} THEN "UNAVAILABLE"
  ELSE IF states = {"COMPLETE"} THEN "COMPLETE" ELSE "PARTIAL"

Conclusive(assessments) ==
  {i \in DOMAIN assessments : assessments[i].verdict # "UNKNOWN"}

(* The first of the most confident conclusive assessments.                  *)
Strongest(assessments) ==
  assessments[CHOOSE i \in Conclusive(assessments) :
                \A j \in Conclusive(assessments) :
                   \/ assessments[j].confidence < assessments[i].confidence
                   \/ assessments[j].confidence = assessments[i].confidence /\ i <= j]

AggregateForensics(assessments) ==
  LET state == CombinedState(assessments) IN
  IF Conclusive(assessments) = {} THEN Assessed(state, "UNKNOWN", 0)
  ELSE [Strongest(assessments) EXCEPT !.state = state]

AggregateImageMatches(assessments) ==
  LET candidates == {i \in DOMAIN assessments :
                       assessments[i].verdict = "POTENTIAL_EXPOSURE"}
  IN Assessed(CombinedState(assessments),
              IF candidates # {} THEN "POTENTIAL_EXPOSURE" ELSE "UNKNOWN",
              IF candidates # {} THEN 80 ELSE 0)

-----------------------------------------------------------------------------
(* Audio (audio_analysis.py): structure only, both dimensions abstain.      *)

AudioLane ==
  Lane(Component("pcm-wav", "AVAILABLE"),
       {Evidence(<<"audio-structure">>, "METADATA", "pcm-wav", "NEUTRAL", "none", {})},
       {Claim(<<"audio-origin">>, "UNKNOWN", TRUE, {}),
        Claim(<<"audio-rights">>, "NOT_ASSESSED", TRUE, {})},
       Nothing)
(* Slip: a claim's outcome where an assessment's state belongs.             *)
AudioRightsNotAssessed == Assessed("NOT_ASSESSED", "UNKNOWN", 0)
AudioRights == Unavailable
=============================================================================
