-------------------- MODULE AssessmentExecutionProofs --------------------
(* What the trusted executor guarantees of every assessment, for every       *)
(* request, registry and policy and whatever the detectors observe.          *)
EXTENDS AssessmentExecution, ControlDocuments, FiniteSetTheorems, WellFoundedInduction, TLAPS

Modalities == {"likeness-consent", "voice-consent"}
ImageLaneIds == {"image-registry", "localizer"}
OriginLaneIds == {"c2pa", "forensics", "watermark"}
Origins == {"AI_GENERATED", "PARTIALLY_GENERATED", "TAMPERED", "UNKNOWN"}

(* The records of the contract are what their constructors build.            *)
IsEvidence(e) == e = Evidence(e.id, e.kind, e.component, e.polarity, e.subject, e.holders)
IsAssessment(a) == a = Assessed(a.state, a.verdict, a.confidence)

(* The lanes hand over no licence records; their reference matches are those *)
(* of the image lanes, and their consent records tell how each template's    *)
(* own grant covers the declared use.                                        *)
Tells(r, e) ==
  /\ e.kind # "LICENCE_RECORD"
  /\ e.subject # "none" => (e.component \in ImageLaneIds <=> e.kind = "REFERENCE_MATCH")
  /\ e.subject # "none" /\ e.kind = "REFERENCE_MATCH" => e.polarity = "SUPPORTS"
  /\ e.kind = "CONSENT_RECORD" =>
       \E t \in UNION r.consents, m \in Modalities :
          e = ConsentEvidence(m, t, ScopeCovers(t.consent, r.context, r.at))

EvidenceTells(r, l) == \A e \in l.evidence : Tells(r, e)

ConsentsTell(r, l) ==
  (\E c \in l.consents : c.conflict)
    <=> \E e \in l.evidence : e.kind = "CONSENT_RECORD" /\ e.polarity = "CONTRADICTS"

(* The state of the rights lanes admits to what they could not look at.      *)
MatchingTells(r, l) ==
  /\ l.matching.state \in States
  /\ l.matching.state = "UNAVAILABLE" /\ l.localizer # "AVAILABLE" =>
       \A e \in l.evidence : ~(e.kind = "REFERENCE_MATCH" /\ e.subject # "none")
  /\ \A c \in l.components :
       c.id = "image-registry" /\ c.state # "AVAILABLE" => l.matching.state # "COMPLETE"

(* The first origin lane is the credential reader, whose declarations are    *)
(* more confident than anything another lane says of an asset's origin.      *)
Ranked(i, origin) ==
  /\ IsAssessment(origin)
  /\ origin.state \in States /\ origin.verdict \in Origins /\ origin.confidence \in 0 .. 100
  /\ origin.state = "UNAVAILABLE" => origin.verdict = "UNKNOWN"
  /\ IF i = 1 THEN origin.verdict # "UNKNOWN" => origin.confidence >= 95
     ELSE origin.verdict \notin {"UNKNOWN", "TAMPERED"} => origin.confidence < 95

OriginsTell(r, l) ==
  /\ \E n \in {2, 3} : DOMAIN l.provenance = 1 .. n
  /\ \A i \in DOMAIN l.provenance : Ranked(i, l.provenance[i])
  /\ \A c \in l.components :
       c.id \in OriginLaneIds /\ c.state # "AVAILABLE" =>
         \E i \in DOMAIN l.provenance : l.provenance[i].state # "COMPLETE"

LanesTell(r, l) ==
  /\ EvidenceTells(r, l) /\ ConsentsTell(r, l) /\ MatchingTells(r, l) /\ OriginsTell(r, l)

(* The component a record's id belongs to, by the first part of the id.      *)
Owner(tag) ==
  IF tag \in {"c2pa", "c2pa-failure", "c2pa-presence", "c2pa-integrity", "c2pa-ai-source"}
  THEN "c2pa"
  ELSE IF tag \in {"forensics-failure", "forensics", "metadata", "residual"} THEN "forensics"
  ELSE IF tag \in {"watermark-failure", "watermark-applicability", "watermark"} THEN "watermark"
  ELSE IF tag \in {"rights-failure", "rights-registry", "rights-query", "rights-match"}
  THEN "image-registry"
  ELSE IF tag \in {"localization", "localization-query"} THEN "localizer"
  ELSE IF tag \in {"audio-structure", "audio-origin", "audio-rights"} THEN "pcm-wav"
  ELSE IF tag \in {"licence", "licence-not-assessed"} THEN "licence-evaluator"
  ELSE IF tag \in {"policy", "policy-release"} THEN "policy-compiler"
  ELSE tag

(* The records of one component: no id twice, each id its own, and no claim  *)
(* that lacks the evidence its outcome demands or names any other.           *)
RecordsFit(id, evidence, claims) ==
  /\ UniqueIds(evidence) /\ UniqueIds(claims)
  /\ \A e \in evidence : e.component = id /\ Owner(e.id[1]) = id
  /\ \A c \in claims :
       Owner(c.id[1]) = id /\ EvidenceSemantics(c) /\ c.evidence \subseteq Ids(evidence)

ExecutorIds == {"executor", "licence-evaluator", "policy-compiler"}

(* All a media lane returns can go into one record beside the executor's own. *)
LanesFit(l) ==
  /\ UniqueIds(l.components) /\ UniqueIds(l.evidence) /\ UniqueIds(l.claims)
  /\ Ids(l.components) \cap ExecutorIds = {}
  /\ \A e \in l.evidence : e.component = Owner(e.id[1]) /\ e.component \in Ids(l.components)
  /\ \A c \in l.claims :
       /\ Owner(c.id[1]) \in Ids(l.components)
       /\ EvidenceSemantics(c) /\ c.evidence \subseteq Ids(l.evidence)

(* What is concluded follows from what the lanes tell, and from that alone.  *)
AInv ==
  /\ TypeOK /\ request \in Requests
  /\ pc \in {"received", "rejected", "analysing"} => lanes = NoLanes
  /\ pc \in {"assessing", "deciding"} \cup {"publishing", "completed"} =>
       LanesTell(request, lanes) /\ LanesFit(lanes)
  /\ pc = "failed" =>
       \/ "policy-compiler" \in request.policy.required
       \/ lanes = NoLanes /\ request.consents # {}
  /\ pc \in {"deciding"} \cup {"publishing", "completed"} =>
       /\ licence = EvaluateCandidateLicences(
                      lanes.evidence, request.licences, request.context, request.at)
       /\ rights = CombineConsentRights(
                     CombineRights(lanes.matching, lanes.localizer, licence), lanes.consents)
       /\ provenance = CombineProvenance(lanes.provenance)
  /\ Concluded =>
       deployment = EvaluatePublicationPolicy(
                      request.context, request.policy, provenance, rights,
                      licence.conflict, Components)
-----------------------------------------------------------------------------
(* Every non-empty set of natural numbers has a least element.              *)
LEMMA LeastOf ==
  ASSUME NEW S \in SUBSET Nat, S # {}
  PROVE  \E m \in S : \A k \in S : m <= k
<1> DEFINE R == OpToRel(<, Nat)
<1>1. \E m \in S : \A k \in S : ~(<<k, m>> \in R)
  BY NatLessThanWellFounded, WFMin
<1>2. \A k, m \in Nat : k < m => <<k, m>> \in R
  <2>1. \A k, m \in Nat : <<k, m>> \in Nat \X Nat /\ <<k, m>>[1] = k /\ <<k, m>>[2] = m
   OBVIOUS
  <2>2. R = {ss \in Nat \X Nat : ss[1] < ss[2]} BY DEF OpToRel
  <2>3. QED BY <2>1, <2>2
<1> HIDE DEF R
<1>3. PICK m \in S : \A k \in S : ~(<<k, m>> \in R)
  BY <1>1
<1>4. \A k \in S : ~(k < m)
  BY <1>2, <1>3
<1> QED
  BY <1>4

(* Of what has a confidence in percent, the first with the highest exists.   *)
LEMMA FirstOfTheBest ==
  ASSUME NEW C \in SUBSET Nat, C # {}, NEW c \in [C -> 0..100]
  PROVE  \E i \in C : \A j \in C : c[j] < c[i] \/ (c[j] = c[i] /\ i <= j)
<1> DEFINE doubts == {d \in 0..100 : \E i \in C : d + c[i] = 100}
<1>1. PICK d \in doubts : \A k \in doubts : d <= k
  <2>1. PICK i \in C : TRUE
    OBVIOUS
  <2>2. c[i] \in 0..100
    BY <2>1
  <2>4. 100 - c[i] \in 0..100 /\ (100 - c[i]) + c[i] = 100
    BY <2>2
  <2>3. doubts \in SUBSET Nat /\ doubts # {}
    BY <2>1, <2>4
  <2> HIDE DEF doubts
  <2> QED
    BY <2>3, LeastOf
<1> DEFINE best == {i \in C : d + c[i] = 100}
<1>2. PICK i \in best : \A k \in best : i <= k
  <2>1. best \in SUBSET Nat /\ best # {}
    BY <1>1
  <2> HIDE DEF best
  <2> QED
    BY <2>1, LeastOf
<1>3. ASSUME NEW j \in C
      PROVE  c[j] < c[i] \/ (c[j] = c[i] /\ i <= j)
  <2>1. 100 - c[j] \in doubts
    OBVIOUS
  <2>2. d <= 100 - c[j] /\ d \in 0..100 /\ i \in C /\ d + c[i] = 100
    BY <1>1, <1>2, <2>1
  <2>3. c[j] = c[i] => j \in best
    BY <2>2
  <2> DEFINE own == c[j]
             top == c[i]
  <2>4. /\ own \in 0..100 /\ top \in 0..100 /\ d \in 0..100
        /\ d <= 100 - own /\ d + top = 100
        /\ own = top => j \in best
    BY <2>2, <2>3
  <2> HIDE DEF best, doubts, own, top
  <2>5. own < top \/ own = top
    BY <2>4
  <2>6. own = top => i <= j
    BY <1>2, <2>4
  <2>7. own < top \/ (own = top /\ i <= j)
    BY <2>5, <2>6
  <2> QED
    BY <2>7 DEF own, top
<1> QED
  BY <1>2, <1>3

(* Confidences are integers and compare as such.                             *)
LEMMA Percentages ==
  /\ \A x \in 0..100 : x \in Int
  /\ \A a, b \in Int : a < b \/ a = b => a <= b
OBVIOUS

(* "Strongest" is one of the conclusive assessments, none more confident.    *)
LEMMA StrongestIsOne ==
  ASSUME NEW n \in Nat, NEW p, DOMAIN p = 1..n,
         \A i \in 1..n : p[i].confidence \in 0..100,
         Conclusive(p) # {}
  PROVE  \E i \in Conclusive(p) :
           /\ Strongest(p) = p[i]
           /\ \A j \in Conclusive(p) : p[j].confidence <= p[i].confidence
<1> DEFINE C == Conclusive(p)
           better(i) == \A j \in C : \/ p[j].confidence < p[i].confidence
                                     \/ p[j].confidence = p[i].confidence /\ i <= j
           first == CHOOSE i \in C : better(i)
<1>1. C \subseteq 1..n
  BY DEF Conclusive
<1>2. Strongest(p) = p[first]
  BY DEF Strongest
<1> HIDE DEF C
<1>3. C \in SUBSET Nat /\ C # {} /\ \A i \in C : p[i].confidence \in 0..100
  <2>1. C # {}
    BY DEF C
  <2>2. 1..n \subseteq Nat
    OBVIOUS
  <2> QED
    BY <1>1, <2>1, <2>2
<1>4. \E i \in C : better(i)
  <2> DEFINE c == [i \in C |-> p[i].confidence]
  <2>1. c \in [C -> 0..100] /\ \A i \in C : c[i] = p[i].confidence
    BY <1>3
  <2> HIDE DEF c
  <2>2. \E i \in C : \A j \in C : c[j] < c[i] \/ (c[j] = c[i] /\ i <= j)
    BY <1>3, <2>1, FirstOfTheBest
  <2> QED
    BY <2>1, <2>2
<1>5. first \in C /\ better(first)
  BY <1>4
<1>6. ASSUME NEW i \in C, better(i), NEW j \in C
      PROVE  p[j].confidence <= p[i].confidence
  <2>1. p[j].confidence \in Int /\ p[i].confidence \in Int
    <3>1. p[j].confidence \in 0..100 /\ p[i].confidence \in 0..100
      BY <1>3, Zenon
    <3> QED
      BY <3>1, Percentages, Zenon
  <2>2. p[j].confidence < p[i].confidence \/ p[j].confidence = p[i].confidence
    BY <1>6
  <2> QED
    BY <2>1, <2>2, Percentages, Zenon
<1> HIDE DEF first, better
<1> QED
  BY <1>2, <1>5, <1>6 DEF C

-----------------------------------------------------------------------------
(* Evidence that is neither a match nor a record of rights.                 *)
Inert(e) ==
  /\ IsEvidence(e)
  /\ e.kind \notin {"LICENCE_RECORD", "CONSENT_RECORD", "REFERENCE_MATCH"}
  /\ e.component \notin ImageLaneIds

(* What a lane about the origin of an asset owes its readers.               *)
OriginLane(lane, id) ==
  /\ lane.component.id = id
  /\ lane.component.state # "AVAILABLE" => lane.assessment.state # "COMPLETE"
  /\ IsAssessment(lane.assessment)
  /\ lane.assessment.state \in States /\ lane.assessment.verdict \in Origins
  /\ lane.assessment.confidence \in 0 .. 100
  /\ lane.assessment.state = "UNAVAILABLE" => lane.assessment.verdict = "UNKNOWN"
  /\ \A e \in lane.evidence : Inert(e)

(* The credential reader: every declaration has a confidence of at least 95. *)
LEMMA CredentialsTell ==
  ASSUME NEW manifest
  PROVE  /\ OriginLane(VerifyC2PA(manifest), "c2pa")
         /\ VerifyC2PA(manifest).assessment.verdict # "UNKNOWN" =>
              VerifyC2PA(manifest).assessment.confidence >= 95
<1> USE DEF OriginLane, Inert, IsEvidence, IsAssessment, Lane, Component, Evidence, Assessed, Nothing, Unavailable,
            States, Origins, ImageLaneIds
<1>1. CASE manifest.read = "absent"
  BY <1>1 DEF VerifyC2PA, UnknownWithoutManifest
<1>2. CASE manifest.read = "error"
  BY <1>2 DEF VerifyC2PA, C2PAFailure
<1>3. CASE manifest.read \notin {"absent", "error"}
  <2> DEFINE a == CredentialAssessment(manifest)
  <2>1. /\ a.state = "COMPLETE" /\ a.verdict \in Origins /\ a.confidence \in {0, 95, 100}
        /\ a.verdict # "UNKNOWN" => a.confidence # 0
        /\ IsAssessment(a)
    BY DEF CredentialAssessment, DeclaredSource
  <2> HIDE DEF a
  <2>2. VerifyC2PA(manifest) = MapObservation(manifest)
    BY <1>3 DEF VerifyC2PA
  <2>3. /\ MapObservation(manifest).assessment = a
        /\ MapObservation(manifest).component = Component("c2pa", "AVAILABLE")
        /\ \A e \in MapObservation(manifest).evidence :
              IsEvidence(e) /\ e.kind = "CONTENT_CREDENTIAL" /\ e.component = "c2pa"
    BY DEF MapObservation, a
  <2> QED
    BY <2>1, <2>2, <2>3
<1> QED
  BY <1>1, <1>2, <1>3

(* Metadata never declares tampering, nor with a confidence above 85.       *)
LEMMA ForensicsTell ==
  ASSUME NEW o
  PROVE  /\ OriginLane(InspectImageForensics(o), "forensics")
         /\ InspectImageForensics(o).assessment.verdict # "TAMPERED"
         /\ InspectImageForensics(o).assessment.confidence < 95
<1> USE DEF OriginLane, Inert, IsEvidence, IsAssessment, Lane, Component, Evidence, Assessed, Nothing, Unavailable,
            States, Origins, ImageLaneIds
<1>1. CASE o.decoded # "yes"
  BY <1>1 DEF InspectImageForensics, ForensicFailure
<1>2. CASE o.decoded = "yes"
  BY <1>2 DEF InspectImageForensics, MetadataAssessment, MetadataEvidence, ResidualEvidence
<1> QED
  BY <1>1, <1>2

(* Watermarks tell of tampering or of nothing.                              *)
LEMMA WatermarksTell ==
  ASSUME NEW registry, NEW brand, NEW o, NEW intact
  PROVE  /\ OriginLane(VerifyVisibleWatermarks(registry, brand, o, intact), "watermark")
         /\ VerifyVisibleWatermarks(registry, brand, o, intact).assessment.verdict
              \in {"UNKNOWN", "TAMPERED"}
<1> USE DEF OriginLane, Inert, IsEvidence, IsAssessment, Lane, Component, Evidence, Assessed, Nothing, Unavailable,
            States, Origins, ImageLaneIds
<1> DEFINE selected == SelectedProfiles(registry, brand)
<1>1. CASE selected = {}
  BY <1>1 DEF VerifyVisibleWatermarks, NoWatermarkApplies
<1>2. CASE selected # {} /\ o.decoded # "yes"
  BY <1>2 DEF VerifyVisibleWatermarks, WatermarkFailure
<1>3. CASE selected # {} /\ o.decoded = "yes"
  BY <1>3 DEF VerifyVisibleWatermarks, CheckedWatermarks
<1> QED
  BY <1>1, <1>2, <1>3

(* A lane of reference matches hands over nothing else, and what it found   *)
(* in the asset it supports.                                                *)
MatchesOf(evidence, id) ==
  \A e \in evidence :
    /\ IsEvidence(e)
    /\ e.component = id /\ e.kind \in {"COMPONENT_FAILURE", "REFERENCE_MATCH"}
    /\ e.kind # "REFERENCE_MATCH" => e.subject = "none"
    /\ e.subject # "none" => e.polarity = "SUPPORTS"

(* The whole-image matcher is unavailable exactly where it finds nothing to *)
(* decode, and says so.                                                     *)
LEMMA MatcherTells ==
  ASSUME NEW o
  PROVE  LET lane == MatchReferenceImage(o) IN
         /\ lane.component.id = "image-registry" /\ MatchesOf(lane.evidence, "image-registry")
         /\ lane.component.state # "AVAILABLE" => lane.assessment.state = "UNAVAILABLE"
         /\ lane.assessment.state = IF o.decoded = "yes" THEN "COMPLETE" ELSE "UNAVAILABLE"
         /\ o.decoded # "yes" => \A e \in lane.evidence : e.subject = "none"
<1> USE DEF MatchesOf, IsEvidence, Lane, Component, Evidence, Assessed, Nothing, Unavailable
<1>1. CASE o.decoded # "yes"
  BY <1>1 DEF MatchReferenceImage, MatchFailure
<1>2. CASE o.decoded = "yes" /\ o.matched = {}
  BY <1>2 DEF MatchReferenceImage, NoMatch
<1>3. CASE o.decoded = "yes" /\ o.matched # {}
  BY <1>3 DEF MatchReferenceImage
<1> QED
  BY <1>1, <1>2, <1>3

(* The localizer of an image that does not decode finds nothing.            *)
LEMMA LocalizerTells ==
  ASSUME NEW o
  PROVE  LET lane == LocalizeReferenceImages(o) IN
         /\ lane.component.id = "localizer" /\ MatchesOf(lane.evidence, "localizer")
         /\ o.decoded # "yes" => lane.evidence = {}
<1> USE DEF MatchesOf, IsEvidence, Component, Evidence
<1>1. CASE o.decoded # "yes" \/ ~o.features
  BY <1>1 DEF LocalizeReferenceImages, LocalizationFailure
<1>2. CASE o.decoded = "yes" /\ o.features /\ o.localized = {}
  BY <1>2 DEF LocalizeReferenceImages, NothingLocalized
<1>3. CASE o.decoded = "yes" /\ o.features /\ o.localized # {}
  BY <1>3 DEF LocalizeReferenceImages
<1> QED
  BY <1>1, <1>2, <1>3

(* A consent matcher hands over one record for each template that matched,  *)
(* told from the template's own grant, and its conflict is a record's.      *)
LEMMA ConsentMatcherTells ==
  ASSUME NEW modality, NEW matches, NEW context, NEW at
  PROVE  LET lane == AnalyzeConsent(modality, matches, context, at) IN
         /\ lane.component = Component(modality, "AVAILABLE")
         /\ \A e \in lane.evidence :
              /\ e.component = modality
              /\ \/ e.kind = "REFERENCE_MATCH" /\ e.subject = "none"
                 \/ /\ e.kind = "CONSENT_RECORD"
                    /\ \E t \in matches :
                         e = ConsentEvidence(modality, t, ScopeCovers(t.consent, context, at))
         /\ lane.conflict <=>
              \E e \in lane.evidence : e.kind = "CONSENT_RECORD" /\ e.polarity = "CONTRADICTS"
<1>1. CASE matches = {}
  BY <1>1 DEF AnalyzeConsent, NoCandidate, Evidence, Component
<1>2. CASE matches # {}
  <2> DEFINE lane == MatchedConsents(modality, matches, context, at)
             covered(t) == ScopeCovers(t.consent, context, at)
  <2>1. AnalyzeConsent(modality, matches, context, at) = lane
    BY <1>2 DEF AnalyzeConsent
  <2>2. /\ lane.component = Component(modality, "AVAILABLE")
        /\ lane.evidence = {ConsentEvidence(modality, t, covered(t)) : t \in matches}
        /\ lane.conflict <=> \E t \in matches : ~covered(t)
    BY DEF MatchedConsents
  <2> HIDE DEF lane
  <2>3. \A t : LET e == ConsentEvidence(modality, t, covered(t)) IN
               /\ e.component = modality /\ e.kind = "CONSENT_RECORD"
               /\ e.polarity = IF covered(t) THEN "SUPPORTS" ELSE "CONTRADICTS"
    BY DEF ConsentEvidence, Evidence
  <2> HIDE DEF covered
  <2> QED
    BY <2>1, <2>2, <2>3 DEF covered
<1> QED
  BY <1>1, <1>2

-----------------------------------------------------------------------------
(* A consent lane of a request: its templates are enrolled ones.            *)
ConsentLane(r, modality, lane) ==
  /\ lane.component = Component(modality, "AVAILABLE")
  /\ \A e \in lane.evidence :
       /\ e.component = modality
       /\ \/ e.kind = "REFERENCE_MATCH" /\ e.subject = "none"
          \/ /\ e.kind = "CONSENT_RECORD"
             /\ \E t \in UNION r.consents :
                  e = ConsentEvidence(modality, t, ScopeCovers(t.consent, r.context, r.at))
  /\ lane.conflict <=>
       \E e \in lane.evidence : e.kind = "CONSENT_RECORD" /\ e.polarity = "CONTRADICTS"

(* What was enrolled is all a consent lane can match.                       *)
LEMMA ConsentLanesTell ==
  ASSUME NEW modality, NEW matches, NEW lane \in ConsentLanes(modality, matches)
  PROVE  ConsentLane(request, modality, lane)
<1>1. PICK templates \in request.consents :
        lane = AnalyzeConsent(modality, matches \cap templates, request.context, request.at)
  BY DEF ConsentLanes
<1>2. \A t \in matches \cap templates : t \in UNION request.consents
  BY <1>1
<1> QED
  BY <1>1, <1>2, ConsentMatcherTells DEF ConsentLane

(* What each kind of lane hands over tells the rights of the request.       *)
LEMMA LaneEvidenceTells ==
  ASSUME NEW r, NEW e
  PROVE  /\ Inert(e) => Tells(r, e) /\ e.kind # "CONSENT_RECORD"
         /\ \A S : e \in S /\ (MatchesOf(S, "image-registry") \/ MatchesOf(S, "localizer"))
              => Tells(r, e) /\ e.kind # "CONSENT_RECORD"
         /\ \A lane, m : m \in Modalities /\ ConsentLane(r, m, lane) /\ e \in lane.evidence
              => Tells(r, e)
<1> USE DEF Tells, ImageLaneIds, Modalities
<1>1. Inert(e) => Tells(r, e) /\ e.kind # "CONSENT_RECORD"
  BY DEF Inert
<1>2. ASSUME NEW S, e \in S, MatchesOf(S, "image-registry") \/ MatchesOf(S, "localizer")
      PROVE  Tells(r, e) /\ e.kind # "CONSENT_RECORD"
  BY <1>2 DEF MatchesOf
<1>3. ASSUME NEW lane, NEW m \in Modalities, ConsentLane(r, m, lane), e \in lane.evidence
      PROVE  Tells(r, e)
  <2>1. CASE e.kind = "REFERENCE_MATCH" /\ e.subject = "none"
    BY <2>1
  <2>2. ASSUME e.kind = "CONSENT_RECORD",
               NEW t \in UNION r.consents,
               e = ConsentEvidence(m, t, ScopeCovers(t.consent, r.context, r.at))
        PROVE  Tells(r, e)
    BY <1>3, <2>2 DEF ConsentLane
  <2> QED
    BY <1>3, <2>1, <2>2 DEF ConsentLane
<1> QED
  BY <1>1, <1>2, <1>3

(* An image: two or three origin lanes, the matcher, the localizer and the  *)
(* likeness matcher if templates are enrolled.                              *)
LEMMA ImageLanesTell ==
  ASSUME request \in Requests, NEW manifest, NEW o, NEW intact, NEW likenesses
  PROVE  LanesTell(request, ImageLanes(manifest, o, intact, likenesses))
<1> DEFINE c2pa == VerifyC2PA(manifest)
           forensics == InspectImageForensics(o)
           match == MatchReferenceImage(o)
           local == LocalizeReferenceImages(o)
           marks == WatermarkLanes(o, intact)
           consents == ConsentLanes("likeness-consent", likenesses)
           all == {c2pa, forensics, match, local} \cup marks \cup consents
           l == ImageLanes(manifest, o, intact, likenesses)
<1>1. /\ l.provenance = <<c2pa.assessment, forensics.assessment>>
                         \o (IF marks = {} THEN <<>>
                             ELSE <<(CHOOSE w \in marks : TRUE).assessment>>)
      /\ l.matching = match.assessment
      /\ l.localizer = local.component.state
      /\ l.consents = consents
      /\ l.components = {x.component : x \in all}
      /\ l.evidence = UNION {x.evidence : x \in all}
  BY DEF ImageLanes
<1>2. OriginLane(c2pa, "c2pa") /\ OriginLane(forensics, "forensics")
  BY CredentialsTell, ForensicsTell
<1>3. \A w \in marks : OriginLane(w, "watermark") /\ w.assessment.verdict \in {"UNKNOWN", "TAMPERED"}
  BY WatermarksTell DEF WatermarkLanes
<1>4. \A x \in consents : ConsentLane(request, "likeness-consent", x)
  BY ConsentLanesTell
<1>5. /\ match.component.id = "image-registry" /\ MatchesOf(match.evidence, "image-registry")
      /\ match.component.state # "AVAILABLE" => match.assessment.state = "UNAVAILABLE"
      /\ match.assessment.state = IF o.decoded = "yes" THEN "COMPLETE" ELSE "UNAVAILABLE"
      /\ o.decoded # "yes" => \A e \in match.evidence : e.subject = "none"
  BY MatcherTells
<1>6. /\ local.component.id = "localizer" /\ MatchesOf(local.evidence, "localizer")
      /\ o.decoded # "yes" => local.evidence = {}
  BY LocalizerTells
<1>7. /\ c2pa.assessment.verdict # "UNKNOWN" => c2pa.assessment.confidence >= 95
      /\ forensics.assessment.confidence < 95
  BY CredentialsTell, ForensicsTell
<1> HIDE DEF c2pa, forensics, match, local, marks, consents, l
<1>8. \A e \in l.evidence :
        \/ Inert(e) \/ e \in match.evidence \/ e \in local.evidence
        \/ \E x \in consents : e \in x.evidence
  BY <1>1, <1>2, <1>3 DEF OriginLane
<1>9. \A x \in all : x.evidence \subseteq l.evidence
  BY <1>1
<1>10. EvidenceTells(request, l)
  BY <1>4, <1>5, <1>6, <1>8, LaneEvidenceTells DEF EvidenceTells, Modalities
<1>11. ConsentsTell(request, l)
  <2>1. \A e \in l.evidence :
          e.kind = "CONSENT_RECORD" => \E x \in consents : e \in x.evidence
    BY <1>5, <1>6, <1>8, LaneEvidenceTells
  <2> QED
    BY <1>1, <1>4, <1>9, <2>1 DEF ConsentsTell, ConsentLane
<1>12. MatchingTells(request, l)
  <2>1. ASSUME l.matching.state = "UNAVAILABLE", NEW e \in l.evidence,
               e.kind = "REFERENCE_MATCH", e.subject # "none"
        PROVE  FALSE
    <3>1. e \notin match.evidence /\ e \notin local.evidence /\ ~Inert(e)
      BY <1>1, <1>5, <1>6, <2>1 DEF Inert
    <3> QED
      BY <1>4, <1>8, <2>1, <3>1 DEF ConsentLane
  <2>2. ASSUME NEW c \in l.components, c.id = "image-registry"
        PROVE  c = match.component
    BY <1>1, <1>2, <1>3, <1>4, <1>6, <2>2 DEF OriginLane, ConsentLane, Component
  <2> QED
    BY <1>1, <1>5, <2>1, <2>2 DEF MatchingTells, States
<1>13. OriginsTell(request, l)
  <2> DEFINE p == l.provenance
             mark == CHOOSE w \in marks : TRUE
  <2>1. /\ \/ marks = {} /\ DOMAIN p = 1 .. 2
           \/ marks # {} /\ mark \in marks /\ DOMAIN p = 1 .. 3 /\ p[3] = mark.assessment
        /\ p[1] = c2pa.assessment /\ p[2] = forensics.assessment
    <3>1. CASE marks = {}
      BY <1>1, <3>1
    <3>2. CASE marks # {}
      <4>1. mark \in marks
        BY <3>2
      <4> HIDE DEF mark
      <4>2. p = <<c2pa.assessment, forensics.assessment>> \o <<mark.assessment>>
        BY <1>1, <3>2 DEF mark
      <4> QED
        BY <3>2, <4>1, <4>2
    <3> QED
      BY <3>1, <3>2
  <2> HIDE DEF p, mark
  <2>2. \A i \in DOMAIN p :
           \/ i = 1 /\ p[i] = c2pa.assessment
           \/ i = 2 /\ p[i] = forensics.assessment
           \/ i = 3 /\ mark \in marks /\ p[i] = mark.assessment
    BY <2>1
  <2>3. \A w \in marks : w = mark
    <3>1. \A x, y \in request.watermarks : x = y
      BY RegistriesAssumption
    <3>2. \A v, w \in marks : v = w
      BY <3>1 DEF marks, WatermarkLanes
    <3> QED
      BY <2>1, <3>2
  <2>4. /\ IsAssessment(c2pa.assessment) /\ IsAssessment(forensics.assessment)
        /\ \A w \in marks : IsAssessment(w.assessment)
        /\ UnavailableIsUnknown(c2pa.assessment) /\ UnavailableIsUnknown(forensics.assessment)
        /\ \A w \in marks : UnavailableIsUnknown(w.assessment)
        /\ c2pa.assessment.state \in States /\ c2pa.assessment.verdict \in Origins
        /\ c2pa.assessment.confidence \in 0 .. 100
        /\ forensics.assessment.state \in States /\ forensics.assessment.verdict \in Origins
        /\ forensics.assessment.confidence \in 0 .. 100
        /\ \A w \in marks : w.assessment.state \in States /\ w.assessment.verdict \in Origins
                            /\ w.assessment.confidence \in 0 .. 100
    BY <1>2, <1>3 DEF OriginLane, UnavailableIsUnknown
  <2>5. ASSUME NEW i \in DOMAIN p
        PROVE  Ranked(i, p[i])
    <3>1. CASE i = 1 /\ p[i] = c2pa.assessment
      BY <1>7, <2>4, <3>1 DEF Ranked, UnavailableIsUnknown
    <3>2. CASE i = 2 /\ p[i] = forensics.assessment
      BY <1>7, <2>4, <3>2 DEF Ranked, UnavailableIsUnknown
    <3>3. CASE i = 3 /\ mark \in marks /\ p[i] = mark.assessment
      BY <1>3, <2>4, <3>3 DEF Ranked, UnavailableIsUnknown
    <3> QED
      BY <2>2, <3>1, <3>2, <3>3
  <2>6. ASSUME NEW c \in l.components, c.id \in OriginLaneIds, c.state # "AVAILABLE"
        PROVE  \E i \in DOMAIN p : p[i].state # "COMPLETE"
    <3>1. PICK x \in all : c = x.component
      BY <1>1
    <3>2. x = c2pa \/ x = forensics \/ (x \in marks /\ x = mark)
      BY <1>4, <1>5, <1>6, <2>3, <2>6, <3>1 DEF ConsentLane, Component, OriginLaneIds
    <3>3. x.assessment.state # "COMPLETE"
      BY <1>2, <1>3, <2>6, <3>1, <3>2 DEF OriginLane
    <3>4. 1 \in DOMAIN p /\ 2 \in DOMAIN p /\ (mark \in marks /\ x = mark => 3 \in DOMAIN p)
      BY <2>1, <3>2
    <3> QED
      BY <2>1, <3>2, <3>3, <3>4
  <2>7. \E n \in {2, 3} : DOMAIN p = 1 .. n
    BY <2>1
  <2> QED
    BY <2>5, <2>6, <2>7 DEF OriginsTell, p
<1> QED
  BY <1>10, <1>11, <1>12, <1>13 DEF LanesTell, l

(* Several assessments are together complete only if each is, and           *)
(* unavailable only if each is.                                             *)
LEMMA CombinedStateIs ==
  ASSUME NEW p, DOMAIN p # {}, \A i \in DOMAIN p : p[i].state \in States
  PROVE  /\ CombinedState(p) \in States
         /\ CombinedState(p) = "COMPLETE" <=> \A i \in DOMAIN p : p[i].state = "COMPLETE"
         /\ CombinedState(p) = "UNAVAILABLE" <=> \A i \in DOMAIN p : p[i].state = "UNAVAILABLE"
<1> DEFINE states == {p[i].state : i \in DOMAIN p}
<1>1. /\ states = {"COMPLETE"} <=> \A i \in DOMAIN p : p[i].state = "COMPLETE"
      /\ states = {"UNAVAILABLE"} <=> \A i \in DOMAIN p : p[i].state = "UNAVAILABLE"
  OBVIOUS
<1>2. CombinedState(p) = IF states = {"UNAVAILABLE"} THEN "UNAVAILABLE"
                         ELSE IF states = {"COMPLETE"} THEN "COMPLETE" ELSE "PARTIAL"
  BY DEF CombinedState
<1>3. ~(states = {"COMPLETE"} /\ states = {"UNAVAILABLE"})
  OBVIOUS
<1> HIDE DEF states
<1> QED
  BY <1>1, <1>2, <1>3 DEF States

(* A component of the video has failed only if it failed on some frame.     *)
LEMMA AggregateComponentIs ==
  ASSUME NEW p
  PROVE  /\ AggregateComponent(p).id = p[1].component.id
         /\ AggregateComponent(p).state # "AVAILABLE" =>
              \E i \in DOMAIN p : p[i].component.state # "AVAILABLE"
  BY DEF AggregateComponent, Component

(* A record of the video is a record of one frame under an id of its own.   *)
LEMMA FrameEvidenceIs ==
  ASSUME NEW p, \A i \in DOMAIN p : \A e \in p[i].evidence : IsEvidence(e),
         NEW m \in FrameEvidence(p)
  PROVE  \E i \in DOMAIN p : \E e \in p[i].evidence :
           m = Evidence(Append(e.id, i), e.kind, e.component, e.polarity, e.subject, e.holders)
<1>1. PICK i \in DOMAIN p : \E e \in p[i].evidence : m = [e EXCEPT !.id = Append(@, i)]
  BY DEF FrameEvidence, MapFrameEvidence
<1>2. PICK e \in p[i].evidence : m = [e EXCEPT !.id = Append(@, i)]
  BY <1>1
<1>3. e = Evidence(e.id, e.kind, e.component, e.polarity, e.subject, e.holders)
  BY DEF IsEvidence
<1> QED
  BY <1>2, <1>3 DEF Evidence

(* So the frames' evidence is of the kind each frame's is.                  *)
LEMMA FramesAreInert ==
  ASSUME NEW p, \A i \in DOMAIN p : \A e \in p[i].evidence : Inert(e)
  PROVE  \A m \in FrameEvidence(p) : Inert(m)
<1> TAKE m \in FrameEvidence(p)
<1>1. \A i \in DOMAIN p : \A e \in p[i].evidence : IsEvidence(e)
  BY DEF Inert
<1>2. PICK i \in DOMAIN p : \E e \in p[i].evidence :
        m = Evidence(Append(e.id, i), e.kind, e.component, e.polarity, e.subject, e.holders)
  BY <1>1, FrameEvidenceIs
<1> QED
  BY <1>2 DEF Inert, IsEvidence, Evidence

(* The frames' reference matches are matches of the same lane.               *)
LEMMA FramesAreMatches ==
  ASSUME NEW p, NEW id, \A i \in DOMAIN p : MatchesOf(p[i].evidence, id)
  PROVE  MatchesOf(FrameEvidence(p), id)
<1> SUFFICES ASSUME NEW m \in FrameEvidence(p)
             PROVE  MatchesOf({m}, id)
  BY DEF MatchesOf
<1>1. \A i \in DOMAIN p : \A e \in p[i].evidence : IsEvidence(e)
  BY DEF MatchesOf
<1>2. PICK i \in DOMAIN p : \E e \in p[i].evidence :
        m = Evidence(Append(e.id, i), e.kind, e.component, e.polarity, e.subject, e.holders)
  BY <1>1, FrameEvidenceIs
<1> QED
  BY <1>2 DEF MatchesOf, IsEvidence, Evidence

(* The origin of a video is that of one of its frames, or unknown.          *)
LEMMA AggregateForensicsTells ==
  ASSUME NEW n \in Nat \ {0}, NEW p, DOMAIN p = 1 .. n,
         \A i \in 1 .. n : Ranked(2, p[i]) /\ p[i].verdict # "TAMPERED"
  PROVE  Ranked(2, AggregateForensics(p)) /\ AggregateForensics(p).state = CombinedState(p)
<1>1. /\ CombinedState(p) \in States
      /\ CombinedState(p) = "UNAVAILABLE" => \A i \in 1 .. n : p[i].verdict = "UNKNOWN"
  <2>1. \A i \in DOMAIN p : p[i].state \in States
    BY DEF Ranked
  <2>2. DOMAIN p # {}
    OBVIOUS
  <2>3. CombinedState(p) = "UNAVAILABLE" => \A i \in DOMAIN p : p[i].state = "UNAVAILABLE"
    BY <2>1, <2>2, CombinedStateIs
  <2>4. CombinedState(p) \in States
    BY <2>1, <2>2, CombinedStateIs
  <2> QED
    BY <2>3, <2>4 DEF Ranked
<1>2. CASE Conclusive(p) = {}
  BY <1>1, <1>2 DEF AggregateForensics, Ranked, Assessed, IsAssessment, Origins
<1>3. CASE Conclusive(p) # {}
  <2>1. \A i \in 1 .. n : p[i].confidence \in 0 .. 100
    BY DEF Ranked
  <2>2. PICK i \in Conclusive(p) : Strongest(p) = p[i]
    BY <1>3, <2>1, StrongestIsOne
  <2>3. Ranked(2, p[i]) /\ p[i].verdict # "TAMPERED"
    BY <2>2 DEF Conclusive
  <2>4. CombinedState(p) # "UNAVAILABLE"
    BY <1>1, <2>2 DEF Conclusive
  <2>5. AggregateForensics(p) = [p[i] EXCEPT !.state = CombinedState(p)]
    BY <1>3, <2>2 DEF AggregateForensics
  <2>6. AggregateForensics(p) = Assessed(CombinedState(p), p[i].verdict, p[i].confidence)
    <3>1. p[i] = Assessed(p[i].state, p[i].verdict, p[i].confidence)
      BY <2>3 DEF Ranked, IsAssessment
    <3> QED
      BY <2>5, <3>1 DEF Assessed
  <2> QED
    BY <1>1, <2>3, <2>4, <2>6 DEF Ranked, Assessed, IsAssessment
<1> QED
  BY <1>2, <1>3

(* A video: two origin lanes, the matcher and the localizer, frame by frame. *)
LEMMA VideoLanesTell ==
  ASSUME NEW manifest, NEW n \in Nat \ {0}, NEW frames, DOMAIN frames = 1 .. n, NEW truncated
  PROVE  LanesTell(request, VideoLanes(manifest, frames, truncated))
<1> DEFINE c2pa == VerifyC2PA(manifest)
           forensics == [i \in DOMAIN frames |-> InspectImageForensics(frames[i])]
           match == [i \in DOMAIN frames |-> MatchReferenceImage(frames[i])]
           local == [i \in DOMAIN frames |-> LocalizeReferenceImages(frames[i])]
           origins == [i \in DOMAIN frames |-> forensics[i].assessment]
           matches == [i \in DOMAIN frames |-> match[i].assessment]
           l == VideoLanes(manifest, frames, truncated)
<1>1. /\ l.provenance = <<c2pa.assessment, AggregateForensics(origins)>>
      /\ l.matching = AggregateImageMatches(matches)
      /\ l.localizer = AggregateComponent(local).state
      /\ l.consents = {}
      /\ \A c \in l.components :
            \/ c \in {c2pa.component, AggregateComponent(forensics), AggregateComponent(match),
                      AggregateComponent(local)}
            \/ c.id = "timeline"
      /\ l.evidence = c2pa.evidence \cup FrameEvidence(forensics)
                        \cup FrameEvidence(match) \cup FrameEvidence(local)
  BY DEF VideoLanes, Component
<1>2. OriginLane(c2pa, "c2pa")
      /\ (c2pa.assessment.verdict # "UNKNOWN" => c2pa.assessment.confidence >= 95)
  BY CredentialsTell
<1>3. \A i \in 1 .. n :
        /\ OriginLane(forensics[i], "forensics") /\ origins[i] = forensics[i].assessment
        /\ forensics[i].assessment.verdict # "TAMPERED"
        /\ forensics[i].assessment.confidence < 95
  BY ForensicsTell
<1>4. \A i \in 1 .. n :
        /\ match[i].component.id = "image-registry"
        /\ MatchesOf(match[i].evidence, "image-registry")
        /\ match[i].component.state # "AVAILABLE" => match[i].assessment.state = "UNAVAILABLE"
        /\ matches[i] = match[i].assessment
        /\ matches[i].state = IF frames[i].decoded = "yes" THEN "COMPLETE" ELSE "UNAVAILABLE"
        /\ frames[i].decoded # "yes" => \A e \in match[i].evidence : e.subject = "none"
  BY MatcherTells
<1>5. \A i \in 1 .. n :
        /\ local[i].component.id = "localizer" /\ MatchesOf(local[i].evidence, "localizer")
        /\ frames[i].decoded # "yes" => local[i].evidence = {}
  BY LocalizerTells
<1>6. /\ DOMAIN forensics = 1 .. n /\ DOMAIN match = 1 .. n /\ DOMAIN local = 1 .. n
      /\ DOMAIN origins = 1 .. n /\ DOMAIN matches = 1 .. n /\ 1 \in 1 .. n
  OBVIOUS
<1> HIDE DEF c2pa, forensics, match, local, origins, matches, l
<1>7. /\ \A e \in c2pa.evidence : Inert(e)
      /\ \A e \in FrameEvidence(forensics) : Inert(e)
      /\ MatchesOf(FrameEvidence(match), "image-registry")
      /\ MatchesOf(FrameEvidence(local), "localizer")
  <2>1. \A i \in DOMAIN forensics : \A e \in forensics[i].evidence : Inert(e)
    BY <1>3, <1>6 DEF OriginLane
  <2>2. \A i \in DOMAIN match : MatchesOf(match[i].evidence, "image-registry")
    BY <1>4, <1>6
  <2>3. \A i \in DOMAIN local : MatchesOf(local[i].evidence, "localizer")
    BY <1>5, <1>6
  <2>4. \A e \in FrameEvidence(forensics) : Inert(e)
    BY <2>1, FramesAreInert
  <2>5. MatchesOf(FrameEvidence(match), "image-registry")
    BY <2>2, FramesAreMatches
  <2>6. MatchesOf(FrameEvidence(local), "localizer")
    BY <2>3, FramesAreMatches
  <2> QED
    BY <1>2, <2>4, <2>5, <2>6 DEF OriginLane
<1>8. \A e \in l.evidence : Tells(request, e) /\ e.kind # "CONSENT_RECORD"
  BY <1>1, <1>7, LaneEvidenceTells
<1>9. /\ CombinedState(matches) \in States /\ l.matching.state = CombinedState(matches)
      /\ CombinedState(matches) = "COMPLETE" <=> \A i \in 1 .. n : matches[i].state = "COMPLETE"
      /\ CombinedState(matches) = "UNAVAILABLE"
           <=> \A i \in 1 .. n : matches[i].state = "UNAVAILABLE"
  <2>1. \A i \in DOMAIN matches : matches[i].state \in States
    BY <1>4, <1>6 DEF States
  <2>2. DOMAIN matches # {}
    BY <1>6
  <2>3. l.matching.state = CombinedState(matches)
    BY <1>1 DEF AggregateImageMatches, Assessed
  <2> QED
    BY <1>6, <2>1, <2>2, <2>3, CombinedStateIs
<1>10. /\ c2pa.component.id = "c2pa" /\ AggregateComponent(forensics).id = "forensics"
       /\ AggregateComponent(match).id = "image-registry"
       /\ AggregateComponent(local).id = "localizer"
  <2>1. /\ c2pa.component.id = "c2pa" /\ forensics[1].component.id = "forensics"
        /\ match[1].component.id = "image-registry" /\ local[1].component.id = "localizer"
    BY <1>2, <1>3, <1>4, <1>5, <1>6 DEF OriginLane
  <2> QED
    BY <2>1, AggregateComponentIs
<1>11. MatchingTells(request, l)
  <2>1. ASSUME l.matching.state = "UNAVAILABLE", NEW e \in l.evidence,
               e.kind = "REFERENCE_MATCH", e.subject # "none"
        PROVE  FALSE
    <3>1. \A i \in 1 .. n : frames[i].decoded # "yes"
      BY <1>4, <1>9, <2>1
    <3>2. /\ \A i \in DOMAIN match : \A x \in match[i].evidence : x.subject = "none"
          /\ \A i \in DOMAIN local : local[i].evidence = {}
      BY <1>4, <1>5, <1>6, <3>1
    <3>3. e \in FrameEvidence(match) \/ e \in FrameEvidence(local)
      BY <1>1, <1>7, <2>1 DEF Inert
    <3>4. \A x \in FrameEvidence(match) : x.subject = "none"
      <4>1. \A i \in DOMAIN match : \A x \in match[i].evidence : IsEvidence(x)
        BY <1>4, <1>6 DEF MatchesOf
      <4>2. \A x \in FrameEvidence(match) :
              \E i \in DOMAIN match : \E y \in match[i].evidence : x.subject = y.subject
        BY <4>1, FrameEvidenceIs DEF Evidence
      <4> QED
        BY <3>2, <4>2
    <3>5. FrameEvidence(local) = {}
      BY <3>2 DEF FrameEvidence, MapFrameEvidence
    <3> QED
      BY <2>1, <3>3, <3>4, <3>5
  <2>2. ASSUME NEW c \in l.components, c.id = "image-registry", c.state # "AVAILABLE"
        PROVE  l.matching.state # "COMPLETE"
    <3>1. c = AggregateComponent(match)
      BY <1>1, <1>10, <2>2
    <3>2. PICK i \in 1 .. n : match[i].component.state # "AVAILABLE"
      BY <1>6, <2>2, <3>1, AggregateComponentIs
    <3>3. matches[i].state # "COMPLETE"
      BY <1>4, <3>2
    <3> QED
      BY <1>9, <3>3
  <2> QED
    BY <1>9, <2>1, <2>2 DEF MatchingTells
<1>12. OriginsTell(request, l)
  <2> DEFINE a == AggregateForensics(origins)
  <2>1. Ranked(2, a) /\ a.state = CombinedState(origins)
    <3>1. ASSUME NEW i \in 1 .. n
          PROVE  Ranked(2, origins[i]) /\ origins[i].verdict # "TAMPERED"
      <4> DEFINE own == forensics[i].assessment
      <4>1. /\ IsAssessment(own) /\ own.state \in States /\ own.verdict \in Origins
            /\ own.confidence \in 0 .. 100 /\ own.confidence < 95 /\ own.verdict # "TAMPERED"
            /\ own.state = "UNAVAILABLE" => own.verdict = "UNKNOWN"
            /\ origins[i] = own
        BY <1>3 DEF OriginLane
      <4> HIDE DEF own
      <4> QED
        BY <4>1 DEF Ranked
    <3> QED
      BY <1>6, <3>1, AggregateForensicsTells
  <2>2. CombinedState(origins) = "COMPLETE" => \A i \in 1 .. n : origins[i].state = "COMPLETE"
    <3>1. \A i \in DOMAIN origins : origins[i].state \in States
      BY <1>3, <1>6 DEF OriginLane
    <3>2. DOMAIN origins # {}
      BY <1>6
    <3> QED
      BY <1>6, <3>1, <3>2, CombinedStateIs
  <2>3. Ranked(1, c2pa.assessment)
    BY <1>2 DEF OriginLane, Ranked
  <2> HIDE DEF a
  <2>4. DOMAIN l.provenance = 1 .. 2 /\ l.provenance[1] = c2pa.assessment /\ l.provenance[2] = a
    BY <1>1 DEF a
  <2>5. ASSUME NEW c \in l.components, c.id \in OriginLaneIds, c.state # "AVAILABLE"
        PROVE  \E i \in DOMAIN l.provenance : l.provenance[i].state # "COMPLETE"
    <3>1. c = c2pa.component \/ c = AggregateComponent(forensics)
      BY <1>1, <1>10, <2>5 DEF OriginLaneIds
    <3>2. CASE c = c2pa.component
      <4>1. l.provenance[1].state # "COMPLETE"
        BY <1>2, <2>4, <2>5, <3>2 DEF OriginLane
      <4> QED
        BY <2>4, <4>1
    <3>3. CASE c = AggregateComponent(forensics)
      <4>1. PICK i \in 1 .. n : forensics[i].component.state # "AVAILABLE"
        BY <1>6, <2>5, <3>3, AggregateComponentIs
      <4>2. origins[i].state # "COMPLETE"
        BY <1>3, <4>1 DEF OriginLane
      <4>3. l.provenance[2].state # "COMPLETE"
        BY <2>1, <2>2, <2>4, <4>2
      <4> QED
        BY <2>4, <4>3
    <3> QED
      BY <3>1, <3>2, <3>3
  <2>6. \A i \in 1 .. 2 : i = 1 \/ i = 2
    OBVIOUS
  <2>7. \A i \in DOMAIN l.provenance : Ranked(i, l.provenance[i])
    BY <2>1, <2>3, <2>4, <2>6
  <2>8. \E k \in {2, 3} : DOMAIN l.provenance = 1 .. k
    BY <2>4
  <2> QED
    BY <2>5, <2>7, <2>8 DEF OriginsTell
<1> QED
  BY <1>1, <1>8, <1>11, <1>12 DEF LanesTell, EvidenceTells, ConsentsTell, l

(* Audio: the credential reader, the structure of the file and the voice    *)
(* matcher if templates are enrolled; nothing that could match a reference. *)
LEMMA AudioLanesTell ==
  ASSUME NEW manifest, NEW voices
  PROVE  LanesTell(request, AudioLanes(manifest, voices))
<1> DEFINE c2pa == VerifyC2PA(manifest)
           consents == ConsentLanes("voice-consent", voices)
           all == {c2pa, AudioLane} \cup consents
           l == AudioLanes(manifest, voices)
<1>1. /\ l.provenance = <<c2pa.assessment, AudioLane.assessment>>
      /\ l.matching = AudioRights
      /\ l.consents = consents
      /\ \A c \in l.components : (\E x \in all : c = x.component) \/ c.id = "voice-consent"
      /\ l.evidence = UNION {x.evidence : x \in all}
  BY DEF AudioLanes, DeclaredUnavailable, Component
<1>2. /\ OriginLane(c2pa, "c2pa")
      /\ c2pa.assessment.verdict # "UNKNOWN" => c2pa.assessment.confidence >= 95
  BY CredentialsTell
<1>3. /\ AudioLane.component.id = "pcm-wav" /\ \A e \in AudioLane.evidence : Inert(e)
      /\ Ranked(2, AudioLane.assessment) /\ AudioLane.assessment.state = "COMPLETE"
  BY DEF AudioLane, Lane, Component, Evidence, Inert, IsEvidence, IsAssessment, ImageLaneIds,
         Ranked, Nothing, Assessed, States, Origins
<1>4. \A x \in consents : ConsentLane(request, "voice-consent", x)
  BY ConsentLanesTell
<1>5. AudioRights.state = "UNAVAILABLE"
  BY DEF AudioRights, Unavailable, Assessed
<1> HIDE DEF c2pa, consents, l
<1>6. \A e \in l.evidence : Inert(e) \/ \E x \in consents : e \in x.evidence
  BY <1>1, <1>2, <1>3 DEF OriginLane
<1>7. \A x \in consents : x.evidence \subseteq l.evidence
  BY <1>1
<1>8. EvidenceTells(request, l)
  BY <1>4, <1>6, LaneEvidenceTells DEF EvidenceTells, Modalities
<1>9. ConsentsTell(request, l)
  <2>1. \A e \in l.evidence :
          e.kind = "CONSENT_RECORD" => \E x \in consents : e \in x.evidence
    BY <1>6 DEF Inert
  <2> QED
    BY <1>1, <1>4, <1>7, <2>1 DEF ConsentsTell, ConsentLane
<1>10. MatchingTells(request, l)
  <2>1. \A e \in l.evidence : ~(e.kind = "REFERENCE_MATCH" /\ e.subject # "none")
    BY <1>4, <1>6 DEF Inert, ConsentLane
  <2>2. \A c \in l.components : c.id # "image-registry"
    BY <1>1, <1>2, <1>3, <1>4 DEF OriginLane, ConsentLane, Component
  <2> QED
    BY <1>1, <1>5, <2>1, <2>2 DEF MatchingTells, States
<1>11. OriginsTell(request, l)
  <2>1. DOMAIN l.provenance = 1 .. 2 /\ l.provenance[1] = c2pa.assessment
        /\ l.provenance[2] = AudioLane.assessment
    BY <1>1
  <2>2. Ranked(1, c2pa.assessment)
    BY <1>2 DEF OriginLane, Ranked
  <2>3. \A i \in 1 .. 2 : i = 1 \/ i = 2
    OBVIOUS
  <2>4. \A i \in DOMAIN l.provenance : Ranked(i, l.provenance[i])
    BY <1>3, <2>1, <2>2, <2>3
  <2>5. ASSUME NEW c \in l.components, c.id \in OriginLaneIds, c.state # "AVAILABLE"
        PROVE  l.provenance[1].state # "COMPLETE"
    <3>1. c = c2pa.component
      BY <1>1, <1>3, <1>4, <2>5 DEF OriginLaneIds, ConsentLane, Component
    <3> QED
      BY <1>2, <2>1, <2>5, <3>1 DEF OriginLane
  <2>6. 1 \in DOMAIN l.provenance /\ \E k \in {2, 3} : DOMAIN l.provenance = 1 .. k
    BY <2>1
  <2> QED
    BY <2>4, <2>5, <2>6 DEF OriginsTell
<1> QED
  BY <1>8, <1>9, <1>10, <1>11 DEF LanesTell, l

-----------------------------------------------------------------------------
(* What becomes of what the lanes tell *)

(* Tampering prevails; else what the credential declares does.              *)
LEMMA ProvenanceCombined ==
  ASSUME NEW r, NEW l, OriginsTell(r, l)
  PROVE  LET p == CombineProvenance(l.provenance) IN
         /\ p.state \in States /\ p.verdict \in Origins
         /\ p.verdict = "TAMPERED"
              <=> \E i \in DOMAIN l.provenance : l.provenance[i].verdict = "TAMPERED"
         /\ p.verdict # "TAMPERED" /\ l.provenance[1].verdict # "UNKNOWN" =>
              p.verdict = l.provenance[1].verdict
         /\ p.state = "COMPLETE" =>
              \A i \in DOMAIN l.provenance : l.provenance[i].state = "COMPLETE"
         /\ UnavailableIsUnknown(p)
<1> DEFINE q == l.provenance
           state == CombinedState(q)
           tampered == {i \in DOMAIN q : q[i].verdict = "TAMPERED"}
<1>1. PICK n \in {2, 3} : DOMAIN q = 1 .. n
  BY DEF OriginsTell
<1>2. n \in Nat /\ 1 \in DOMAIN q
  BY <1>1
<1>3. \A i \in DOMAIN q : Ranked(i, q[i])
  BY DEF OriginsTell
<1> HIDE DEF q
<1>4. /\ state \in States /\ (state = "COMPLETE" => \A i \in DOMAIN q : q[i].state = "COMPLETE")
      /\ state = "UNAVAILABLE" => \A i \in DOMAIN q : q[i].verdict = "UNKNOWN"
  <2>1. \A i \in DOMAIN q : q[i].state \in States
    BY <1>3 DEF Ranked
  <2>2. DOMAIN q # {}
    BY <1>2
  <2>3. /\ state \in States /\ (state = "COMPLETE" => \A i \in DOMAIN q : q[i].state = "COMPLETE")
        /\ state = "UNAVAILABLE" => \A i \in DOMAIN q : q[i].state = "UNAVAILABLE"
    BY <2>1, <2>2, CombinedStateIs
  <2> QED
    BY <1>3, <2>3 DEF Ranked
<1> HIDE DEF state
<1>5. CombineProvenance(q) = IF tampered # {} THEN Assessed(state, "TAMPERED", 100)
                             ELSE IF Conclusive(q) = {} THEN Assessed(state, "UNKNOWN", 0)
                             ELSE [Strongest(q) EXCEPT !.state = state]
  BY DEF CombineProvenance, state
<1>6. CASE tampered # {}
  BY <1>4, <1>5, <1>6 DEF Assessed, Origins, q, UnavailableIsUnknown
<1>7. CASE tampered = {} /\ Conclusive(q) = {}
  BY <1>2, <1>4, <1>5, <1>7 DEF Assessed, Origins, Conclusive, q, UnavailableIsUnknown
<1>8. CASE tampered = {} /\ Conclusive(q) # {}
  <2>1. \A i \in 1 .. n : q[i].confidence \in 0 .. 100
    BY <1>1, <1>3 DEF Ranked
  <2>2. PICK i \in Conclusive(q) :
          /\ Strongest(q) = q[i]
          /\ \A j \in Conclusive(q) : q[j].confidence <= q[i].confidence
    BY <1>1, <1>2, <1>8, <2>1, StrongestIsOne
  <2>3. i \in DOMAIN q /\ Ranked(i, q[i]) /\ q[i].verdict \notin {"UNKNOWN", "TAMPERED"}
    BY <1>3, <1>8, <2>2 DEF Conclusive
  <2>4. CombineProvenance(q) = Assessed(state, q[i].verdict, q[i].confidence)
    <3>1. CombineProvenance(q) = [q[i] EXCEPT !.state = state]
      BY <1>5, <1>8, <2>2
    <3>2. q[i] = Assessed(q[i].state, q[i].verdict, q[i].confidence)
      BY <2>3 DEF Ranked, IsAssessment
    <3> QED
      BY <3>1, <3>2 DEF Assessed
  <2>5. q[1].verdict # "UNKNOWN" => i = 1
    <3>1. SUFFICES ASSUME q[1].verdict # "UNKNOWN", i # 1
                   PROVE  FALSE
      OBVIOUS
    <3>2. 1 \in Conclusive(q) /\ Ranked(1, q[1])
      BY <1>2, <1>3, <3>1 DEF Conclusive
    <3>3. q[1].confidence >= 95 /\ q[1].confidence \in 0 .. 100
      BY <3>1, <3>2 DEF Ranked
    <3>4. q[i].confidence < 95 /\ q[i].confidence \in 0 .. 100
      BY <2>3, <3>1 DEF Ranked
    <3>5. q[1].confidence <= q[i].confidence
      BY <2>2, <3>2
    <3> QED
      BY <3>3, <3>4, <3>5
  <2>6. q[i].verdict \in Origins
    BY <2>3 DEF Ranked
  <2> QED
    BY <1>4, <1>8, <2>3, <2>4, <2>5, <2>6 DEF Assessed, q, UnavailableIsUnknown
<1> QED
  BY <1>6, <1>7, <1>8

(* No lane clears the rights; a conflict is one of licences or of consents. *)
LEMMA RightsCombined ==
  ASSUME NEW r, NEW l, MatchingTells(r, l), NEW result
  PROVE  LET rights1 == CombineConsentRights(
                          CombineRights(l.matching, l.localizer, result), l.consents)
             blind == l.matching.state = "UNAVAILABLE" /\ l.localizer # "AVAILABLE"
         IN /\ rights1.state \in States
            /\ rights1.verdict # "CLEAR"
            /\ rights1.verdict = "POLICY_CONFLICT"
                 <=> (result.conflict /\ ~blind) \/ \E c \in l.consents : c.conflict
            /\ rights1.state = "COMPLETE" /\ rights1.verdict # "POLICY_CONFLICT" =>
                 l.matching.state = "COMPLETE"
            /\ UnavailableIsUnknown(rights1)
<1> DEFINE base == CombineRights(l.matching, l.localizer, result)
           blind == l.matching.state = "UNAVAILABLE" /\ l.localizer # "AVAILABLE"
<1>1. /\ base.state \in States /\ base.verdict # "CLEAR"
      /\ base.verdict = "POLICY_CONFLICT" <=> result.conflict /\ ~blind
      /\ base.state = "COMPLETE" /\ base.verdict # "POLICY_CONFLICT" =>
           l.matching.state = "COMPLETE"
      /\ UnavailableIsUnknown(base)
  <2>1. l.matching.state \in States
    BY DEF MatchingTells
  <2> QED
    BY <2>1 DEF CombineRights, Assessed, Unavailable, States, UnavailableIsUnknown
<1> HIDE DEF base
<1>2. /\ CombineConsentRights(base, l.consents).state \in States
      /\ CombineConsentRights(base, l.consents).verdict # "CLEAR"
      /\ CombineConsentRights(base, l.consents).verdict = "POLICY_CONFLICT"
           <=> base.verdict = "POLICY_CONFLICT" \/ \E c \in l.consents : c.conflict
      /\ CombineConsentRights(base, l.consents).state = "COMPLETE"
           /\ CombineConsentRights(base, l.consents).verdict # "POLICY_CONFLICT" =>
              base.state = "COMPLETE" /\ base.verdict # "POLICY_CONFLICT"
      /\ UnavailableIsUnknown(CombineConsentRights(base, l.consents))
  BY <1>1 DEF CombineConsentRights, Assessed, States, UnavailableIsUnknown
<1> QED
  BY <1>1, <1>2 DEF base

(* Without cleared rights no policy comes to a GO, whatever it allows; what *)
(* it blocks on blocks, and a review it calls complete rests on complete    *)
(* inputs.                                                                  *)
LEMMA PolicyDecides ==
  ASSUME NEW context, NEW policy, NEW origin, NEW exposure, NEW conflict, NEW components
  PROVE  LET d == EvaluatePublicationPolicy(context, policy, origin, exposure, conflict, components)
         IN /\ d.decision \in {"GO", "REVIEW", "BLOCK"}
            /\ exposure.verdict # "CLEAR" => d.decision # "GO"
            /\ conflict /\ policy.blockUnlicensed =>
                 d.decision = "BLOCK" /\ "rights.licence-coverage" \in d.citations
            /\ exposure.verdict = "POLICY_CONFLICT" /\ policy.blockUnconsented =>
                 d.decision = "BLOCK"
            /\ origin.verdict = "TAMPERED" /\ policy.blockTampered => d.decision = "BLOCK"
            /\ d.decision = "REVIEW" /\ d.state = "COMPLETE" =>
                 ~IncompleteInputs(policy, origin, exposure, components)
<1> DEFINE block == BlockReasons(context, policy, origin, exposure, conflict)
           review == ReviewReasons(context, policy, origin, exposure, conflict, components)
           d == EvaluatePublicationPolicy(context, policy, origin, exposure, conflict, components)
<1>1. exposure.verdict # "CLEAR" => review # {}
  <2>1. exposure.verdict # "CLEAR" =>
          RightsReviews(policy, exposure, conflict) \cap {"rights.clearance", "rights.release-floor"} # {}
    BY DEF RightsReviews
  <2> QED
    BY <2>1 DEF ReviewReasons
<1>2. conflict /\ policy.blockUnlicensed => "rights.licence-coverage" \in block
  BY DEF BlockReasons, RightsBlocks, ConflictRule
<1>3. exposure.verdict = "POLICY_CONFLICT" /\ policy.blockUnconsented => block # {}
  <2>1. exposure.verdict = "POLICY_CONFLICT" /\ policy.blockUnconsented =>
          ConflictRule(policy, exposure, conflict)
            \in {"rights.licence-coverage", "rights.consent-coverage"}
    BY DEF ConflictRule
  <2> QED
    BY <2>1 DEF BlockReasons, RightsBlocks
<1>4. origin.verdict = "TAMPERED" /\ policy.blockTampered => "provenance.tampered" \in block
  BY DEF BlockReasons, ProvenanceBlocks
<1>5. /\ d.decision = Decision(block, review)
      /\ d.citations = CASE d.decision = "BLOCK" -> block [] d.decision = "REVIEW" -> review
                         [] OTHER -> {"release.go"}
      /\ d.state = IF d.decision = "REVIEW" /\ IncompleteInputs(policy, origin, exposure, components)
                   THEN "PARTIAL" ELSE "COMPLETE"
  BY DEF EvaluatePublicationPolicy
<1> HIDE DEF block, review, d
<1> QED
  BY <1>1, <1>2, <1>3, <1>4, <1>5 DEF Decision, d

(* The evaluators cover a use exactly if the terms permit all of it.        *)
LEMMA CoverageIsPermission ==
  ASSUME request \in Requests
  PROVE  /\ \A l \in request.licences :
              LicenceCovers(l, request.context, request.at)
                <=> l.state = "ACTIVE" /\ Permits(l, request.context.use.stripped)
         /\ \A t \in UNION request.consents :
              ScopeCovers(t.consent, request.context, request.at) <=> Consented(t)
<1>1. request.at \in Int
      /\ \A terms \in request.licences \cup {t.consent : t \in UNION request.consents} :
            terms.from \in Int /\ terms.until \in Int
  BY RegistriesAssumption
<1>2. ASSUME NEW terms, terms.from \in Int, terms.until \in Int, NEW use
      PROVE  Permits(terms, use) <=>
               /\ terms.from <= request.at /\ request.at <= terms.until
               /\ Within(request.context.territories, terms.territories)
               /\ Within({request.context.channel}, terms.channels)
               /\ Within({use}, terms.uses)
  <2>1. request.at \in terms.from .. terms.until
          <=> terms.from <= request.at /\ request.at <= terms.until
    BY <1>1, <1>2
  <2>2. \A a, S : {a, "*"} \cap S # {} <=> Within({a}, S)
    BY DEF Within
  <2>3. (\A t \in request.context.territories : {t, "*"} \cap terms.territories # {})
          <=> Within(request.context.territories, terms.territories)
    BY DEF Within
  <2> QED
    BY <2>1, <2>2, <2>3 DEF Permits
<1>3. ASSUME NEW l \in request.licences
      PROVE  LicenceCovers(l, request.context, request.at)
               <=> l.state = "ACTIVE" /\ Permits(l, request.context.use.stripped)
  BY <1>1, <1>2 DEF LicenceCovers
<1>4. ASSUME NEW t \in UNION request.consents
      PROVE  ScopeCovers(t.consent, request.context, request.at) <=> Consented(t)
  BY <1>1, <1>2 DEF ScopeCovers, Consented
<1> QED
  BY <1>3, <1>4

-----------------------------------------------------------------------------
(* What the lanes return fits into one record: no id twice, and no claim     *)
(* without the evidence it needs.                                            *)

(* The ids of an image's records are short tuples, which a frame number     *)
(* lengthens without confusing any two.                                     *)
ShortId(id) == (\E a : id = <<a>>) \/ (\E a, b : id = <<a, b>>)

(* A frame number lengthens an id and leaves what it was told by.            *)
LEMMA Append1 ==
  ASSUME NEW a, NEW i
  PROVE  Append(<<a>>, i)[1] = a /\ Append(<<a>>, i)[2] = i /\ Len(Append(<<a>>, i)) = 2
OBVIOUS

(* The same of an id of two parts.                                           *)
LEMMA Append2 ==
  ASSUME NEW a, NEW b, NEW i
  PROVE  /\ Append(<<a, b>>, i)[1] = a /\ Append(<<a, b>>, i)[2] = b
         /\ Append(<<a, b>>, i)[3] = i /\ Len(Append(<<a, b>>, i)) = 3
OBVIOUS

(* A frame's id begins like the image's.                                     *)
LEMMA FrameIdBegins ==
  ASSUME NEW s, ShortId(s), NEW i
  PROVE  Append(s, i)[1] = s[1]
<1>1. \A a : Append(<<a>>, i)[1] = <<a>>[1]
  BY Append1
<1>2. \A a, b : Append(<<a, b>>, i)[1] = <<a, b>>[1]
  BY Append2
<1> QED
  BY <1>1, <1>2 DEF ShortId

(* Ids of different records or different frames differ.                      *)
LEMMA FrameIds ==
  ASSUME NEW s, NEW t, ShortId(s), ShortId(t), NEW i, NEW j, Append(s, i) = Append(t, j)
  PROVE  s = t /\ i = j
<1>1. CASE \E a : s = <<a>>
  <2>1. PICK a : s = <<a>>
    BY <1>1
  <2>2. Append(s, i)[1] = a /\ Append(s, i)[2] = i /\ Len(Append(s, i)) = 2
    BY <2>1, Append1
  <2>3. ASSUME NEW b, t = <<b>>, Append(s, i) = Append(t, j)
        PROVE  s = t /\ i = j
    BY <2>1, <2>2, <2>3, Append1
  <2>4. ASSUME NEW b, NEW c, t = <<b, c>>, Append(s, i) = Append(t, j)
        PROVE  FALSE
    BY <2>2, <2>4, Append2
  <2> QED
    BY <2>2, <2>3, <2>4 DEF ShortId
<1>2. CASE \E a, b : s = <<a, b>>
  <2>1. PICK a, b : s = <<a, b>>
    BY <1>2
  <2>2. /\ Append(s, i)[1] = a /\ Append(s, i)[2] = b
        /\ Append(s, i)[3] = i /\ Len(Append(s, i)) = 3
    BY <2>1, Append2
  <2>3. ASSUME NEW c, t = <<c>>, Append(s, i) = Append(t, j)
        PROVE  FALSE
    BY <2>2, <2>3, Append1
  <2>4. ASSUME NEW c, NEW d, t = <<c, d>>, Append(s, i) = Append(t, j)
        PROVE  s = t /\ i = j
    BY <2>1, <2>2, <2>4, Append2
  <2> QED
    BY <2>2, <2>3, <2>4 DEF ShortId
<1> QED
  BY <1>1, <1>2 DEF ShortId

IsClaim(c) == c = Claim(c.id, c.outcome, c.mandatory, c.evidence)

Framable(evidence, claims) ==
  /\ \A e \in evidence : IsEvidence(e) /\ ShortId(e.id)
  /\ \A c \in claims : IsClaim(c) /\ ShortId(c.id)

(* The ids each component gives its records.                                 *)
LEMMA Owners ==
  /\ \A t \in {"c2pa", "c2pa-failure", "c2pa-presence", "c2pa-integrity", "c2pa-ai-source"} :
        Owner(t) = "c2pa"
  /\ \A t \in {"forensics-failure", "forensics", "metadata", "residual"} : Owner(t) = "forensics"
  /\ \A t \in {"watermark-failure", "watermark-applicability", "watermark"} :
        Owner(t) = "watermark"
  /\ \A t \in {"rights-failure", "rights-registry", "rights-query", "rights-match"} :
        Owner(t) = "image-registry"
  /\ \A t \in {"localization", "localization-query"} : Owner(t) = "localizer"
  /\ \A t \in {"audio-structure", "audio-origin", "audio-rights"} : Owner(t) = "pcm-wav"
  /\ \A t \in {"licence", "licence-not-assessed"} : Owner(t) = "licence-evaluator"
  /\ \A t \in {"policy", "policy-release"} : Owner(t) = "policy-compiler"
  /\ \A t \in Modalities : Owner(t) = t
  BY DEF Owner, Modalities

(* The fields of an item of evidence are those it was built from.            *)
LEMMA EvidenceFields ==
  \A id, kind, component, polarity, subject, holders :
    LET e == Evidence(id, kind, component, polarity, subject, holders) IN
    /\ e.id = id /\ e.kind = kind /\ e.component = component /\ e.polarity = polarity
    /\ e.subject = subject /\ e.holders = holders /\ IsEvidence(e)
  BY DEF Evidence, IsEvidence

(* And so are those of a claim.                                              *)
LEMMA ClaimFields ==
  \A id, outcome, mandatory, evidence :
    LET c == Claim(id, outcome, mandatory, evidence) IN
    /\ c.id = id /\ c.outcome = outcome /\ c.mandatory = mandatory /\ c.evidence = evidence
    /\ IsClaim(c)
  BY DEF Claim, IsClaim

(* Ids of one and of two parts.                                              *)
LEMMA ShortIds ==
  /\ \A a : ShortId(<<a>>) /\ <<a>>[1] = a
  /\ \A a, b : ShortId(<<a, b>>) /\ <<a, b>>[1] = a /\ <<a, b>>[2] = b
  BY DEF ShortId

(* The simplest ways to fit: nothing found, or nothing looked at, a failure, *)
(* and a query that found nothing.                                          *)
LEMMA SilenceFits ==
  ASSUME NEW tag, NEW outcome, outcome \in {"UNKNOWN", "NOT_ASSESSED"}, NEW mandatory
  PROVE  /\ RecordsFit(Owner(tag), {}, {Claim(<<tag>>, outcome, mandatory, {})})
         /\ Framable({}, {Claim(<<tag>>, outcome, mandatory, {})})
<1> DEFINE c == Claim(<<tag>>, outcome, mandatory, {})
<1>1. c.id = <<tag>> /\ c.outcome = outcome /\ c.evidence = {} /\ IsClaim(c)
  BY ClaimFields
<1>2. ShortId(<<tag>>) /\ <<tag>>[1] = tag
  BY ShortIds
<1> HIDE DEF c
<1>3. RecordsFit(Owner(tag), {}, {c}) /\ Framable({}, {c})
  BY <1>1, <1>2 DEF RecordsFit, UniqueIds, EvidenceSemantics, Framable
<1> QED
  BY <1>3 DEF c

(* One item of evidence and one claim that rests on nothing else.            *)
LEMMA PairFits ==
  ASSUME NEW id, NEW e, NEW c,
         e.component = id, Owner(e.id[1]) = id, Owner(c.id[1]) = id,
         EvidenceSemantics(c), c.evidence \subseteq {e.id}
  PROVE  /\ RecordsFit(id, {e}, {c})
         /\ ShortId(e.id) /\ ShortId(c.id) /\ IsEvidence(e) /\ IsClaim(c) => Framable({e}, {c})
  BY DEF RecordsFit, UniqueIds, Framable, Ids

(* And the other: a record of evidence and a claim for each of several.     *)
Listed(S, f) == \A e : e \in S <=> \E x \in DOMAIN f : e = f[x]

(* One item of evidence for each of several, and a claim that rests on it.   *)
LEMMA ClaimsFit ==
  ASSUME NEW id, NEW E, NEW C, NEW ev, NEW cl, Listed(E, ev), Listed(C, cl),
         DOMAIN cl = DOMAIN ev,
         \A x \in DOMAIN ev :
            /\ ev[x].component = id /\ Owner(ev[x].id[1]) = id /\ IsEvidence(ev[x])
            /\ cl[x].id = ev[x].id /\ cl[x].evidence = {ev[x].id} /\ IsClaim(cl[x])
            /\ cl[x].outcome \in {"SUPPORTED", "CONTRADICTED"},
         \A x, y \in DOMAIN ev : ev[x].id = ev[y].id => x = y
  PROVE  RecordsFit(id, E, C) /\ ((\A x \in DOMAIN ev : ShortId(ev[x].id)) => Framable(E, C))
<1>1. UniqueIds(E) /\ UniqueIds(C)
  BY DEF UniqueIds, Listed
<1>2. \A c \in C : /\ EvidenceSemantics(c) /\ c.evidence \subseteq Ids(E)
                   /\ Owner(c.id[1]) = id
  BY DEF EvidenceSemantics, Ids, Listed
<1>3. \A e \in E : e.component = id /\ Owner(e.id[1]) = id
  BY DEF Listed
<1>4. RecordsFit(id, E, C)
  BY <1>1, <1>2, <1>3 DEF RecordsFit
<1>5. (\A x \in DOMAIN ev : ShortId(ev[x].id)) => Framable(E, C)
  BY DEF Framable, Listed
<1> QED
  BY <1>4, <1>5

(* The credential reader: silence, a failure, or what a manifest tells.      *)
LEMMA CredentialsFit ==
  ASSUME NEW manifest
  PROVE  RecordsFit("c2pa", VerifyC2PA(manifest).evidence, VerifyC2PA(manifest).claims)
<1> DEFINE lane == VerifyC2PA(manifest)
<1>1. CASE manifest.read = "absent"
  <2>1. lane.evidence = {} /\ lane.claims = {Claim(<<"c2pa-presence">>, "UNKNOWN", FALSE, {})}
    BY <1>1 DEF VerifyC2PA, UnknownWithoutManifest, Lane
  <2>2. Owner("c2pa-presence") = "c2pa"
    BY Owners
  <2> QED
    BY <2>1, <2>2, SilenceFits
<1>2. CASE manifest.read = "error"
  <2> DEFINE e == Evidence(<<"c2pa-failure">>, "COMPONENT_FAILURE", "c2pa", "NEUTRAL", "none", {})
             c == Claim(<<"c2pa-integrity">>, "NOT_ASSESSED", FALSE, {})
  <2>1. lane.evidence = {e} /\ lane.claims = {c}
    BY <1>2 DEF VerifyC2PA, C2PAFailure, Lane
  <2>2. /\ e.id = <<"c2pa-failure">> /\ e.component = "c2pa" /\ IsEvidence(e)
        /\ c.id = <<"c2pa-integrity">> /\ c.outcome = "NOT_ASSESSED" /\ c.evidence = {} /\ IsClaim(c)
    BY DEF Evidence, Claim, IsEvidence, IsClaim
  <2> HIDE DEF e, c
  <2>3. /\ Owner(e.id[1]) = "c2pa" /\ Owner(c.id[1]) = "c2pa"
        /\ ShortId(e.id) /\ ShortId(c.id)
    BY <2>2, Owners, ShortIds
  <2>4. EvidenceSemantics(c) /\ c.evidence \subseteq {e.id}
    BY <2>2 DEF EvidenceSemantics
  <2> QED
    BY <2>1, <2>2, <2>3, <2>4, PairFits
<1>3. CASE manifest.read \notin {"absent", "error"}
  <2> DEFINE integrity == CredentialIntegrity(manifest)
             verdict == CredentialAssessment(manifest).verdict
             item == Evidence(<<"c2pa">>, "CONTENT_CREDENTIAL", "c2pa", PolarityOf(integrity), "none", {})
             named == IF integrity = "UNKNOWN" THEN {} ELSE {<<"c2pa">>}
             c1 == Claim(<<"c2pa-integrity">>, integrity, FALSE, named)
             c2 == Claim(<<"c2pa-ai-source">>, "SUPPORTED", FALSE, {<<"c2pa">>})
  <2>1. integrity \in {"CONTRADICTED", "SUPPORTED", "UNKNOWN"}
    BY DEF CredentialIntegrity
  <2>2. VerifyC2PA(manifest) = MapObservation(manifest)
    BY <1>3 DEF VerifyC2PA
  <2>3. /\ lane.evidence = {item}
        /\ lane.claims = {c1} \cup {c2 : v \in {verdict} \cap {"AI_GENERATED", "PARTIALLY_GENERATED"}}
    BY <2>2 DEF MapObservation, Lane
  <2>4. item.id = <<"c2pa">> /\ item.component = "c2pa"
    BY EvidenceFields
  <2>11. named = {} <=> integrity = "UNKNOWN"
    OBVIOUS
  <2>12. named \subseteq {<<"c2pa">>}
    OBVIOUS
  <2> HIDE DEF integrity, named, verdict
  <2>5. /\ c1.id = <<"c2pa-integrity">> /\ c1.outcome = integrity /\ c1.evidence = named
        /\ c2.id = <<"c2pa-ai-source">> /\ c2.outcome = "SUPPORTED" /\ c2.evidence = {<<"c2pa">>}
    <3>1. c1.id = <<"c2pa-integrity">> /\ c1.outcome = integrity /\ c1.evidence = named
      BY DEF Claim
    <3>2. c2.id = <<"c2pa-ai-source">> /\ c2.outcome = "SUPPORTED" /\ c2.evidence = {<<"c2pa">>}
      BY DEF Claim
    <3> QED
      BY <3>1, <3>2
  <2> HIDE DEF item, c1, c2, lane
  <2>6. \A c \in lane.claims : c = c1 \/ c = c2
    BY <2>3
  <2>7. c1.id # c2.id /\ <<"c2pa">> \in Ids(lane.evidence)
    BY <2>3, <2>4, <2>5 DEF Ids
  <2>8. UniqueIds(lane.evidence) /\ UniqueIds(lane.claims)
    BY <2>3, <2>6, <2>7 DEF UniqueIds
  <2>9. \A c \in lane.claims : EvidenceSemantics(c) /\ c.evidence \subseteq Ids(lane.evidence)
    BY <2>1, <2>5, <2>6, <2>7, <2>11, <2>12 DEF EvidenceSemantics
  <2>10. (\A c \in lane.claims : Owner(c.id[1]) = "c2pa")
         /\ \A e \in lane.evidence : e.component = "c2pa" /\ Owner(e.id[1]) = "c2pa"
    BY <2>3, <2>4, <2>5, <2>6, Owners, ShortIds
  <2> QED
    BY <2>8, <2>9, <2>10 DEF RecordsFit, lane
<1> QED
  BY <1>1, <1>2, <1>3

(* Metadata and residual, each with its claim.                               *)
LEMMA ForensicsFit ==
  ASSUME NEW o
  PROVE  LET lane == InspectImageForensics(o) IN
         RecordsFit("forensics", lane.evidence, lane.claims) /\ Framable(lane.evidence, lane.claims)
<1> DEFINE lane == InspectImageForensics(o)
<1>1. CASE o.decoded # "yes"
  <2> DEFINE e == Evidence(<<"forensics-failure">>, "COMPONENT_FAILURE", "forensics", "NEUTRAL", "none", {})
             c == Claim(<<"forensics">>, "NOT_ASSESSED", FALSE, {})
  <2>1. lane.evidence = {e} /\ lane.claims = {c}
    BY <1>1 DEF InspectImageForensics, ForensicFailure, Lane
  <2>2. /\ e.id = <<"forensics-failure">> /\ e.component = "forensics" /\ IsEvidence(e)
        /\ c.id = <<"forensics">> /\ c.outcome = "NOT_ASSESSED" /\ c.evidence = {} /\ IsClaim(c)
    BY DEF Evidence, Claim, IsEvidence, IsClaim
  <2> HIDE DEF e, c
  <2>3. /\ Owner(e.id[1]) = "forensics" /\ Owner(c.id[1]) = "forensics"
        /\ ShortId(e.id) /\ ShortId(c.id)
    BY <2>2, Owners, ShortIds
  <2>4. EvidenceSemantics(c) /\ c.evidence \subseteq {e.id}
    BY <2>2 DEF EvidenceSemantics
  <2> QED
    BY <2>1, <2>2, <2>3, <2>4, PairFits
<1>2. CASE o.decoded = "yes"
  <2> DEFINE meta == Evidence(<<"metadata">>, "METADATA", "forensics", "SUPPORTS", "none", {})
             polarity == IF o.residual = "anomalous" THEN "SUPPORTS" ELSE "NEUTRAL"
             told == IF o.markers = "none" THEN "UNKNOWN" ELSE "SUPPORTED"
             measured == IF o.residual = "anomalous" THEN "SUPPORTED" ELSE "CONTRADICTED"
             pixels == Evidence(<<"residual">>, "FORENSIC_SIGNAL", "forensics", polarity, "none", {})
             cm == Claim(<<"metadata">>, told, FALSE, Ids(MetadataEvidence(o)))
             cr == Claim(pixels.id, measured, FALSE, {pixels.id})
  <2>1. /\ lane.evidence = MetadataEvidence(o) \cup ResidualEvidence(o)
        /\ lane.claims = {cm} \cup {Claim(e.id, measured, FALSE, {e.id}) :
                                      e \in ResidualEvidence(o)}
    BY <1>2 DEF InspectImageForensics, Lane
  <2>2. MetadataEvidence(o) = IF o.markers = "none" THEN {} ELSE {meta}
    BY DEF MetadataEvidence
  <2>3. ResidualEvidence(o) = {} \/ ResidualEvidence(o) = {pixels}
    BY DEF ResidualEvidence
  <2>14. /\ measured \in {"SUPPORTED", "CONTRADICTED"}
         /\ told = IF o.markers = "none" THEN "UNKNOWN" ELSE "SUPPORTED"
    OBVIOUS
  <2> HIDE DEF polarity, told, measured
  <2>4. /\ meta.id = <<"metadata">> /\ meta.component = "forensics" /\ IsEvidence(meta)
        /\ pixels.id = <<"residual">> /\ pixels.component = "forensics" /\ IsEvidence(pixels)
    BY EvidenceFields
  <2> HIDE DEF meta, pixels
  <2>5. /\ cm.id = <<"metadata">> /\ cm.evidence = Ids(MetadataEvidence(o)) /\ IsClaim(cm)
        /\ cm.outcome = told
        /\ cr.id = pixels.id /\ cr.evidence = {pixels.id} /\ IsClaim(cr)
        /\ cr.outcome = measured
    BY DEF Claim, IsClaim
  <2>6. /\ ShortId(<<"metadata">>) /\ <<"metadata">>[1] = "metadata"
        /\ ShortId(<<"residual">>) /\ <<"residual">>[1] = "residual"
        /\ Owner("metadata") = "forensics" /\ Owner("residual") = "forensics"
    BY Owners, ShortIds
  <2>7. \/ lane.claims = {cm} /\ lane.evidence = MetadataEvidence(o)
        \/ /\ lane.claims = {cm, cr} /\ pixels \in lane.evidence
           /\ lane.evidence = MetadataEvidence(o) \cup {pixels}
    BY <2>1, <2>3
  <2> HIDE DEF lane, cm, cr
  <2>8. /\ \A e \in lane.evidence : e = meta \/ e = pixels
        /\ \A c \in lane.claims : c = cm \/ (c = cr /\ pixels \in lane.evidence)
        /\ MetadataEvidence(o) \subseteq lane.evidence
    BY <2>2, <2>7
  <2>9. meta.id # pixels.id
    BY <2>4
  <2>10. UniqueIds(lane.evidence) /\ UniqueIds(lane.claims)
    BY <2>4, <2>5, <2>8, <2>9 DEF UniqueIds
  <2>11. EvidenceSemantics(cm) /\ EvidenceSemantics(cr)
    BY <2>2, <2>5, <2>14 DEF EvidenceSemantics, Ids
  <2>12. \A c \in lane.claims : EvidenceSemantics(c) /\ c.evidence \subseteq Ids(lane.evidence)
    BY <2>5, <2>8, <2>11 DEF Ids
  <2>13. /\ \A c \in lane.claims : Owner(c.id[1]) = "forensics" /\ ShortId(c.id) /\ IsClaim(c)
         /\ \A e \in lane.evidence : /\ e.component = "forensics" /\ Owner(e.id[1]) = "forensics"
                                     /\ ShortId(e.id) /\ IsEvidence(e)
    BY <2>4, <2>5, <2>6, <2>8
  <2> QED
    BY <2>10, <2>12, <2>13 DEF RecordsFit, Framable, lane
<1> QED
  BY <1>1, <1>2

(* One record and one claim for each profile that was looked for.            *)
LEMMA WatermarksFit ==
  ASSUME NEW registry, UniqueIds(registry), NEW brand, NEW o, NEW intact
  PROVE  LET lane == VerifyVisibleWatermarks(registry, brand, o, intact) IN
         RecordsFit("watermark", lane.evidence, lane.claims)
<1> DEFINE lane == VerifyVisibleWatermarks(registry, brand, o, intact)
           selected == SelectedProfiles(registry, brand)
<1>1. CASE selected = {}
  <2>1. lane.evidence = {} /\ lane.claims = {Claim(<<"watermark-applicability">>, "NOT_ASSESSED", FALSE, {})}
    BY <1>1 DEF VerifyVisibleWatermarks, NoWatermarkApplies, Lane
  <2>2. Owner("watermark-applicability") = "watermark"
    BY Owners
  <2> QED
    BY <2>1, <2>2, SilenceFits
<1>2. CASE selected # {} /\ o.decoded # "yes"
  <2>1. lane.evidence = {} /\ lane.claims = {Claim(<<"watermark-failure">>, "NOT_ASSESSED", TRUE, {})}
    BY <1>2 DEF VerifyVisibleWatermarks, WatermarkFailure, Lane
  <2>2. Owner("watermark-failure") = "watermark"
    BY Owners
  <2> QED
    BY <2>1, <2>2, SilenceFits
<1>3. CASE selected # {} /\ o.decoded = "yes"
  <2> DEFINE damaged == {p \in selected : p.id \notin intact}
             polarity == [p \in selected |-> IF p \in damaged THEN "CONTRADICTS" ELSE "SUPPORTS"]
             outcome == [p \in selected |-> IF p \in damaged THEN "CONTRADICTED" ELSE "SUPPORTED"]
             ev == [p \in selected |->
                      Evidence(<<"watermark", p.id>>, "WATERMARK", "watermark", polarity[p],
                               "none", {})]
             cl == [p \in selected |->
                      Claim(<<"watermark", p.id>>, outcome[p], TRUE, {<<"watermark", p.id>>})]
  <2>1. lane = CheckedWatermarks(selected, intact)
    BY <1>3 DEF VerifyVisibleWatermarks
  <2>2. Listed(lane.evidence, ev) /\ Listed(lane.claims, cl)
    <3>1. /\ \A p \in selected :
               /\ ev[p] = Evidence(<<"watermark", p.id>>, "WATERMARK", "watermark",
                                   IF p \in damaged THEN "CONTRADICTS" ELSE "SUPPORTS", "none", {})
               /\ cl[p] = Claim(<<"watermark", p.id>>,
                                IF p \in damaged THEN "CONTRADICTED" ELSE "SUPPORTED",
                                TRUE, {<<"watermark", p.id>>})
         /\ DOMAIN ev = selected /\ DOMAIN cl = selected
      OBVIOUS
    <3> HIDE DEF ev, cl
    <3>2. /\ lane.evidence =
                {Evidence(<<"watermark", p.id>>, "WATERMARK", "watermark",
                          IF p \in damaged THEN "CONTRADICTS" ELSE "SUPPORTS", "none", {}) :
                   p \in selected}
          /\ lane.claims =
                {Claim(<<"watermark", p.id>>, IF p \in damaged THEN "CONTRADICTED" ELSE "SUPPORTED",
                       TRUE, {<<"watermark", p.id>>}) : p \in selected}
      BY <2>1 DEF CheckedWatermarks, Lane
    <3> QED
      BY <3>1, <3>2 DEF Listed
  <2>3. \A x, y \in selected : x.id = y.id => x = y
    BY DEF SelectedProfiles, UniqueIds
  <2>9. /\ \A p \in selected : outcome[p] \in {"SUPPORTED", "CONTRADICTED"}
        /\ DOMAIN ev = selected /\ DOMAIN cl = selected
    OBVIOUS
  <2> HIDE DEF polarity, outcome
  <2>4. \A p \in selected :
          /\ ev[p].id = <<"watermark", p.id>> /\ ev[p].component = "watermark" /\ IsEvidence(ev[p])
          /\ cl[p].id = ev[p].id /\ cl[p].evidence = {ev[p].id} /\ IsClaim(cl[p])
          /\ cl[p].outcome \in {"SUPPORTED", "CONTRADICTED"}
    BY <2>9 DEF Evidence, Claim, IsEvidence, IsClaim
  <2> HIDE DEF lane, selected, ev, cl
  <2>5. \A p \in selected : ev[p].id[1] = "watermark" /\ ev[p].id[2] = p.id
    BY <2>4, ShortIds
  <2>6. \A x, y \in selected : ev[x].id = ev[y].id => x = y
    BY <2>3, <2>5
  <2>7. Owner("watermark") = "watermark"
    BY Owners
  <2>8. RecordsFit("watermark", lane.evidence, lane.claims)
    BY <2>2, <2>4, <2>5, <2>6, <2>7, <2>9, ClaimsFit
  <2> QED
    BY <2>8 DEF lane
<1> QED
  BY <1>1, <1>2, <1>3

(* References matched or localized: one record and one claim for each.      *)
LEMMA MatcherFits ==
  ASSUME NEW o
  PROVE  LET lane == MatchReferenceImage(o) IN
         RecordsFit("image-registry", lane.evidence, lane.claims) /\ Framable(lane.evidence, lane.claims)
<1> DEFINE lane == MatchReferenceImage(o)
<1>1. CASE o.decoded # "yes"
  <2> DEFINE e == Evidence(<<"rights-failure">>, "COMPONENT_FAILURE", "image-registry", "NEUTRAL", "none", {})
             c == Claim(<<"rights-registry">>, "NOT_ASSESSED", FALSE, {})
  <2>1. lane.evidence = {e} /\ lane.claims = {c}
    BY <1>1 DEF MatchReferenceImage, MatchFailure, Lane
  <2>2. /\ e.id = <<"rights-failure">> /\ e.component = "image-registry" /\ IsEvidence(e)
        /\ c.id = <<"rights-registry">> /\ c.outcome = "NOT_ASSESSED" /\ c.evidence = {} /\ IsClaim(c)
    BY DEF Evidence, Claim, IsEvidence, IsClaim
  <2> HIDE DEF e, c
  <2>3. /\ Owner(e.id[1]) = "image-registry" /\ Owner(c.id[1]) = "image-registry"
        /\ ShortId(e.id) /\ ShortId(c.id)
    BY <2>2, Owners, ShortIds
  <2>4. EvidenceSemantics(c) /\ c.evidence \subseteq {e.id}
    BY <2>2 DEF EvidenceSemantics
  <2> QED
    BY <2>1, <2>2, <2>3, <2>4, PairFits
<1>2. CASE o.decoded = "yes" /\ o.matched = {}
  <2> DEFINE e == Evidence(<<"rights-query">>, "REFERENCE_MATCH", "image-registry", "CONTRADICTS", "none", {})
             c == Claim(<<"rights-registry">>, "CONTRADICTED", FALSE, {<<"rights-query">>})
  <2>1. lane.evidence = {e} /\ lane.claims = {c}
    BY <1>2 DEF MatchReferenceImage, NoMatch, Lane
  <2>2. /\ e.id = <<"rights-query">> /\ e.component = "image-registry" /\ IsEvidence(e)
        /\ c.id = <<"rights-registry">> /\ c.outcome = "CONTRADICTED" /\ c.evidence = {<<"rights-query">>} /\ IsClaim(c)
    BY DEF Evidence, Claim, IsEvidence, IsClaim
  <2> HIDE DEF e, c
  <2>3. /\ Owner(e.id[1]) = "image-registry" /\ Owner(c.id[1]) = "image-registry"
        /\ ShortId(e.id) /\ ShortId(c.id)
    BY <2>2, Owners, ShortIds
  <2>4. EvidenceSemantics(c) /\ c.evidence \subseteq {e.id}
    BY <2>2 DEF EvidenceSemantics
  <2> QED
    BY <2>1, <2>2, <2>3, <2>4, PairFits
<1>3. CASE o.decoded = "yes" /\ o.matched # {}
  <2> DEFINE ev == [r \in o.matched |-> Evidence(<<"rights-match", r>>, "REFERENCE_MATCH", "image-registry", "SUPPORTS", r, {})]
             cl == [r \in o.matched |-> Claim(<<"rights-match", r>>, "SUPPORTED", FALSE, {<<"rights-match", r>>})]
  <2>1. /\ lane.evidence = {Evidence(<<"rights-match", r>>, "REFERENCE_MATCH", "image-registry", "SUPPORTS", r, {}) :
                             r \in o.matched}
        /\ lane.claims = {Claim(<<"rights-match", r>>, "SUPPORTED", FALSE, {<<"rights-match", r>>}) : r \in o.matched}
    BY <1>3 DEF MatchReferenceImage, Lane
  <2>2. /\ \A r \in o.matched :
             /\ ev[r] = Evidence(<<"rights-match", r>>, "REFERENCE_MATCH", "image-registry", "SUPPORTS", r, {})
             /\ cl[r] = Claim(<<"rights-match", r>>, "SUPPORTED", FALSE, {<<"rights-match", r>>})
        /\ DOMAIN ev = o.matched /\ DOMAIN cl = o.matched
    OBVIOUS
  <2> HIDE DEF ev, cl
  <2>3. Listed(lane.evidence, ev) /\ Listed(lane.claims, cl)
    BY <2>1, <2>2 DEF Listed
  <2>4. \A r \in o.matched :
          /\ ev[r].id = <<"rights-match", r>> /\ ev[r].component = "image-registry" /\ IsEvidence(ev[r])
    <3> SUFFICES ASSUME NEW r \in o.matched
                 PROVE  ev[r].id = <<"rights-match", r>> /\ ev[r].component = "image-registry" /\ IsEvidence(ev[r])
      OBVIOUS
    <3>1. ev[r] = Evidence(<<"rights-match", r>>, "REFERENCE_MATCH", "image-registry", "SUPPORTS", r, {})
      BY <2>2
    <3> QED
      BY <3>1, EvidenceFields
  <2>9. \A r \in o.matched :
          /\ cl[r].id = <<"rights-match", r>> /\ cl[r].evidence = {<<"rights-match", r>>} /\ IsClaim(cl[r])
          /\ cl[r].outcome = "SUPPORTED"
    <3> SUFFICES ASSUME NEW r \in o.matched
                 PROVE  /\ cl[r].id = <<"rights-match", r>> /\ cl[r].evidence = {<<"rights-match", r>>}
                        /\ IsClaim(cl[r]) /\ cl[r].outcome = "SUPPORTED"
      OBVIOUS
    <3>1. cl[r] = Claim(<<"rights-match", r>>, "SUPPORTED", FALSE, {<<"rights-match", r>>})
      BY <2>2
    <3> QED
      BY <3>1 DEF Claim, IsClaim
  <2>10. \A r \in o.matched : cl[r].id = ev[r].id /\ cl[r].evidence = {ev[r].id}
    BY <2>4, <2>9
  <2>5. \A r \in o.matched : ev[r].id[1] = "rights-match" /\ ev[r].id[2] = r /\ ShortId(ev[r].id)
    <3>1. \A r : <<"rights-match", r>>[1] = "rights-match" /\ <<"rights-match", r>>[2] = r /\ ShortId(<<"rights-match", r>>)
      BY ShortIds
    <3> QED
      BY <2>4, <3>1
  <2>6. \A x, y \in o.matched : ev[x].id = ev[y].id => x = y
    BY <2>5
  <2>7. Owner("rights-match") = "image-registry"
    BY Owners
  <2> HIDE DEF lane
  <2>8. RecordsFit("image-registry", lane.evidence, lane.claims) /\ Framable(lane.evidence, lane.claims)
    BY <2>2, <2>3, <2>4, <2>5, <2>6, <2>7, <2>9, <2>10, ClaimsFit
  <2> QED
    BY <2>8 DEF lane
<1> QED
  BY <1>1, <1>2, <1>3

(* The localizer gives its own claim where nothing was found.                *)
LEMMA LocalizerFits ==
  ASSUME NEW o
  PROVE  LET lane == LocalizeReferenceImages(o) IN
         RecordsFit("localizer", lane.evidence, lane.claims) /\ Framable(lane.evidence, lane.claims)
<1> DEFINE lane == LocalizeReferenceImages(o)
<1>1. CASE o.decoded # "yes" \/ ~o.features
  <2>1. lane.evidence = {} /\ lane.claims = {Claim(<<"localization">>, "NOT_ASSESSED", FALSE, {})}
    BY <1>1 DEF LocalizeReferenceImages, LocalizationFailure
  <2>2. Owner("localization") = "localizer"
    BY Owners
  <2> QED
    BY <2>1, <2>2, SilenceFits
<1>2. CASE o.decoded = "yes" /\ o.features /\ o.localized = {}
  <2> DEFINE e == Evidence(<<"localization-query">>, "REFERENCE_MATCH", "localizer", "CONTRADICTS", "none", {})
             c == Claim(<<"localization">>, "CONTRADICTED", FALSE, {<<"localization-query">>})
  <2>1. lane.evidence = {e} /\ lane.claims = {c}
    BY <1>2 DEF LocalizeReferenceImages, NothingLocalized
  <2>2. /\ e.id = <<"localization-query">> /\ e.component = "localizer" /\ IsEvidence(e)
        /\ c.id = <<"localization">> /\ c.outcome = "CONTRADICTED" /\ c.evidence = {<<"localization-query">>} /\ IsClaim(c)
    BY DEF Evidence, Claim, IsEvidence, IsClaim
  <2> HIDE DEF e, c
  <2>3. /\ Owner(e.id[1]) = "localizer" /\ Owner(c.id[1]) = "localizer"
        /\ ShortId(e.id) /\ ShortId(c.id)
    BY <2>2, Owners, ShortIds
  <2>4. EvidenceSemantics(c) /\ c.evidence \subseteq {e.id}
    BY <2>2 DEF EvidenceSemantics
  <2> QED
    BY <2>1, <2>2, <2>3, <2>4, PairFits
<1>3. CASE o.decoded = "yes" /\ o.features /\ o.localized # {}
  <2> DEFINE ev == [r \in o.localized |-> Evidence(<<"localization", r>>, "REFERENCE_MATCH", "localizer", "SUPPORTS", r, {})]
             cl == [r \in o.localized |-> Claim(<<"localization", r>>, "SUPPORTED", FALSE, {<<"localization", r>>})]
  <2>1. /\ lane.evidence = {Evidence(<<"localization", r>>, "REFERENCE_MATCH", "localizer", "SUPPORTS", r, {}) :
                             r \in o.localized}
        /\ lane.claims = {Claim(<<"localization", r>>, "SUPPORTED", FALSE, {<<"localization", r>>}) : r \in o.localized}
    BY <1>3 DEF LocalizeReferenceImages
  <2>2. /\ \A r \in o.localized :
             /\ ev[r] = Evidence(<<"localization", r>>, "REFERENCE_MATCH", "localizer", "SUPPORTS", r, {})
             /\ cl[r] = Claim(<<"localization", r>>, "SUPPORTED", FALSE, {<<"localization", r>>})
        /\ DOMAIN ev = o.localized /\ DOMAIN cl = o.localized
    OBVIOUS
  <2> HIDE DEF ev, cl
  <2>3. Listed(lane.evidence, ev) /\ Listed(lane.claims, cl)
    BY <2>1, <2>2 DEF Listed
  <2>4. \A r \in o.localized :
          /\ ev[r].id = <<"localization", r>> /\ ev[r].component = "localizer" /\ IsEvidence(ev[r])
    <3> SUFFICES ASSUME NEW r \in o.localized
                 PROVE  ev[r].id = <<"localization", r>> /\ ev[r].component = "localizer" /\ IsEvidence(ev[r])
      OBVIOUS
    <3>1. ev[r] = Evidence(<<"localization", r>>, "REFERENCE_MATCH", "localizer", "SUPPORTS", r, {})
      BY <2>2
    <3> QED
      BY <3>1, EvidenceFields
  <2>9. \A r \in o.localized :
          /\ cl[r].id = <<"localization", r>> /\ cl[r].evidence = {<<"localization", r>>} /\ IsClaim(cl[r])
          /\ cl[r].outcome = "SUPPORTED"
    <3> SUFFICES ASSUME NEW r \in o.localized
                 PROVE  /\ cl[r].id = <<"localization", r>> /\ cl[r].evidence = {<<"localization", r>>}
                        /\ IsClaim(cl[r]) /\ cl[r].outcome = "SUPPORTED"
      OBVIOUS
    <3>1. cl[r] = Claim(<<"localization", r>>, "SUPPORTED", FALSE, {<<"localization", r>>})
      BY <2>2
    <3> QED
      BY <3>1 DEF Claim, IsClaim
  <2>10. \A r \in o.localized : cl[r].id = ev[r].id /\ cl[r].evidence = {ev[r].id}
    BY <2>4, <2>9
  <2>5. \A r \in o.localized : ev[r].id[1] = "localization" /\ ev[r].id[2] = r /\ ShortId(ev[r].id)
    <3>1. \A r : <<"localization", r>>[1] = "localization" /\ <<"localization", r>>[2] = r /\ ShortId(<<"localization", r>>)
      BY ShortIds
    <3> QED
      BY <2>4, <3>1
  <2>6. \A x, y \in o.localized : ev[x].id = ev[y].id => x = y
    BY <2>5
  <2>7. Owner("localization") = "localizer"
    BY Owners
  <2> HIDE DEF lane
  <2>8. RecordsFit("localizer", lane.evidence, lane.claims) /\ Framable(lane.evidence, lane.claims)
    BY <2>2, <2>3, <2>4, <2>5, <2>6, <2>7, <2>9, <2>10, ClaimsFit
  <2> QED
    BY <2>8 DEF lane
<1> QED
  BY <1>1, <1>2, <1>3

(* One record and one claim for each matched template.                      *)
LEMMA ConsentsFit ==
  ASSUME NEW modality \in Modalities, NEW matches, UniqueIds(matches), NEW context, NEW at
  PROVE  LET lane == AnalyzeConsent(modality, matches, context, at) IN
         RecordsFit(modality, lane.evidence, lane.claims)
<1> DEFINE lane == AnalyzeConsent(modality, matches, context, at)
<1>0. \A a, b : <<modality, a>>[1] = modality /\ <<modality, a, b>>[1] = modality /\ <<modality, a, b>>[3] = b
  OBVIOUS
<1>1. CASE matches = {}
  <2> DEFINE e == Evidence(<<modality, "consent-query">>, "REFERENCE_MATCH", modality, "CONTRADICTS", "none", {})
             c == Claim(<<modality, "candidate">>, "CONTRADICTED", FALSE, {<<modality, "consent-query">>})
  <2>1. lane.evidence = {e} /\ lane.claims = {c}
    BY <1>1 DEF AnalyzeConsent, NoCandidate
  <2>2. /\ e.id = <<modality, "consent-query">> /\ e.component = modality /\ IsEvidence(e)
        /\ c.id = <<modality, "candidate">> /\ c.outcome = "CONTRADICTED" /\ c.evidence = {<<modality, "consent-query">>} /\ IsClaim(c)
    BY DEF Evidence, Claim, IsEvidence, IsClaim
  <2> HIDE DEF e, c
  <2>3. /\ Owner(e.id[1]) = modality /\ Owner(c.id[1]) = modality
    BY <1>0, <2>2, Owners
  <2>4. EvidenceSemantics(c) /\ c.evidence \subseteq {e.id}
    BY <2>2 DEF EvidenceSemantics
  <2> QED
    BY <2>1, <2>2, <2>3, <2>4, PairFits
<1>2. CASE matches # {}
  <2> DEFINE covered(t) == ScopeCovers(t.consent, context, at)
             ev == [t \in matches |-> ConsentEvidence(modality, t, covered(t))]
             cl == [t \in matches |-> ConsentClaim(modality, t, covered(t))]
  <2>1. /\ lane.evidence = {ConsentEvidence(modality, t, covered(t)) : t \in matches}
        /\ lane.claims = {ConsentClaim(modality, t, covered(t)) : t \in matches}
    BY <1>2 DEF AnalyzeConsent, MatchedConsents
  <2>2. /\ \A t \in matches : /\ ev[t] = ConsentEvidence(modality, t, covered(t))
                              /\ cl[t] = ConsentClaim(modality, t, covered(t))
        /\ DOMAIN ev = matches /\ DOMAIN cl = matches
    OBVIOUS
  <2> HIDE DEF ev, cl, covered
  <2>3. Listed(lane.evidence, ev) /\ Listed(lane.claims, cl)
    BY <2>1, <2>2 DEF Listed
  <2>4. \A t \in matches :
          /\ ev[t].id = <<modality, "consent", t.id>> /\ ev[t].component = modality
          /\ IsEvidence(ev[t])
    BY <2>2 DEF ConsentEvidence, Evidence, IsEvidence
  <2>5. \A t \in matches :
          /\ cl[t].id = <<modality, "consent", t.id>>
          /\ cl[t].evidence = {<<modality, "consent", t.id>>} /\ IsClaim(cl[t])
          /\ cl[t].outcome \in {"SUPPORTED", "CONTRADICTED"}
    BY <2>2 DEF ConsentClaim, Claim, IsClaim
  <2>6. \A t \in matches : ev[t].id[1] = modality /\ ev[t].id[3] = t.id
    BY <1>0, <2>4
  <2>7. \A x, y \in matches : ev[x].id = ev[y].id => x = y
    BY <2>6 DEF UniqueIds
  <2>8. Owner(modality) = modality
    BY Owners
  <2>10. \A t \in matches : cl[t].id = ev[t].id /\ cl[t].evidence = {ev[t].id}
    BY <2>4, <2>5
  <2> HIDE DEF lane
  <2>9. RecordsFit(modality, lane.evidence, lane.claims)
    BY <2>2, <2>3, <2>4, <2>5, <2>6, <2>7, <2>8, <2>10, ClaimsFit
  <2> QED
    BY <2>9 DEF lane
<1> QED
  BY <1>1, <1>2

(* The structure of an audio file, and two claims nothing can answer.       *)
LEMMA AudioFits == RecordsFit("pcm-wav", AudioLane.evidence, AudioLane.claims)
<1> DEFINE e == Evidence(<<"audio-structure">>, "METADATA", "pcm-wav", "NEUTRAL", "none", {})
           origin == Claim(<<"audio-origin">>, "UNKNOWN", TRUE, {})
           none == Claim(<<"audio-rights">>, "NOT_ASSESSED", TRUE, {})
<1>1. AudioLane.evidence = {e} /\ AudioLane.claims = {origin, none}
  BY DEF AudioLane, Lane
<1>2. /\ e.id = <<"audio-structure">> /\ e.component = "pcm-wav"
      /\ origin.id = <<"audio-origin">> /\ origin.outcome = "UNKNOWN" /\ origin.evidence = {}
      /\ none.id = <<"audio-rights">> /\ none.outcome = "NOT_ASSESSED" /\ none.evidence = {}
  BY DEF Evidence, Claim
<1> HIDE DEF e, origin, none
<1>3. /\ Owner(e.id[1]) = "pcm-wav" /\ Owner(origin.id[1]) = "pcm-wav"
      /\ Owner(none.id[1]) = "pcm-wav" /\ origin.id # none.id
  BY <1>2, Owners, ShortIds
<1> QED
  BY <1>1, <1>2, <1>3 DEF RecordsFit, UniqueIds, EvidenceSemantics

WithFrame(ids, i) == {Append(k, i) : k \in ids}

(* A frame's claim rests on the frame's evidence.                            *)
LEMMA FrameClaimIs ==
  ASSUME NEW p, \A i \in DOMAIN p : \A c \in p[i].claims : IsClaim(c),
         NEW m \in FrameClaims(p)
  PROVE  \E i \in DOMAIN p : \E c \in p[i].claims :
           m = Claim(Append(c.id, i), c.outcome, c.mandatory, WithFrame(c.evidence, i))
<1>1. PICK i \in DOMAIN p : m \in MapFrameClaims(p[i].claims, i)
  BY DEF FrameClaims
<1>2. PICK c \in p[i].claims :
        m = [c EXCEPT !.id = Append(@, i), !.evidence = {Append(k, i) : k \in @}]
  BY <1>1 DEF MapFrameClaims
<1>3. m = [c EXCEPT !.id = Append(@, i), !.evidence = WithFrame(c.evidence, i)]
  BY <1>2 DEF WithFrame
<1>4. c = Claim(c.id, c.outcome, c.mandatory, c.evidence)
  BY DEF IsClaim
<1> QED
  BY <1>3, <1>4 DEF Claim

(* The ids of a frame's evidence, as the video's record has them.           *)
LEMMA FrameEvidenceIds ==
  ASSUME NEW p, \A i \in DOMAIN p : \A e \in p[i].evidence : IsEvidence(e),
         NEW i \in DOMAIN p, NEW k \in Ids(p[i].evidence)
  PROVE  Append(k, i) \in Ids(FrameEvidence(p))
<1>1. PICK e \in p[i].evidence : k = e.id
  BY DEF Ids
<1> DEFINE m == [e EXCEPT !.id = Append(@, i)]
<1>2. e = Evidence(e.id, e.kind, e.component, e.polarity, e.subject, e.holders)
  BY DEF IsEvidence
<1>3. m.id = Append(k, i)
  BY <1>1, <1>2 DEF Evidence
<1>4. m \in FrameEvidence(p)
  <2>1. m \in MapFrameEvidence(p[i].evidence, i)
    BY DEF MapFrameEvidence
  <2> QED
    BY <2>1 DEF FrameEvidence
<1> QED
  BY <1>3, <1>4 DEF Ids

(* The records of the frames fit together if those of each frame do.        *)
LEMMA FramesFit ==
  ASSUME NEW id, NEW p,
         \A i \in DOMAIN p : RecordsFit(id, p[i].evidence, p[i].claims)
                               /\ Framable(p[i].evidence, p[i].claims)
  PROVE  RecordsFit(id, FrameEvidence(p), FrameClaims(p))
<1>1. \A i \in DOMAIN p : \A e \in p[i].evidence : IsEvidence(e)
  BY DEF Framable
<1>8. \A i \in DOMAIN p : \A c \in p[i].claims : IsClaim(c)
  BY DEF Framable
<1>2. ASSUME NEW m \in FrameEvidence(p)
      PROVE  \E i \in DOMAIN p : \E e \in p[i].evidence :
               /\ m = Evidence(Append(e.id, i), e.kind, e.component, e.polarity, e.subject,
                               e.holders)
               /\ m.id = Append(e.id, i) /\ m.component = e.component
  <2>1. PICK i \in DOMAIN p : \E e \in p[i].evidence :
          m = Evidence(Append(e.id, i), e.kind, e.component, e.polarity, e.subject, e.holders)
    BY <1>1, FrameEvidenceIs
  <2>2. PICK e \in p[i].evidence :
          m = Evidence(Append(e.id, i), e.kind, e.component, e.polarity, e.subject, e.holders)
    BY <2>1
  <2>3. m.id = Append(e.id, i) /\ m.component = e.component
    BY <2>2 DEF Evidence
  <2> QED
    BY <2>2, <2>3
<1>3. ASSUME NEW m \in FrameClaims(p)
      PROVE  \E i \in DOMAIN p : \E c \in p[i].claims :
               /\ m = Claim(Append(c.id, i), c.outcome, c.mandatory,
                            WithFrame(c.evidence, i))
               /\ m.id = Append(c.id, i) /\ m.outcome = c.outcome
               /\ m.evidence = WithFrame(c.evidence, i)
  <2>1. PICK i \in DOMAIN p : \E c \in p[i].claims :
          m = Claim(Append(c.id, i), c.outcome, c.mandatory, WithFrame(c.evidence, i))
    BY <1>8, FrameClaimIs
  <2>2. PICK c \in p[i].claims :
          m = Claim(Append(c.id, i), c.outcome, c.mandatory, WithFrame(c.evidence, i))
    BY <2>1
  <2>3. m.id = Append(c.id, i) /\ m.outcome = c.outcome /\ m.evidence = WithFrame(c.evidence, i)
    BY <2>2 DEF Claim
  <2> QED
    BY <2>2, <2>3
<1>4. UniqueIds(FrameEvidence(p))
  <2> SUFFICES ASSUME NEW x \in FrameEvidence(p), NEW y \in FrameEvidence(p), x.id = y.id
               PROVE  x = y
    BY DEF UniqueIds
  <2>1. PICK i \in DOMAIN p : \E e \in p[i].evidence :
               /\ x = Evidence(Append(e.id, i), e.kind, e.component, e.polarity, e.subject,
                               e.holders)
               /\ x.id = Append(e.id, i)
    BY <1>2
  <2>2. PICK e \in p[i].evidence :
               /\ x = Evidence(Append(e.id, i), e.kind, e.component, e.polarity, e.subject,
                               e.holders)
               /\ x.id = Append(e.id, i)
    BY <2>1
  <2>3. PICK j \in DOMAIN p : \E f \in p[j].evidence :
               /\ y = Evidence(Append(f.id, j), f.kind, f.component, f.polarity, f.subject,
                               f.holders)
               /\ y.id = Append(f.id, j)
    BY <1>2
  <2>4. PICK f \in p[j].evidence :
               /\ y = Evidence(Append(f.id, j), f.kind, f.component, f.polarity, f.subject,
                               f.holders)
               /\ y.id = Append(f.id, j)
    BY <2>3
  <2>5. ShortId(e.id) /\ ShortId(f.id)
    BY DEF Framable
  <2>6. e.id = f.id /\ i = j
    BY <2>2, <2>4, <2>5, FrameIds
  <2>7. e = f
    BY <2>6 DEF RecordsFit, UniqueIds
  <2> QED
    BY <2>2, <2>4, <2>6, <2>7
<1>5. UniqueIds(FrameClaims(p))
  <2> SUFFICES ASSUME NEW x \in FrameClaims(p), NEW y \in FrameClaims(p), x.id = y.id
               PROVE  x = y
    BY DEF UniqueIds
  <2>1. PICK i \in DOMAIN p : \E c \in p[i].claims :
               /\ x = Claim(Append(c.id, i), c.outcome, c.mandatory,
                            WithFrame(c.evidence, i))
               /\ x.id = Append(c.id, i)
    BY <1>3
  <2>2. PICK c \in p[i].claims :
               /\ x = Claim(Append(c.id, i), c.outcome, c.mandatory,
                            WithFrame(c.evidence, i))
               /\ x.id = Append(c.id, i)
    BY <2>1
  <2>3. PICK j \in DOMAIN p : \E d \in p[j].claims :
               /\ y = Claim(Append(d.id, j), d.outcome, d.mandatory,
                            WithFrame(d.evidence, j))
               /\ y.id = Append(d.id, j)
    BY <1>3
  <2>4. PICK d \in p[j].claims :
               /\ y = Claim(Append(d.id, j), d.outcome, d.mandatory,
                            WithFrame(d.evidence, j))
               /\ y.id = Append(d.id, j)
    BY <2>3
  <2>5. ShortId(c.id) /\ ShortId(d.id)
    BY DEF Framable
  <2>8. Append(c.id, i) = Append(d.id, j)
    BY <2>2, <2>4
  <2>6. c.id = d.id /\ i = j
    BY <2>5, <2>8, FrameIds
  <2>7. c = d
    BY <2>6 DEF RecordsFit, UniqueIds
  <2> QED
    BY <2>2, <2>4, <2>6, <2>7
<1>6. ASSUME NEW m \in FrameEvidence(p)
      PROVE  m.component = id /\ Owner(m.id[1]) = id
  <2>1. PICK i \in DOMAIN p : \E e \in p[i].evidence :
          m.id = Append(e.id, i) /\ m.component = e.component
    BY <1>2
  <2>2. PICK e \in p[i].evidence : m.id = Append(e.id, i) /\ m.component = e.component
    BY <2>1
  <2>3. ShortId(e.id) /\ e.component = id /\ Owner(e.id[1]) = id
    BY DEF Framable, RecordsFit
  <2>4. Append(e.id, i)[1] = e.id[1]
    BY <2>3, FrameIdBegins
  <2> QED
    BY <2>2, <2>3, <2>4
<1>7. ASSUME NEW m \in FrameClaims(p)
      PROVE  /\ Owner(m.id[1]) = id
             /\ EvidenceSemantics(m) /\ m.evidence \subseteq Ids(FrameEvidence(p))
  <2>1. PICK i \in DOMAIN p : \E c \in p[i].claims :
               /\ m.id = Append(c.id, i) /\ m.outcome = c.outcome
               /\ m.evidence = WithFrame(c.evidence, i)
    BY <1>3
  <2>2. PICK c \in p[i].claims :
               /\ m.id = Append(c.id, i) /\ m.outcome = c.outcome
               /\ m.evidence = WithFrame(c.evidence, i)
    BY <2>1
  <2>3. /\ ShortId(c.id) /\ Owner(c.id[1]) = id /\ EvidenceSemantics(c)
        /\ c.evidence \subseteq Ids(p[i].evidence)
    BY DEF Framable, RecordsFit
  <2>8. Append(c.id, i)[1] = c.id[1]
    BY <2>3, FrameIdBegins
  <2>4. Owner(m.id[1]) = id
    BY <2>2, <2>3, <2>8
  <2>5. EvidenceSemantics(m)
    BY <2>2, <2>3 DEF EvidenceSemantics, WithFrame
  <2>6. \A k \in c.evidence : Append(k, i) \in Ids(FrameEvidence(p))
    BY <1>1, <2>3, FrameEvidenceIds
  <2>7. m.evidence \subseteq Ids(FrameEvidence(p))
    BY <2>2, <2>6 DEF WithFrame
  <2> QED
    BY <2>4, <2>5, <2>7
<1> QED
  BY <1>4, <1>5, <1>6, <1>7 DEF RecordsFit

-----------------------------------------------------------------------------
(* Lanes of different components fit together in one record.                *)
LaneFits(x) ==
  RecordsFit(x.component.id, x.evidence, x.claims) /\ x.component.id \notin ExecutorIds

Gathers(l, all) ==
  /\ \A c : c \in l.components <=> \E x \in all : c = x.component
  /\ \A e : e \in l.evidence <=> \E x \in all : e \in x.evidence
  /\ \A c : c \in l.claims <=> \E x \in all : c \in x.claims

(* What each lane may say is kept apart by the component it belongs to.      *)
LEMMA LanesTogether ==
  ASSUME NEW l, NEW all, Gathers(l, all),
         \A x \in all : LaneFits(x),
         \A x, y \in all : x.component.id = y.component.id => x = y
  PROVE  LanesFit(l)
<1>1. UniqueIds(l.components) /\ Ids(l.components) \cap ExecutorIds = {}
  BY DEF UniqueIds, Ids, Gathers, LaneFits
<1>2. \A x \in all : x.component.id \in Ids(l.components)
  BY DEF Gathers, Ids
<1>3. ASSUME NEW x \in all, NEW e \in x.evidence
      PROVE  e.component = x.component.id /\ Owner(e.id[1]) = x.component.id
  BY <1>3 DEF LaneFits, RecordsFit
<1>4. ASSUME NEW x \in all, NEW c \in x.claims
      PROVE  Owner(c.id[1]) = x.component.id /\ EvidenceSemantics(c) /\ c.evidence \subseteq Ids(l.evidence)
  <2>1. Owner(c.id[1]) = x.component.id /\ EvidenceSemantics(c) /\ c.evidence \subseteq Ids(x.evidence)
    BY <1>4 DEF LaneFits, RecordsFit
  <2>2. Ids(x.evidence) \subseteq Ids(l.evidence)
    BY DEF Ids, Gathers
  <2> QED
    BY <2>1, <2>2
<1>5. UniqueIds(l.evidence)
  <2> SUFFICES ASSUME NEW d \in l.evidence, NEW e \in l.evidence, d.id = e.id
               PROVE  d = e
    BY DEF UniqueIds
  <2>1. PICK x \in all : d \in x.evidence
    BY DEF Gathers
  <2>2. PICK y \in all : e \in y.evidence
    BY DEF Gathers
  <2>3. x.component.id = y.component.id
    BY <1>3, <2>1, <2>2
  <2>4. x = y
    BY <2>3
  <2> QED
    BY <2>1, <2>2, <2>4 DEF LaneFits, RecordsFit, UniqueIds
<1>6. UniqueIds(l.claims)
  <2> SUFFICES ASSUME NEW d \in l.claims, NEW e \in l.claims, d.id = e.id
               PROVE  d = e
    BY DEF UniqueIds
  <2>1. PICK x \in all : d \in x.claims
    BY DEF Gathers
  <2>2. PICK y \in all : e \in y.claims
    BY DEF Gathers
  <2>3. x.component.id = y.component.id
    BY <1>4, <2>1, <2>2
  <2>4. x = y
    BY <2>3
  <2> QED
    BY <2>1, <2>2, <2>4 DEF LaneFits, RecordsFit, UniqueIds
<1>7. \A e \in l.evidence : e.component = Owner(e.id[1]) /\ e.component \in Ids(l.components)
  BY <1>2, <1>3 DEF Gathers
<1>8. \A c \in l.claims : /\ Owner(c.id[1]) \in Ids(l.components)
                          /\ EvidenceSemantics(c) /\ c.evidence \subseteq Ids(l.evidence)
  BY <1>2, <1>4 DEF Gathers
<1> QED
  BY <1>1, <1>5, <1>6, <1>7, <1>8 DEF LanesFit

(* A registry that is one or none has one lane or none.                     *)
LEMMA ConsentLanesFit ==
  ASSUME request \in Requests, NEW modality \in Modalities, NEW matches
  PROVE  /\ \A x \in ConsentLanes(modality, matches) : x.component.id = modality /\ LaneFits(x)
         /\ \A x, y \in ConsentLanes(modality, matches) : x = y
<1>1. ASSUME NEW x \in ConsentLanes(modality, matches)
      PROVE  x.component.id = modality /\ LaneFits(x)
  <2>1. PICK templates \in request.consents :
          x = AnalyzeConsent(modality, matches \cap templates, request.context, request.at)
    BY DEF ConsentLanes
  <2> DEFINE found == matches \cap templates
  <2>2. UniqueIds(found)
    BY RegistriesAssumption DEF UniqueIds
  <2>3. x = AnalyzeConsent(modality, found, request.context, request.at)
    BY <2>1
  <2> HIDE DEF found
  <2>4. x.component = Component(modality, "AVAILABLE")
    BY <2>3, ConsentMatcherTells
  <2>5. RecordsFit(modality, x.evidence, x.claims)
    BY <2>2, <2>3, ConsentsFit
  <2>6. x.component.id = modality /\ modality \notin ExecutorIds
    BY <2>4 DEF Component, Modalities, ExecutorIds
  <2> QED
    BY <2>5, <2>6 DEF LaneFits
<1>2. \A x, y \in ConsentLanes(modality, matches) : x = y
  <2>1. \A x, y \in request.consents : x = y
    BY RegistriesAssumption
  <2> QED
    BY <2>1 DEF ConsentLanes
<1> QED
  BY <1>1, <1>2

(* And so does the registry of watermarks.                                   *)
LEMMA WatermarkLanesFit ==
  ASSUME request \in Requests, NEW o, NEW intact
  PROVE  /\ \A x \in WatermarkLanes(o, intact) : x.component.id = "watermark" /\ LaneFits(x)
         /\ \A x, y \in WatermarkLanes(o, intact) : x = y
<1>1. ASSUME NEW x \in WatermarkLanes(o, intact)
      PROVE  x.component.id = "watermark" /\ LaneFits(x)
  <2>1. PICK w \in request.watermarks :
          x = VerifyVisibleWatermarks(w, request.context.brand, o, intact)
    BY DEF WatermarkLanes
  <2>2. UniqueIds(w)
    BY RegistriesAssumption DEF UniqueIds
  <2>3. x.component.id = "watermark"
    BY <2>1, WatermarksTell DEF OriginLane
  <2>4. RecordsFit("watermark", x.evidence, x.claims)
    BY <2>1, <2>2, WatermarksFit
  <2> QED
    BY <2>3, <2>4 DEF LaneFits, ExecutorIds
<1>2. \A x, y \in WatermarkLanes(o, intact) : x = y
  <2>1. \A x, y \in request.watermarks : x = y
    BY RegistriesAssumption
  <2> QED
    BY <2>1 DEF WatermarkLanes
<1> QED
  BY <1>1, <1>2

(* The credential reader's component is its own.                             *)
LEMMA CredentialLaneFits ==
  ASSUME NEW manifest
  PROVE  VerifyC2PA(manifest).component.id = "c2pa" /\ LaneFits(VerifyC2PA(manifest))
<1>1. VerifyC2PA(manifest).component.id = "c2pa"
  BY CredentialsTell DEF OriginLane
<1> QED
  BY <1>1, CredentialsFit DEF LaneFits, ExecutorIds

(* The lanes of an image.                                                    *)
LEMMA ImageLanesFit ==
  ASSUME request \in Requests, NEW manifest, NEW o, NEW intact, NEW likenesses
  PROVE  LanesFit(ImageLanes(manifest, o, intact, likenesses))
<1> DEFINE c2pa == VerifyC2PA(manifest)
           forensics == InspectImageForensics(o)
           match == MatchReferenceImage(o)
           local == LocalizeReferenceImages(o)
           marks == WatermarkLanes(o, intact)
           consents == ConsentLanes("likeness-consent", likenesses)
           all == {c2pa, forensics, match, local} \cup marks \cup consents
           l == ImageLanes(manifest, o, intact, likenesses)
<1>1. /\ l.components = {x.component : x \in all}
      /\ l.evidence = UNION {x.evidence : x \in all}
      /\ l.claims = UNION {x.claims : x \in all}
  BY DEF ImageLanes
<1>2. c2pa.component.id = "c2pa" /\ LaneFits(c2pa)
  BY CredentialLaneFits
<1>3. forensics.component.id = "forensics" /\ LaneFits(forensics)
  <2>1. forensics.component.id = "forensics"
    BY ForensicsTell DEF OriginLane
  <2>2. RecordsFit("forensics", forensics.evidence, forensics.claims)
    BY ForensicsFit
  <2> QED
    BY <2>1, <2>2 DEF LaneFits, ExecutorIds
<1>4. match.component.id = "image-registry" /\ LaneFits(match)
  <2>1. match.component.id = "image-registry"
    BY MatcherTells
  <2>2. RecordsFit("image-registry", match.evidence, match.claims)
    BY MatcherFits
  <2> QED
    BY <2>1, <2>2 DEF LaneFits, ExecutorIds
<1>5. local.component.id = "localizer" /\ LaneFits(local)
  <2>1. local.component.id = "localizer"
    BY LocalizerTells
  <2>2. RecordsFit("localizer", local.evidence, local.claims)
    BY LocalizerFits
  <2> QED
    BY <2>1, <2>2 DEF LaneFits, ExecutorIds
<1>6. /\ \A x \in marks : x.component.id = "watermark" /\ LaneFits(x)
      /\ \A x, y \in marks : x = y
  BY WatermarkLanesFit
<1>7. /\ \A x \in consents : x.component.id = "likeness-consent" /\ LaneFits(x)
      /\ \A x, y \in consents : x = y
  BY ConsentLanesFit DEF Modalities
<1> HIDE DEF c2pa, forensics, match, local, marks, consents, l
<1>8. Gathers(l, all)
  <2> HIDE DEF all
  <2> QED
    BY <1>1 DEF Gathers
<1>9. \A x \in all : LaneFits(x)
  BY <1>2, <1>3, <1>4, <1>5, <1>6, <1>7
<1>10. \A x, y \in all : x.component.id = y.component.id => x = y
  BY <1>2, <1>3, <1>4, <1>5, <1>6, <1>7
<1> HIDE DEF all
<1>11. LanesFit(l)
  BY <1>8, <1>9, <1>10, LanesTogether
<1> QED
  BY <1>11 DEF l

(* The lanes of a video, each gathered over its frames.                      *)
LEMMA VideoLanesFit ==
  ASSUME NEW manifest, NEW n \in Nat \ {0}, NEW frames, DOMAIN frames = 1 .. n, NEW truncated
  PROVE  LanesFit(VideoLanes(manifest, frames, truncated))
<1> DEFINE c2pa == VerifyC2PA(manifest)
           forensics == [i \in DOMAIN frames |-> InspectImageForensics(frames[i])]
           match == [i \in DOMAIN frames |-> MatchReferenceImage(frames[i])]
           local == [i \in DOMAIN frames |-> LocalizeReferenceImages(frames[i])]
           timeline == Component("timeline", IF truncated THEN "DEGRADED" ELSE "AVAILABLE")
           l == VideoLanes(manifest, frames, truncated)
           gathered(p) == [component |-> AggregateComponent(p), evidence |-> FrameEvidence(p),
                           claims |-> FrameClaims(p)]
           x1 == gathered(forensics)
           x2 == gathered(match)
           x3 == gathered(local)
           x4 == [component |-> timeline, evidence |-> {}, claims |-> {}]
           all == {c2pa, x1, x2, x3, x4}
<1>1. /\ l.components = {c2pa.component, AggregateComponent(forensics),
                         AggregateComponent(match), AggregateComponent(local), timeline}
      /\ l.evidence = c2pa.evidence \cup FrameEvidence(forensics)
                        \cup FrameEvidence(match) \cup FrameEvidence(local)
      /\ l.claims = c2pa.claims \cup FrameClaims(forensics)
                      \cup FrameClaims(match) \cup FrameClaims(local)
  BY DEF VideoLanes
<1>2. \A i \in 1 .. n :
        /\ forensics[i] = InspectImageForensics(frames[i])
        /\ match[i] = MatchReferenceImage(frames[i])
        /\ local[i] = LocalizeReferenceImages(frames[i])
  OBVIOUS
<1>3. /\ DOMAIN forensics = 1 .. n /\ DOMAIN match = 1 .. n /\ DOMAIN local = 1 .. n
      /\ 1 \in 1 .. n
  OBVIOUS
<1>4. c2pa.component.id = "c2pa" /\ LaneFits(c2pa)
  BY CredentialLaneFits
<1>5. timeline.id = "timeline"
  BY DEF Component
<1>6. /\ x1.component = AggregateComponent(forensics) /\ x1.evidence = FrameEvidence(forensics)
      /\ x1.claims = FrameClaims(forensics)
      /\ x2.component = AggregateComponent(match) /\ x2.evidence = FrameEvidence(match)
      /\ x2.claims = FrameClaims(match)
      /\ x3.component = AggregateComponent(local) /\ x3.evidence = FrameEvidence(local)
      /\ x3.claims = FrameClaims(local)
      /\ x4.component = timeline /\ x4.evidence = {} /\ x4.claims = {}
  OBVIOUS
<1> HIDE DEF c2pa, forensics, match, local, timeline, l, x1, x2, x3, x4
<1>7. x1.component.id = "forensics" /\ LaneFits(x1)
  <2>1. \A i \in DOMAIN forensics : RecordsFit("forensics", forensics[i].evidence, forensics[i].claims)
                                      /\ Framable(forensics[i].evidence, forensics[i].claims)
    BY <1>2, <1>3, ForensicsFit
  <2>2. RecordsFit("forensics", FrameEvidence(forensics), FrameClaims(forensics))
    BY <2>1, FramesFit
  <2>3. forensics[1].component.id = "forensics"
    BY <1>2, <1>3, ForensicsTell DEF OriginLane
  <2>4. AggregateComponent(forensics).id = "forensics"
    BY <2>3 DEF AggregateComponent, Component
  <2> QED
    BY <1>6, <2>2, <2>4 DEF LaneFits, ExecutorIds
<1>8. x2.component.id = "image-registry" /\ LaneFits(x2)
  <2>1. \A i \in DOMAIN match : RecordsFit("image-registry", match[i].evidence, match[i].claims)
                                  /\ Framable(match[i].evidence, match[i].claims)
    BY <1>2, <1>3, MatcherFits
  <2>2. RecordsFit("image-registry", FrameEvidence(match), FrameClaims(match))
    BY <2>1, FramesFit
  <2>3. match[1].component.id = "image-registry"
    BY <1>2, <1>3, MatcherTells
  <2>4. AggregateComponent(match).id = "image-registry"
    BY <2>3 DEF AggregateComponent, Component
  <2> QED
    BY <1>6, <2>2, <2>4 DEF LaneFits, ExecutorIds
<1>9. x3.component.id = "localizer" /\ LaneFits(x3)
  <2>1. \A i \in DOMAIN local : RecordsFit("localizer", local[i].evidence, local[i].claims)
                                  /\ Framable(local[i].evidence, local[i].claims)
    BY <1>2, <1>3, LocalizerFits
  <2>2. RecordsFit("localizer", FrameEvidence(local), FrameClaims(local))
    BY <2>1, FramesFit
  <2>3. local[1].component.id = "localizer"
    BY <1>2, <1>3, LocalizerTells
  <2>4. AggregateComponent(local).id = "localizer"
    BY <2>3 DEF AggregateComponent, Component
  <2> QED
    BY <1>6, <2>2, <2>4 DEF LaneFits, ExecutorIds
<1>10. x4.component.id = "timeline" /\ LaneFits(x4)
  <2>1. x4.component.id = "timeline"
    BY <1>5, <1>6
  <2> QED
    BY <1>6, <2>1 DEF LaneFits, ExecutorIds, RecordsFit, UniqueIds
<1>11. Gathers(l, all)
  BY <1>1, <1>6 DEF Gathers
<1>12. \A x \in all : LaneFits(x)
  BY <1>4, <1>7, <1>8, <1>9, <1>10
<1>13. \A x, y \in all : x.component.id = y.component.id => x = y
  BY <1>4, <1>7, <1>8, <1>9, <1>10
<1> HIDE DEF all
<1>14. LanesFit(l)
  BY <1>11, <1>12, <1>13, LanesTogether
<1> QED
  BY <1>14 DEF l

(* The lanes of an audio file.                                               *)
LEMMA AudioLanesFit ==
  ASSUME request \in Requests, NEW manifest, NEW voices
  PROVE  LanesFit(AudioLanes(manifest, voices))
<1> DEFINE c2pa == VerifyC2PA(manifest)
           consents == ConsentLanes("voice-consent", voices)
           declared == [component |-> DeclaredUnavailable("voice-consent"), evidence |-> {},
                        claims |-> {}]
           silent == IF consents = {} THEN {declared} ELSE {}
           heard == {c2pa, AudioLane} \cup consents
           all == heard \cup silent
           l == AudioLanes(manifest, voices)
<1>1. /\ l.components = {x.component : x \in heard}
                          \cup (IF consents = {} THEN {DeclaredUnavailable("voice-consent")} ELSE {})
      /\ l.evidence = UNION {x.evidence : x \in heard}
      /\ l.claims = UNION {x.claims : x \in heard}
  BY DEF AudioLanes
<1>2. c2pa.component.id = "c2pa" /\ LaneFits(c2pa)
  BY CredentialLaneFits
<1>3. AudioLane.component.id = "pcm-wav" /\ LaneFits(AudioLane)
  <2>1. AudioLane.component.id = "pcm-wav"
    BY DEF AudioLane, Lane, Component
  <2> QED
    BY <2>1, AudioFits DEF LaneFits, ExecutorIds
<1>4. /\ \A x \in consents : x.component.id = "voice-consent" /\ LaneFits(x)
      /\ \A x, y \in consents : x = y
  BY ConsentLanesFit DEF Modalities
<1>5. /\ declared.component = DeclaredUnavailable("voice-consent")
      /\ declared.component.id = "voice-consent" /\ declared.evidence = {} /\ declared.claims = {}
  BY DEF DeclaredUnavailable, Component
<1>6. \A x \in silent : x = declared /\ consents = {}
  OBVIOUS
<1>7. /\ \A c : c \in l.components
                <=> \/ \E x \in heard : c = x.component
                    \/ \E x \in silent : c = x.component
  BY <1>1, <1>5
<1> HIDE DEF c2pa, consents, declared, silent, l
<1>8. LaneFits(declared)
  BY <1>5 DEF LaneFits, ExecutorIds, RecordsFit, UniqueIds
<1>9. Gathers(l, all)
  <2>1. \A x \in silent : x.evidence = {} /\ x.claims = {}
    BY <1>5, <1>6
  <2> HIDE DEF heard
  <2>2. \A x : x \in all <=> x \in heard \/ x \in silent
    OBVIOUS
  <2> HIDE DEF all
  <2> QED
    BY <1>1, <1>7, <2>1, <2>2 DEF Gathers
<1>10. \A x \in all : LaneFits(x)
  BY <1>2, <1>3, <1>4, <1>6, <1>8
<1>11. \A x, y \in all : x.component.id = y.component.id => x = y
  BY <1>2, <1>3, <1>4, <1>5, <1>6
<1> HIDE DEF heard, all
<1>12. LanesFit(l)
  BY <1>9, <1>10, <1>11, LanesTogether
<1> QED
  BY <1>12 DEF l

-----------------------------------------------------------------------------
(* What the invariant says of a concluded assessment *)

(* The consent records of the lanes are those of the matched templates, and *)
(* each tells whether its own grant permits the declared use.               *)
LEMMA TemplatesMatched ==
  ASSUME request \in Requests, EvidenceTells(request, lanes)
  PROVE  /\ \A e \in lanes.evidence : e.kind = "CONSENT_RECORD" =>
              \E t \in MatchedTemplates, m \in Modalities : e = ConsentEvidence(m, t, Consented(t))
         /\ \A t \in MatchedTemplates : \E m \in Modalities :
              ConsentEvidence(m, t, Consented(t)) \in lanes.evidence
<1>1. \A m, t, b : /\ ConsentEvidence(m, t, b).kind = "CONSENT_RECORD"
                   /\ ConsentEvidence(m, t, b).id[3] = t.id
  BY DEF ConsentEvidence, Evidence
<1>2. ASSUME NEW e \in lanes.evidence, e.kind = "CONSENT_RECORD"
      PROVE  \E t \in UNION request.consents, m \in Modalities :
               e = ConsentEvidence(m, t, Consented(t))
  <2>1. PICK t \in UNION request.consents, m \in Modalities :
          e = ConsentEvidence(m, t, ScopeCovers(t.consent, request.context, request.at))
    BY <1>2 DEF EvidenceTells, Tells
  <2>2. ScopeCovers(t.consent, request.context, request.at) <=> Consented(t)
    BY CoverageIsPermission
  <2>3. e = ConsentEvidence(m, t, Consented(t))
    BY <2>1, <2>2 DEF ConsentEvidence
  <2> QED
    BY <2>3
<1>3. ASSUME NEW t \in MatchedTemplates
      PROVE  \E m \in Modalities : ConsentEvidence(m, t, Consented(t)) \in lanes.evidence
  <2>1. PICK e \in lanes.evidence : e.kind = "CONSENT_RECORD" /\ e.id[3] = t.id
    BY DEF MatchedTemplates
  <2>2. PICK s \in UNION request.consents, m \in Modalities :
          e = ConsentEvidence(m, s, Consented(s))
    BY <1>2, <2>1
  <2>3. t \in UNION request.consents /\ s.id = t.id
    BY <1>1, <2>1, <2>2 DEF MatchedTemplates
  <2>4. s = t
    BY <2>3, RegistriesAssumption DEF UniqueIds
  <2> QED
    BY <2>1, <2>2, <2>4
<1>4. ASSUME NEW e \in lanes.evidence, e.kind = "CONSENT_RECORD"
      PROVE  \E t \in MatchedTemplates, m \in Modalities : e = ConsentEvidence(m, t, Consented(t))
  BY <1>1, <1>2, <1>4 DEF MatchedTemplates
<1> QED
  BY <1>3, <1>4

(* The licence evaluator considers the references the image lanes found and *)
(* no other, and finds a conflict where nothing licenses one of them.       *)
LEMMA LicencesMatched ==
  ASSUME request \in Requests, EvidenceTells(request, lanes)
  PROVE  LET result == EvaluateCandidateLicences(
                         lanes.evidence, request.licences, request.context, request.at)
         IN /\ result.candidates = MatchedReferences
            /\ \A r \in MatchedReferences :
                 CoveringLicences(r, request.licences, request.context, request.at) = Licensed(r)
            /\ result.conflict <=> \E r \in MatchedReferences : Licensed(r) = {}
            /\ result.evidence = {LicenceEvidence(r, Licensed(r)) : r \in MatchedReferences}
<1>1. CandidateReferences(lanes.evidence) = MatchedReferences
  <2>1. \A e \in lanes.evidence :
          (e.kind = "REFERENCE_MATCH" /\ e.polarity = "SUPPORTS" /\ e.subject # "none")
            <=> e.component \in ImageLaneIds /\ e.subject # "none"
    BY DEF EvidenceTells, Tells
  <2> QED
    BY <2>1 DEF CandidateReferences, MatchedReferences, ImageLaneIds
<1>2. ASSUME NEW r
      PROVE  CoveringLicences(r, request.licences, request.context, request.at) = Licensed(r)
  BY CoverageIsPermission DEF CoveringLicences, Licensed
<1> QED
  BY <1>1, <1>2 DEF EvaluateCandidateLicences

(* What is known once an assessment is concluded.                           *)
LEMMA ConcludedFromLanes ==
  ASSUME AInv, Concluded
  PROVE  /\ request \in Requests
         /\ EvidenceTells(request, lanes) /\ ConsentsTell(request, lanes)
         /\ MatchingTells(request, lanes) /\ OriginsTell(request, lanes)
         /\ licence = EvaluateCandidateLicences(
                        lanes.evidence, request.licences, request.context, request.at)
         /\ rights = CombineConsentRights(
                       CombineRights(lanes.matching, lanes.localizer, licence), lanes.consents)
         /\ provenance = CombineProvenance(lanes.provenance)
         /\ deployment = EvaluatePublicationPolicy(request.context, request.policy, provenance,
                                                   rights, licence.conflict, Components)
  BY DEF AInv, Concluded, LanesTell

(* Neither the combination of the rights nor the policy clears an asset.     *)
LEMMA AInvNothingIsCleared ==
  AInv => NothingIsCleared
<1> SUFFICES ASSUME AInv, Concluded
             PROVE  rights.verdict # "CLEAR" /\ deployment.decision # "GO"
  BY DEF NothingIsCleared
<1>1. rights.verdict # "CLEAR"
  BY ConcludedFromLanes, RightsCombined
<1>2. deployment.decision # "GO"
  BY <1>1, ConcludedFromLanes, PolicyDecides
<1> QED
  BY <1>1, <1>2

(* The verdict is a conflict exactly where a matched reference or person has *)
(* no permission, and the policy blocks on it.                               *)
LEMMA AInvUncoveredUseIsBlocked ==
  AInv => UncoveredUseIsBlocked
<1> DEFINE unlicensed == \E r \in MatchedReferences : Licensed(r) = {}
           unconsented == \E t \in MatchedTemplates : ~Consented(t)
           blind == lanes.matching.state = "UNAVAILABLE" /\ lanes.localizer # "AVAILABLE"
<1> SUFFICES ASSUME AInv, Concluded
             PROVE  /\ rights.verdict = "POLICY_CONFLICT" <=> unlicensed \/ unconsented
                    /\ unlicensed /\ request.policy.blockUnlicensed =>
                         /\ deployment.decision = "BLOCK"
                         /\ "rights.licence-coverage" \in deployment.citations
                    /\ unconsented /\ request.policy.blockUnconsented =>
                         deployment.decision = "BLOCK"
  BY DEF UncoveredUseIsBlocked
<1>1. licence.conflict <=> unlicensed
  BY ConcludedFromLanes, LicencesMatched
<1>2. unlicensed => ~blind
  <2>1. blind => MatchedReferences = {}
    BY ConcludedFromLanes DEF MatchingTells, EvidenceTells, Tells, MatchedReferences, ImageLaneIds
  <2> QED
    BY <2>1
<1>3. (\E c \in lanes.consents : c.conflict) <=> unconsented
  <2>1. \A m, t : ConsentEvidence(m, t, Consented(t)).kind = "CONSENT_RECORD"
                  /\ (ConsentEvidence(m, t, Consented(t)).polarity = "CONTRADICTS" <=> ~Consented(t))
    BY DEF ConsentEvidence, Evidence
  <2>2. (\E e \in lanes.evidence : e.kind = "CONSENT_RECORD" /\ e.polarity = "CONTRADICTS")
          <=> unconsented
    BY <2>1, ConcludedFromLanes, TemplatesMatched
  <2> QED
    BY <2>2, ConcludedFromLanes DEF ConsentsTell
<1>4. rights.verdict = "POLICY_CONFLICT" <=> unlicensed \/ unconsented
  BY <1>1, <1>2, <1>3, ConcludedFromLanes, RightsCombined
<1> HIDE DEF unlicensed, unconsented
<1> QED
  BY <1>1, <1>4, ConcludedFromLanes, PolicyDecides

(* The combined origin is the tampering one lane tells of, else what the     *)
(* credential declares.                                                      *)
LEMMA AInvTamperingIsNeverOutvoted ==
  AInv => TamperingIsNeverOutvoted
<1> DEFINE verdict(i) == lanes.provenance[i].verdict
           tampered == \E i \in DOMAIN lanes.provenance : verdict(i) = "TAMPERED"
<1> SUFFICES ASSUME AInv, Concluded
             PROVE  /\ provenance.verdict = "TAMPERED" <=> tampered
                    /\ ~tampered /\ verdict(1) # "UNKNOWN" => provenance.verdict = verdict(1)
                    /\ tampered /\ request.policy.blockTampered => deployment.decision = "BLOCK"
  BY DEF TamperingIsNeverOutvoted
<1>1. /\ provenance.verdict = "TAMPERED" <=> tampered
      /\ ~tampered /\ verdict(1) # "UNKNOWN" => provenance.verdict = verdict(1)
  BY ConcludedFromLanes, ProvenanceCombined
<1>2. provenance.verdict = "TAMPERED" /\ request.policy.blockTampered =>
        deployment.decision = "BLOCK"
  BY ConcludedFromLanes, PolicyDecides
<1> QED
  BY <1>1, <1>2

(* What a failed lane leaves incomplete stays incomplete in the combination. *)
LEMMA AInvFailureIsNotAveragedAway ==
  AInv => FailureIsNotAveragedAway
<1> SUFFICES ASSUME AInv, Concluded
             PROVE  /\ Failed(OriginLaneIds) => provenance.state # "COMPLETE"
                    /\ Failed({"image-registry"}) =>
                         rights.state # "COMPLETE" \/ rights.verdict = "POLICY_CONFLICT"
                    /\ deployment.decision = "REVIEW" /\ deployment.state = "COMPLETE" =>
                         /\ provenance.state = "COMPLETE" /\ rights.state = "COMPLETE"
                         /\ \A id \in request.policy.required :
                               \E c \in Components : c.id = id /\ c.state = "AVAILABLE"
  BY DEF FailureIsNotAveragedAway, OriginLaneIds
<1>1. Failed(OriginLaneIds) => provenance.state # "COMPLETE"
  <2>1. Failed(OriginLaneIds) =>
          \E i \in DOMAIN lanes.provenance : lanes.provenance[i].state # "COMPLETE"
    BY ConcludedFromLanes DEF OriginsTell, Failed
  <2>2. provenance.state = "COMPLETE" =>
          \A i \in DOMAIN lanes.provenance : lanes.provenance[i].state = "COMPLETE"
    BY ConcludedFromLanes, ProvenanceCombined
  <2> QED
    BY <2>1, <2>2
<1>2. Failed({"image-registry"}) =>
        rights.state # "COMPLETE" \/ rights.verdict = "POLICY_CONFLICT"
  <2>1. Failed({"image-registry"}) => lanes.matching.state # "COMPLETE"
    BY ConcludedFromLanes DEF MatchingTells, Failed
  <2>2. rights.state = "COMPLETE" /\ rights.verdict # "POLICY_CONFLICT" =>
          lanes.matching.state = "COMPLETE"
    BY ConcludedFromLanes, RightsCombined
  <2> QED
    BY <2>1, <2>2
<1>3. deployment.decision = "REVIEW" /\ deployment.state = "COMPLETE" =>
        ~IncompleteInputs(request.policy, provenance, rights, Components)
  BY ConcludedFromLanes, PolicyDecides
<1>4. ~IncompleteInputs(request.policy, provenance, rights, Components) =>
        /\ provenance.state = "COMPLETE" /\ rights.state = "COMPLETE"
        /\ \A id \in request.policy.required :
              \E c \in Components : c.id = id /\ c.state = "AVAILABLE"
  BY DEF IncompleteInputs, Missing
<1> QED
  BY <1>1, <1>2, <1>3, <1>4

-----------------------------------------------------------------------------
(* The evidence the graph is drawn from, once an assessment is concluded.   *)
LEMMA EvidenceDrawn ==
  ASSUME AInv, Concluded
  PROVE  /\ {e.subject : e \in ReferenceMatches} = MatchedReferences
         /\ ConsentRecords = {e \in lanes.evidence : e.kind = "CONSENT_RECORD"}
         /\ LicenceRecords = {LicenceEvidence(r, Licensed(r)) :
                                r \in {x \in MatchedReferences : Licensed(x) # {}}}
<1>1. /\ \A e \in licence.evidence : e.kind = "LICENCE_RECORD"
      /\ PolicyEvidence(deployment.decision).kind = "POLICY_RULE"
      /\ licence.evidence = {LicenceEvidence(r, Licensed(r)) : r \in MatchedReferences}
  BY ConcludedFromLanes, LicencesMatched DEF PolicyEvidence, LicenceEvidence, Evidence
<1>2. \A e \in lanes.evidence :
        /\ e.kind # "LICENCE_RECORD"
        /\ e.subject # "none" => (e.component \in ImageLaneIds <=> e.kind = "REFERENCE_MATCH")
  BY ConcludedFromLanes DEF EvidenceTells, Tells
<1>3. {e.subject : e \in ReferenceMatches} = MatchedReferences
  <2>1. ReferenceMatches =
          {e \in lanes.evidence : e.kind = "REFERENCE_MATCH" /\ e.subject # "none"}
    BY <1>1 DEF ReferenceMatches, AllEvidence
  <2> QED
    BY <1>2, <2>1 DEF MatchedReferences, ImageLaneIds
<1>4. ConsentRecords = {e \in lanes.evidence : e.kind = "CONSENT_RECORD"}
  BY <1>1 DEF ConsentRecords, AllEvidence
<1>5. LicenceRecords = {LicenceEvidence(r, Licensed(r)) :
                          r \in {x \in MatchedReferences : Licensed(x) # {}}}
  <2>1. \A r : /\ LicenceEvidence(r, Licensed(r)).kind = "LICENCE_RECORD"
               /\ LicenceEvidence(r, Licensed(r)).subject = r
               /\ LicenceEvidence(r, Licensed(r)).polarity = "SUPPORTS" <=> Licensed(r) # {}
    BY DEF LicenceEvidence, Evidence
  <2>2. LicenceRecords = {e \in licence.evidence :
                            e.polarity = "SUPPORTS" /\ e.subject \in MatchedReferences}
    BY <1>1, <1>2, <1>3 DEF LicenceRecords, AllEvidence
  <2> QED
    BY <1>1, <2>1, <2>2
<1> QED
  BY <1>3, <1>4, <1>5

(* The ids of the graph's nodes and edges, kind by kind.                    *)
LEMMA NodeIds ==
  ASSUME NEW i
  PROVE  i \in Ids(BuildGraph.nodes) <=>
           \/ i = Root
           \/ \E e \in ReferenceMatches : i = ReferenceNode(e.subject)
           \/ \E l \in Holders(LicenceRecords) : i = <<"LICENCE", l>>
           \/ \E e \in ConsentRecords : i = SubjectNode(e)
           \/ \E c \in Holders(ConsentRecords) : i = <<"CONSENT", c>>
           \/ i = <<"CAMPAIGN", request.context.use.written>>
           \/ \E t \in request.context.territories : i = <<"TERRITORY", t>>
<1>1. \A at, items : Node(at, items).id = at
  BY DEF Node
<1>2. BuildGraph.nodes = {[id |-> Root, evidence |-> {}, polarity |-> "NEUTRAL"]}
                           \cup ReferenceNodes \cup LicenceNodes \cup ConsentNodes \cup CampaignNodes
  BY DEF BuildGraph
<1>3. i \in Ids(BuildGraph.nodes) <=>
        i = Root \/ \E x \in ReferenceNodes \cup LicenceNodes \cup ConsentNodes \cup CampaignNodes :
                      i = x.id
  <2>1. \A x \in BuildGraph.nodes : x.id = Root
          \/ x \in ReferenceNodes \cup LicenceNodes \cup ConsentNodes \cup CampaignNodes
    BY <1>2
  <2>2. \E x \in BuildGraph.nodes : x.id = Root
    <3> DEFINE root == [id |-> Root, evidence |-> {}, polarity |-> "NEUTRAL"]
    <3>1. root.id = Root /\ root \in BuildGraph.nodes
      BY <1>2
    <3> HIDE DEF root
    <3> QED
      BY <3>1
  <2>3. ReferenceNodes \cup LicenceNodes \cup ConsentNodes \cup CampaignNodes
          \subseteq BuildGraph.nodes
    BY <1>2
  <2>4. i \in Ids(BuildGraph.nodes) <=> \E x \in BuildGraph.nodes : i = x.id
    BY DEF Ids
  <2> QED
    BY <2>1, <2>2, <2>3, <2>4
<1>4. (\E x \in ReferenceNodes : i = x.id)
        <=> \E e \in ReferenceMatches : i = ReferenceNode(e.subject)
  <2> DEFINE node(e) == Node(ReferenceNode(e.subject), About(ReferenceMatches, e.subject))
  <2>1. \A e : node(e).id = ReferenceNode(e.subject)
    BY <1>1
  <2>2. ReferenceNodes = {node(e) : e \in ReferenceMatches}
    BY DEF ReferenceNodes
  <2> HIDE DEF node
  <2> QED
    BY <2>1, <2>2
<1>5. (\E x \in LicenceNodes : i = x.id) <=> \E l \in Holders(LicenceRecords) : i = <<"LICENCE", l>>
  <2> DEFINE leaf(l) == Node(<<"LICENCE", l>>, Naming(LicenceRecords, l))
  <2>1. \A l : leaf(l).id = <<"LICENCE", l>>
    BY <1>1
  <2>2. LicenceNodes = {leaf(l) : l \in Holders(LicenceRecords)}
    BY DEF LicenceNodes
  <2> HIDE DEF leaf
  <2> QED
    BY <2>1, <2>2
<1>6. (\E x \in ConsentNodes : i = x.id)
        <=> \/ \E e \in ConsentRecords : i = SubjectNode(e)
            \/ \E c \in Holders(ConsentRecords) : i = <<"CONSENT", c>>
  <2> DEFINE node(e) == Node(SubjectNode(e), About(ConsentRecords, e.subject))
             leaf(c) == Node(<<"CONSENT", c>>, Naming(ConsentRecords, c))
  <2>1. (\A e : node(e).id = SubjectNode(e)) /\ (\A c : leaf(c).id = <<"CONSENT", c>>)
    BY <1>1
  <2>2. ConsentNodes = {node(e) : e \in ConsentRecords} \cup {leaf(c) : c \in Holders(ConsentRecords)}
    BY DEF ConsentNodes
  <2> HIDE DEF node, leaf
  <2> QED
    BY <2>1, <2>2
<1>7. (\E x \in CampaignNodes : i = x.id)
        <=> \/ i = <<"CAMPAIGN", request.context.use.written>>
            \/ \E t \in request.context.territories : i = <<"TERRITORY", t>>
  <2> DEFINE policy == {PolicyEvidence(deployment.decision)}
             campaign == Node(<<"CAMPAIGN", request.context.use.written>>, policy)
             place(t) == Node(<<"TERRITORY", t>>, policy)
  <2>1. /\ campaign.id = <<"CAMPAIGN", request.context.use.written>>
        /\ \A t : place(t).id = <<"TERRITORY", t>>
    BY <1>1
  <2>2. CampaignNodes = {campaign} \cup {place(t) : t \in request.context.territories}
    BY DEF CampaignNodes
  <2> HIDE DEF campaign, place
  <2> QED
    BY <2>1, <2>2
<1> QED
  BY <1>3, <1>4, <1>5, <1>6, <1>7

(* The ids of the edges.                                                     *)
LEMMA EdgeIds ==
  ASSUME NEW i
  PROVE  i \in Ids(BuildGraph.edges) <=>
           \/ \E e \in ReferenceMatches : i = <<"CANDIDATE_MATCH", Root, ReferenceNode(e.subject)>>
           \/ \E e \in LicenceRecords : \E l \in e.holders :
                i = <<"COVERED_BY", ReferenceNode(e.subject), <<"LICENCE", l>>>>
           \/ \E e \in ConsentRecords : i = <<"SUBJECT", Root, SubjectNode(e)>>
           \/ \E e \in ConsentRecords : \E c \in e.holders :
                i = <<"CONSENTED_BY", SubjectNode(e), <<"CONSENT", c>>>>
           \/ i = <<"USED_BY", Root, <<"CAMPAIGN", request.context.use.written>>>>
           \/ \E t \in request.context.territories :
                i = <<"VALID_IN", <<"CAMPAIGN", request.context.use.written>>, <<"TERRITORY", t>>>>
<1>1. \A kind, from, to, items : Edge(kind, from, to, items).id = <<kind, from, to>>
  BY DEF Edge
<1>2. BuildGraph.edges = MatchEdges \cup CoverageEdges \cup ConsentEdges \cup CampaignEdges
  BY DEF BuildGraph
<1>3. i \in Ids(BuildGraph.edges) <=>
        \E x \in MatchEdges \cup CoverageEdges \cup ConsentEdges \cup CampaignEdges : i = x.id
  BY <1>2 DEF Ids
<1>4. (\E x \in MatchEdges : i = x.id) <=>
        \E e \in ReferenceMatches : i = <<"CANDIDATE_MATCH", Root, ReferenceNode(e.subject)>>
  BY <1>1 DEF MatchEdges
<1>5. (\E x \in CoverageEdges : i = x.id) <=>
        \E e \in LicenceRecords : \E l \in e.holders :
          i = <<"COVERED_BY", ReferenceNode(e.subject), <<"LICENCE", l>>>>
  <2> DEFINE edge(e, l) == Edge("COVERED_BY", ReferenceNode(e.subject), <<"LICENCE", l>>, {e})
  <2>1. \A e, l : edge(e, l).id = <<"COVERED_BY", ReferenceNode(e.subject), <<"LICENCE", l>>>>
    BY <1>1
  <2>2. CoverageEdges = UNION {{edge(e, l) : l \in e.holders} : e \in LicenceRecords}
    BY DEF CoverageEdges
  <2> HIDE DEF edge
  <2>3. \A x : x \in CoverageEdges <=> \E e \in LicenceRecords : \E l \in e.holders : x = edge(e, l)
    BY <2>2
  <2>4. ASSUME NEW x \in CoverageEdges
        PROVE  \E e \in LicenceRecords : \E l \in e.holders :
                 x.id = <<"COVERED_BY", ReferenceNode(e.subject), <<"LICENCE", l>>>>
    <3>1. PICK e \in LicenceRecords : \E l \in e.holders : x = edge(e, l)
      BY <2>3
    <3>2. PICK l \in e.holders : x = edge(e, l)
      BY <3>1
    <3>3. x.id = <<"COVERED_BY", ReferenceNode(e.subject), <<"LICENCE", l>>>>
      BY <2>1, <3>2
    <3> QED
      BY <3>3
  <2>5. ASSUME NEW e \in LicenceRecords, NEW l \in e.holders
        PROVE  \E x \in CoverageEdges :
                 x.id = <<"COVERED_BY", ReferenceNode(e.subject), <<"LICENCE", l>>>>
    <3>1. edge(e, l) \in CoverageEdges
      BY <2>3
    <3> QED
      BY <2>1, <3>1
  <2>6. ASSUME NEW x \in CoverageEdges, i = x.id
        PROVE  \E e \in LicenceRecords : \E l \in e.holders :
                 i = <<"COVERED_BY", ReferenceNode(e.subject), <<"LICENCE", l>>>>
    BY <2>4, <2>6
  <2>7. ASSUME NEW e \in LicenceRecords, NEW l \in e.holders,
               i = <<"COVERED_BY", ReferenceNode(e.subject), <<"LICENCE", l>>>>
        PROVE  \E x \in CoverageEdges : i = x.id
    BY <2>5, <2>7
  <2> QED
    BY <2>6, <2>7
<1>6. (\E x \in ConsentEdges : i = x.id) <=>
        \/ \E e \in ConsentRecords : i = <<"SUBJECT", Root, SubjectNode(e)>>
        \/ \E e \in ConsentRecords : \E c \in e.holders :
             i = <<"CONSENTED_BY", SubjectNode(e), <<"CONSENT", c>>>>
  <2> DEFINE shown(e) == Edge("SUBJECT", Root, SubjectNode(e), About(ConsentRecords, e.subject))
             given(e, c) == Edge("CONSENTED_BY", SubjectNode(e), <<"CONSENT", c>>,
                                 Naming(About(ConsentRecords, e.subject), c))
  <2>1. /\ \A e : shown(e).id = <<"SUBJECT", Root, SubjectNode(e)>>
        /\ \A e, c : given(e, c).id = <<"CONSENTED_BY", SubjectNode(e), <<"CONSENT", c>>>>
    BY <1>1
  <2>2. ConsentEdges = {shown(e) : e \in ConsentRecords}
                         \cup UNION {{given(e, c) : c \in e.holders} : e \in ConsentRecords}
    BY DEF ConsentEdges
  <2> HIDE DEF shown, given
  <2> QED
    BY <2>1, <2>2
<1>7. (\E x \in CampaignEdges : i = x.id) <=>
        \/ i = <<"USED_BY", Root, <<"CAMPAIGN", request.context.use.written>>>>
        \/ \E t \in request.context.territories :
             i = <<"VALID_IN", <<"CAMPAIGN", request.context.use.written>>, <<"TERRITORY", t>>>>
  <2> DEFINE campaign == <<"CAMPAIGN", request.context.use.written>>
             policy == {PolicyEvidence(deployment.decision)}
             used == Edge("USED_BY", Root, campaign, policy)
             valid(t) == Edge("VALID_IN", campaign, <<"TERRITORY", t>>, policy)
  <2>1. /\ used.id = <<"USED_BY", Root, campaign>>
        /\ \A t : valid(t).id = <<"VALID_IN", campaign, <<"TERRITORY", t>>>>
    BY <1>1
  <2>2. CampaignEdges = {used} \cup {valid(t) : t \in request.context.territories}
    BY DEF CampaignEdges
  <2> HIDE DEF used, valid
  <2> QED
    BY <2>1, <2>2
<1> QED
  BY <1>3, <1>4, <1>5, <1>6, <1>7

(* Nodes and edges are those of the matched references, of the licences that *)
(* permit the use, and of the matched persons and their consents.            *)
LEMMA AInvGraphTellsTheRights ==
  AInv => GraphTellsTheRights
<1> DEFINE nodes == Ids(BuildGraph.nodes)
           edges == Ids(BuildGraph.edges)
           person(m, t) == <<m, t.consent.subject>>
<1> SUFFICES ASSUME AInv, pc = "completed"
             PROVE  /\ \A r \in request.references :
                         /\ ReferenceNode(r) \in nodes <=> r \in MatchedReferences
                         /\ <<"CANDIDATE_MATCH", Root, ReferenceNode(r)>> \in edges
                              <=> r \in MatchedReferences
                         /\ \A l \in request.licences :
                              <<"COVERED_BY", ReferenceNode(r), <<"LICENCE", l.id>>>> \in edges
                                <=> r \in MatchedReferences /\ l \in Licensed(r)
                    /\ \A t \in MatchedTemplates : \E m \in Modalities :
                         {<<"SUBJECT", Root, person(m, t)>>,
                          <<"CONSENTED_BY", person(m, t), <<"CONSENT", t.consent.id>>>>}
                            \subseteq edges
                    /\ \A n \in BuildGraph.nodes : n.id[1] = "CONSENT" /\ n.polarity = "SUPPORTS" =>
                         \E t \in MatchedTemplates : t.consent.id = n.id[2] /\ Consented(t)
  BY DEF GraphTellsTheRights, Modalities
<1>1. Concluded
  BY DEF Concluded
<1>2. /\ {e.subject : e \in ReferenceMatches} = MatchedReferences
      /\ ConsentRecords = {e \in lanes.evidence : e.kind = "CONSENT_RECORD"}
      /\ LicenceRecords = {LicenceEvidence(r, Licensed(r)) :
                             r \in {x \in MatchedReferences : Licensed(x) # {}}}
  BY <1>1, EvidenceDrawn
<1>3. /\ \A e \in ConsentRecords :
           \E t \in MatchedTemplates, m \in Modalities : e = ConsentEvidence(m, t, Consented(t))
      /\ \A t \in MatchedTemplates : \E m \in Modalities :
           ConsentEvidence(m, t, Consented(t)) \in ConsentRecords
  <2>1. \A m, t, b : ConsentEvidence(m, t, b).kind = "CONSENT_RECORD"
    BY DEF ConsentEvidence, Evidence
  <2> QED
    BY <1>1, <1>2, <2>1, ConcludedFromLanes, TemplatesMatched
<1>4. \A m, t, b : LET e == ConsentEvidence(m, t, b) IN
        /\ e.holders = {t.consent.id} /\ SubjectNode(e) = person(m, t)
        /\ e.polarity = "SUPPORTS" <=> b
  BY DEF ConsentEvidence, Evidence, SubjectNode
<1>5. ASSUME NEW r
      PROVE  /\ ReferenceNode(r) \in nodes <=> r \in MatchedReferences
             /\ <<"CANDIDATE_MATCH", Root, ReferenceNode(r)>> \in edges <=> r \in MatchedReferences
  <2>1. \A e \in ConsentRecords : SubjectNode(e)[1] \in Modalities
    BY <1>3, <1>4
  <2>2. ReferenceNode(r) \in nodes <=> \E e \in ReferenceMatches : ReferenceNode(r) = ReferenceNode(e.subject)
    BY <2>1, NodeIds DEF ReferenceNode, Root, Modalities
  <2>3. <<"CANDIDATE_MATCH", Root, ReferenceNode(r)>> \in edges
          <=> \E e \in ReferenceMatches : ReferenceNode(r) = ReferenceNode(e.subject)
    BY EdgeIds
  <2>4. \A s : ReferenceNode(r) = ReferenceNode(s) <=> r = s
    BY DEF ReferenceNode
  <2> QED
    BY <1>2, <2>2, <2>3, <2>4
<1>6. ASSUME NEW r, NEW l \in request.licences
      PROVE  <<"COVERED_BY", ReferenceNode(r), <<"LICENCE", l.id>>>> \in edges
               <=> r \in MatchedReferences /\ l \in Licensed(r)
  <2>1. <<"COVERED_BY", ReferenceNode(r), <<"LICENCE", l.id>>>> \in edges
          <=> \E e \in LicenceRecords : e.subject = r /\ l.id \in e.holders
    BY EdgeIds DEF ReferenceNode
  <2>2. \A x : LicenceEvidence(x, Licensed(x)).subject = x
               /\ LicenceEvidence(x, Licensed(x)).holders = {k.id : k \in Licensed(x)}
    BY DEF LicenceEvidence, Evidence
  <2>3. (\E e \in LicenceRecords : e.subject = r /\ l.id \in e.holders)
          <=> r \in MatchedReferences /\ \E k \in Licensed(r) : k.id = l.id
    BY <1>2, <2>2
  <2>4. \A k \in Licensed(r) : k.id = l.id => k = l
    <3>1. UniqueIds(request.licences)
      BY <1>1, ConcludedFromLanes, RegistriesAssumption
    <3> QED
      BY <3>1 DEF UniqueIds, Licensed
  <2> QED
    BY <2>1, <2>3, <2>4
<1>7. ASSUME NEW t \in MatchedTemplates
      PROVE  \E m \in Modalities :
               {<<"SUBJECT", Root, person(m, t)>>,
                <<"CONSENTED_BY", person(m, t), <<"CONSENT", t.consent.id>>>>} \subseteq edges
  <2>1. PICK m \in Modalities : ConsentEvidence(m, t, Consented(t)) \in ConsentRecords
    BY <1>3
  <2> DEFINE e == ConsentEvidence(m, t, Consented(t))
  <2>2. t.consent.id \in e.holders /\ SubjectNode(e) = person(m, t)
    BY <1>4
  <2> HIDE DEF e, person
  <2>3. <<"SUBJECT", Root, SubjectNode(e)>> \in edges
        /\ <<"CONSENTED_BY", SubjectNode(e), <<"CONSENT", t.consent.id>>>> \in edges
    BY <2>1, <2>2, EdgeIds DEF e
  <2> QED
    BY <2>2, <2>3
<1>8. ASSUME NEW n \in BuildGraph.nodes, n.id[1] = "CONSENT", n.polarity = "SUPPORTS"
      PROVE  \E t \in MatchedTemplates : t.consent.id = n.id[2] /\ Consented(t)
  <2>1. \A id, items : Node(id, items).id = id /\ Node(id, items).polarity = LastOf(items).polarity
    BY DEF Node
  <2>2. \A e \in ConsentRecords : SubjectNode(e)[1] # "CONSENT"
    BY <1>3, <1>4 DEF Modalities
  <2>3. n \in ConsentNodes
    <3>1. \A r : ReferenceNode(r)[1] # "CONSENT"
      BY DEF ReferenceNode
    <3>2. \A x \in ReferenceNodes : x.id[1] # "CONSENT"
      BY <2>1, <3>1 DEF ReferenceNodes
    <3>3. ASSUME NEW x \in LicenceNodes
          PROVE  x.id[1] # "CONSENT"
      <4>1. PICK l : x = Node(<<"LICENCE", l>>, Naming(LicenceRecords, l))
        BY DEF LicenceNodes
      <4>2. x.id = <<"LICENCE", l>>
        BY <2>1, <4>1
      <4> QED
        BY <4>2
    <3>4. ASSUME NEW x \in CampaignNodes
          PROVE  x.id[1] # "CONSENT"
      <4>1. \/ x = Node(<<"CAMPAIGN", request.context.use.written>>,
                        {PolicyEvidence(deployment.decision)})
            \/ \E t : x = Node(<<"TERRITORY", t>>, {PolicyEvidence(deployment.decision)})
        BY DEF CampaignNodes
      <4>2. ASSUME NEW t, x = Node(<<"TERRITORY", t>>, {PolicyEvidence(deployment.decision)})
            PROVE  x.id[1] # "CONSENT"
        <5>1. x.id = <<"TERRITORY", t>>
          BY <2>1, <4>2
        <5> QED
          BY <5>1
      <4>3. ASSUME x = Node(<<"CAMPAIGN", request.context.use.written>>,
                            {PolicyEvidence(deployment.decision)})
            PROVE  x.id[1] # "CONSENT"
        <5>1. x.id = <<"CAMPAIGN", request.context.use.written>>
          BY <2>1, <4>3
        <5> QED
          BY <5>1
      <4> QED
        BY <4>1, <4>2, <4>3
    <3> QED
      BY <1>8, <3>2, <3>3, <3>4 DEF BuildGraph, Root
  <2>4. PICK c \in Holders(ConsentRecords) : n = Node(<<"CONSENT", c>>, Naming(ConsentRecords, c))
    <3>1. n \notin {Node(SubjectNode(e), About(ConsentRecords, e.subject)) : e \in ConsentRecords}
      BY <1>8, <2>1, <2>2
    <3> QED
      BY <2>3, <3>1 DEF ConsentNodes
  <2>5. LastOf(Naming(ConsentRecords, c)) \in Naming(ConsentRecords, c)
    BY DEF LastOf, Naming, Holders
  <2>6. PICK e \in ConsentRecords : e.polarity = "SUPPORTS" /\ c \in e.holders
    BY <1>8, <2>1, <2>4, <2>5 DEF Naming
  <2>7. PICK t \in MatchedTemplates, m \in Modalities : e = ConsentEvidence(m, t, Consented(t))
    BY <1>3
  <2> QED
    BY <1>4, <2>1, <2>4, <2>6, <2>7
<1> QED
  BY <1>5, <1>6, <1>7, <1>8

-----------------------------------------------------------------------------
(* The record the executor assembles of it is one its contract accepts.      *)

(* The licence evaluator's and the policy's own records fit.                *)
LEMMA LicenceFits ==
  ASSUME NEW matches, NEW registry, NEW context, NEW at
  PROVE  LET result == EvaluateCandidateLicences(matches, registry, context, at) IN
         /\ RecordsFit("licence-evaluator", result.evidence, result.claims)
         /\ result.component = Component("licence-evaluator", "AVAILABLE")
<1> DEFINE result == EvaluateCandidateLicences(matches, registry, context, at)
           candidates == CandidateReferences(matches)
           covering(r) == CoveringLicences(r, registry, context, at)
<1>1. result.component = Component("licence-evaluator", "AVAILABLE")
  BY DEF EvaluateCandidateLicences
<1>2. CASE candidates = {}
  <2>1. result.evidence = {} /\ result.claims = {Claim(<<"licence-not-assessed">>, "NOT_ASSESSED", FALSE, {})}
    BY <1>2 DEF EvaluateCandidateLicences
  <2>2. Owner("licence-not-assessed") = "licence-evaluator"
    BY Owners
  <2> QED
    BY <1>1, <2>1, <2>2, SilenceFits
<1>3. CASE candidates # {}
  <2> DEFINE ev == [r \in candidates |-> LicenceEvidence(r, covering(r))]
             cl == [r \in candidates |-> LicenceClaim(r, covering(r))]
  <2>1. /\ result.evidence = {LicenceEvidence(r, covering(r)) : r \in candidates}
        /\ result.claims = {LicenceClaim(r, covering(r)) : r \in candidates}
    BY <1>3 DEF EvaluateCandidateLicences
  <2> HIDE DEF result, candidates, covering
  <2>2. Listed(result.evidence, ev) /\ Listed(result.claims, cl)
    <3>1. /\ DOMAIN ev = candidates /\ DOMAIN cl = candidates
          /\ \A r \in candidates : ev[r] = LicenceEvidence(r, covering(r))
                                   /\ cl[r] = LicenceClaim(r, covering(r))
      OBVIOUS
    <3> HIDE DEF ev, cl
    <3> QED
      BY <2>1, <3>1 DEF Listed
  <2>3. \A r, S : LET e == LicenceEvidence(r, S)
                      c == LicenceClaim(r, S) IN
          /\ e.id = <<"licence", r>> /\ e.component = "licence-evaluator" /\ IsEvidence(e)
          /\ c.id = e.id /\ c.evidence = {e.id} /\ IsClaim(c)
          /\ c.outcome \in {"SUPPORTED", "CONTRADICTED"}
    BY DEF LicenceEvidence, LicenceClaim, Evidence, Claim, IsEvidence, IsClaim
  <2>4. DOMAIN ev = candidates /\ DOMAIN cl = candidates
    OBVIOUS
  <2>5. \A r \in candidates :
          /\ ev[r].id = <<"licence", r>> /\ ev[r].component = "licence-evaluator"
          /\ IsEvidence(ev[r])
          /\ cl[r].id = ev[r].id /\ cl[r].evidence = {ev[r].id} /\ IsClaim(cl[r])
          /\ cl[r].outcome \in {"SUPPORTED", "CONTRADICTED"}
    BY <2>3
  <2> HIDE DEF ev, cl
  <2>6. \A r \in candidates : ev[r].id[1] = "licence" /\ ev[r].id[2] = r
    BY <2>5, ShortIds
  <2>7. \A x, y \in candidates : ev[x].id = ev[y].id => x = y
    BY <2>6
  <2>8. Owner("licence") = "licence-evaluator"
    BY Owners
  <2>9. RecordsFit("licence-evaluator", result.evidence, result.claims)
    BY <2>2, <2>4, <2>5, <2>6, <2>7, <2>8, ClaimsFit
  <2> QED
    BY <1>1, <2>9 DEF result
<1> QED
  BY <1>2, <1>3

(* The policy's record and the claim that rests on it.                       *)
LEMMA PolicyFits ==
  ASSUME NEW decision
  PROVE  RecordsFit("policy-compiler", {PolicyEvidence(decision)}, {PolicyClaim(decision)})
<1> DEFINE e == PolicyEvidence(decision)
           c == PolicyClaim(decision)
<1>1. /\ e.id = <<"policy">> /\ e.component = "policy-compiler"
      /\ c.id = <<"policy-release">> /\ c.evidence = {<<"policy">>}
      /\ c.outcome \in {"SUPPORTED", "CONTRADICTED", "UNKNOWN"}
  BY DEF PolicyEvidence, PolicyClaim, Evidence, Claim
<1> HIDE DEF e, c
<1>2. Owner(e.id[1]) = "policy-compiler" /\ Owner(c.id[1]) = "policy-compiler"
  BY <1>1, Owners, ShortIds
<1>3. EvidenceSemantics(c) /\ c.evidence \subseteq {e.id}
  BY <1>1 DEF EvidenceSemantics
<1>4. RecordsFit("policy-compiler", {e}, {c})
  BY <1>1, <1>2, <1>3, PairFits
<1> QED
  BY <1>4 DEF e, c

-----------------------------------------------------------------------------
(* The evidence a node or an edge is drawn from, told by its id.             *)
NodeSource(i) ==
  IF i[1] = "REFERENCE" THEN About(ReferenceMatches, i[2])
  ELSE IF i[1] = "LICENCE" THEN Naming(LicenceRecords, i[2])
  ELSE IF i[1] = "CONSENT" THEN Naming(ConsentRecords, i[2])
  ELSE IF i[1] \in Modalities THEN About(ConsentRecords, i[2])
  ELSE {PolicyEvidence(deployment.decision)}

EdgeSource(i) ==
  IF i[1] = "CANDIDATE_MATCH" THEN About(ReferenceMatches, i[3][2])
  ELSE IF i[1] = "COVERED_BY" THEN About(LicenceRecords, i[2][2])
  ELSE IF i[1] = "SUBJECT" THEN About(ConsentRecords, i[3][2])
  ELSE IF i[1] = "CONSENTED_BY" THEN Naming(About(ConsentRecords, i[2][2]), i[3][2])
  ELSE {PolicyEvidence(deployment.decision)}

Shown(S) == S # {} /\ S \subseteq AllEvidence

WellDrawn(n) ==
  n.id # Root /\ n = Node(n.id, NodeSource(n.id)) /\ Shown(NodeSource(n.id))

WellJoined(x) ==
  /\ x = Edge(x.id[1], x.id[2], x.id[3], EdgeSource(x.id)) /\ Shown(EdgeSource(x.id))
  /\ x.from # x.to /\ {x.from, x.to} \subseteq Ids(BuildGraph.nodes)

(* Every node and edge is drawn from evidence of the assessment.             *)
LEMMA ItemsShown ==
  /\ \A e \in ReferenceMatches : Shown(About(ReferenceMatches, e.subject))
  /\ \A l \in Holders(LicenceRecords) : Shown(Naming(LicenceRecords, l))
  /\ \A e \in LicenceRecords : Shown(About(LicenceRecords, e.subject))
  /\ \A e \in ConsentRecords :
       /\ Shown(About(ConsentRecords, e.subject))
       /\ \A c \in e.holders : Shown(Naming(About(ConsentRecords, e.subject), c))
  /\ \A c \in Holders(ConsentRecords) : Shown(Naming(ConsentRecords, c))
  /\ Shown({PolicyEvidence(deployment.decision)})
<1>1. ReferenceMatches \subseteq AllEvidence /\ LicenceRecords \subseteq AllEvidence
      /\ ConsentRecords \subseteq AllEvidence /\ PolicyEvidence(deployment.decision) \in AllEvidence
  BY DEF ReferenceMatches, LicenceRecords, ConsentRecords, AllEvidence
<1>2. ASSUME NEW S, S \subseteq AllEvidence
      PROVE  /\ \A e \in S : Shown(About(S, e.subject))
             /\ \A c \in Holders(S) : Shown(Naming(S, c))
             /\ \A e \in S : \A c \in e.holders : Shown(Naming(About(S, e.subject), c))
  <2>1. \A e \in S : Shown(About(S, e.subject))
    BY <1>2 DEF Shown, About
  <2>2. ASSUME NEW c \in Holders(S)
        PROVE  Shown(Naming(S, c))
    <3>1. PICK e \in S : c \in e.holders
      BY DEF Holders
    <3> QED
      BY <1>2, <3>1 DEF Shown, Naming
  <2>3. \A e \in S : \A c \in e.holders : Shown(Naming(About(S, e.subject), c))
    BY <1>2 DEF Shown, About, Naming
  <2> QED
    BY <2>1, <2>2, <2>3
<1>3. Shown({PolicyEvidence(deployment.decision)})
  BY <1>1 DEF Shown
<1> QED
  BY <1>1, <1>2, <1>3

(* A consent record is about a person under the modality of its template.    *)
LEMMA PersonsAreShown ==
  ASSUME AInv, Concluded
  PROVE  /\ \A e \in ConsentRecords : SubjectNode(e)[1] \in Modalities /\ SubjectNode(e)[2] = e.subject
         /\ \A d, e \in LicenceRecords : d.subject = e.subject => d = e
<1>1. /\ ConsentRecords = {e \in lanes.evidence : e.kind = "CONSENT_RECORD"}
      /\ LicenceRecords = {LicenceEvidence(r, Licensed(r)) :
                             r \in {x \in MatchedReferences : Licensed(x) # {}}}
  BY EvidenceDrawn
<1>2. ASSUME NEW e \in ConsentRecords
      PROVE  e.component \in Modalities
  <2>1. PICK t \in MatchedTemplates, m \in Modalities : e = ConsentEvidence(m, t, Consented(t))
    BY <1>1, ConcludedFromLanes, TemplatesMatched
  <2> QED
    BY <2>1 DEF ConsentEvidence, Evidence
<1>3. \A e : SubjectNode(e)[1] = e.component /\ SubjectNode(e)[2] = e.subject
  BY DEF SubjectNode
<1>4. \A r : LicenceEvidence(r, Licensed(r)).subject = r
  BY DEF LicenceEvidence, Evidence
<1> QED
  BY <1>1, <1>2, <1>3, <1>4

(* A node but the root is told by its id, and so are its evidence and polarity. *)
LEMMA NodesDrawn ==
  ASSUME AInv, Concluded, NEW n \in BuildGraph.nodes
  PROVE  n = [id |-> Root, evidence |-> {}, polarity |-> "NEUTRAL"] \/ WellDrawn(n)
<1>1. \A i, items : Node(i, items).id = i
  BY DEF Node
<1>2. ASSUME NEW i, NEW items, n = Node(i, items), i # Root, items = NodeSource(i), Shown(items)
      PROVE  WellDrawn(n)
  BY <1>1, <1>2 DEF WellDrawn
<1>3. \A tag, x : <<tag, x>>[1] = tag /\ <<tag, x>>[2] = x
  OBVIOUS
<1>4. CASE n \in ReferenceNodes
  <2>1. PICK e \in ReferenceMatches :
          n = Node(ReferenceNode(e.subject), About(ReferenceMatches, e.subject))
    BY <1>4 DEF ReferenceNodes
  <2>2. /\ ReferenceNode(e.subject) # Root
        /\ NodeSource(ReferenceNode(e.subject)) = About(ReferenceMatches, e.subject)
    BY <1>3 DEF ReferenceNode, Root, NodeSource
  <2> QED
    BY <1>2, <2>1, <2>2, ItemsShown
<1>5. CASE n \in LicenceNodes
  <2>1. PICK l \in Holders(LicenceRecords) : n = Node(<<"LICENCE", l>>, Naming(LicenceRecords, l))
    BY <1>5 DEF LicenceNodes
  <2>2. <<"LICENCE", l>> # Root /\ NodeSource(<<"LICENCE", l>>) = Naming(LicenceRecords, l)
    BY <1>3 DEF Root, NodeSource
  <2> QED
    BY <1>2, <2>1, <2>2, ItemsShown
<1>6. CASE n \in ConsentNodes
  <2>1. CASE \E e \in ConsentRecords : n = Node(SubjectNode(e), About(ConsentRecords, e.subject))
    <3>1. PICK e \in ConsentRecords : n = Node(SubjectNode(e), About(ConsentRecords, e.subject))
      BY <2>1
    <3>2. SubjectNode(e)[1] \in Modalities /\ SubjectNode(e)[2] = e.subject
      BY PersonsAreShown
    <3>3. SubjectNode(e) # Root /\ NodeSource(SubjectNode(e)) = About(ConsentRecords, e.subject)
      BY <3>2 DEF Root, NodeSource, Modalities
    <3> QED
      BY <1>2, <3>1, <3>3, ItemsShown
  <2>2. CASE \E c \in Holders(ConsentRecords) : n = Node(<<"CONSENT", c>>, Naming(ConsentRecords, c))
    <3>1. PICK c \in Holders(ConsentRecords) : n = Node(<<"CONSENT", c>>, Naming(ConsentRecords, c))
      BY <2>2
    <3>2. <<"CONSENT", c>> # Root /\ NodeSource(<<"CONSENT", c>>) = Naming(ConsentRecords, c)
      BY <1>3 DEF Root, NodeSource
    <3> QED
      BY <1>2, <3>1, <3>2, ItemsShown
  <2> QED
    BY <1>6, <2>1, <2>2 DEF ConsentNodes
<1>7. CASE n \in CampaignNodes
  <2>1. \A x : /\ <<"CAMPAIGN", x>> # Root /\ <<"TERRITORY", x>> # Root
               /\ NodeSource(<<"CAMPAIGN", x>>) = {PolicyEvidence(deployment.decision)}
               /\ NodeSource(<<"TERRITORY", x>>) = {PolicyEvidence(deployment.decision)}
    BY <1>3 DEF Root, NodeSource, Modalities
  <2>2. \/ n = Node(<<"CAMPAIGN", request.context.use.written>>, {PolicyEvidence(deployment.decision)})
        \/ \E t : n = Node(<<"TERRITORY", t>>, {PolicyEvidence(deployment.decision)})
    BY <1>7 DEF CampaignNodes
  <2> QED
    BY <1>2, <2>1, <2>2, ItemsShown
<1> QED
  BY <1>4, <1>5, <1>6, <1>7 DEF BuildGraph

(* An edge is told by its id and joins two nodes of the graph.               *)
LEMMA EdgesJoined ==
  ASSUME AInv, Concluded, NEW x \in BuildGraph.edges
  PROVE  WellJoined(x)
<1> DEFINE nodes == Ids(BuildGraph.nodes)
           policy == {PolicyEvidence(deployment.decision)}
<1>1. ASSUME NEW kind, NEW from, NEW to, NEW items, x = Edge(kind, from, to, items),
             items = EdgeSource(<<kind, from, to>>), Shown(items),
             from[1] # to[1], from \in nodes, to \in nodes
      PROVE  WellJoined(x)
  <2>1. x.id = <<kind, from, to>> /\ x.from = from /\ x.to = to
    BY <1>1 DEF Edge
  <2>2. x.id[1] = kind /\ x.id[2] = from /\ x.id[3] = to
    BY <2>1
  <2> HIDE DEF nodes
  <2>3. x = Edge(x.id[1], x.id[2], x.id[3], EdgeSource(x.id)) /\ Shown(EdgeSource(x.id))
    BY <1>1, <2>1, <2>2
  <2>4. x.from # x.to /\ {x.from, x.to} \subseteq nodes
    BY <1>1, <2>1
  <2> QED
    BY <2>3, <2>4 DEF WellJoined, nodes
<1>2. \A tag, a : <<tag, a>>[1] = tag /\ <<tag, a>>[2] = a
  OBVIOUS
<1>3. \A kind, from, to : LET i == <<kind, from, to>> IN
        i[1] = kind /\ i[2] = from /\ i[3] = to
  OBVIOUS
<1>4. Root \in nodes /\ Root[1] = "ASSET"
  BY NodeIds DEF Root
<1>5. CASE x \in MatchEdges
  <2>1. PICK e \in ReferenceMatches :
          x = Edge("CANDIDATE_MATCH", Root, ReferenceNode(e.subject),
                   About(ReferenceMatches, e.subject))
    BY <1>5 DEF MatchEdges
  <2>2. ReferenceNode(e.subject) \in nodes
    BY NodeIds
  <2>3. ReferenceNode(e.subject)[1] = "REFERENCE" /\ ReferenceNode(e.subject)[2] = e.subject
    BY <1>2 DEF ReferenceNode
  <2>4. EdgeSource(<<"CANDIDATE_MATCH", Root, ReferenceNode(e.subject)>>)
          = About(ReferenceMatches, e.subject)
    BY <1>3, <2>3 DEF EdgeSource
  <2> HIDE DEF nodes
  <2> QED
    BY <1>1, <1>4, <2>1, <2>2, <2>3, <2>4, ItemsShown
<1>6. CASE x \in CoverageEdges
  <2>1. PICK e \in LicenceRecords :
          \E l \in e.holders : x = Edge("COVERED_BY", ReferenceNode(e.subject), <<"LICENCE", l>>, {e})
    <3> DEFINE fan(e) == {Edge("COVERED_BY", ReferenceNode(e.subject), <<"LICENCE", l>>, {e}) :
                            l \in e.holders}
    <3>1. CoverageEdges = UNION {fan(e) : e \in LicenceRecords}
      BY DEF CoverageEdges
    <3>2. \A e : x \in fan(e) => \E l \in e.holders :
             x = Edge("COVERED_BY", ReferenceNode(e.subject), <<"LICENCE", l>>, {e})
      OBVIOUS
    <3> HIDE DEF fan
    <3>3. PICK e \in LicenceRecords : x \in fan(e)
      BY <1>6, <3>1
    <3> QED
      BY <3>2, <3>3
  <2>2. PICK l \in e.holders :
          x = Edge("COVERED_BY", ReferenceNode(e.subject), <<"LICENCE", l>>, {e})
    BY <2>1
  <2>3. /\ ReferenceNode(e.subject)[1] = "REFERENCE" /\ ReferenceNode(e.subject)[2] = e.subject
        /\ <<"LICENCE", l>>[1] = "LICENCE"
    BY <1>2 DEF ReferenceNode
  <2>4. About(LicenceRecords, e.subject) = {e}
    BY PersonsAreShown DEF About
  <2>5. EdgeSource(<<"COVERED_BY", ReferenceNode(e.subject), <<"LICENCE", l>>>>) = {e}
    BY <1>3, <2>3, <2>4 DEF EdgeSource
  <2>6. ReferenceNode(e.subject) \in nodes
    <3>1. PICK m \in ReferenceMatches : m.subject = e.subject
      BY DEF LicenceRecords
    <3> QED
      BY <3>1, NodeIds
  <2>7. <<"LICENCE", l>> \in nodes
    <3>1. l \in Holders(LicenceRecords)
      BY DEF Holders
    <3> QED
      BY <3>1, NodeIds
  <2>8. Shown({e})
    BY <2>4, ItemsShown
  <2> HIDE DEF nodes
  <2> QED
    BY <1>1, <2>2, <2>3, <2>5, <2>6, <2>7, <2>8
<1>7. CASE x \in ConsentEdges
  <2> DEFINE shown(e) == Edge("SUBJECT", Root, SubjectNode(e), About(ConsentRecords, e.subject))
             given(e, c) == Edge("CONSENTED_BY", SubjectNode(e), <<"CONSENT", c>>,
                                 Naming(About(ConsentRecords, e.subject), c))
  <2>1. PICK e \in ConsentRecords : x = shown(e) \/ \E c \in e.holders : x = given(e, c)
    <3> DEFINE fan(e) == {given(e, c) : c \in e.holders}
    <3>1. ConsentEdges = {shown(e) : e \in ConsentRecords} \cup UNION {fan(e) : e \in ConsentRecords}
      BY DEF ConsentEdges
    <3>2. \A e : x \in fan(e) => \E c \in e.holders : x = given(e, c)
      OBVIOUS
    <3> HIDE DEF fan, shown, given
    <3>3. CASE \E e \in ConsentRecords : x \in fan(e)
      BY <3>2, <3>3
    <3> QED
      BY <1>7, <3>1, <3>3
  <2>2. SubjectNode(e)[1] \in Modalities /\ SubjectNode(e)[2] = e.subject
    BY PersonsAreShown
  <2>3. SubjectNode(e) \in nodes
    BY NodeIds
  <2>4. CASE x = shown(e)
    <3>1. EdgeSource(<<"SUBJECT", Root, SubjectNode(e)>>) = About(ConsentRecords, e.subject)
      BY <1>3, <2>2 DEF EdgeSource
    <3>2. Root[1] # SubjectNode(e)[1]
      BY <1>4, <2>2 DEF Modalities
    <3> HIDE DEF nodes
    <3> QED
      BY <1>1, <1>4, <2>3, <2>4, <3>1, <3>2, ItemsShown
  <2>5. CASE \E c \in e.holders : x = given(e, c)
    <3>1. PICK c \in e.holders : x = given(e, c)
      BY <2>5
    <3>2. <<"CONSENT", c>> \in nodes
      <4>1. c \in Holders(ConsentRecords)
        BY DEF Holders
      <4> QED
        BY <4>1, NodeIds
    <3>3. <<"CONSENT", c>>[1] = "CONSENT" /\ <<"CONSENT", c>>[2] = c
      BY <1>2
    <3>4. EdgeSource(<<"CONSENTED_BY", SubjectNode(e), <<"CONSENT", c>>>>)
            = Naming(About(ConsentRecords, e.subject), c)
      BY <1>3, <2>2, <3>3 DEF EdgeSource
    <3>5. SubjectNode(e)[1] # <<"CONSENT", c>>[1]
      BY <2>2, <3>3 DEF Modalities
    <3> HIDE DEF nodes
    <3> QED
      BY <1>1, <2>3, <3>1, <3>2, <3>4, <3>5, ItemsShown
  <2> QED
    BY <2>1, <2>4, <2>5
<1>8. CASE x \in CampaignEdges
  <2> DEFINE campaign == <<"CAMPAIGN", request.context.use.written>>
  <2>1. \/ x = Edge("USED_BY", Root, campaign, policy)
        \/ \E t \in request.context.territories : x = Edge("VALID_IN", campaign, <<"TERRITORY", t>>, policy)
    BY <1>8 DEF CampaignEdges
  <2>2. campaign \in nodes /\ \A t \in request.context.territories : <<"TERRITORY", t>> \in nodes
    BY NodeIds
  <2>3. campaign[1] = "CAMPAIGN" /\ \A t : <<"TERRITORY", t>>[1] = "TERRITORY"
    BY <1>2
  <2> HIDE DEF nodes, campaign
  <2>4. \A from, to : /\ EdgeSource(<<"USED_BY", from, to>>) = policy
                      /\ EdgeSource(<<"VALID_IN", from, to>>) = policy
    BY <1>3 DEF EdgeSource
  <2>5. Shown(policy)
    BY ItemsShown
  <2> HIDE DEF policy
  <2> QED
    BY <1>1, <1>4, <2>1, <2>2, <2>3, <2>4, <2>5
<1> QED
  BY <1>5, <1>6, <1>7, <1>8 DEF BuildGraph

(* The graph of any assessment keeps to the contract.                        *)
LEMMA GraphIsValid ==
  ASSUME AInv, Concluded
  PROVE  TopologyValid(BuildGraph) /\ GraphEvidence(BuildGraph) \subseteq Ids(AllEvidence)
<1> DEFINE root == [id |-> Root, evidence |-> {}, polarity |-> "NEUTRAL"]
<1>1. root.id = Root /\ root.evidence = {} /\ Root[1] = "ASSET" /\ BuildGraph.root = Root
  BY DEF BuildGraph, Root
<1> HIDE DEF root
<1>2. \A n \in BuildGraph.nodes : n = root \/ WellDrawn(n)
  BY NodesDrawn DEF root
<1>3. UniqueIds(BuildGraph.nodes)
  <2> SUFFICES ASSUME NEW m \in BuildGraph.nodes, NEW n \in BuildGraph.nodes, m.id = n.id
               PROVE  m = n
    BY DEF UniqueIds
  <2> QED
    BY <1>1, <1>2 DEF WellDrawn
<1>4. UniqueIds(BuildGraph.edges)
  <2> SUFFICES ASSUME NEW x \in BuildGraph.edges, NEW y \in BuildGraph.edges, x.id = y.id
               PROVE  x = y
    BY DEF UniqueIds
  <2>1. /\ x = Edge(x.id[1], x.id[2], x.id[3], EdgeSource(x.id))
        /\ y = Edge(y.id[1], y.id[2], y.id[3], EdgeSource(y.id))
    BY EdgesJoined DEF WellJoined
  <2> QED
    BY <2>1
<1>5. BuildGraph.root \in Ids(BuildGraph.nodes)
  BY <1>1, NodeIds
<1>6. \A x \in BuildGraph.edges : x.from # x.to /\ {x.from, x.to} \subseteq Ids(BuildGraph.nodes)
  BY EdgesJoined DEF WellJoined
<1>7. ASSUME NEW S, Shown(S)
      PROVE  LastOf(S).id \in Ids(AllEvidence)
  <2>1. LastOf(S) \in S
    BY <1>7 DEF LastOf, Shown
  <2> QED
    BY <1>7, <2>1 DEF Shown, Ids
<1>8. ASSUME NEW n \in BuildGraph.nodes
      PROVE  n.evidence \subseteq Ids(AllEvidence)
  <2>1. ASSUME WellDrawn(n)
        PROVE  n.evidence \subseteq Ids(AllEvidence)
    <3>1. n.evidence = {LastOf(NodeSource(n.id)).id}
      <4>1. \A i, S : Node(i, S).evidence = {LastOf(S).id}
        BY DEF Node
      <4> QED
        BY <2>1, <4>1 DEF WellDrawn
    <3> QED
      BY <1>7, <2>1, <3>1 DEF WellDrawn
  <2> QED
    BY <1>1, <1>2, <2>1
<1>9. ASSUME NEW x \in BuildGraph.edges
      PROVE  x.evidence \subseteq Ids(AllEvidence)
  <2>1. WellJoined(x)
    BY EdgesJoined
  <2>2. x.evidence = {LastOf(EdgeSource(x.id)).id}
    <3>1. \A kind, from, to, S : Edge(kind, from, to, S).evidence = {LastOf(S).id}
      BY DEF Edge
    <3> QED
      BY <2>1, <3>1 DEF WellJoined
  <2> QED
    BY <1>7, <2>1, <2>2 DEF WellJoined
<1>10. GraphEvidence(BuildGraph) \subseteq Ids(AllEvidence)
  BY <1>8, <1>9 DEF GraphEvidence
<1> QED
  BY <1>1, <1>3, <1>4, <1>5, <1>6, <1>10 DEF TopologyValid

(* Beside what the lanes return, the records of the executor are its own:    *)
(* the licence evaluator's and the policy's.                                *)
LEMMA RecordsAreSound ==
  ASSUME AInv, Concluded, "policy-compiler" \notin request.policy.required
  PROVE  ReferentialIntegrity(Assessment) /\ \A c \in Assessment.claims : EvidenceSemantics(c)
<1> DEFINE policy == Component("policy-compiler", "AVAILABLE")
           executor == Component("executor", "AVAILABLE")
           item == PolicyEvidence(deployment.decision)
           claim == PolicyClaim(deployment.decision)
<1>1. /\ Assessment.components = Components \cup {policy}
      /\ Assessment.evidence = AllEvidence /\ Assessment.claims = AllClaims
      /\ Assessment.graph = BuildGraph
  BY DEF Assessment
<1>2. LanesFit(lanes)
  BY DEF AInv, Concluded
<1>3. /\ RecordsFit("licence-evaluator", licence.evidence, licence.claims)
      /\ licence.component = Component("licence-evaluator", "AVAILABLE")
  BY ConcludedFromLanes, LicenceFits
<1>4. RecordsFit("policy-compiler", {item}, {claim})
  BY PolicyFits
<1>5. /\ policy.id = "policy-compiler" /\ executor.id = "executor"
      /\ licence.component.id = "licence-evaluator"
      /\ \A id : DeclaredUnavailable(id).id = id
  BY <1>3 DEF Component, DeclaredUnavailable
<1>6. /\ AllEvidence = lanes.evidence \cup licence.evidence \cup {item}
      /\ AllClaims = lanes.claims \cup licence.claims \cup {claim}
      /\ Present = lanes.components \cup {executor, licence.component}
      /\ Components = Present \cup {DeclaredUnavailable(id) :
                                      id \in request.policy.required \ Ids(Present)}
  BY DEF AllEvidence, AllClaims, Present, Components
<1> HIDE DEF policy, executor, item, claim
<1>7. UniqueIds(Present) /\ "policy-compiler" \notin Ids(Present)
  BY <1>2, <1>5, <1>6 DEF UniqueIds, Ids, LanesFit, ExecutorIds
<1>8. UniqueIds(Components)
  BY <1>5, <1>6, <1>7 DEF UniqueIds, Ids
<1>9. \A c \in Components : c.id # "policy-compiler"
  BY <1>5, <1>6, <1>7 DEF Ids
<1>10. UniqueIds(Assessment.components)
  BY <1>1, <1>5, <1>8, <1>9 DEF UniqueIds
<1>11. Ids(lanes.components) \cup {"licence-evaluator", "policy-compiler"}
         \subseteq Ids(Assessment.components)
  BY <1>1, <1>5, <1>6 DEF Ids
<1>12. /\ \A e \in lanes.evidence : Owner(e.id[1]) \notin ExecutorIds
       /\ \A c \in lanes.claims : Owner(c.id[1]) \notin ExecutorIds
  BY <1>2 DEF LanesFit
<1>13. /\ \A e \in licence.evidence : Owner(e.id[1]) = "licence-evaluator"
       /\ \A c \in licence.claims : Owner(c.id[1]) = "licence-evaluator"
       /\ Owner(item.id[1]) = "policy-compiler" /\ Owner(claim.id[1]) = "policy-compiler"
  BY <1>3, <1>4 DEF RecordsFit
<1>14. UniqueIds(AllEvidence)
  BY <1>2, <1>3, <1>6, <1>12, <1>13 DEF UniqueIds, LanesFit, RecordsFit, ExecutorIds
<1>15. UniqueIds(AllClaims)
  BY <1>2, <1>3, <1>6, <1>12, <1>13 DEF UniqueIds, LanesFit, RecordsFit, ExecutorIds
<1>16. \A e \in AllEvidence : e.component \in Ids(Assessment.components)
  BY <1>2, <1>3, <1>4, <1>6, <1>11 DEF LanesFit, RecordsFit
<1>17. /\ Ids(lanes.evidence) \subseteq Ids(AllEvidence)
       /\ Ids(licence.evidence) \subseteq Ids(AllEvidence)
       /\ Ids({item}) \subseteq Ids(AllEvidence)
  BY <1>6 DEF Ids
<1>18. \A c \in AllClaims : EvidenceSemantics(c) /\ c.evidence \subseteq Ids(AllEvidence)
  BY <1>2, <1>3, <1>4, <1>6, <1>17 DEF LanesFit, RecordsFit
<1>19. GraphEvidence(BuildGraph) \subseteq Ids(AllEvidence)
  BY GraphIsValid
<1> QED
  BY <1>1, <1>10, <1>14, <1>15, <1>16, <1>18, <1>19 DEF ReferentialIntegrity

(* The executor never assembles a record its own contract refuses, unless    *)
(* its policy requires the policy compiler of it.                            *)
LEMMA ContractHolds ==
  ASSUME AInv, Concluded, "policy-compiler" \notin request.policy.required
  PROVE  ContractAccepts(Assessment)
<1>1. /\ Assessment.graph = BuildGraph /\ Assessment.provenance = provenance
      /\ Assessment.rights = rights /\ Assessment.deployment = deployment
  BY DEF Assessment
<1>2. UnavailableIsUnknown(provenance)
  BY ConcludedFromLanes, ProvenanceCombined
<1>3. UnavailableIsUnknown(rights)
  BY ConcludedFromLanes, RightsCombined
<1>4. deployment.decision # "GO"
  BY AInvNothingIsCleared DEF NothingIsCleared
<1>5. ReleaseFloor(Assessment)
  BY <1>1, <1>4 DEF ReleaseFloor
<1> QED
  BY <1>1, <1>2, <1>3, <1>5, GraphIsValid, RecordsAreSound DEF ContractAccepts

-----------------------------------------------------------------------------
(* The inductive invariant *)

(* Before an execution starts no lane has returned anything.                 *)
LEMMA AInvInitially ==
  Init => AInv
<1> SUFFICES ASSUME Init
             PROVE  AInv
  OBVIOUS
<1>1. TypeOK
  BY DEF Init, TypeOK, Stages, States, Unavailable, Assessed
<1> QED
  BY <1>1 DEF Init, AInv, Concluded

(* Whatever the detectors observe, what the media lanes return tells it and  *)
(* fits together; and only a consent matcher gives up.                       *)
LEMMA AInvAnalysis ==
  ASSUME AInv, AnalyseImage \/ AnalyseVideo \/ AnalyseAudio
  PROVE  AInv'
<1>1. /\ UNCHANGED <<request, licence, provenance, rights, deployment>>
      /\ pc = "analysing" /\ request \in Requests /\ lanes = NoLanes
  BY DEF AInv, AnalyseImage, AnalyseVideo, AnalyseAudio, Media
<1>2. \/ pc' = "failed" /\ lanes' = NoLanes /\ request.consents # {}
      \/ pc' = "assessing" /\ LanesTell(request, lanes') /\ LanesFit(lanes')
  <2>1. CASE AnalyseImage
    BY <1>1, <2>1, ImageLanesTell, ImageLanesFit DEF AnalyseImage, LikenessRaises
  <2>2. CASE AnalyseVideo
    <3>1. PICK manifest \in Manifests, n \in 1 .. MaxFrames, truncated \in BOOLEAN :
            \E frames \in [1 .. n -> ImageObservations] :
               lanes' = VideoLanes(manifest, frames, truncated)
      BY <2>2 DEF AnalyseVideo
    <3>2. PICK frames \in [1 .. n -> ImageObservations] :
            lanes' = VideoLanes(manifest, frames, truncated)
      BY <3>1
    <3>3. n \in Nat \ {0} /\ DOMAIN frames = 1 .. n
      BY ExecutionAssumption
    <3>4. LanesTell(request, lanes') /\ LanesFit(lanes')
      BY <3>2, <3>3, VideoLanesTell, VideoLanesFit
    <3> QED
      BY <2>2, <3>4 DEF AnalyseVideo
  <2>3. CASE AnalyseAudio
    BY <1>1, <2>3, AudioLanesTell, AudioLanesFit DEF AnalyseAudio
  <2> QED
    BY <2>1, <2>2, <2>3
<1>3. TypeOK'
  BY <1>1, <1>2 DEF AInv, TypeOK, Stages
<1> QED
  BY <1>1, <1>2, <1>3 DEF AInv, Concluded

(* No stage concludes anything but what the lanes of the same request tell,  *)
(* and no record of theirs is refused.                                       *)
LEMMA AInvStep ==
  AInv /\ [Next]_vars => AInv'
<1> SUFFICES ASSUME AInv, [Next]_vars
             PROVE  AInv'
  OBVIOUS
<1>1. CASE Validate
  <2>1. TypeOK'
    BY <1>1 DEF Validate, AInv, TypeOK, Stages
  <2> QED
    BY <1>1, <2>1 DEF Validate, AInv, Concluded
<1>2. CASE AnalyseImage \/ AnalyseVideo \/ AnalyseAudio
  BY <1>2, AInvAnalysis
<1>3. CASE AssessRights
  <2>1. /\ pc = "assessing" /\ LanesTell(request, lanes) /\ LanesFit(lanes) /\ pc' = "deciding"
        /\ UNCHANGED <<request, lanes, deployment>>
    BY <1>3 DEF AssessRights, AInv
  <2>2. provenance' = CombineProvenance(lanes.provenance)
        /\ provenance'.state \in States /\ provenance'.verdict \in Origins
    BY <1>3, <2>1, ProvenanceCombined DEF AssessRights, LanesTell
  <2>3. /\ licence' = EvaluateCandidateLicences(
                        lanes.evidence, request.licences, request.context, request.at)
        /\ rights' = CombineConsentRights(
                       CombineRights(lanes.matching, lanes.localizer, licence'), lanes.consents)
    BY <1>3 DEF AssessRights
  <2>4. rights'.state \in States
    BY <2>1, <2>3, RightsCombined DEF LanesTell
  <2>5. TypeOK'
    BY <2>1, <2>2, <2>4 DEF AInv, TypeOK, Stages, Origins
  <2> QED
    BY <2>1, <2>2, <2>3, <2>5 DEF AInv, Concluded
<1>4. CASE Decide
  <2>1. deployment'.decision \in {"GO", "REVIEW", "BLOCK"}
    BY <1>4, PolicyDecides DEF Decide
  <2>2. TypeOK'
    BY <1>4, <2>1 DEF Decide, AInv, TypeOK, Stages
  <2>3. Components' = Components
    BY <1>4 DEF Decide, Components, Present
  <2> QED
    BY <1>4, <2>2, <2>3 DEF Decide, AInv, Concluded
<1>5. CASE Publish
  <2>1. TypeOK'
    BY <1>5 DEF Publish, AInv, TypeOK, Stages
  <2>2. Components' = Components
    BY <1>5 DEF Publish, Components, Present
  <2>3. pc' = "failed" => "policy-compiler" \in request'.policy.required
    BY <1>5, ContractHolds DEF Publish, Concluded
  <2> QED
    BY <1>5, <2>1, <2>2, <2>3 DEF Publish, AInv, Concluded
<1>6. CASE UNCHANGED vars
  <2>1. Components' = Components
    BY <1>6 DEF vars, Components, Present
  <2> QED
    BY <1>6, <2>1 DEF vars, AInv, TypeOK, Concluded
<1> QED
  BY <1>1, <1>2, <1>3, <1>4, <1>5, <1>6 DEF Next

(* The inductive invariant holds throughout every execution.                 *)
LEMMA Invariance ==
  Spec => []AInv
<1> QED
  BY AInvInitially, AInvStep, PTL DEF Spec

-----------------------------------------------------------------------------
(* The theorems: for every set of requests, registries and policies and      *)
(* whatever the detectors and the credential reader report.                  *)

(* The stages hold assessments and decisions of the contract's vocabulary.   *)
THEOREM TypeCorrect == Spec => []TypeOK
<1>1. AInv => TypeOK
  BY DEF AInv
<1> QED
  BY <1>1, Invariance, PTL

(* No assessment of this executor says GO or calls an asset's rights CLEAR,  *)
(* however permissive the policy.                                            *)
THEOREM NoClearance == Spec => []NothingIsCleared
  BY Invariance, AInvNothingIsCleared, PTL

(* A matched reference that no one licence permits for all of the declared   *)
(* use, or a matched person whose grant does not, is a conflict, nothing     *)
(* else is, and the policy that blocks on it blocks.                         *)
THEOREM UseIsCovered == Spec => []UncoveredUseIsBlocked
  BY Invariance, AInvUncoveredUseIsBlocked, PTL

(* Tampering prevails over every origin and a credential over every other    *)
(* lane, whatever their confidences.                                         *)
THEOREM TamperingPrevails == Spec => []TamperingIsNeverOutvoted
  BY Invariance, AInvTamperingIsNeverOutvoted, PTL

(* A detector that failed on the asset, or on one of its frames, shows in    *)
(* the dimension it speaks of and in the decision.                           *)
THEOREM FailuresShow == Spec => []FailureIsNotAveragedAway
  BY Invariance, AInvFailureIsNotAveragedAway, PTL

(* The published graph joins each matched reference to exactly the licences  *)
(* that permit the use and each matched person to the consents they gave.    *)
THEOREM GraphIsTrue == Spec => []GraphTellsTheRights
  BY Invariance, AInvGraphTellsTheRights, PTL

(* What the contract refuses of a record is foreseen: nothing, unless the    *)
(* policy requires the policy compiler itself, which would be listed twice.  *)
(* Any other execution that fails could not read a face or a voice for which *)
(* consents were enrolled.                                                   *)
THEOREM RefusalsForeseen == Spec => []RefusalsAreForeseen
<1>1. AInv => RefusalsAreForeseen
  BY DEF AInv, RefusalsAreForeseen
<1> QED
  BY <1>1, Invariance, PTL

-----------------------------------------------------------------------------
(* Words.  An accepted list of territories has no blank and is typed plainly *)
(* once its case is changed, so its words say everything.                    *)
LEMMA PlainPlaces ==
  ASSUME NEW v, NEW codes, "" \notin codes, NormalTerritories(v) \subseteq AsTyped(codes)
  PROVE  NormalTerritories(v) = AsTyped(WordsOf(v) \ {""})
<1>1. ASSUME NEW x \in NormalTerritories(v) PROVE x \in AsTyped(WordsOf(v) \ {""})
  <2>1. PICK a \in v : x = <<a[1], IF a[2] = "cased" THEN "plain" ELSE a[2]>>
    BY DEF NormalTerritories
  <2>2. PICK c \in codes : x = <<c, "plain">>
    BY DEF AsTyped
  <2>3. a[1] = c
    <3>1. x[1] = a[1]
      BY <2>1
    <3>2. x[1] = c
      BY <2>2
    <3> QED BY <3>1, <3>2
  <2> QED BY <2>2, <2>3 DEF AsTyped, WordsOf
<1>2. ASSUME NEW x \in AsTyped(WordsOf(v) \ {""}) PROVE x \in NormalTerritories(v)
  <2>1. PICK a \in v : x = <<a[1], "plain">>
    BY DEF AsTyped, WordsOf
  <2> DEFINE y == <<a[1], IF a[2] = "cased" THEN "plain" ELSE a[2]>>
  <2>2. y \in NormalTerritories(v)
    BY DEF NormalTerritories
  <2>3. PICK c \in codes : y = <<c, "plain">>
    BY <2>2 DEF AsTyped
  <2>4. y[1] = a[1] /\ y[1] = c
    BY <2>3
  <2> QED BY <2>1, <2>2, <2>3, <2>4
<1> QED BY <1>1, <1>2

(* Lists with the same words are the same once they are read.               *)
LEMMA SamePlaces ==
  ASSUME NEW v, NEW w, NEW codes, "" \notin codes, SameWords(v, w),
         NormalTerritories(v) \subseteq AsTyped(codes), NormalTerritories(w) \subseteq AsTyped(codes)
  PROVE  NormalTerritories(v) = NormalTerritories(w)
  BY PlainPlaces DEF SameWords

LEMMA SameText ==
  ASSUME NEW v, NEW w, SameWords(v, w)
  PROVE  NormalText(v) = NormalText(w)
  BY DEF SameWords, NormalText

(* Reading a list a second time changes nothing.                            *)
LEMMA TextIsRead ==
  ASSUME NEW v
  PROVE  NormalText(NormalText(v)) = NormalText(v)
<1>1. ASSUME NEW words PROVE WordsOf(AsTyped(words)) = words
  <2>1. ASSUME NEW w \in words PROVE w \in WordsOf(AsTyped(words))
    <3>1. <<w, "plain">> \in AsTyped(words) /\ <<w, "plain">>[1] = w
      BY DEF AsTyped
    <3> QED BY <3>1 DEF WordsOf
  <2>2. ASSUME NEW w \in WordsOf(AsTyped(words)) PROVE w \in words
    <3>1. PICK x \in AsTyped(words) : w = x[1]
      BY DEF WordsOf
    <3>2. PICK u \in words : x = <<u, "plain">>
      BY DEF AsTyped
    <3> QED BY <3>1, <3>2
  <2> QED BY <2>1, <2>2
<1>2. NormalText(NormalText(v)) = AsTyped((WordsOf(v) \ {""}) \ {""})
  BY <1>1 DEF NormalText
<1>3. (WordsOf(v) \ {""}) \ {""} = WordsOf(v) \ {""}
  OBVIOUS
<1> QED BY <1>2, <1>3 DEF NormalText

LEMMA PlacesAreRead ==
  ASSUME NEW v
  PROVE  NormalTerritories(NormalTerritories(v)) = NormalTerritories(v)
<1> DEFINE Plain(a) == <<a[1], IF a[2] = "cased" THEN "plain" ELSE a[2]>>
<1>1. \A a : Plain(Plain(a)) = Plain(a)
  OBVIOUS
<1>2. \A S : NormalTerritories(S) = {Plain(a) : a \in S}
  BY DEF NormalTerritories
<1> HIDE DEF Plain
<1>3. {Plain(b) : b \in {Plain(a) : a \in v}} = {Plain(a) : a \in v}
  BY <1>1
<1> QED BY <1>2, <1>3

-----------------------------------------------------------------------------
(* Lists of entries.  Two lists of the same length without repeated ids, of  *)
(* which each entry of the first has its like in the second, match both ways. *)
LEMMA ListIs ==
  ASSUME NEW a, IsList(a)
  PROVE  /\ Len(a) \in Nat /\ DOMAIN a = 1 .. Len(a)
         /\ ToSet(a) = {a[i] : i \in DOMAIN a}
  BY DEF IsList, ToSet

HasItsLike(a, b, Like) ==
  \A i \in DOMAIN a : \E j \in DOMAIN b : a[i].id = b[j].id /\ j \in Like[i]

LEMMA Matched ==
  ASSUME NEW a, NEW b, IsList(a), IsList(b), Len(a) = Len(b),
         NoRepeats(IdsOf(a)), NoRepeats(IdsOf(b)), NEW Like, HasItsLike(a, b, Like)
  PROVE  \A j \in DOMAIN b : \E i \in DOMAIN a : j \in Like[i]
<1> SUFFICES ASSUME NEW j \in DOMAIN b PROVE \E i \in DOMAIN a : j \in Like[i]
  OBVIOUS
<1> DEFINE n == Len(a)
<1>1. n \in Nat /\ DOMAIN a = 1 .. n /\ DOMAIN b = 1 .. n
  BY ListIs
<1> HIDE DEF n
<1>2. /\ \A i, k \in 1 .. n : a[i].id = a[k].id => i = k
      /\ \A i, k \in 1 .. n : b[i].id = b[k].id => i = k
  BY <1>1 DEF NoRepeats, IdsOf
<1> DEFINE f == [i \in 1 .. n |-> CHOOSE k \in 1 .. n : a[i].id = b[k].id /\ k \in Like[i]]
<1>3. \A i \in 1 .. n : f[i] \in 1 .. n /\ a[i].id = b[f[i]].id /\ f[i] \in Like[i]
  BY <1>1 DEF HasItsLike
<1> HIDE DEF f
<1>4. f \in [1 .. n -> 1 .. n]
  BY <1>3 DEF f
<1>5. ASSUME NEW i \in 1 .. n, NEW k \in 1 .. n, f[i] = f[k] PROVE i = k
  <2>1. a[i].id = b[f[i]].id /\ a[k].id = b[f[k]].id
    BY <1>3
  <2> QED BY <1>2, <1>5, <2>1
<1>6. f \in Injection(1 .. n, 1 .. n)
  BY <1>4, <1>5 DEF Injection, IsInjective
<1>7. IsFiniteSet(1 .. n)
  BY <1>1, FS_Interval
<1>8. f \in Surjection(1 .. n, 1 .. n)
  BY <1>6, <1>7, FS_Injection
<1>9. PICK i \in 1 .. n : f[i] = j
  BY <1>1, <1>8 DEF Surjection
<1> QED BY <1>1, <1>3, <1>9

-----------------------------------------------------------------------------
(* Entries.  Each kind of entry: what says the same is read as the same.    *)
LEMMA SameRecord ==
  ASSUME NEW fields, NEW r, NEW q, IsRecord(r, fields), IsRecord(q, fields),
         \A f \in fields : r[f] = q[f]
  PROVE  r = q
  BY DEF IsRecord

LEMMA ScopeIsRead ==
  ASSUME NEW fields, ScopeFields \subseteq fields, NEW s, IsRecord(s, fields)
  PROVE  /\ IsRecord(NormalScope(s), fields)
         /\ NormalScope(s).territories = NormalTerritories(s.territories)
         /\ NormalScope(s).channels = NormalText(s.channels)
         /\ NormalScope(s).uses = NormalText(s.uses)
         /\ \A f \in fields \ {"territories", "channels", "uses"} : NormalScope(s)[f] = s[f]
<1>1. DOMAIN s = fields
  BY DEF IsRecord
<1>2. {"territories", "channels", "uses"} \subseteq fields
  BY DEF ScopeFields
<1> QED BY <1>1, <1>2 DEF IsRecord, NormalScope

LEMMA ScopesAreAlike ==
  ASSUME NEW s, NEW t, ScopeAccepted(s), ScopeAccepted(t), SameScope(s, t)
  PROVE  /\ NormalTerritories(s.territories) = NormalTerritories(t.territories)
         /\ NormalText(s.channels) = NormalText(t.channels)
         /\ NormalText(s.uses) = NormalText(t.uses)
         /\ s.from = t.from /\ s.until = t.until /\ s.offset = t.offset
<1>1. "" \notin TerritoryCodes \cup {"*"}
  BY ControlAssumption
<1>2. /\ SameWords(s["territories"], t["territories"])
      /\ SameWords(s["channels"], t["channels"]) /\ SameWords(s["uses"], t["uses"])
  BY DEF SameScope
<1> QED BY <1>1, <1>2, SamePlaces, SameText DEF ScopeAccepted, TerritoriesAccepted, SameScope

LEMMA LicenceIsRead ==
  ASSUME NEW l, IsLicence(l)
  PROVE  /\ IsRecord(NormalLicence(l), ScopeFields \cup {"id", "state", "references"})
         /\ NormalLicence(l).references = ToSet(l.references)
         /\ NormalLicence(l).territories = NormalTerritories(l.territories)
         /\ NormalLicence(l).channels = NormalText(l.channels)
         /\ NormalLicence(l).uses = NormalText(l.uses)
         /\ \A f \in {"id", "state", "from", "until", "offset"} : NormalLicence(l)[f] = l[f]
<1> DEFINE fields == ScopeFields \cup {"id", "state", "references"}
<1>1. IsRecord(l, fields) /\ ScopeFields \subseteq fields
  BY DEF IsLicence
<1>2. /\ IsRecord(NormalScope(l), fields)
      /\ NormalScope(l).territories = NormalTerritories(l.territories)
      /\ NormalScope(l).channels = NormalText(l.channels)
      /\ NormalScope(l).uses = NormalText(l.uses)
      /\ \A f \in fields \ {"territories", "channels", "uses"} : NormalScope(l)[f] = l[f]
  BY <1>1, ScopeIsRead
<1>3. NormalScope(l).references = l.references /\ DOMAIN NormalScope(l) = fields
  BY <1>2 DEF IsRecord
<1>4. NormalLicence(l) = [NormalScope(l) EXCEPT !.references = ToSet(l.references)]
  BY <1>3 DEF NormalLicence
<1>5. /\ IsRecord(NormalLicence(l), fields) /\ NormalLicence(l).references = ToSet(l.references)
      /\ \A f \in fields \ {"references"} : NormalLicence(l)[f] = NormalScope(l)[f]
  <2>1. "references" \in fields
    OBVIOUS
  <2> HIDE DEF fields
  <2> QED BY <1>3, <1>4, <2>1 DEF IsRecord
<1> QED BY <1>2, <1>5 DEF ScopeFields

LEMMA LicencesAreAlike ==
  ASSUME NEW l, NEW m, IsLicence(l), IsLicence(m), ScopeAccepted(l), ScopeAccepted(m),
         l.id = m.id, SameLicence(l, m)
  PROVE  NormalLicence(l) = NormalLicence(m)
<1> DEFINE fields == ScopeFields \cup {"id", "state", "references"}
<1>1. \A f \in {"territories", "channels", "uses"} : NormalLicence(l)[f] = NormalLicence(m)[f]
  BY LicenceIsRead, ScopesAreAlike DEF SameLicence
<1>2. l.offset = m.offset
  BY DEF SameLicence, SameScope
<1>3. \A f \in {"id", "state", "from", "until", "offset"} : NormalLicence(l)[f] = NormalLicence(m)[f]
  BY <1>2, LicenceIsRead, ScopesAreAlike DEF SameLicence
<1>4. NormalLicence(l).references = NormalLicence(m).references
  BY LicenceIsRead DEF SameLicence
<1>5. \A f \in fields : NormalLicence(l)[f] = NormalLicence(m)[f]
  BY <1>1, <1>3, <1>4 DEF ScopeFields
<1>6. IsRecord(NormalLicence(l), fields) /\ IsRecord(NormalLicence(m), fields)
  BY LicenceIsRead
<1> HIDE DEF fields
<1> QED BY <1>5, <1>6, SameRecord

LEMMA ConsentScopesAreAlike ==
  ASSUME NEW s, NEW t, IsScope(s), IsScope(t), ScopeAccepted(s), ScopeAccepted(t), SameScope(s, t)
  PROVE  NormalScope(s) = NormalScope(t)
<1>1. s.offset = t.offset
  BY DEF SameScope
<1>2. \A f \in ScopeFields : NormalScope(s)[f] = NormalScope(t)[f]
  <2>1. \A x : IsScope(x) =>
          /\ NormalScope(x).territories = NormalTerritories(x.territories)
          /\ NormalScope(x).channels = NormalText(x.channels)
          /\ NormalScope(x).uses = NormalText(x.uses)
          /\ \A f \in ScopeFields \ {"territories", "channels", "uses"} : NormalScope(x)[f] = x[f]
    BY ScopeIsRead DEF IsScope
  <2>2. \A f \in {"territories", "channels", "uses"} : NormalScope(s)[f] = NormalScope(t)[f]
    BY <2>1, ScopesAreAlike
  <2>3. \A f \in {"offset", "from", "until"} : NormalScope(s)[f] = NormalScope(t)[f]
    BY <1>1, <2>1, ScopesAreAlike DEF ScopeFields
  <2> QED BY <2>2, <2>3 DEF ScopeFields
<1>3. IsRecord(NormalScope(s), ScopeFields) /\ IsRecord(NormalScope(t), ScopeFields)
  BY ScopeIsRead DEF IsScope
<1> QED BY <1>2, <1>3, SameRecord

LEMMA TemplateIsRead ==
  ASSUME NEW t, IsTemplate(t)
  PROVE  /\ IsRecord(NormalTemplate(t), {"id", "modality", "file", "look", "tolerance", "consent"})
         /\ NormalTemplate(t).consent = NormalScope(t.consent)
         /\ NormalTemplate(t).id = t.id /\ NormalTemplate(t).modality = t.modality
         /\ NormalTemplate(t).file = t.file /\ NormalTemplate(t).look = t.look
         /\ NormalTemplate(t).tolerance = t.tolerance
<1>1. DOMAIN t = {"id", "modality", "file", "look", "tolerance", "consent"}
  BY DEF IsTemplate, IsRecord
<1> QED BY <1>1 DEF NormalTemplate, IsRecord

LEMMA TemplatesAreAlike ==
  ASSUME NEW t, NEW u, IsTemplate(t), IsTemplate(u), TemplateAccepted(t), TemplateAccepted(u),
         t.id = u.id, SameTemplate(t, u)
  PROVE  NormalTemplate(t) = NormalTemplate(u)
<1> DEFINE fields == {"id", "modality", "file", "look", "tolerance", "consent"}
<1>1. NormalScope(t.consent) = NormalScope(u.consent)
  BY ConsentScopesAreAlike DEF IsTemplate, TemplateAccepted, SameTemplate
<1>2. \A f \in fields : NormalTemplate(t)[f] = NormalTemplate(u)[f]
  BY <1>1, TemplateIsRead DEF SameTemplate
<1>3. IsRecord(NormalTemplate(t), fields) /\ IsRecord(NormalTemplate(u), fields)
  BY TemplateIsRead
<1> HIDE DEF fields
<1> QED BY <1>2, <1>3, SameRecord

LEMMA ProfilesAreAlike ==
  ASSUME NEW p, NEW q, IsProfile(p), IsProfile(q), ProfileAccepted(p), ProfileAccepted(q),
         p.id = q.id, SameProfile(p, q)
  PROVE  NormalProfile(p) = NormalProfile(q)
<1> DEFINE fields == {"id", "look", "tolerance", "boxed", "small", "brands"}
<1>1. \A x : IsProfile(x) =>
        /\ IsRecord(NormalProfile(x), fields)
        /\ NormalProfile(x).brands = NormalText(x.brands)
        /\ \A f \in {"id", "look", "tolerance", "boxed", "small"} : NormalProfile(x)[f] = x[f]
  <2>1. SUFFICES ASSUME NEW x, IsProfile(x)
                 PROVE  /\ IsRecord(NormalProfile(x), fields)
                        /\ NormalProfile(x).brands = NormalText(x.brands)
                        /\ \A f \in {"id", "look", "tolerance", "boxed", "small"} : NormalProfile(x)[f] = x[f]
    OBVIOUS
  <2>2. DOMAIN x = fields
    BY <2>1 DEF IsProfile, IsRecord
  <2> QED BY <2>2 DEF NormalProfile, IsRecord
<1>2. p.boxed = q.boxed /\ p.small = q.small
  BY DEF IsProfile, ProfileAccepted
<1>3. NormalText(p.brands) = NormalText(q.brands)
  BY SameText DEF SameProfile
<1>4. \A f \in fields : NormalProfile(p)[f] = NormalProfile(q)[f]
  BY <1>1, <1>2, <1>3 DEF SameProfile
<1> HIDE DEF fields
<1> QED BY <1>1, <1>4, SameRecord

LEMMA RulesAreAlike ==
  ASSUME NEW r, NEW q, IsRule(r), IsRule(q), r.id = q.id, SameRule(r, q)
  PROVE  NormalRule(r) = NormalRule(q)
<1> DEFINE fields == {"id", "effect", "provenance", "rights", "scope"}
           Read(x) == [part \in DOMAIN x.scope |-> NormalText(x.scope[part])]
<1>1. \A x : IsRule(x) =>
        /\ IsRecord(NormalRule(x), fields)
        /\ NormalRule(x).scope = Read(x)
        /\ \A f \in {"id", "effect", "provenance", "rights"} : NormalRule(x)[f] = x[f]
  <2>1. SUFFICES ASSUME NEW x, IsRule(x)
                 PROVE  /\ IsRecord(NormalRule(x), fields)
                        /\ NormalRule(x).scope = Read(x)
                        /\ \A f \in {"id", "effect", "provenance", "rights"} : NormalRule(x)[f] = x[f]
    OBVIOUS
  <2>2. DOMAIN x = fields
    BY <2>1 DEF IsRule, IsRecord
  <2>3. NormalRule(x) = [x EXCEPT !.scope = Read(x)]
    BY DEF NormalRule
  <2> HIDE DEF Read
  <2> QED BY <2>2, <2>3 DEF IsRecord
<1>2. Read(r) = Read(q)
  <2>1. DOMAIN r.scope = RuleParts /\ DOMAIN q.scope = RuleParts
    BY DEF IsRule, IsRecord
  <2>2. \A part \in RuleParts : NormalText(r.scope[part]) = NormalText(q.scope[part])
    BY <2>1, SameText DEF SameRule
  <2> QED BY <2>1, <2>2
<1> HIDE DEF Read
<1>3. \A f \in fields : NormalRule(r)[f] = NormalRule(q)[f]
  BY <1>1, <1>2 DEF SameRule
<1> HIDE DEF fields
<1> QED BY <1>1, <1>3, SameRecord

-----------------------------------------------------------------------------
(* Documents.  What says the same has the same payload.                     *)
LEMMA SameReferences ==
  ASSUME NEW a, NEW b, IsList(a), IsList(b), RegistryAccepted(a), RegistryAccepted(b),
         SameEntries(a, b, LAMBDA r, s : r = s)
  PROVE  RegistryPayload(a) = RegistryPayload(b)
<1> DEFINE Like == [i \in DOMAIN a |-> {j \in DOMAIN b : a[i] = b[j]}]
<1>1. \A i \in DOMAIN a : \E j \in DOMAIN b : a[i].id = b[j].id /\ j \in Like[i]
  BY DEF SameEntries
<1>2. \A j \in DOMAIN b : \E i \in DOMAIN a : j \in Like[i]
  <2>1. HasItsLike(a, b, Like)
    BY <1>1 DEF HasItsLike
  <2>2. Len(a) = Len(b) /\ NoRepeats(IdsOf(a)) /\ NoRepeats(IdsOf(b))
    BY DEF SameEntries, RegistryAccepted
  <2> HIDE DEF Like
  <2> QED BY <2>1, <2>2, Matched
<1>3. \A i \in DOMAIN a : \E j \in DOMAIN b : a[i] = b[j]
  BY <1>1
<1>4. \A j \in DOMAIN b : \E i \in DOMAIN a : a[i] = b[j]
  BY <1>2
<1>5. ToSet(a) = {a[i] : i \in DOMAIN a} /\ ToSet(b) = {b[j] : j \in DOMAIN b}
  BY ListIs
<1> QED BY <1>3, <1>4, <1>5 DEF RegistryPayload

LEMMA SameLicences ==
  ASSUME NEW a, NEW b, IsList(a), IsList(b), LicencesAccepted(a), LicencesAccepted(b),
         \A l \in ToSet(a) : IsLicence(l), \A l \in ToSet(b) : IsLicence(l),
         SameEntries(a, b, SameLicence)
  PROVE  LicencesPayload(a) = LicencesPayload(b)
<1> DEFINE Like == [i \in DOMAIN a |-> {j \in DOMAIN b : NormalLicence(a[i]) = NormalLicence(b[j])}]
<1>1. ASSUME NEW i \in DOMAIN a
      PROVE  \E j \in DOMAIN b : a[i].id = b[j].id /\ j \in Like[i]
  <2>1. PICK j \in DOMAIN b : a[i].id = b[j].id /\ SameLicence(a[i], b[j])
    BY DEF SameEntries
  <2>2. a[i] \in ToSet(a) /\ b[j] \in ToSet(b)
    BY ListIs
  <2>3. NormalLicence(a[i]) = NormalLicence(b[j])
    BY <2>1, <2>2, LicencesAreAlike DEF LicencesAccepted
  <2> QED BY <2>1, <2>3
<1>2. \A j \in DOMAIN b : \E i \in DOMAIN a : j \in Like[i]
  <2>1. HasItsLike(a, b, Like)
    BY <1>1 DEF HasItsLike
  <2>2. Len(a) = Len(b) /\ NoRepeats(IdsOf(a)) /\ NoRepeats(IdsOf(b))
    BY DEF SameEntries, LicencesAccepted
  <2> HIDE DEF Like
  <2> QED BY <2>1, <2>2, Matched
<1>3. \A i \in DOMAIN a : \E j \in DOMAIN b : NormalLicence(a[i]) = NormalLicence(b[j])
  BY <1>1
<1>4. \A j \in DOMAIN b : \E i \in DOMAIN a : NormalLicence(a[i]) = NormalLicence(b[j])
  BY <1>2
<1> QED BY <1>3, <1>4, ListIs DEF LicencesPayload

LEMMA SameConsents ==
  ASSUME NEW a, NEW b, IsList(a), IsList(b), ConsentsAccepted(a), ConsentsAccepted(b),
         \A t \in ToSet(a) : IsTemplate(t), \A t \in ToSet(b) : IsTemplate(t),
         SameEntries(a, b, SameTemplate)
  PROVE  ConsentsPayload(a) = ConsentsPayload(b)
<1> DEFINE Like == [i \in DOMAIN a |-> {j \in DOMAIN b : NormalTemplate(a[i]) = NormalTemplate(b[j])}]
<1>1. ASSUME NEW i \in DOMAIN a
      PROVE  \E j \in DOMAIN b : a[i].id = b[j].id /\ j \in Like[i]
  <2>1. PICK j \in DOMAIN b : a[i].id = b[j].id /\ SameTemplate(a[i], b[j])
    BY DEF SameEntries
  <2>2. a[i] \in ToSet(a) /\ b[j] \in ToSet(b)
    BY ListIs
  <2>3. NormalTemplate(a[i]) = NormalTemplate(b[j])
    BY <2>1, <2>2, TemplatesAreAlike DEF ConsentsAccepted
  <2> QED BY <2>1, <2>3
<1>2. \A j \in DOMAIN b : \E i \in DOMAIN a : j \in Like[i]
  <2>1. HasItsLike(a, b, Like)
    BY <1>1 DEF HasItsLike
  <2>2. Len(a) = Len(b) /\ NoRepeats(IdsOf(a)) /\ NoRepeats(IdsOf(b))
    BY DEF SameEntries, ConsentsAccepted
  <2> HIDE DEF Like
  <2> QED BY <2>1, <2>2, Matched
<1>3. \A i \in DOMAIN a : \E j \in DOMAIN b : NormalTemplate(a[i]) = NormalTemplate(b[j])
  BY <1>1
<1>4. \A j \in DOMAIN b : \E i \in DOMAIN a : NormalTemplate(a[i]) = NormalTemplate(b[j])
  BY <1>2
<1> QED BY <1>3, <1>4, ListIs DEF ConsentsPayload

LEMMA SameWatermarks ==
  ASSUME NEW a, NEW b, IsList(a), IsList(b), WatermarksAccepted(a), WatermarksAccepted(b),
         \A p \in ToSet(a) : IsProfile(p), \A p \in ToSet(b) : IsProfile(p),
         SameEntries(a, b, SameProfile)
  PROVE  WatermarksPayload(a) = WatermarksPayload(b)
<1> DEFINE Like == [i \in DOMAIN a |-> {j \in DOMAIN b : NormalProfile(a[i]) = NormalProfile(b[j])}]
<1>1. ASSUME NEW i \in DOMAIN a
      PROVE  \E j \in DOMAIN b : a[i].id = b[j].id /\ j \in Like[i]
  <2>1. PICK j \in DOMAIN b : a[i].id = b[j].id /\ SameProfile(a[i], b[j])
    BY DEF SameEntries
  <2>2. a[i] \in ToSet(a) /\ b[j] \in ToSet(b)
    BY ListIs
  <2>3. NormalProfile(a[i]) = NormalProfile(b[j])
    BY <2>1, <2>2, ProfilesAreAlike DEF WatermarksAccepted
  <2> QED BY <2>1, <2>3
<1>2. \A j \in DOMAIN b : \E i \in DOMAIN a : j \in Like[i]
  <2>1. HasItsLike(a, b, Like)
    BY <1>1 DEF HasItsLike
  <2>2. Len(a) = Len(b) /\ NoRepeats(IdsOf(a)) /\ NoRepeats(IdsOf(b))
    BY DEF SameEntries, WatermarksAccepted
  <2> HIDE DEF Like
  <2> QED BY <2>1, <2>2, Matched
<1>3. \A i \in DOMAIN a : \E j \in DOMAIN b : NormalProfile(a[i]) = NormalProfile(b[j])
  BY <1>1
<1>4. \A j \in DOMAIN b : \E i \in DOMAIN a : NormalProfile(a[i]) = NormalProfile(b[j])
  BY <1>2
<1> QED BY <1>3, <1>4, ListIs DEF WatermarksPayload

LEMMA SameRules ==
  ASSUME NEW a, NEW b, IsList(a), IsList(b), NoRepeats(IdsOf(a)), NoRepeats(IdsOf(b)),
         \A r \in ToSet(a) : IsRule(r), \A r \in ToSet(b) : IsRule(r),
         SameEntries(a, b, SameRule)
  PROVE  {NormalRule(r) : r \in ToSet(a)} = {NormalRule(r) : r \in ToSet(b)}
<1> DEFINE Like == [i \in DOMAIN a |-> {j \in DOMAIN b : NormalRule(a[i]) = NormalRule(b[j])}]
<1>1. ASSUME NEW i \in DOMAIN a
      PROVE  \E j \in DOMAIN b : a[i].id = b[j].id /\ j \in Like[i]
  <2>1. PICK j \in DOMAIN b : a[i].id = b[j].id /\ SameRule(a[i], b[j])
    BY DEF SameEntries
  <2>2. a[i] \in ToSet(a) /\ b[j] \in ToSet(b)
    BY ListIs
  <2>3. NormalRule(a[i]) = NormalRule(b[j])
    BY <2>1, <2>2, RulesAreAlike
  <2> QED BY <2>1, <2>3
<1>2. \A j \in DOMAIN b : \E i \in DOMAIN a : j \in Like[i]
  <2>1. HasItsLike(a, b, Like)
    BY <1>1 DEF HasItsLike
  <2>2. Len(a) = Len(b) /\ NoRepeats(IdsOf(a)) /\ NoRepeats(IdsOf(b))
    BY DEF SameEntries
  <2> HIDE DEF Like
  <2> QED BY <2>1, <2>2, Matched
<1>3. \A i \in DOMAIN a : \E j \in DOMAIN b : NormalRule(a[i]) = NormalRule(b[j])
  BY <1>1
<1>4. \A j \in DOMAIN b : \E i \in DOMAIN a : NormalRule(a[i]) = NormalRule(b[j])
  BY <1>2
<1> QED BY <1>3, <1>4, ListIs

(* The switches of a policy and what else is taken as it stands.            *)
PolicyAsTyped ==
  {"id", "requireProvenance", "requireClearance", "blockTampered", "blockUnlicensed",
   "blockUnconsented"}

LEMMA PolicyIsRead ==
  ASSUME NEW p, IsPolicy(p)
  PROVE  /\ IsRecord(PolicyPayload(p), PolicyAsTyped \cup {"allowed", "required", "rules"})
         /\ \A f \in PolicyAsTyped : PolicyPayload(p)[f] = p[f]
         /\ PolicyPayload(p).allowed =
              [r \in RuleParts |-> IF r = "territory" THEN NormalTerritories(p.allowed[r])
                                                      ELSE NormalText(p.allowed[r])]
         /\ PolicyPayload(p).required = ToSet(p.required)
         /\ PolicyPayload(p).rules = {NormalRule(r) : r \in ToSet(p.rules)}
<1> DEFINE allowed == [r \in DOMAIN p.allowed |->
                         IF r = "territory" THEN NormalTerritories(p.allowed[r])
                                            ELSE NormalText(p.allowed[r])]
           required == ToSet(p.required)
           rules == {NormalRule(r) : r \in ToSet(p.rules)}
<1>1. DOMAIN p = PolicyAsTyped \cup {"allowed", "required", "rules"}
  BY DEF IsPolicy, IsRecord, PolicyAsTyped
<1>2. DOMAIN p.allowed = RuleParts
  BY DEF IsPolicy, IsRecord
<1>3. PolicyPayload(p) = [p EXCEPT !.allowed = allowed, !.required = required, !.rules = rules]
  BY DEF PolicyPayload
<1>4. allowed = [r \in RuleParts |-> IF r = "territory" THEN NormalTerritories(p.allowed[r])
                                                        ELSE NormalText(p.allowed[r])]
  BY <1>2
<1> HIDE DEF allowed, required, rules
<1>5. /\ IsRecord(PolicyPayload(p), PolicyAsTyped \cup {"allowed", "required", "rules"})
      /\ \A f \in PolicyAsTyped : PolicyPayload(p)[f] = p[f]
      /\ PolicyPayload(p).allowed = allowed /\ PolicyPayload(p).required = required
      /\ PolicyPayload(p).rules = rules
  BY <1>1, <1>3 DEF IsRecord, PolicyAsTyped
<1> QED BY <1>4, <1>5 DEF required, rules

LEMMA PoliciesAreAlike ==
  ASSUME NEW p, NEW q, IsPolicy(p), IsPolicy(q), PolicyAccepted(p), PolicyAccepted(q),
         SamePolicy(p, q)
  PROVE  PolicyPayload(p) = PolicyPayload(q)
<1> DEFINE Read(x) == [r \in RuleParts |-> IF r = "territory" THEN NormalTerritories(x.allowed[r])
                                                              ELSE NormalText(x.allowed[r])]
           fields == PolicyAsTyped \cup {"allowed", "required", "rules"}
<1>1. DOMAIN p.allowed = RuleParts /\ DOMAIN q.allowed = RuleParts
  BY DEF IsPolicy, IsRecord
<1>2. \A r \in RuleParts : SameWords(p.allowed[r], q.allowed[r])
  BY <1>1 DEF SamePolicy
<1>3. NormalTerritories(p.allowed["territory"]) = NormalTerritories(q.allowed["territory"])
  <2>1. "" \notin TerritoryCodes \cup {"*"}
    BY ControlAssumption
  <2> QED BY <1>2, <2>1, SamePlaces DEF PolicyAccepted, TerritoriesAccepted, RuleParts
<1>4. \A r \in RuleParts : NormalText(p.allowed[r]) = NormalText(q.allowed[r])
  BY <1>2, SameText
<1>5. Read(p) = Read(q)
  BY <1>3, <1>4
<1>6. {NormalRule(r) : r \in ToSet(p.rules)} = {NormalRule(r) : r \in ToSet(q.rules)}
  BY SameRules DEF IsPolicy, PolicyAccepted, SamePolicy
<1>7. \A f \in PolicyAsTyped : p[f] = q[f]
  BY DEF SamePolicy, PolicyAsTyped
<1>8. PolicyPayload(p).allowed = Read(p) /\ PolicyPayload(q).allowed = Read(q)
  BY PolicyIsRead
<1> HIDE DEF Read
<1>9. \A f \in fields : PolicyPayload(p)[f] = PolicyPayload(q)[f]
  <2>1. \A f \in PolicyAsTyped : PolicyPayload(p)[f] = PolicyPayload(q)[f]
    BY <1>7, PolicyIsRead
  <2>2. PolicyPayload(p).required = PolicyPayload(q).required
    <3>1. ToSet(p.required) = ToSet(q.required)
      BY DEF SamePolicy
    <3> QED BY <3>1, PolicyIsRead
  <2>3. PolicyPayload(p).rules = PolicyPayload(q).rules
    BY <1>6, PolicyIsRead
  <2> QED BY <1>5, <1>8, <2>1, <2>2, <2>3
<1>10. IsRecord(PolicyPayload(p), fields) /\ IsRecord(PolicyPayload(q), fields)
  BY PolicyIsRead
<1> HIDE DEF fields
<1> QED BY <1>9, <1>10, SameRecord

ContextFields == {"policy", "territories", "channel", "audience", "brand", "use"}

LEMMA RequestIsRead ==
  ASSUME NEW q, IsRequest(q)
  PROVE  /\ IsRecord(RequestPayload(q), {"asset", "representations", "context"})
         /\ RequestPayload(q).asset = q.asset
         /\ RequestPayload(q).representations = ToSet(q.representations)
         /\ IsRecord(RequestPayload(q).context, ContextFields)
         /\ RequestPayload(q).context.territories = NormalTerritories(q.context.territories)
         /\ \A f \in ContextFields \ {"territories"} : RequestPayload(q).context[f] = q.context[f]
<1> DEFINE places == NormalTerritories(q.context.territories)
           context == [q.context EXCEPT !.territories = places]
           all == ToSet(q.representations)
<1>1. DOMAIN q = {"asset", "representations", "context"} /\ DOMAIN q.context = ContextFields
  BY DEF IsRequest, IsRecord, ContextFields
<1>2. RequestPayload(q) = [q EXCEPT !.representations = all, !.context = context]
  BY <1>1 DEF RequestPayload
<1> HIDE DEF places, all
<1>3. /\ IsRecord(context, ContextFields) /\ context.territories = places
      /\ \A f \in ContextFields \ {"territories"} : context[f] = q.context[f]
  BY <1>1 DEF IsRecord, ContextFields
<1> HIDE DEF context
<1>4. /\ IsRecord(RequestPayload(q), {"asset", "representations", "context"})
      /\ RequestPayload(q).asset = q.asset /\ RequestPayload(q).representations = all
      /\ RequestPayload(q).context = context
  BY <1>1, <1>2 DEF IsRecord
<1> QED BY <1>3, <1>4 DEF places, all

LEMMA RequestsAreAlike ==
  ASSUME NEW p, NEW q, IsRequest(p), IsRequest(q), RequestAccepted(p), RequestAccepted(q),
         p.asset = q.asset, ToSet(p.representations) = ToSet(q.representations),
         SameWords(p.context.territories, q.context.territories),
         [p.context EXCEPT !.territories = {}] = [q.context EXCEPT !.territories = {}]
  PROVE  RequestPayload(p) = RequestPayload(q)
<1>1. NormalTerritories(p.context.territories) = NormalTerritories(q.context.territories)
  BY ControlAssumption, SamePlaces DEF RequestAccepted
<1>2. \A f \in ContextFields \ {"territories"} : p.context[f] = q.context[f]
  <2>1. \A x : IsRequest(x) => \A f \in ContextFields \ {"territories"} :
                                 x.context[f] = [x.context EXCEPT !.territories = {}][f]
    BY DEF IsRequest, IsRecord, ContextFields
  <2> QED BY <2>1
<1>3. \A f \in ContextFields : RequestPayload(p).context[f] = RequestPayload(q).context[f]
  BY <1>1, <1>2, RequestIsRead
<1>4. IsRecord(RequestPayload(p).context, ContextFields)
      /\ IsRecord(RequestPayload(q).context, ContextFields)
  BY RequestIsRead
<1>5. RequestPayload(p).context = RequestPayload(q).context
  BY <1>3, <1>4, SameRecord
<1>6. \A f \in {"asset", "representations", "context"} : RequestPayload(p)[f] = RequestPayload(q)[f]
  BY <1>5, RequestIsRead
<1>7. /\ IsRecord(RequestPayload(p), {"asset", "representations", "context"})
      /\ IsRecord(RequestPayload(q), {"asset", "representations", "context"})
  BY RequestIsRead
<1> QED BY <1>6, <1>7, SameRecord

(* What the checks of the endpoint have seen to.                            *)
Checked(d) ==
  /\ RequestAccepted(d.request) /\ RegistryAccepted(d.references)
  /\ LicencesAccepted(d.licences) /\ PolicyAccepted(d.policy)
  /\ \A w \in d.watermarks : WatermarksAccepted(w)
  /\ \A c \in d.consents : ConsentsAccepted(c)
  /\ IsPicture(d.request.asset) \/ IsSpeech(d.request.asset)

LEMMA AcceptableIsChecked ==
  ASSUME NEW d \in Acceptable
  PROVE  IsDossier(d) /\ Checked(d)
<1>1. d \in Dossiers /\ \A k \in DOMAIN Checks(d) : Checks(d)[k][1]
  BY DEF Acceptable, FailedChecks
<1>2. IsDossier(d)
  BY <1>1, ControlAssumption
<1>3. DOMAIN Checks(d) = 1 .. 13
  BY DEF Checks
<1>4. /\ Checks(d)[2][1] /\ Checks(d)[4][1] /\ Checks(d)[6][1] /\ Checks(d)[7][1]
      /\ Checks(d)[9][1] /\ Checks(d)[11][1] /\ Checks(d)[13][1]
  BY <1>1, <1>3
<1>5. Checked(d)
  BY <1>4 DEF Checks, Checked
<1> QED BY <1>2, <1>5

(* Sets of at most one document, with the same number of them.              *)
LEMMA AtMostOne ==
  ASSUME NEW S, NEW T, \A x, y \in S : x = y, \A x, y \in T : x = y,
         Cardinality(S) = Cardinality(T)
  PROVE  (S = {} /\ T = {}) \/ \E x \in S, y \in T : S = {x} /\ T = {y}
<1>1. S = {} \/ \E x \in S : S = {x}
  OBVIOUS
<1>2. T = {} \/ \E y \in T : T = {y}
  OBVIOUS
<1> QED BY <1>1, <1>2, FS_EmptySet, FS_Singleton

(* "Bind idempotency to every governed input": and to no more than that.    *)
LEMMA SameFingerprint ==
  ASSUME NEW d \in Acceptable, NEW e \in Acceptable, NEW version, SaysTheSame(d, e)
  PROVE  execution_fingerprint(d, version) = execution_fingerprint(e, version)
<1>1. IsDossier(d) /\ Checked(d) /\ IsDossier(e) /\ Checked(e)
  BY AcceptableIsChecked
<1>2. RequestPayload(d.request) = RequestPayload(e.request)
  BY <1>1, RequestsAreAlike DEF IsDossier, Checked, SaysTheSame
<1>3. RegistryPayload(d.references) = RegistryPayload(e.references)
  BY <1>1, SameReferences DEF IsDossier, Checked, SaysTheSame
<1>4. LicencesPayload(d.licences) = LicencesPayload(e.licences)
  BY <1>1, SameLicences DEF IsDossier, Checked, SaysTheSame
<1>5. PolicyPayload(d.policy) = PolicyPayload(e.policy)
  BY <1>1, PoliciesAreAlike DEF IsDossier, Checked, SaysTheSame
<1>6. {WatermarksPayload(w) : w \in d.watermarks} = {WatermarksPayload(w) : w \in e.watermarks}
  <2>1. ASSUME NEW w \in d.watermarks, NEW v \in e.watermarks PROVE WatermarksPayload(w) = WatermarksPayload(v)
    <3>1. IsList(w) /\ IsList(v) /\ WatermarksAccepted(w) /\ WatermarksAccepted(v)
      BY <1>1 DEF IsDossier, Checked
    <3>2. /\ \A x \in ToSet(w) : IsProfile(x)
          /\ \A x \in ToSet(v) : IsProfile(x)
      BY <1>1 DEF IsDossier
    <3>3. SameEntries(w, v, SameProfile)
      BY DEF SaysTheSame
    <3> QED BY <3>1, <3>2, <3>3, SameWatermarks
  <2>2. \/ d.watermarks = {} /\ e.watermarks = {}
        \/ \E w \in d.watermarks, v \in e.watermarks : d.watermarks = {w} /\ e.watermarks = {v}
    <3>1. (\A x, y \in d.watermarks : x = y) /\ \A x, y \in e.watermarks : x = y
      BY <1>1 DEF IsDossier
    <3>2. Cardinality(d.watermarks) = Cardinality(e.watermarks)
      BY DEF SaysTheSame
    <3> QED BY <3>1, <3>2, AtMostOne
  <2> QED BY <2>1, <2>2
<1>7. {ConsentsPayload(c) : c \in d.consents} = {ConsentsPayload(c) : c \in e.consents}
  <2>1. ASSUME NEW c \in d.consents, NEW b \in e.consents PROVE ConsentsPayload(c) = ConsentsPayload(b)
    <3>1. IsList(c) /\ IsList(b) /\ ConsentsAccepted(c) /\ ConsentsAccepted(b)
      BY <1>1 DEF IsDossier, Checked
    <3>2. /\ \A x \in ToSet(c) : IsTemplate(x)
          /\ \A x \in ToSet(b) : IsTemplate(x)
      BY <1>1 DEF IsDossier
    <3>3. SameEntries(c, b, SameTemplate)
      BY DEF SaysTheSame
    <3> QED BY <3>1, <3>2, <3>3, SameConsents
  <2>2. \/ d.consents = {} /\ e.consents = {}
        \/ \E c \in d.consents, b \in e.consents : d.consents = {c} /\ e.consents = {b}
    <3>1. (\A x, y \in d.consents : x = y) /\ \A x, y \in e.consents : x = y
      BY <1>1 DEF IsDossier
    <3>2. Cardinality(d.consents) = Cardinality(e.consents)
      BY DEF SaysTheSame
    <3> QED BY <3>1, <3>2, AtMostOne
  <2> QED BY <2>1, <2>2
<1>8. d.distance = e.distance
  BY DEF SaysTheSame
<1> QED BY <1>2, <1>3, <1>4, <1>5, <1>6, <1>7, <1>8 DEF execution_fingerprint

-----------------------------------------------------------------------------
(* Executions.  An assessment is made of what the documents are committed to *)
(* and of nothing else, so the same fingerprint gives the same assessment.  *)
MadeOf(asset, context, licences, references, persons, profiles, ids, policy, version, on) ==
  LET unlicensed == {r \in references : CoveringLicences(r.id, licences, context, on) = {}}
      unconsented == {t \in persons : ~ScopeCovers(InWords(t.consent), context, on)}
      marks == {p \in profiles : Apart(p.look, asset.look) > p.tolerance}
      origin == IF IsPicture(asset) /\ marks # {}
                    THEN Assessed("PARTIAL", "TAMPERED", 100)
                    ELSE Assessed("PARTIAL", "UNKNOWN", 0)
      claim == IF unlicensed \cup unconsented # {}
                THEN Assessed("COMPLETE", "POLICY_CONFLICT", 100)
                ELSE Assessed("PARTIAL", "UNKNOWN", 0)
      components == {Component(id, "AVAILABLE") : id \in ids}
  IN [references |-> Ids(references), persons |-> Ids(persons), version |-> version,
      deployment |-> EvaluatePublicationPolicy(context, policy, origin, claim,
                                               unlicensed # {}, components)]

LanesRun(d) ==
  IF IsSpeech(d.request.asset) THEN {"voice-consent" : c \in d.consents}
  ELSE {"likeness-consent" : c \in d.consents} \cup {"watermark" : w \in d.watermarks}

LEMMA MadeOfDocuments ==
  ASSUME NEW d, NEW version, NEW on
  PROVE  LET context == ContextInWords(RequestPayload(d.request))
         IN execute_rightsgate_assessment(d, version, on) =
              MadeOf(d.request.asset, context, {InWords(l) : l \in LicencesPayload(d.licences)},
                     MatchingReferences(d, d.request.asset), MatchingTemplates(d, d.request.asset),
                     ProfilesForBrand(d, context.brand), LanesRun(d),
                     PolicyInWords(PolicyPayload(d.policy)), version, on)
  BY DEF execute_rightsgate_assessment, MadeOf, LanesRun

LEMMA SameAssessment ==
  ASSUME NEW d \in Acceptable, NEW e \in Acceptable, NEW version, NEW other, NEW on,
         execution_fingerprint(d, version) = execution_fingerprint(e, other)
  PROVE  /\ version = other
         /\ execute_rightsgate_assessment(d, version, on) = execute_rightsgate_assessment(e, version, on)
<1>1. /\ version = other /\ RequestPayload(d.request) = RequestPayload(e.request)
      /\ RegistryPayload(d.references) = RegistryPayload(e.references)
      /\ LicencesPayload(d.licences) = LicencesPayload(e.licences)
      /\ PolicyPayload(d.policy) = PolicyPayload(e.policy) /\ d.distance = e.distance
      /\ {WatermarksPayload(w) : w \in d.watermarks} = {WatermarksPayload(w) : w \in e.watermarks}
      /\ {ConsentsPayload(c) : c \in d.consents} = {ConsentsPayload(c) : c \in e.consents}
  BY DEF execution_fingerprint
<1>2. d.request.asset = e.request.asset
  BY <1>1, AcceptableIsChecked, RequestIsRead DEF IsDossier
<1>3. \A asset : MatchingReferences(d, asset) = MatchingReferences(e, asset)
  BY <1>1 DEF MatchingReferences
<1>4. \A asset : MatchingTemplates(d, asset) = MatchingTemplates(e, asset)
  BY <1>1 DEF MatchingTemplates
<1>5. \A brand : ProfilesForBrand(d, brand) = ProfilesForBrand(e, brand)
  BY <1>1 DEF ProfilesForBrand
<1>6. (d.watermarks = {} <=> e.watermarks = {}) /\ (d.consents = {} <=> e.consents = {})
  BY <1>1
<1>7. /\ {"voice-consent" : c \in d.consents} = {"voice-consent" : c \in e.consents}
      /\ {"likeness-consent" : c \in d.consents} = {"likeness-consent" : c \in e.consents}
      /\ {"watermark" : w \in d.watermarks} = {"watermark" : w \in e.watermarks}
  BY <1>6
<1>8. LanesRun(d) = LanesRun(e)
  BY <1>2, <1>7 DEF LanesRun
<1> QED BY <1>1, <1>2, <1>3, <1>4, <1>5, <1>8, MadeOfDocuments

(* Its fields, in parts small enough to reason about.                       *)
UnlicensedMatches(d, on) ==
  {r \in MatchingReferences(d, d.request.asset) :
     CoveringLicences(r.id, {InWords(l) : l \in LicencesPayload(d.licences)},
                      ContextInWords(RequestPayload(d.request)), on) = {}}

LEMMA AssessmentTells ==
  ASSUME NEW d, NEW version, NEW on
  PROVE  LET made == execute_rightsgate_assessment(d, version, on)
             asset == d.request.asset
         IN /\ made.references = Ids(MatchingReferences(d, asset))
            /\ made.persons = Ids(MatchingTemplates(d, asset))
            /\ made.version = version
            /\ UnlicensedMatches(d, on) # {} /\ PolicyPayload(d.policy).blockUnlicensed
                 => made.deployment.decision = "BLOCK"
<1> DEFINE made == execute_rightsgate_assessment(d, version, on)
           asset == d.request.asset
           context == ContextInWords(RequestPayload(d.request))
           policy == PolicyInWords(PolicyPayload(d.policy))
<1>1. /\ made.references = Ids(MatchingReferences(d, asset))
      /\ made.persons = Ids(MatchingTemplates(d, asset)) /\ made.version = version
  BY MadeOfDocuments DEF MadeOf
<1>2. ASSUME UnlicensedMatches(d, on) # {}, policy.blockUnlicensed
      PROVE  made.deployment.decision = "BLOCK"
  <2>1. PICK origin, claim, components :
          made.deployment = EvaluatePublicationPolicy(context, policy, origin, claim,
                                                      UnlicensedMatches(d, on) # {}, components)
    BY MadeOfDocuments DEF MadeOf, UnlicensedMatches
  <2> HIDE DEF made, context, policy
  <2>2. "rights.licence-coverage" \in BlockReasons(context, policy, origin, claim,
                                                   UnlicensedMatches(d, on) # {})
    BY <1>2 DEF BlockReasons, RightsBlocks, ConflictRule
  <2>3. \A review : Decision(BlockReasons(context, policy, origin, claim,
                                          UnlicensedMatches(d, on) # {}), review) = "BLOCK"
    BY <2>2 DEF Decision
  <2>4. EvaluatePublicationPolicy(context, policy, origin, claim,
                                  UnlicensedMatches(d, on) # {}, components).decision = "BLOCK"
    BY <2>3 DEF EvaluatePublicationPolicy
  <2> QED BY <2>1, <2>4
<1>3. PolicyPayload(d.policy).blockUnlicensed => policy.blockUnlicensed
  BY DEF PolicyInWords
<1> QED BY <1>1, <1>2, <1>3

(* An asset is a picture or a recording and never both.                     *)
LEMMA PicturesAreSilent ==
  ASSUME NEW upload
  PROVE  ~(IsPicture(upload) /\ IsSpeech(upload))
<1>1. SUFFICES ASSUME upload.magic = "WAV", upload.extension = "WAV"
               PROVE  validate_upload(upload) # "IMAGE"
  BY DEF IsPicture, IsSpeech, HasSpeech
<1> QED BY <1>1 DEF validate_upload

(* What an assessment made of a dossier has to tell of it.                  *)
TellsEnrolled(d, made) ==
  LET asset == d.request.asset
      own == {r \in ToSet(d.references) : IsPicture(asset) /\ r.file = asset.file}
      persons == {t \in UNION {ToSet(c) : c \in d.consents} :
                    t.file = asset.file /\ (t.modality = "voice" <=> IsSpeech(asset))}
      licensed == UNION {ToSet(l.references) : l \in ToSet(d.licences)}
  IN /\ Ids(own) \subseteq made.references
     /\ Ids(persons) \subseteq made.persons
     /\ d.policy.blockUnlicensed /\ ~ Ids(own) \subseteq licensed
          => made.deployment.decision = "BLOCK"

LEMMA EnrolledAreTold ==
  ASSUME NEW d \in Acceptable, NEW version, NEW on
  PROVE  TellsEnrolled(d, execute_rightsgate_assessment(d, version, on))
<1> DEFINE made == execute_rightsgate_assessment(d, version, on)
           asset == d.request.asset
           own == {r \in ToSet(d.references) : IsPicture(asset) /\ r.file = asset.file}
           persons == {t \in UNION {ToSet(c) : c \in d.consents} :
                         t.file = asset.file /\ (t.modality = "voice" <=> IsSpeech(asset))}
           licensed == UNION {ToSet(l.references) : l \in ToSet(d.licences)}
<1>1. IsDossier(d) /\ Checked(d)
  BY AcceptableIsChecked
<1>2. own \subseteq MatchingReferences(d, asset)
  BY DEF MatchingReferences, RegistryPayload
<1>3. ASSUME NEW t \in persons PROVE t.id \in Ids(MatchingTemplates(d, asset))
  <2>1. PICK c \in d.consents : t \in ToSet(c)
    OBVIOUS
  <2>2. IsTemplate(t)
    BY <1>1, <2>1 DEF IsDossier
  <2>3. NormalTemplate(t) \in UNION {ConsentsPayload(b) : b \in d.consents}
    BY <2>1 DEF ConsentsPayload
  <2>4. t.modality = IF IsPicture(asset) THEN "likeness" ELSE "voice"
    BY <1>1, <1>3, <2>2, PicturesAreSilent DEF IsTemplate, Checked
  <2>5. /\ NormalTemplate(t).id = t.id /\ NormalTemplate(t).modality = t.modality
        /\ NormalTemplate(t).file = asset.file
    BY <1>3, <2>2, TemplateIsRead
  <2>6. NormalTemplate(t) \in MatchingTemplates(d, asset)
    BY <2>3, <2>4, <2>5 DEF MatchingTemplates
  <2> QED BY <2>5, <2>6 DEF Ids
<1>4. ASSUME NEW r \in own, r.id \notin licensed PROVE r \in UnlicensedMatches(d, on)
  <2>1. ASSUME NEW l \in {InWords(k) : k \in LicencesPayload(d.licences)}
        PROVE  r.id \notin l.references
    <3>1. PICK k \in ToSet(d.licences) : l = InWords(NormalLicence(k))
      BY DEF LicencesPayload
    <3>2. IsLicence(k)
      BY <1>1 DEF IsDossier
    <3>3. /\ DOMAIN NormalLicence(k) = ScopeFields \cup {"id", "state", "references"}
          /\ NormalLicence(k).references = ToSet(k.references)
      BY <3>2, LicenceIsRead DEF IsRecord
    <3>4. l.references = ToSet(k.references)
      BY <3>1, <3>3 DEF InWords
    <3>5. ToSet(k.references) \subseteq licensed
      OBVIOUS
    <3> QED BY <1>4, <3>4, <3>5
  <2>2. CoveringLicences(r.id, {InWords(k) : k \in LicencesPayload(d.licences)},
                         ContextInWords(RequestPayload(d.request)), on) = {}
    BY <2>1 DEF CoveringLicences
  <2> QED BY <1>2, <2>2 DEF UnlicensedMatches
<1>5. PolicyPayload(d.policy).blockUnlicensed = d.policy.blockUnlicensed
  BY <1>1, PolicyIsRead DEF IsDossier, PolicyAsTyped
<1>6. /\ made.references = Ids(MatchingReferences(d, asset))
      /\ made.persons = Ids(MatchingTemplates(d, asset))
      /\ UnlicensedMatches(d, on) # {} /\ PolicyPayload(d.policy).blockUnlicensed
           => made.deployment.decision = "BLOCK"
  BY AssessmentTells
<1> HIDE DEF made
<1>7. Ids(own) \subseteq made.references
  BY <1>2, <1>6 DEF Ids
<1>8. Ids(persons) \subseteq made.persons
  BY <1>3, <1>6 DEF Ids
<1>9. d.policy.blockUnlicensed /\ ~ Ids(own) \subseteq licensed => made.deployment.decision = "BLOCK"
  <2>1. SUFFICES ASSUME d.policy.blockUnlicensed, ~ Ids(own) \subseteq licensed
                 PROVE  made.deployment.decision = "BLOCK"
    OBVIOUS
  <2>2. PICK r \in own : r.id \notin licensed
    BY <2>1 DEF Ids
  <2> HIDE DEF own, licensed
  <2> QED BY <1>4, <1>5, <1>6, <2>1, <2>2
<1> QED BY <1>7, <1>8, <1>9 DEF TellsEnrolled, made

(* Derived entries are in the form in which they are read.                  *)
LEMMA ScopesAreRead ==
  ASSUME NEW s, IsScope(s)
  PROVE  /\ NormalScope(NormalScope(s)) = NormalScope(s)
         /\ IsRecord(NormalScope(s), ScopeFields)
<1> DEFINE t == NormalScope(s)
<1>1. /\ IsRecord(t, ScopeFields)
      /\ t.territories = NormalTerritories(s.territories)
      /\ t.channels = NormalText(s.channels) /\ t.uses = NormalText(s.uses)
  BY ScopeIsRead DEF IsScope
<1> HIDE DEF t
<1>2. /\ IsRecord(NormalScope(t), ScopeFields)
      /\ NormalScope(t).territories = NormalTerritories(t.territories)
      /\ NormalScope(t).channels = NormalText(t.channels)
      /\ NormalScope(t).uses = NormalText(t.uses)
      /\ \A f \in ScopeFields \ {"territories", "channels", "uses"} : NormalScope(t)[f] = t[f]
  BY <1>1, ScopeIsRead
<1>3. \A f \in ScopeFields : NormalScope(t)[f] = t[f]
  BY <1>1, <1>2, TextIsRead, PlacesAreRead DEF ScopeFields
<1>4. NormalScope(t) = t
  BY <1>1, <1>2, <1>3, SameRecord
<1> QED BY <1>1, <1>4 DEF t

LEMMA Alone ==
  ASSUME NEW x
  PROVE  NoRepeats(IdsOf(<<x>>)) /\ ToSet(<<x>>) = {x}
<1>1. DOMAIN <<x>> = {1} /\ <<x>>[1] = x
  OBVIOUS
<1>2. ToSet(<<x>>) = {x}
  BY <1>1 DEF ToSet
<1>3. NoRepeats(IdsOf(<<x>>))
  BY <1>1 DEF NoRepeats, IdsOf
<1> QED BY <1>2, <1>3

LEMMA TemplatesAreTaken ==
  ASSUME NEW modality, NEW upload, NEW draft, IsScope(draft.consent),
         TemplateAccepted(build_template(modality, upload, draft))
  PROVE  LET alone == <<build_template(modality, upload, draft)>>
         IN /\ ConsentsAccepted(alone)
            /\ ConsentsPayload(alone) = {build_template(modality, upload, draft)}
<1> DEFINE template == build_template(modality, upload, draft)
<1>1. template.consent = NormalScope(draft.consent)
  BY DEF build_template
<1>2. NormalScope(template.consent) = template.consent
  BY <1>1, ScopesAreRead
<1>3. NormalTemplate(template) = template
  BY <1>2 DEF NormalTemplate, build_template
<1>4. TemplateAccepted(template)
  OBVIOUS
<1> HIDE DEF template
<1>5. NoRepeats(IdsOf(<<template>>)) /\ ToSet(<<template>>) = {template}
  BY Alone
<1> QED BY <1>3, <1>4, <1>5 DEF ConsentsAccepted, ConsentsPayload, template

LEMMA ProfilesAreTaken ==
  ASSUME NEW upload, NEW draft, ProfileAccepted(build_visible_watermark_profile(upload, draft))
  PROVE  LET alone == <<build_visible_watermark_profile(upload, draft)>>
         IN /\ WatermarksAccepted(alone)
            /\ WatermarksPayload(alone) = {build_visible_watermark_profile(upload, draft)}
<1> DEFINE profile == build_visible_watermark_profile(upload, draft)
<1>1. profile.brands = NormalText(draft.brands)
  BY DEF build_visible_watermark_profile
<1>2. NormalText(profile.brands) = profile.brands
  BY <1>1, TextIsRead
<1>3. NormalProfile(profile) = profile
  BY <1>2 DEF NormalProfile, build_visible_watermark_profile
<1>4. ProfileAccepted(profile)
  OBVIOUS
<1> HIDE DEF profile
<1>5. NoRepeats(IdsOf(<<profile>>)) /\ ToSet(<<profile>>) = {profile}
  BY Alone
<1> QED BY <1>3, <1>4, <1>5 DEF WatermarksAccepted, WatermarksPayload, profile

(* What is answered to an upload: a refusal, or an entry that is accepted.  *)
Taken(answer) ==
  answer.kind = "derived" =>
    LET alone == <<answer.entry>>
    IN CASE answer.what = "reference" -> RegistryAccepted(alone)
         [] answer.what = "template" ->
              ConsentsAccepted(alone) /\ ConsentsPayload(alone) = {answer.entry}
         [] answer.what = "profile" ->
              WatermarksAccepted(alone) /\ WatermarksPayload(alone) = {answer.entry}

LEMMA DerivationsAreTaken ==
  ASSUME NEW given \in Derivations
  PROVE  given.kind \in {"refused", "derived"} /\ Taken(given)
<1>1. ASSUME NEW status
      PROVE  Refused(status).kind \in {"refused", "derived"} /\ Taken(Refused(status))
  BY DEF Refused, Taken
<1>2. ASSUME NEW what, NEW entry
      PROVE  /\ Derived(what, entry).kind \in {"refused", "derived"}
             /\ Derived(what, entry).what = what /\ Derived(what, entry).entry = entry
  BY DEF Derived
<1>3. ASSUME NEW entry, RegistryAccepted(<<entry>>)
      PROVE  Taken(Derived("reference", entry))
  <2> DEFINE answer == Derived("reference", entry)
  <2>1. answer.what = "reference" /\ answer.entry = entry
    BY <1>2
  <2> HIDE DEF answer
  <2>2. Taken(answer)
    BY <1>3, <2>1 DEF Taken
  <2> QED BY <2>2 DEF answer
<1>4. ASSUME NEW entry, ConsentsAccepted(<<entry>>), ConsentsPayload(<<entry>>) = {entry}
      PROVE  Taken(Derived("template", entry))
  <2> DEFINE answer == Derived("template", entry)
  <2>1. answer.what = "template" /\ answer.entry = entry
    BY <1>2
  <2> HIDE DEF answer
  <2>2. Taken(answer)
    BY <1>4, <2>1 DEF Taken
  <2> QED BY <2>2 DEF answer
<1>5. ASSUME NEW entry, WatermarksAccepted(<<entry>>), WatermarksPayload(<<entry>>) = {entry}
      PROVE  Taken(Derived("profile", entry))
  <2> DEFINE answer == Derived("profile", entry)
  <2>1. answer.what = "profile" /\ answer.entry = entry
    BY <1>2
  <2> HIDE DEF answer
  <2>2. Taken(answer)
    BY <1>5, <2>1 DEF Taken
  <2> QED BY <2>2 DEF answer
<1>6. PICK e \in Enrolments :
        given \in {derive_image_reference(e.upload, e.draft),
                   derive_likeness_template(e.upload, e.draft),
                   derive_voice_template(e.upload, e.draft),
                   derive_visible_watermark_profile(e.upload, e.draft)}
  BY DEF Derivations
<1>7. IsScope(e.draft.consent)
  BY ControlAssumption
<1>8. CASE given = derive_image_reference(e.upload, e.draft)
  <2>1. \/ \E status : given = Refused(status)
        \/ given = Derived("reference", build_registry_image(e.upload, e.draft))
    BY <1>8 DEF derive_image_reference
  <2>2. RegistryAccepted(<<build_registry_image(e.upload, e.draft)>>)
    BY Alone DEF RegistryAccepted
  <2> QED BY <1>1, <1>2, <1>3, <2>1, <2>2
<1>9. ASSUME NEW modality \in {"likeness", "voice"},
             \/ \E status : given = Refused(status)
             \/ /\ given = Derived("template", build_template(modality, e.upload, e.draft))
                /\ TemplateAccepted(build_template(modality, e.upload, e.draft))
      PROVE  given.kind \in {"refused", "derived"} /\ Taken(given)
  <2>1. CASE \E status : given = Refused(status)
    BY <1>1, <2>1
  <2>2. CASE /\ given = Derived("template", build_template(modality, e.upload, e.draft))
             /\ TemplateAccepted(build_template(modality, e.upload, e.draft))
    <3>1. Taken(given)
      BY <1>7, <1>4, <2>2, TemplatesAreTaken
    <3> QED BY <1>2, <2>2, <3>1
  <2> QED BY <1>9, <2>1, <2>2
<1>10. CASE given = derive_likeness_template(e.upload, e.draft)
  BY <1>9, <1>10 DEF derive_likeness_template
<1>11. CASE given = derive_voice_template(e.upload, e.draft)
  BY <1>9, <1>11 DEF derive_voice_template
<1>12. CASE given = derive_visible_watermark_profile(e.upload, e.draft)
  <2>1. \/ \E status : given = Refused(status)
        \/ /\ given = Derived("profile", build_visible_watermark_profile(e.upload, e.draft))
           /\ ProfileAccepted(build_visible_watermark_profile(e.upload, e.draft))
    BY <1>12 DEF derive_visible_watermark_profile
  <2>2. CASE \E status : given = Refused(status)
    BY <1>1, <2>2
  <2>3. CASE /\ given = Derived("profile", build_visible_watermark_profile(e.upload, e.draft))
             /\ ProfileAccepted(build_visible_watermark_profile(e.upload, e.draft))
    <3>1. Taken(given)
      BY <1>5, <2>3, ProfilesAreTaken
    <3> QED BY <1>2, <2>3, <3>1
  <2> QED BY <2>1, <2>2, <2>3
<1> QED BY <1>6, <1>8, <1>10, <1>11, <1>12

-----------------------------------------------------------------------------
(* The row of the key is committed to what its dossier gives, under the      *)
(* version that made it; the last answer is about a dossier of the same      *)
(* fingerprint, or in conflict with the row.                                 *)
RowFields == {"dossier", "fingerprint", "request", "assessment", "commitment", "at"}

KeyRowHolds ==
  /\ IsRecord(stored, RowFields)
  /\ stored.dossier \in Acceptable
  /\ stored.fingerprint = execution_fingerprint(stored.dossier, stored.commitment.version)
  /\ stored.commitment = execute_rightsgate_assessment(
                           stored.dossier, stored.commitment.version, stored.at)

AnswerHolds ==
  /\ HandedOver =>
       /\ KeyRowHolds /\ reply.dossier \in Acceptable /\ reply.assessment = stored.commitment
       /\ execution_fingerprint(reply.dossier, stored.commitment.version) = stored.fingerprint
  /\ reply.kind = "replayed" => stored.commitment.version = release
  /\ reply.kind = "conflict" =>
       /\ KeyRowHolds /\ reply.dossier \in Acceptable
       /\ stored.fingerprint # execution_fingerprint(reply.dossier, release)
  /\ Taken(reply)

ControlsInv == (stored # NoRow => KeyRowHolds) /\ AnswerHolds

LEMMA ControlsStart == ControlInit => ControlsInv
  BY DEF ControlInit, ControlsInv, AnswerHolds, HandedOver, NoReply, Taken

(* An answer that hands nothing over holds beside any row.                  *)
LEMMA NothingHandedOver ==
  ASSUME reply'.kind \in {"none", "refused", "derived"}, Taken(reply')
  PROVE  AnswerHolds'
  BY DEF AnswerHolds, HandedOver, Taken

LEMMA AnsweredFields ==
  ASSUME NEW kind, NEW d, NEW made
  PROVE  /\ Answered(kind, d, made).kind = kind /\ Answered(kind, d, made).dossier = d
         /\ Answered(kind, d, made).assessment = made
  BY DEF Answered

LEMMA RefusedIsTaken ==
  ASSUME NEW status
  PROVE  Refused(status).kind = "refused" /\ Taken(Refused(status))
  BY DEF Refused, Taken

LEMMA NewRowHolds ==
  ASSUME NEW d \in Acceptable, stored' = NewRow(d)
  PROVE  /\ KeyRowHolds' /\ stored'.dossier = d /\ stored'.assessment = stored'.commitment
         /\ stored'.commitment.version = release
<1> DEFINE made == execute_rightsgate_assessment(d, release, day)
<1>1. stored' = [dossier |-> d, fingerprint |-> execution_fingerprint(d, release),
                 request |-> "intact", assessment |-> made, commitment |-> made, at |-> day]
  BY DEF NewRow
<1>2. made.version = release
  BY AssessmentTells
<1> HIDE DEF made
<1>3. /\ IsRecord(stored', RowFields) /\ stored'.dossier = d /\ stored'.at = day
      /\ stored'.fingerprint = execution_fingerprint(d, release)
      /\ stored'.commitment = made /\ stored'.assessment = made
  BY <1>1 DEF IsRecord, RowFields
<1> QED BY <1>2, <1>3 DEF KeyRowHolds, made

LEMMA SubmitStep ==
  ASSUME ControlsInv, SubmitDossier, UNCHANGED <<day, release>>
  PROVE  ControlsInv'
<1>1. CASE reply' \in Refusals /\ UNCHANGED stored
  <2>1. (stored # NoRow => KeyRowHolds)'
    BY <1>1 DEF ControlsInv, KeyRowHolds
  <2>2. PICK status : reply' = Refused(status)
    BY <1>1 DEF Refusals
  <2> QED BY <2>1, <2>2, RefusedIsTaken, NothingHandedOver DEF ControlsInv
<1>2. ASSUME NEW d \in Acceptable, stored = NoRow, stored' = NewRow(d),
             reply' = Answered("executed", d, stored'.assessment)
      PROVE  ControlsInv'
  <2>1. /\ KeyRowHolds' /\ stored'.dossier = d /\ stored'.assessment = stored'.commitment
        /\ stored'.commitment.version = release
    BY <1>2, NewRowHolds
  <2>2. reply'.kind = "executed" /\ reply'.dossier = d /\ reply'.assessment = stored'.assessment
    BY <1>2, AnsweredFields
  <2>3. execution_fingerprint(d, stored'.commitment.version) = stored'.fingerprint
    BY <2>1 DEF KeyRowHolds
  <2>4. AnswerHolds'
    BY <2>1, <2>2, <2>3 DEF AnswerHolds, HandedOver, Taken
  <2> QED BY <2>1, <2>4 DEF ControlsInv
<1>3. ASSUME NEW d \in Acceptable, stored # NoRow, UNCHANGED stored,
             reply' = IF ~StoredRequestValid(stored) THEN Refused(500)
                      ELSE IF stored.fingerprint # execution_fingerprint(d, release)
                      THEN Answered("conflict", d, "none")
                      ELSE IF ~StoredAssessmentValid(stored) THEN Refused(500)
                      ELSE Answered("replayed", d, stored.assessment)
      PROVE  ControlsInv'
  <2>1. KeyRowHolds /\ KeyRowHolds'
    BY <1>3 DEF ControlsInv, KeyRowHolds
  <2>2. CASE reply' = Refused(500)
    BY <2>1, <2>2, RefusedIsTaken, NothingHandedOver DEF ControlsInv
  <2>3. CASE /\ reply' = Answered("conflict", d, "none")
             /\ stored.fingerprint # execution_fingerprint(d, release)
    <3>1. reply'.kind = "conflict" /\ reply'.dossier = d
      BY <2>3, AnsweredFields
    <3>2. AnswerHolds'
      BY <1>3, <2>1, <2>3, <3>1, UNCHANGED <<day, release>> DEF AnswerHolds, HandedOver, Taken
    <3> QED BY <2>1, <3>2 DEF ControlsInv
  <2>4. CASE /\ reply' = Answered("replayed", d, stored.assessment)
             /\ stored.fingerprint = execution_fingerprint(d, release)
             /\ StoredAssessmentValid(stored)
    <3>1. reply'.kind = "replayed" /\ reply'.dossier = d /\ reply'.assessment = stored.assessment
      BY <2>4, AnsweredFields
    <3>2. stored.commitment.version = release
      BY <2>1, <2>4 DEF KeyRowHolds, execution_fingerprint
    <3>3. stored.assessment = stored.commitment
      BY <2>4 DEF StoredAssessmentValid
    <3>4. AnswerHolds'
      BY <1>3, <2>1, <2>4, <3>1, <3>2, <3>3 DEF AnswerHolds, HandedOver, Taken
    <3> QED BY <2>1, <3>4 DEF ControlsInv
  <2> QED BY <1>3, <2>2, <2>3, <2>4
<1> QED BY <1>1, <1>2, <1>3 DEF SubmitDossier

LEMMA ReadStep ==
  ASSUME ControlsInv, get_assessment_record
  PROVE  ControlsInv'
<1>1. (stored # NoRow => KeyRowHolds)' /\ UNCHANGED stored
  BY DEF ControlsInv, KeyRowHolds, get_assessment_record
<1>2. CASE \E status : reply' = Refused(status)
  BY <1>1, <1>2, RefusedIsTaken, NothingHandedOver DEF ControlsInv
<1>3. CASE /\ stored # NoRow /\ StoredAssessmentValid(stored)
           /\ reply' = Answered("read", stored.dossier, stored.assessment)
  <2>1. KeyRowHolds /\ KeyRowHolds' /\ stored.assessment = stored.commitment
    BY <1>1, <1>3 DEF ControlsInv, StoredAssessmentValid
  <2>2. /\ reply'.kind = "read" /\ reply'.dossier = stored.dossier
        /\ reply'.assessment = stored.assessment
    BY <1>3, AnsweredFields
  <2>3. AnswerHolds'
    BY <1>1, <2>1, <2>2 DEF AnswerHolds, HandedOver, KeyRowHolds, Taken
  <2> QED BY <1>1, <2>3 DEF ControlsInv
<1> QED BY <1>2, <1>3 DEF get_assessment_record

LEMMA AlterStep ==
  ASSUME ControlsInv, AlterRow
  PROVE  ControlsInv'
<1>1. KeyRowHolds /\ DOMAIN stored = RowFields
  BY DEF ControlsInv, AlterRow, KeyRowHolds, IsRecord
<1>2. /\ IsRecord(stored', RowFields)
      /\ \A f \in RowFields \ {"request", "assessment"} : stored'[f] = stored[f]
  <2>1. CASE stored' = [stored EXCEPT !.request = "altered"]
    BY <1>1, <2>1 DEF IsRecord
  <2>2. CASE stored' = [stored EXCEPT !.assessment.deployment.decision = "GO"]
    <3>1. PICK altered : stored' = [stored EXCEPT !.assessment = altered]
      BY <2>2
    <3> QED BY <1>1, <3>1 DEF IsRecord
  <2> QED BY <2>1, <2>2 DEF AlterRow
<1>3. KeyRowHolds'
  BY <1>1, <1>2 DEF KeyRowHolds, RowFields
<1>4. AnswerHolds'
  BY NothingHandedOver DEF AlterRow, NoReply, Taken
<1> QED BY <1>3, <1>4 DEF ControlsInv

LEMMA ControlsStep == ControlsInv /\ [ControlNext]_ControlVars => ControlsInv'
<1> SUFFICES ASSUME ControlsInv, [ControlNext]_ControlVars PROVE ControlsInv'
  OBVIOUS
<1>1. CASE DeriveEntry
  BY <1>1, DerivationsAreTaken, NothingHandedOver DEF DeriveEntry, ControlsInv, KeyRowHolds
<1>2. CASE SubmitDossier /\ UNCHANGED <<day, release>>
  BY <1>2, SubmitStep
<1>3. CASE get_assessment_record
  BY <1>3, ReadStep
<1>4. CASE AlterRow
  BY <1>4, AlterStep
<1>5. CASE reply' = NoReply /\ UNCHANGED stored
  BY <1>5, NothingHandedOver DEF ControlsInv, KeyRowHolds, NoReply, Taken
<1>6. CASE UNCHANGED ControlVars
  BY <1>6 DEF ControlVars, ControlsInv, AnswerHolds, HandedOver, KeyRowHolds
<1> QED BY <1>1, <1>2, <1>3, <1>4, <1>5, <1>6 DEF ControlNext

LEMMA ControlsBind == ControlsInv => ControlsAreBound
<1> SUFFICES ASSUME ControlsInv PROVE ControlsAreBound
  OBVIOUS
<1>1. ASSUME HandedOver
      PROVE  reply.assessment = execute_rightsgate_assessment(
                                  reply.dossier, reply.assessment.version, stored.at)
  BY <1>1, SameAssessment DEF ControlsInv, AnswerHolds, KeyRowHolds
<1>2. reply.kind = "replayed" => reply.assessment.version = release
  BY DEF ControlsInv, AnswerHolds, HandedOver
<1>3. ASSUME reply.kind = "conflict", stored.commitment.version = release,
             SaysTheSame(reply.dossier, stored.dossier)
      PROVE  FALSE
  BY <1>3, SameFingerprint DEF ControlsInv, AnswerHolds, KeyRowHolds
<1>4. EnrolledIsRecognised
  <2>1. HandedOver => reply.dossier \in Acceptable
    BY DEF ControlsInv, AnswerHolds
  <2>2. HandedOver => TellsEnrolled(reply.dossier, reply.assessment)
    BY <1>1, <2>1, EnrolledAreTold
  <2> QED BY <2>2 DEF EnrolledIsRecognised, TellsEnrolled
<1>5. DerivedIsAccepted
  BY DEF DerivedIsAccepted, ControlsInv, AnswerHolds, Taken
<1> QED BY <1>1, <1>2, <1>3, <1>4, <1>5 DEF ControlsAreBound, BoundToTheInputs

(* A row keeps the dossier and the day it was made with, and every answer is *)
(* of a known kind.                                                          *)
LEMMA ControlsKeepTypes ==
  ASSUME ControlsInv, ControlTypeOK, [ControlNext]_ControlVars
  PROVE  ControlTypeOK'
<1>1. day \in Nat /\ release \in Nat /\ 1 <= day
  BY DEF ControlTypeOK
<1>2. {LastDay, LastRelease} \subseteq Nat \ {0}
  BY ControlAssumption
<1>3. \A status : Refused(status).kind = "refused"
  BY DEF Refused
<1>4. NoReply.kind = "none"
  BY DEF NoReply
<1>5. CASE DeriveEntry /\ UNCHANGED <<day, release>>
  <2>1. reply'.kind \in {"refused", "derived"}
    BY <1>5, DerivationsAreTaken DEF DeriveEntry
  <2> QED BY <1>5, <2>1 DEF DeriveEntry, ControlTypeOK
<1>6. CASE SubmitDossier /\ UNCHANGED <<day, release>>
  <2>1. CASE reply' \in Refusals /\ UNCHANGED stored
    <3>1. PICK status : reply' = Refused(status)
      BY <2>1 DEF Refusals
    <3> QED BY <1>3, <1>6, <2>1, <3>1 DEF ControlTypeOK
  <2>2. ASSUME NEW d \in Acceptable, stored = NoRow, stored' = NewRow(d),
               reply' = Answered("executed", d, stored'.assessment)
        PROVE  ControlTypeOK'
    <3>1. stored'.dossier = d /\ stored'.at = day /\ stored'.request = "intact"
      BY <2>2 DEF NewRow
    <3>2. d \in Dossiers /\ reply'.kind = "executed"
      BY <2>2, AnsweredFields DEF Acceptable
    <3> QED BY <1>1, <1>6, <3>1, <3>2 DEF ControlTypeOK
  <2>3. ASSUME NEW d \in Acceptable, stored # NoRow, UNCHANGED stored,
               reply' = IF ~StoredRequestValid(stored) THEN Refused(500)
                        ELSE IF stored.fingerprint # execution_fingerprint(d, release)
                        THEN Answered("conflict", d, "none")
                        ELSE IF ~StoredAssessmentValid(stored) THEN Refused(500)
                        ELSE Answered("replayed", d, stored.assessment)
        PROVE  ControlTypeOK'
    <3>1. reply'.kind \in {"refused", "conflict", "replayed"}
      BY <1>3, <2>3, AnsweredFields
    <3> QED BY <1>6, <2>3, <3>1 DEF ControlTypeOK
  <2> QED BY <1>6, <2>1, <2>2, <2>3 DEF SubmitDossier
<1>7. CASE get_assessment_record /\ UNCHANGED <<day, release>>
  <2>1. reply'.kind \in {"refused", "read"} /\ UNCHANGED stored
    BY <1>3, <1>7, AnsweredFields DEF get_assessment_record
  <2> QED BY <1>7, <2>1 DEF ControlTypeOK
<1>8. CASE AlterRow /\ UNCHANGED <<day, release>>
  <2>1. DOMAIN stored = RowFields /\ stored # NoRow
    BY <1>8 DEF ControlsInv, AlterRow, KeyRowHolds, IsRecord
  <2>2. /\ stored'.dossier = stored.dossier /\ stored'.at = stored.at
        /\ stored'.request \in {stored.request, "altered"}
    <3>1. CASE stored' = [stored EXCEPT !.request = "altered"]
      BY <2>1, <3>1 DEF RowFields
    <3>2. CASE stored' = [stored EXCEPT !.assessment.deployment.decision = "GO"]
      <4>1. PICK altered : stored' = [stored EXCEPT !.assessment = altered]
        BY <3>2
      <4> QED BY <2>1, <4>1 DEF RowFields
    <3> QED BY <1>8, <3>1, <3>2 DEF AlterRow
  <2> QED BY <1>4, <1>8, <2>1, <2>2 DEF ControlTypeOK, AlterRow
<1>9. CASE day < LastDay /\ day' = day + 1 /\ reply' = NoReply /\ UNCHANGED <<release, stored>>
  BY <1>1, <1>2, <1>4, <1>9 DEF ControlTypeOK
<1>10. CASE /\ release < LastRelease /\ release' = release + 1 /\ reply' = NoReply
            /\ UNCHANGED <<day, stored>>
  BY <1>1, <1>2, <1>4, <1>10 DEF ControlTypeOK
<1>11. CASE UNCHANGED ControlVars
  BY <1>11 DEF ControlVars, ControlTypeOK
<1> QED BY <1>5, <1>6, <1>7, <1>8, <1>9, <1>10, <1>11 DEF ControlNext

LEMMA ControlsAreTyped == ControlInit => ControlTypeOK
<1> SUFFICES ASSUME ControlInit PROVE ControlTypeOK
  OBVIOUS
<1>1. LastDay \in Nat \ {0} /\ LastRelease \in Nat \ {0}
  <2>1. {LastDay, LastRelease} \subseteq Nat \ {0}
    BY ControlAssumption
  <2> QED BY <2>1
<1>2. NoReply.kind = "none"
  BY DEF NoReply
<1> QED BY <1>1, <1>2 DEF ControlInit, ControlTypeOK
=============================================================================
