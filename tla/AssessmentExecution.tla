-------------------------- MODULE AssessmentExecution --------------------------
(* The trusted executor (rightsgate/execution.py): one assessment from the  *)
(* request to the published record.  The stages run in sequence; what the   *)
(* detectors observe and what the governed registries contain is arbitrary. *)
(* AssessmentStore models when an execution runs and where its result goes. *)
EXTENDS DetectorLanes, PublicationPolicy

CONSTANTS
  Requests,           \* the requests with their registries and policies
  Manifests,          \* what the C2PA reader may report
  ImageObservations,  \* what the detectors may see in an image or a frame
  MaxFrames           \* most frames the deep analysis selects

ASSUME ExecutionAssumption == MaxFrames \in Nat \ {0}

(* What the registries' own validators have seen to: ids are unique and      *)
(* validity is a span of time.  Either optional registry is one or none.     *)
ASSUME RegistriesAssumption ==
  \A r \in Requests :
    /\ r.at \in Int
    /\ UniqueIds(r.licences) /\ UniqueIds(UNION r.consents) /\ UniqueIds(UNION r.watermarks)
    /\ \A x, y \in r.consents : x = y
    /\ \A x, y \in r.watermarks : x = y
    /\ \A terms \in r.licences \cup {t.consent : t \in UNION r.consents} :
          terms.from \in Int /\ terms.until \in Int

VARIABLES
  pc,          \* stage of the execution
  request,     \* the request, its registries and its policy
  lanes,       \* what the media lanes returned
  licence,     \* result of the licence evaluator
  provenance, rights,   \* combined assessments
  deployment   \* result of the policy

vars == <<pc, request, lanes, licence, provenance, rights, deployment>>

NoLanes ==
  [provenance |-> <<>>, matching |-> Unavailable, localizer |-> "AVAILABLE",
   consents |-> {}, components |-> {}, evidence |-> {}, claims |-> {}]

Init ==
  /\ pc = "received"
  /\ request \in Requests
  /\ lanes = NoLanes
  /\ licence = EvaluateCandidateLicences({}, {}, request.context, request.at)
  /\ provenance = Unavailable /\ rights = Unavailable
  /\ deployment = [decision |-> "REVIEW", citations |-> {}, state |-> "PARTIAL"]

-----------------------------------------------------------------------------
(* validate_execution_asset and validate_governed_inputs *)

AssetBound(asset) ==
  /\ asset.declared.kind \in {"IMAGE", "VIDEO", "AUDIO"}
  /\ asset.declared = asset.actual

GovernedInputsAgree(r) ==
  /\ r.context.policy = r.policy.id
  /\ UNION {l.references : l \in r.licences} \subseteq r.references

Validate ==
  /\ pc = "received"
  /\ pc' = IF AssetBound(request.asset) /\ GovernedInputsAgree(request)
           THEN "analysing" ELSE "rejected"
  /\ UNCHANGED <<request, lanes, licence, provenance, rights, deployment>>

-----------------------------------------------------------------------------
(* The media lanes.  A lane whose registry was not supplied does not run.   *)

Media(kind) == pc = "analysing" /\ request.asset.declared.kind = kind

WatermarkLanes(o, intact) ==
  {VerifyVisibleWatermarks(w, request.context.brand, o, intact) : w \in request.watermarks}

ConsentLanes(modality, matches) ==
  {AnalyzeConsent(modality, matches \cap templates, request.context, request.at) :
     templates \in request.consents}

(* The likeness matcher has no failure result: it raises on broken pixels.  *)
LikenessRaises(o) == request.consents # {} /\ o.decoded = "no"

ImageLanes(manifest, o, intact, likenesses) ==
  LET c2pa == VerifyC2PA(manifest)
      forensics == InspectImageForensics(o)
      match == MatchReferenceImage(o)
      local == LocalizeReferenceImages(o)
      marks == WatermarkLanes(o, intact)
      consents == ConsentLanes("likeness-consent", likenesses)
      all == {c2pa, forensics, match, local} \cup marks \cup consents
  IN [provenance |-> <<c2pa.assessment, forensics.assessment>>
                       \o (IF marks = {} THEN <<>>
                           ELSE <<(CHOOSE w \in marks : TRUE).assessment>>),
      matching   |-> match.assessment,
      localizer  |-> local.component.state,
      consents   |-> consents,
      components |-> {x.component : x \in all},
      evidence   |-> UNION {x.evidence : x \in all},
      claims     |-> UNION {x.claims : x \in all}]

AnalyseImage ==
  /\ Media("IMAGE")
  /\ \E manifest \in Manifests, o \in ImageObservations :
     \E intact \in SUBSET Ids(UNION request.watermarks),
        likenesses \in SUBSET UNION request.consents :
        IF LikenessRaises(o)
        THEN pc' = "failed" /\ UNCHANGED lanes
        ELSE pc' = "assessing" /\ lanes' = ImageLanes(manifest, o, intact, likenesses)
  /\ UNCHANGED <<request, licence, provenance, rights, deployment>>

(* Frames the budget leaves out degrade the timeline component only.        *)
VideoLanes(manifest, frames, truncated) ==
  LET c2pa == VerifyC2PA(manifest)
      forensics == [i \in DOMAIN frames |-> InspectImageForensics(frames[i])]
      match == [i \in DOMAIN frames |-> MatchReferenceImage(frames[i])]
      local == [i \in DOMAIN frames |-> LocalizeReferenceImages(frames[i])]
      origins == [i \in DOMAIN frames |-> forensics[i].assessment]
      matches == [i \in DOMAIN frames |-> match[i].assessment]
  IN [provenance |-> <<c2pa.assessment, AggregateForensics(origins)>>,
      matching   |-> AggregateImageMatches(matches),
      localizer  |-> AggregateComponent(local).state,
      consents   |-> {},
      components |-> {c2pa.component, AggregateComponent(forensics),
                      AggregateComponent(match), AggregateComponent(local),
                      Component("timeline", IF truncated THEN "DEGRADED" ELSE "AVAILABLE")},
      evidence   |-> c2pa.evidence \cup FrameEvidence(forensics)
                       \cup FrameEvidence(match) \cup FrameEvidence(local),
      claims     |-> c2pa.claims \cup FrameClaims(forensics)
                       \cup FrameClaims(match) \cup FrameClaims(local)]

AnalyseVideo ==
  /\ Media("VIDEO")
  /\ \E manifest \in Manifests, n \in 1 .. MaxFrames, truncated \in BOOLEAN :
     \E frames \in [1 .. n -> ImageObservations] :
        lanes' = VideoLanes(manifest, frames, truncated)
  /\ pc' = "assessing"
  /\ UNCHANGED <<request, licence, provenance, rights, deployment>>

DeclaredUnavailable(id) == Component(id, "UNAVAILABLE")

AudioLanes(manifest, voices) ==
  LET c2pa == VerifyC2PA(manifest)
      consents == ConsentLanes("voice-consent", voices)
      all == {c2pa, AudioLane} \cup consents
  IN [provenance |-> <<c2pa.assessment, AudioLane.assessment>>,
      matching   |-> AudioRights,
      localizer  |-> "UNAVAILABLE",
      consents   |-> consents,
      components |-> {x.component : x \in all}
                       \cup (IF consents = {} THEN {DeclaredUnavailable("voice-consent")}
                             ELSE {}),
      evidence   |-> UNION {x.evidence : x \in all},
      claims     |-> UNION {x.claims : x \in all}]

(* The voice matcher raises on a silent or overlong stream.                 *)
AnalyseAudio ==
  /\ Media("AUDIO")
  /\ \E manifest \in Manifests, usable \in BOOLEAN :
     \E voices \in SUBSET UNION request.consents :
        IF request.consents # {} /\ ~usable
        THEN pc' = "failed" /\ UNCHANGED lanes
        ELSE pc' = "assessing" /\ lanes' = AudioLanes(manifest, voices)
  /\ UNCHANGED <<request, licence, provenance, rights, deployment>>

-----------------------------------------------------------------------------
(* Combining the lanes *)

(* Slip: tampering is only one more verdict, weighed by its confidence.     *)
CombineByConfidence(assessments) ==
  IF Conclusive(assessments) = {} THEN Assessed(CombinedState(assessments), "UNKNOWN", 0)
  ELSE [Strongest(assessments) EXCEPT !.state = CombinedState(assessments)]

CombineProvenance(assessments) ==
  LET state == CombinedState(assessments)
      tampered == {i \in DOMAIN assessments : assessments[i].verdict = "TAMPERED"}
  IN IF tampered # {} THEN Assessed(state, "TAMPERED", 100)
     ELSE IF Conclusive(assessments) = {} THEN Assessed(state, "UNKNOWN", 0)
     ELSE [Strongest(assessments) EXCEPT !.state = state]

(* Slip: an asset whose candidates are all licensed counts as cleared.      *)
CombineRightsClearing(matching, localizer, result) ==
  IF result.conflict THEN Assessed("COMPLETE", "POLICY_CONFLICT", 100)
  ELSE IF result.candidates # {} THEN Assessed("COMPLETE", "CLEAR", 80)
  ELSE Assessed(matching.state, "UNKNOWN", 0)

CombineRights(matching, localizer, result) ==
  IF matching.state = "UNAVAILABLE" /\ localizer # "AVAILABLE" THEN Unavailable
  ELSE IF result.conflict THEN Assessed("COMPLETE", "POLICY_CONFLICT", 100)
  ELSE IF result.candidates # {} THEN Assessed("PARTIAL", "POTENTIAL_EXPOSURE", 80)
  ELSE Assessed(matching.state, "UNKNOWN", 0)

CombineConsentRights(base, results) ==
  IF \E c \in results : c.conflict THEN Assessed("COMPLETE", "POLICY_CONFLICT", 80)
  ELSE IF (\E c \in results : c.subjects # {}) /\ base.verdict # "POLICY_CONFLICT"
       THEN Assessed("PARTIAL", "POTENTIAL_EXPOSURE", 80)
       ELSE base

(* For audio the parser's own abstention stands in for the image lanes,     *)
(* which is what CombineRights makes of it as well.                         *)
AssessRights ==
  /\ pc = "assessing"
  /\ LET result == EvaluateCandidateLicences(
                     lanes.evidence, request.licences, request.context, request.at)
     IN /\ licence' = result
        /\ rights' = CombineConsentRights(
                       CombineRights(lanes.matching, lanes.localizer, result),
                       lanes.consents)
  /\ provenance' = CombineProvenance(lanes.provenance)
  /\ pc' = "deciding"
  /\ UNCHANGED <<request, lanes, deployment>>

-----------------------------------------------------------------------------
(* The decision and the assembled assessment *)

Present ==
  lanes.components \cup {Component("executor", "AVAILABLE"), licence.component}

(* Every implemented component, and those the policy wants besides.         *)
Components ==
  Present \cup {DeclaredUnavailable(id) : id \in request.policy.required \ Ids(Present)}

Decide ==
  /\ pc = "deciding"
  /\ deployment' = EvaluatePublicationPolicy(
                     request.context, request.policy, provenance, rights,
                     licence.conflict, Components)
  /\ pc' = "publishing"
  /\ UNCHANGED <<request, lanes, licence, provenance, rights>>

AllEvidence ==
  lanes.evidence \cup licence.evidence \cup {PolicyEvidence(deployment.decision)}

AllClaims ==
  lanes.claims \cup licence.claims \cup {PolicyClaim(deployment.decision)}

(* A node or edge several items of evidence name keeps the last one's id    *)
(* and outcome; the order is that of hashed ids, so it may be any of them.  *)
LastOf(items) == CHOOSE e \in items : TRUE

Node(id, items) ==
  [id |-> id, evidence |-> {LastOf(items).id}, polarity |-> LastOf(items).polarity]

Edge(kind, from, to, items) ==
  [id |-> <<kind, from, to>>, from |-> from, to |-> to, evidence |-> {LastOf(items).id}]

Root == <<"ASSET", "asset">>
ReferenceNode(r) == <<"REFERENCE", r>>
SubjectNode(e) == <<e.component, e.subject>>

(* Slip: the graph is drawn from whole-image matches only.                  *)
WholeImageMatches ==
  {e \in AllEvidence : e.component = "image-registry" /\ e.subject # "none"}

ReferenceMatches == {e \in AllEvidence : e.kind = "REFERENCE_MATCH" /\ e.subject # "none"}
LicenceRecords == {e \in AllEvidence : e.kind = "LICENCE_RECORD" /\ e.polarity = "SUPPORTS"
                                         /\ e.subject \in {m.subject : m \in ReferenceMatches}}
ConsentRecords == {e \in AllEvidence : e.kind = "CONSENT_RECORD"}

About(items, subject) == {e \in items : e.subject = subject}
Naming(items, holder) == {e \in items : holder \in e.holders}
Holders(items) == UNION {e.holders : e \in items}

ReferenceNodes ==
  {Node(ReferenceNode(e.subject), About(ReferenceMatches, e.subject)) : e \in ReferenceMatches}

LicenceNodes ==
  {Node(<<"LICENCE", l>>, Naming(LicenceRecords, l)) : l \in Holders(LicenceRecords)}

ConsentNodes ==
  {Node(SubjectNode(e), About(ConsentRecords, e.subject)) : e \in ConsentRecords}
  \cup {Node(<<"CONSENT", c>>, Naming(ConsentRecords, c)) : c \in Holders(ConsentRecords)}

CampaignNodes ==
  {Node(<<"CAMPAIGN", request.context.use.written>>, {PolicyEvidence(deployment.decision)})}
  \cup {Node(<<"TERRITORY", t>>, {PolicyEvidence(deployment.decision)}) :
          t \in request.context.territories}

MatchEdges ==
  {Edge("CANDIDATE_MATCH", Root, ReferenceNode(e.subject),
        About(ReferenceMatches, e.subject)) : e \in ReferenceMatches}

CoverageEdges ==
  UNION {{Edge("COVERED_BY", ReferenceNode(e.subject), <<"LICENCE", l>>, {e}) :
            l \in e.holders} : e \in LicenceRecords}

ConsentEdges ==
  {Edge("SUBJECT", Root, SubjectNode(e), About(ConsentRecords, e.subject)) :
     e \in ConsentRecords}
  \cup UNION {{Edge("CONSENTED_BY", SubjectNode(e), <<"CONSENT", c>>,
                    Naming(About(ConsentRecords, e.subject), c)) :
                 c \in e.holders} : e \in ConsentRecords}

CampaignEdges ==
  LET campaign == <<"CAMPAIGN", request.context.use.written>>
      policy == {PolicyEvidence(deployment.decision)}
  IN {Edge("USED_BY", Root, campaign, policy)}
     \cup {Edge("VALID_IN", campaign, <<"TERRITORY", t>>, policy) :
             t \in request.context.territories}

BuildGraph ==
  [root  |-> Root,
   nodes |-> {[id |-> Root, evidence |-> {}, polarity |-> "NEUTRAL"]}
               \cup ReferenceNodes \cup LicenceNodes \cup ConsentNodes \cup CampaignNodes,
   edges |-> MatchEdges \cup CoverageEdges \cup ConsentEdges \cup CampaignEdges]

(* The record that is returned and stored, if the contract accepts it.      *)
Assessment ==
  [components |-> Components \cup {Component("policy-compiler", "AVAILABLE")},
   evidence |-> AllEvidence, claims |-> AllClaims, graph |-> BuildGraph,
   provenance |-> provenance, rights |-> rights, deployment |-> deployment]

Publish ==
  /\ pc = "publishing"
  /\ pc' = IF ContractAccepts(Assessment) THEN "completed" ELSE "failed"
  /\ UNCHANGED <<request, lanes, licence, provenance, rights, deployment>>

Next ==
  \/ Validate \/ AnalyseImage \/ AnalyseVideo \/ AnalyseAudio
  \/ AssessRights \/ Decide \/ Publish

Spec == Init /\ [][Next]_vars
-----------------------------------------------------------------------------
(* Properties *)

Stages == {"received", "rejected", "analysing", "assessing", "deciding",
           "publishing", "completed", "failed"}
States == {"COMPLETE", "PARTIAL", "UNAVAILABLE"}

(* The stages hold assessments and decisions of the contract's vocabulary.  *)
TypeOK ==
  /\ pc \in Stages
  /\ provenance.state \in States /\ rights.state \in States
  /\ provenance.verdict \in {"AI_GENERATED", "PARTIALLY_GENERATED", "TAMPERED", "UNKNOWN"}
  /\ deployment.decision \in {"GO", "REVIEW", "BLOCK"}

Concluded == pc \in {"publishing", "completed"}

(* No detector of this executor can clear the rights of an asset, so none   *)
(* of its assessments may say GO, however permissive the caller's policy:   *)
(* "unimplemented rights lanes prevent global clearance" (execution.py).    *)
NothingIsCleared ==
  Concluded => rights.verdict # "CLEAR" /\ deployment.decision # "GO"

(* What a licence or a grant must permit: all of the declared use, at once. *)
Permits(terms, use) ==
  /\ request.at \in terms.from .. terms.until
  /\ \A t \in request.context.territories : {t, "*"} \cap terms.territories # {}
  /\ {request.context.channel, "*"} \cap terms.channels # {}
  /\ {use, "*"} \cap terms.uses # {}

Licensed(r) ==
  {l \in request.licences : /\ r \in l.references /\ l.state = "ACTIVE"
                            /\ Permits(l, request.context.use.stripped)}

Consented(template) == Permits(template.consent, request.context.use.written)

MatchedReferences ==
  {e.subject : e \in {x \in lanes.evidence :
                        x.component \in {"image-registry", "localizer"}}} \ {"none"}

MatchedTemplates ==
  {t \in UNION request.consents :
     \E e \in lanes.evidence : e.kind = "CONSENT_RECORD" /\ e.id[3] = t.id}

(* A reference any image lane found, in any frame, that no single licence   *)
(* permits for the whole declared use is a conflict, and so is an enrolled  *)
(* person matched by a template whose grant does not permit it; either one  *)
(* blocks the release where the policy blocks on it.                        *)
UncoveredUseIsBlocked ==
  LET unlicensed == \E r \in MatchedReferences : Licensed(r) = {}
      unconsented == \E t \in MatchedTemplates : ~Consented(t)
  IN Concluded =>
       /\ rights.verdict = "POLICY_CONFLICT" <=> unlicensed \/ unconsented
       /\ unlicensed /\ request.policy.blockUnlicensed =>
            /\ deployment.decision = "BLOCK"
            /\ "rights.licence-coverage" \in deployment.citations
       /\ unconsented /\ request.policy.blockUnconsented => deployment.decision = "BLOCK"

(* One lane that reports tampering prevails over every lane that reports an *)
(* origin; else a credential's declaration prevails over the metadata and   *)
(* the watermarks, whose numeric confidences never exceed it.               *)
TamperingIsNeverOutvoted ==
  LET verdict(i) == lanes.provenance[i].verdict
      tampered == \E i \in DOMAIN lanes.provenance : verdict(i) = "TAMPERED"
  IN Concluded =>
       /\ provenance.verdict = "TAMPERED" <=> tampered
       /\ ~tampered /\ verdict(1) # "UNKNOWN" => provenance.verdict = verdict(1)
       /\ tampered /\ request.policy.blockTampered => deployment.decision = "BLOCK"

(* A rights or origin detector that failed on the asset, or on one frame,   *)
(* shows in the assessment: its dimension is not COMPLETE, unless a         *)
(* conflict has been established all the same.                              *)
Failed(ids) == \E c \in lanes.components : c.id \in ids /\ c.state # "AVAILABLE"

FailureIsNotAveragedAway ==
  Concluded =>
    /\ Failed({"c2pa", "forensics", "watermark"}) => provenance.state # "COMPLETE"
    /\ Failed({"image-registry"}) =>
         rights.state # "COMPLETE" \/ rights.verdict = "POLICY_CONFLICT"
    /\ deployment.decision = "REVIEW" /\ deployment.state = "COMPLETE" =>
         /\ provenance.state = "COMPLETE" /\ rights.state = "COMPLETE"
         /\ \A id \in request.policy.required :
               \E c \in Components : c.id = id /\ c.state = "AVAILABLE"

(* The executor never assembles a record its own contract refuses, except   *)
(* under a policy that requires the policy compiler itself; and it gives up *)
(* on an asset only when a consent matcher cannot read it.                  *)
RefusalsAreForeseen ==
  pc = "failed" =>
    \/ "policy-compiler" \in request.policy.required
    \/ lanes = NoLanes /\ request.consents # {}

(* The exposure graph shows what the rights verdict rests on: the matched   *)
(* references and no other, each joined to exactly the licences that permit *)
(* the use, and every matched person joined to the consents they gave, one  *)
(* of which is shown as covering only if a match under it is covered.       *)
GraphTellsTheRights ==
  LET graph == BuildGraph
      nodes == Ids(graph.nodes)
      edges == Ids(graph.edges)
      matched == MatchedReferences
  IN pc = "completed" =>
    /\ \A r \in request.references :
          /\ ReferenceNode(r) \in nodes <=> r \in matched
          /\ <<"CANDIDATE_MATCH", Root, ReferenceNode(r)>> \in edges <=> r \in matched
          /\ \A l \in request.licences :
                <<"COVERED_BY", ReferenceNode(r), <<"LICENCE", l.id>>>> \in edges
                  <=> r \in matched /\ l \in Licensed(r)
    /\ \A t \in MatchedTemplates : \E modality \in {"likeness-consent", "voice-consent"} :
          LET person == <<modality, t.consent.subject>> IN
          {<<"SUBJECT", Root, person>>,
           <<"CONSENTED_BY", person, <<"CONSENT", t.consent.id>>>>} \subseteq edges
    /\ \A n \in graph.nodes : n.id[1] = "CONSENT" /\ n.polarity = "SUPPORTS" =>
          \E t \in MatchedTemplates : t.consent.id = n.id[2] /\ Consented(t)
=============================================================================
