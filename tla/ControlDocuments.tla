--------------------------- MODULE ControlDocuments ---------------------------
(* The control documents of an assessment: how the service derives entries  *)
(* for the registries (rightsgate/api.py with consent.py, image_registry.py *)
(* and watermark.py), how the validators read registries, licences, policy  *)
(* and request as people typed them, and what an idempotency key is bound   *)
(* to (execution_fingerprint and the checks of store.py on a stored row).   *)
(* A typed value is a pair: its word, "" when it has none, and how it was   *)
(* typed: "plain", "cased" in other case, or "padded" with blanks.  A list  *)
(* of typed values is the set of them; a list of entries stays a sequence.  *)
(* The attempts, leases and failures of one key are AssessmentStore's.      *)
EXTENDS PublicationPolicy, SequencesExt

CONSTANTS
  TerritoryCodes,      \* the words that have two letters
  Enrolments,          \* references people upload, each with how they describe it
  Dossiers,            \* requests with their registries, licences and policies
  MaxControlEntries,   \* entries that fit into a control document
  LastRelease,         \* releases of the service, which change its versions
  LastDay

VARIABLES
  day, release,
  stored,      \* the row of the key
  reply        \* the last answer, and what it answers

ControlVars == <<day, release, stored, reply>>

NoRow == [dossier |-> "none"]
NoReply == [kind |-> "none"]

-----------------------------------------------------------------------------
(* What a document is before it is read: the fields of the models, whose    *)
(* lists and values are still as they were typed.                           *)
IsRecord(r, fields) == r = [f \in fields |-> r[f]]
IsList(entries) == entries \in Seq(ToSet(entries))

ScopeFields == {"offset", "from", "until", "territories", "channels", "uses"}
RuleParts == {"channel", "audience", "brand", "territory"}

IsScope(s) == IsRecord(s, ScopeFields)
IsLicence(l) == IsRecord(l, ScopeFields \cup {"id", "state", "references"})
IsTemplate(t) ==
  /\ IsRecord(t, {"id", "modality", "file", "look", "tolerance", "consent"})
  /\ t.modality \in {"likeness", "voice"} /\ IsScope(t.consent)
IsProfile(p) ==
  /\ IsRecord(p, {"id", "look", "tolerance", "boxed", "small", "brands"})
  /\ p.boxed \in BOOLEAN /\ p.small \in BOOLEAN
IsRule(r) ==
  IsRecord(r, {"id", "effect", "provenance", "rights", "scope"}) /\ IsRecord(r.scope, RuleParts)
IsPolicy(p) ==
  /\ IsRecord(p, {"id", "allowed", "required", "rules", "requireProvenance", "requireClearance",
                  "blockTampered", "blockUnlicensed", "blockUnconsented"})
  /\ IsRecord(p.allowed, RuleParts)
  /\ IsList(p.rules) /\ \A r \in ToSet(p.rules) : IsRule(r)
IsRequest(q) ==
  /\ IsRecord(q, {"asset", "representations", "context"})
  /\ IsRecord(q.context, {"policy", "territories", "channel", "audience", "brand", "use"})

(* A registry that may be left out is a set of at most one.                 *)
IsDossier(d) ==
  /\ IsRequest(d.request) /\ IsPolicy(d.policy) /\ IsList(d.references)
  /\ IsList(d.licences) /\ \A l \in ToSet(d.licences) : IsLicence(l)
  /\ \A w, v \in d.watermarks : w = v
  /\ \A w \in d.watermarks : IsList(w) /\ \A p \in ToSet(w) : IsProfile(p)
  /\ \A c, b \in d.consents : c = b
  /\ \A c \in d.consents : IsList(c) /\ \A t \in ToSet(c) : IsTemplate(t)

ASSUME ControlAssumption ==
  /\ "" \notin TerritoryCodes /\ {LastDay, LastRelease} \subseteq Nat \ {0}
  /\ \A e \in Enrolments : IsScope(e.draft.consent)
  /\ \A d \in Dossiers : IsDossier(d)

-----------------------------------------------------------------------------
(* Typed values and what the validators make of them *)

AsTyped(words) == {<<w, "plain">> : w \in words}
WordsOf(values) == {v[1] : v \in values}

(* strip, casefold, drop what is blank                                      *)
NormalText(values) == AsTyped(WordsOf(values) \ {""})
TextAccepted(values) == NormalText(values) # {}

(* Only the case of a territory is changed, so one with blanks around it is *)
(* refused; a regulatory rule strips its own.                               *)
NormalTerritories(values) ==
  {<<v[1], IF v[2] = "cased" THEN "plain" ELSE v[2]>> : v \in values}
TerritoriesAccepted(values) ==
  NormalTerritories(values) \subseteq AsTyped(TerritoryCodes \cup {"*"})

ScopeAccepted(scope) ==
  /\ scope.offset # "none"
  /\ TerritoriesAccepted(scope.territories)
  /\ TextAccepted(scope.channels) /\ TextAccepted(scope.uses)
  /\ scope.from < scope.until

NormalScope(scope) ==
  [scope EXCEPT !.territories = NormalTerritories(@),
                !.channels = NormalText(@), !.uses = NormalText(@)]

NoRepeats(list) == \A i, j \in DOMAIN list : list[i] = list[j] => i = j
IdsOf(entries) == [i \in DOMAIN entries |-> entries[i].id]

-----------------------------------------------------------------------------
(* The documents.  Ids are unique in an accepted list, so the payload that  *)
(* is sorted by id is the set of its entries.                               *)

Fits(entries) == Len(entries) <= MaxControlEntries

RegistryAccepted(references) == NoRepeats(IdsOf(references))
RegistryPayload(references) == ToSet(references)

LicencesAccepted(licences) ==
  /\ NoRepeats(IdsOf(licences))
  /\ \A l \in ToSet(licences) : NoRepeats(l.references) /\ ScopeAccepted(l)

NormalLicence(licence) == [NormalScope(licence) EXCEPT !.references = ToSet(@)]
LicencesPayload(licences) == {NormalLicence(l) : l \in ToSet(licences)}

TemplateAccepted(template) ==
  template.tolerance \in 0 .. 64 /\ ScopeAccepted(template.consent)
NormalTemplate(template) == [template EXCEPT !.consent = NormalScope(@)]

ConsentsAccepted(templates) ==
  /\ NoRepeats(IdsOf(templates))
  /\ \A t \in ToSet(templates) : TemplateAccepted(t)
ConsentsPayload(templates) == {NormalTemplate(t) : t \in ToSet(templates)}

ProfileAccepted(profile) ==
  /\ profile.tolerance \in 0 .. 64 /\ profile.boxed /\ profile.small
  /\ TextAccepted(profile.brands)
NormalProfile(profile) == [profile EXCEPT !.brands = NormalText(@)]

WatermarksAccepted(profiles) ==
  /\ NoRepeats(IdsOf(profiles))
  /\ \A p \in ToSet(profiles) : ProfileAccepted(p)
WatermarksPayload(profiles) == {NormalProfile(p) : p \in ToSet(profiles)}

RuleAccepted(rule) ==
  /\ \A r \in {"channel", "audience", "brand"} : TextAccepted(rule.scope[r])
  /\ NormalText(rule.scope.territory) # {}
  /\ NormalText(rule.scope.territory) \subseteq AsTyped(TerritoryCodes \cup {"*"})
NormalRule(rule) ==
  [rule EXCEPT !.scope = [r \in DOMAIN rule.scope |-> NormalText(rule.scope[r])]]

(* A policy has to demand something; its rules alone are not enough.        *)
PolicyAccepted(policy) ==
  /\ \A r \in {"channel", "audience", "brand"} : TextAccepted(policy.allowed[r])
  /\ TerritoriesAccepted(policy.allowed.territory)
  /\ NoRepeats(policy.required)
  /\ NoRepeats(IdsOf(policy.rules)) /\ \A r \in ToSet(policy.rules) : RuleAccepted(r)
  /\ \/ policy.requireProvenance \/ policy.requireClearance \/ policy.blockTampered
     \/ policy.blockUnlicensed \/ policy.blockUnconsented \/ policy.required # <<>>

PolicyPayload(policy) ==
  [policy EXCEPT
     !.allowed = [r \in DOMAIN policy.allowed |->
                    IF r = "territory" THEN NormalTerritories(policy.allowed[r])
                                       ELSE NormalText(policy.allowed[r])],
     !.required = ToSet(@), !.rules = {NormalRule(r) : r \in ToSet(@)}]

(* The request: one original among the representations, which is the asset. *)
RequestAccepted(request) ==
  /\ NoRepeats(IdsOf(request.representations))
  /\ \E o \in ToSet(request.representations) :
        /\ o.kind = "ORIGINAL" /\ o.bytes = request.asset
        /\ \A r \in ToSet(request.representations) : r.kind = "ORIGINAL" => r = o
  /\ request.context.territories # {}
  /\ NormalTerritories(request.context.territories) \subseteq AsTyped(TerritoryCodes)

RequestPayload(request) ==
  [request EXCEPT !.representations = ToSet(@),
                  !.context.territories = NormalTerritories(@)]

-----------------------------------------------------------------------------
(* Deriving entries.  An upload fits the size limit, is sound when its      *)
(* format's own checks and limits let it pass, and complete when its pixels *)
(* or samples can be read to the end.  "look" is the perceptual hash or the *)
(* acoustic fingerprint, a set of bits; "file" stands for the bytes' digest.*)
(* A mark has to be small: 4096 pixels at most on either side.               *)

(* The type an upload is taken for.  PDF and pictures show in their first   *)
(* bytes what they are, and the extension has to say the same; of the other *)
(* formats the extension is believed.                                       *)
validate_upload(upload) ==
  IF ~upload.fits \/ ~upload.sound THEN "INVALID"
  ELSE IF upload.extension \in {"TEXT", "DOCX", "DATASET", "VIDEO"} /\ upload.magic # "PDF"
  THEN upload.extension
  ELSE IF upload.magic # upload.extension THEN "INVALID"
  ELSE IF upload.magic = "PDF" THEN "PDF"
  ELSE IF upload.magic \in {"PNG", "JPEG"} THEN "IMAGE" ELSE "INVALID"

IsPicture(upload) == validate_upload(upload) = "IMAGE"
HasSpeech(upload) == upload.magic = "WAV" /\ upload.fits /\ upload.sound
IsSpeech(upload) == HasSpeech(upload) /\ upload.extension = "WAV"

Refused(status) == [kind |-> "refused", status |-> status]
Derived(what, entry) == [kind |-> "derived", what |-> what, entry |-> entry]

build_registry_image(upload, draft) ==
  [id |-> draft.id, file |-> upload.file, look |-> upload.look, title |-> draft.title]
build_template(modality, upload, draft) ==
  [id |-> draft.id, modality |-> modality, file |-> upload.file, look |-> upload.look,
   tolerance |-> draft.tolerance, consent |-> NormalScope(draft.consent)]
build_visible_watermark_profile(upload, draft) ==
  [id |-> draft.id, look |-> upload.look, tolerance |-> draft.tolerance,
   boxed |-> draft.boxed, small |-> upload.small, brands |-> NormalText(draft.brands)]

(* A picture that is cut off passes validation and fails in the builder.    *)
derive_image_reference(upload, draft) ==
  IF ~IsPicture(upload) THEN Refused(400)
  ELSE IF ~upload.complete \/ draft.title = "" THEN Refused(422)
  ELSE Derived("reference", build_registry_image(upload, draft))

derive_likeness_template(upload, draft) ==
  LET template == build_template("likeness", upload, draft)
  IN IF IsPicture(upload) /\ upload.complete /\ TemplateAccepted(template)
     THEN Derived("template", template) ELSE Refused(422)

derive_voice_template(upload, draft) ==
  LET template == build_template("voice", upload, draft)
  IN IF ScopeAccepted(draft.consent) /\ ~upload.fits THEN Refused(413)
     ELSE IF HasSpeech(upload) /\ upload.complete /\ TemplateAccepted(template)
     THEN Derived("template", template) ELSE Refused(422)

derive_visible_watermark_profile(upload, draft) ==
  LET profile == build_visible_watermark_profile(upload, draft)
  IN IF IsPicture(upload) /\ upload.complete /\ ProfileAccepted(profile)
     THEN Derived("profile", profile) ELSE Refused(422)

Derivations ==
  UNION {{derive_image_reference(e.upload, e.draft),
          derive_likeness_template(e.upload, e.draft),
          derive_voice_template(e.upload, e.draft),
          derive_visible_watermark_profile(e.upload, e.draft)} : e \in Enrolments}

DeriveEntry == reply' \in Derivations /\ UNCHANGED stored

-----------------------------------------------------------------------------
(* A submission *)

InputsAgree(d) ==
  /\ d.request.context.policy = d.policy.id
  /\ UNION {ToSet(l.references) : l \in ToSet(d.licences)} \subseteq ToSet(IdsOf(d.references))

(* The checks in the order of the endpoint, each with the answer of a       *)
(* dossier that fails it first.                                             *)
Checks(d) ==
  <<<<d.distance \in 0 .. 64, 422>>, <<RequestAccepted(d.request), 422>>,
    <<Fits(d.references), 413>>, <<RegistryAccepted(d.references), 422>>,
    <<Fits(d.licences), 413>>, <<LicencesAccepted(d.licences), 422>>,
    <<PolicyAccepted(d.policy), 422>>,
    <<\A w \in d.watermarks : Fits(w), 413>>,
    <<\A w \in d.watermarks : WatermarksAccepted(w), 422>>,
    <<\A c \in d.consents : Fits(c), 413>>,
    <<\A c \in d.consents : ConsentsAccepted(c), 422>>,
    <<InputsAgree(d), 422>>,
    <<IsPicture(d.request.asset) \/ IsSpeech(d.request.asset), 400>>>>

FailedChecks(d) == LET checks == Checks(d) IN {k \in DOMAIN checks : ~checks[k][1]}
Acceptable == {d \in Dossiers : FailedChecks(d) = {}}
Refusals == {Refused(Checks(d)[Min(FailedChecks(d))][2]) : d \in Dossiers \ Acceptable}

(* Slip: a registry left out counts as an empty one.                        *)
fingerprint_of_entries(d, version) ==
  [version |-> version, request |-> RequestPayload(d.request),
   references |-> RegistryPayload(d.references), licences |-> LicencesPayload(d.licences),
   policy |-> PolicyPayload(d.policy), distance |-> d.distance,
   watermarks |-> UNION {WatermarksPayload(w) : w \in d.watermarks},
   consents |-> UNION {ConsentsPayload(c) : c \in d.consents}]

execution_fingerprint(d, version) ==
  [version |-> version, request |-> RequestPayload(d.request),
   references |-> RegistryPayload(d.references), licences |-> LicencesPayload(d.licences),
   policy |-> PolicyPayload(d.policy), distance |-> d.distance,
   watermarks |-> {WatermarksPayload(w) : w \in d.watermarks},
   consents |-> {ConsentsPayload(c) : c \in d.consents}]

(* What the matchers and the evaluators make of the documents on a day.     *)
Apart(look, other) == Cardinality((look \ other) \cup (other \ look))

InWords(scope) ==
  [scope EXCEPT !.territories = WordsOf(@), !.channels = WordsOf(@), !.uses = WordsOf(@)]
ContextInWords(request) == [request.context EXCEPT !.territories = WordsOf(@)]
PolicyInWords(policy) ==
  [policy EXCEPT !.allowed = [r \in DOMAIN policy.allowed |-> WordsOf(policy.allowed[r])],
                 !.rules = {[r EXCEPT !.scope = [s \in DOMAIN r.scope |-> WordsOf(r.scope[s])]]
                            : r \in policy.rules}]

MatchingReferences(d, asset) ==
  {r \in RegistryPayload(d.references) :
     IsPicture(asset) /\ (r.file = asset.file \/ Apart(r.look, asset.look) <= d.distance)}

MatchingTemplates(d, asset) ==
  {t \in UNION {ConsentsPayload(c) : c \in d.consents} :
     /\ t.modality = IF IsPicture(asset) THEN "likeness" ELSE "voice"
     /\ t.file = asset.file \/ Apart(t.look, asset.look) <= t.tolerance}

ProfilesForBrand(d, brand) ==
  {p \in UNION {WatermarksPayload(w) : w \in d.watermarks} : Within({brand}, WordsOf(p.brands))}

execute_rightsgate_assessment(d, version, on) ==
  LET asset == d.request.asset
      context == ContextInWords(RequestPayload(d.request))
      licences == {InWords(l) : l \in LicencesPayload(d.licences)}
      unlicensed == {r \in MatchingReferences(d, asset) :
                       CoveringLicences(r.id, licences, context, on) = {}}
      persons == MatchingTemplates(d, asset)
      unconsented == {t \in persons : ~ScopeCovers(InWords(t.consent), context, on)}
      marks == {p \in ProfilesForBrand(d, context.brand) : Apart(p.look, asset.look) > p.tolerance}
      provenance == IF IsPicture(asset) /\ marks # {}
                    THEN Assessed("PARTIAL", "TAMPERED", 100)
                    ELSE Assessed("PARTIAL", "UNKNOWN", 0)
      rights == IF unlicensed \cup unconsented # {}
                THEN Assessed("COMPLETE", "POLICY_CONFLICT", 100)
                ELSE Assessed("PARTIAL", "UNKNOWN", 0)
      lanes == IF IsSpeech(asset) THEN {"voice-consent" : c \in d.consents}
               ELSE {"likeness-consent" : c \in d.consents} \cup {"watermark" : w \in d.watermarks}
      components == {Component(id, "AVAILABLE") : id \in lanes}
  IN [references |-> Ids(MatchingReferences(d, asset)), persons |-> Ids(persons),
      version |-> version,
      deployment |-> EvaluatePublicationPolicy(
                       context, PolicyInWords(PolicyPayload(d.policy)),
                       provenance, rights, unlicensed # {}, components)]

(* The assessment is stored with its commitment, the request with its own.  *)
NewRow(d) ==
  LET made == execute_rightsgate_assessment(d, release, day)
  IN [dossier |-> d, fingerprint |-> execution_fingerprint(d, release),
      request |-> "intact", assessment |-> made, commitment |-> made, at |-> day]

StoredRequestValid(row) == row.request = "intact"
StoredAssessmentValid(row) == row.assessment = row.commitment

Answered(kind, d, assessment) == [kind |-> kind, dossier |-> d, assessment |-> assessment]

SubmitDossier ==
  \/ reply' \in Refusals /\ UNCHANGED stored
  \/ \E d \in Acceptable :
       /\ stored = NoRow
       /\ stored' = NewRow(d)
       /\ reply' = Answered("executed", d, stored'.assessment)
  \/ \E d \in Acceptable :
       /\ stored # NoRow
       /\ reply' = IF ~StoredRequestValid(stored) THEN Refused(500)
                   ELSE IF stored.fingerprint # execution_fingerprint(d, release)
                   THEN Answered("conflict", d, "none")
                   ELSE IF ~StoredAssessmentValid(stored) THEN Refused(500)
                   ELSE Answered("replayed", d, stored.assessment)
       /\ UNCHANGED stored

get_assessment_record ==
  /\ reply' = IF stored = NoRow THEN Refused(404)
              ELSE IF StoredRequestValid(stored) /\ StoredAssessmentValid(stored)
              THEN Answered("read", stored.dossier, stored.assessment)
              ELSE Refused(500)
  /\ UNCHANGED stored

(* One stored document is altered beside the service.                       *)
AlterRow ==
  /\ stored # NoRow /\ StoredRequestValid(stored) /\ StoredAssessmentValid(stored)
  /\ \/ stored' = [stored EXCEPT !.request = "altered"]
     \/ stored' = [stored EXCEPT !.assessment.deployment.decision = "GO"]
  /\ reply' = NoReply

ControlInit == day = 1 /\ release = 1 /\ stored = NoRow /\ reply = NoReply

ControlNext ==
  \/ /\ DeriveEntry \/ SubmitDossier \/ get_assessment_record \/ AlterRow
     /\ UNCHANGED <<day, release>>
  \/ day < LastDay /\ day' = day + 1 /\ reply' = NoReply /\ UNCHANGED <<release, stored>>
  \/ /\ release < LastRelease /\ release' = release + 1 /\ reply' = NoReply
     /\ UNCHANGED <<day, stored>>

-----------------------------------------------------------------------------
(* Properties *)

(* The shape of the row and of what is handed out.                          *)
ControlTypeOK ==
  /\ day \in 1 .. LastDay /\ release \in 1 .. LastRelease
  /\ stored # NoRow => /\ stored.dossier \in Dossiers /\ stored.at \in 1 .. day
                       /\ stored.request \in {"intact", "altered"}
  /\ reply.kind \in {"none", "refused", "derived", "executed", "replayed", "conflict", "read"}

(* Two dossiers say the same when they differ at most in the order of their *)
(* lists and in how their words are typed.  Times are not normalised: the   *)
(* same moment written with another offset from UTC is something else.      *)
SameWords(v, w) == WordsOf(v) \ {""} = WordsOf(w) \ {""}

SameScope(s, t) ==
  /\ s.from = t.from /\ s.until = t.until /\ s.offset = t.offset
  /\ \A part \in {"territories", "channels", "uses"} : SameWords(s[part], t[part])

SameEntries(a, b, Same(_, _)) ==
  /\ Len(a) = Len(b)
  /\ \A i \in DOMAIN a : \E j \in DOMAIN b : a[i].id = b[j].id /\ Same(a[i], b[j])

SameLicence(l, m) ==
  l.state = m.state /\ ToSet(l.references) = ToSet(m.references) /\ SameScope(l, m)
SameTemplate(t, u) ==
  /\ t.modality = u.modality /\ t.file = u.file /\ t.look = u.look
  /\ t.tolerance = u.tolerance /\ SameScope(t.consent, u.consent)
SameProfile(p, q) ==
  p.look = q.look /\ p.tolerance = q.tolerance /\ SameWords(p.brands, q.brands)
SameRule(r, s) ==
  /\ r.effect = s.effect /\ r.provenance = s.provenance /\ r.rights = s.rights
  /\ \A part \in DOMAIN r.scope : SameWords(r.scope[part], s.scope[part])

SamePolicy(p, q) ==
  /\ \A part \in DOMAIN p.allowed : SameWords(p.allowed[part], q.allowed[part])
  /\ ToSet(p.required) = ToSet(q.required)
  /\ SameEntries(p.rules, q.rules, SameRule)
  /\ \A switch \in {"id", "blockTampered", "blockUnlicensed", "blockUnconsented",
                     "requireProvenance", "requireClearance"} : p[switch] = q[switch]

SaysTheSame(d, e) ==
  /\ d.distance = e.distance /\ d.request.asset = e.request.asset
  /\ ToSet(d.request.representations) = ToSet(e.request.representations)
  /\ SameWords(d.request.context.territories, e.request.context.territories)
  /\ [d.request.context EXCEPT !.territories = {}] = [e.request.context EXCEPT !.territories = {}]
  /\ SameEntries(d.references, e.references, LAMBDA r, s : r = s)
  /\ SameEntries(d.licences, e.licences, SameLicence)
  /\ SamePolicy(d.policy, e.policy)
  /\ Cardinality(d.watermarks) = Cardinality(e.watermarks)
  /\ Cardinality(d.consents) = Cardinality(e.consents)
  /\ \A w \in d.watermarks, v \in e.watermarks : SameEntries(w, v, SameProfile)
  /\ \A c \in d.consents, b \in e.consents : SameEntries(c, b, SameTemplate)

HandedOver == reply.kind \in {"executed", "replayed", "read"}

(* "Bind idempotency to every governed input": an assessment that is handed *)
(* out for some documents is the one they give on the day it was made, and  *)
(* a retry gets it from the release that made it only; documents that say   *)
(* the same are not in conflict, however they are listed and typed.         *)
BoundToTheInputs ==
  /\ HandedOver => reply.assessment = execute_rightsgate_assessment(
                                        reply.dossier, reply.assessment.version, stored.at)
  /\ reply.kind = "replayed" => reply.assessment.version = release
  /\ reply.kind = "conflict" =>
       stored.commitment.version # release \/ ~SaysTheSame(reply.dossier, stored.dossier)

(* Whatever the tolerances, an asset whose very bytes were enrolled is      *)
(* recognised, and without any licence for it a policy that blocks          *)
(* unlicensed matches blocks it.                                            *)
EnrolledIsRecognised ==
  HandedOver =>
    LET d == reply.dossier
        asset == d.request.asset
        own == {r \in ToSet(d.references) : IsPicture(asset) /\ r.file = asset.file}
        persons == {t \in UNION {ToSet(c) : c \in d.consents} :
                      t.file = asset.file /\ (t.modality = "voice" <=> IsSpeech(asset))}
        licensed == UNION {ToSet(l.references) : l \in ToSet(d.licences)}
    IN /\ Ids(own) \subseteq reply.assessment.references
       /\ Ids(persons) \subseteq reply.assessment.persons
       /\ d.policy.blockUnlicensed /\ ~ Ids(own) \subseteq licensed
            => reply.assessment.deployment.decision = "BLOCK"

(* What the service derives it accepts in a registry, and reading it there  *)
(* changes nothing of what it commits to.                                   *)
DerivedIsAccepted ==
  reply.kind = "derived" =>
    LET alone == <<reply.entry>>
    IN CASE reply.what = "reference" -> RegistryAccepted(alone)
         [] reply.what = "template" ->
              ConsentsAccepted(alone) /\ ConsentsPayload(alone) = {reply.entry}
         [] reply.what = "profile" ->
              WatermarksAccepted(alone) /\ WatermarksPayload(alone) = {reply.entry}

ControlsAreBound == BoundToTheInputs /\ EnrolledIsRecognised /\ DerivedIsAccepted
=============================================================================
