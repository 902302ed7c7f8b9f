-------------------------- MODULE MCDecisionPipelines --------------------------
EXTENDS MCAssessmentExecution, MCProofExport, DecisionPipelines

(* Words of the documents.  The last word of an identifier is what its mask *)
(* shows; "id" is shorter than the minimum lengths.                         *)
W(s) == <<"w", s, 0>>
N(s) == <<"n", s, 0>>
Text(s) == [k \in DOMAIN s |-> W(s[k])]
Ann == <<W("ann"), W("lee")>>
Phone == <<N("98200"), N("4455")>>
Plain6 == Text(<<"likes", "green", "tea", "with", "much", "milk">>)

MCCities == {W("pune")}
MCYears == {}
MCShort == {W("id"), W("of")}
MCLegalSuffixes == {W("ltd")}
MCIdentifiers == {Phone}
MCNumbers == {N("98200"), N("4455")}

Page(kind, words) == [kind |-> kind, words |-> words, row |-> 0]
Cell(row, words) == [kind |-> "text", words |-> words, row |-> row]
Candidate(origin, type, page, value, first, review) ==
  LET place == first .. first + Len(value) - 1
  IN [origin |-> origin, type |-> type, page |-> page, value |-> value, chars |-> place,
      box |-> place, conf |-> 90, review |-> review, title |-> FALSE,
      related |-> FALSE]
Visual(type, page, value, at) ==
  [Candidate("visual", type, page, value, at, "PENDING") EXCEPT !.chars = {}]
File(type, pages, candidates) ==
  [type |-> type, pages |-> pages, fps |-> 1, spoken |-> <<>>, candidates |-> candidates]

(* A letter whose second mention of a name is found by a weaker detector    *)
(* and needs a review; a phone number.                                      *)
Letter ==
  File("TEXT", <<Page("text", Ann \o Phone \o Plain6 \o Ann)>>,
    {Candidate("v5", "PERSON_NAME", 1, Ann, 1, "NOT_REQUIRED"),
     Candidate("v3", "PERSON_NAME", 1, Ann, 11, "PENDING"),
     Candidate("plain", "PHONE", 1, Phone, 3, "NOT_REQUIRED")})

(* An address and the locality that ends it are both accepted.              *)
Address ==
  LET street == Text(<<"twelve", "lake", "road", "pune">>)
  IN File("TEXT", <<Page("text", street \o Text(<<"acme", "ltd", "and", "acme">>))>>,
       {Candidate("v4", "STREET_ADDRESS", 1, street, 1, "NOT_REQUIRED"),
        Candidate("v4", "LOCALITY", 1, <<W("pune")>>, 4, "PENDING"),
        Candidate("v3", "BUILDING_NUMBER", 1, <<W("twelve")>>, 1, "PENDING"),
        Candidate("v5", "EMPLOYER", 1, Text(<<"acme", "ltd">>), 5, "PENDING")})

(* Two records; the second one has a cell of its own only.                  *)
Dataset ==
  File("DATASET", <<Cell(1, Ann), Cell(1, <<W("pune")>>), Cell(2, <<W("tea")>>), Cell(2, <<W("milk")>>)>>,
    {Candidate("field", "PERSON_NAME", 1, Ann, 1, "NOT_REQUIRED"),
     Candidate("v4", "LOCALITY", 2, <<W("pune")>>, 1, "NOT_REQUIRED")})

(* A person and a place share a name; a name occurs where nobody saw it.    *)
Namesake ==
  File("DATASET", <<Cell(1, <<W("pune")>>), Cell(2, <<W("pune")>>)>>,
    {Candidate("field", "PERSON_NAME", 1, <<W("pune")>>, 1, "NOT_REQUIRED"),
     Candidate("v4", "LOCALITY", 2, <<W("pune")>>, 1, "NOT_REQUIRED")})
Unseen ==
  File("TEXT", <<Page("text", Ann \o Plain6 \o Ann)>>,
    {Candidate("v5", "PERSON_NAME", 1, Ann, 1, "NOT_REQUIRED")})

(* A signed letter: a picture in it shows a code, or a name.                *)
SignedLetter ==
  File("DOCX", <<Page("text", Ann \o Text(<<"of", "acme">>)), Page("scan", <<<<"code", "c", 0>>, W("tea")>>)>>,
    {Candidate("structural", "PERSON_NAME", 1, Ann, 1, "NOT_REQUIRED"),
     [Candidate("v4", "PERSON_NAME", 1, Text(<<"acme">>), 4, "PENDING") EXCEPT !.title = TRUE],
     Visual("QR_CODE", 2, <<<<"code", "c", 0>>>>, 1)})
Badge ==
  File("DOCX", <<Page("text", <<W("id")>> \o Plain6), Page("scan", Ann)>>,
    {Candidate("v4", "PERSON_NAME", 2, Ann, 1, "PENDING"),
     Candidate("plain", "CASE_REFERENCE", 1, <<W("id")>>, 1, "NOT_REQUIRED")})

(* A form with a text layer, whose second page has the short name of the    *)
(* company, her mother and a city.                                          *)
Form ==
  File("PDF", <<Page("text", Ann \o Text(<<"acme", "ltd">>)), Page("text", Text(<<"acme", "bob", "pune">>))>>,
    {[Candidate("v3", "PERSON_NAME", 2, <<W("bob")>>, 2, "PENDING") EXCEPT !.related = TRUE],
     Candidate("v4", "LOCALITY", 2, <<W("pune")>>, 3, "NOT_REQUIRED"),
     Candidate("v5", "PERSON_NAME", 1, Ann, 1, "NOT_REQUIRED"),
     Candidate("v5", "EMPLOYER", 1, Text(<<"acme", "ltd">>), 3, "NOT_REQUIRED")})

(* A scan with two tax numbers, one of them on the page of a phone number.  *)
Scan ==
  LET pan == Text(<<"abcde", "f12">>) tax == Text(<<"gst", "x99">>)
  IN File("PDF", <<Page("scan", pan \o Phone), Page("scan", tax \o Text(<<"tea">>) \o pan)>>,
       {Candidate("field", "PAN_LIKE", 1, pan, 1, "NOT_REQUIRED"),
        Candidate("plain", "TAX_IDENTIFIER", 2, tax, 1, "NOT_REQUIRED"),
        Candidate("v3", "PHONE", 1, Phone, 3, "PENDING"),
        Candidate("v4", "PAN_LIKE", 2, pan, 4, "NOT_REQUIRED")})

(* A poster with a code that decodes, or not, and a face.                   *)
Poster(decodes) ==
  LET code == <<<<"code", "c", decodes>>>> face == <<<<"face", "f", 0>>>>
  IN File("IMAGE", <<Page("scan", code \o face \o Plain6)>>,
       {Visual("QR_CODE", 1, code, 1), Visual("FACE", 1, face, 2)})

(* Readings of one line by several detectors: the v5 model moves an e-mail  *)
(* address away from under the phone number it had kept out.                *)
Contested ==
  LET c(origin, type, value, first) == Candidate(origin, type, 1, value, first, "NOT_REQUIRED")
      words == Text(<<"dr", "ann", "lee", "mail", "at", "acme">>)
  IN File("TEXT", <<Page("text", words)>>,
       {c("v5", "PHONE", SubSeq(words, 3, 5), 3),
        [c("plain", "EMAIL", SubSeq(words, 3, 5), 3) EXCEPT !.conf = 80],
        c("v5", "EMAIL", SubSeq(words, 5, 6), 5),
        c("v4", "PERSON_NAME", SubSeq(words, 2, 3), 2),
        c("v5", "PERSON_NAME", SubSeq(words, 1, 2), 1)})

(* A panel that drifts over five frames, of which the first and the last are *)
(* evidence; a phone number shows up in between.  A clip with sound that     *)
(* shows a name twice at once, and a code on one frame only.                 *)
Interview ==
  LET still == Ann \o <<Background, Background>>
      drifted == <<Background>> \o Ann \o <<Background>>
  IN [File("VIDEO", <<Page("scan", still), Page("scan", still), Page("scan", still \o Phone),
                      Page("scan", drifted), Page("scan", drifted)>>,
        {Candidate("structural", "PERSON_NAME", 1, Ann, 1, "PENDING"),
         Candidate("structural", "PERSON_NAME", 5, Ann, 2, "PENDING"),
         Candidate("plain", "PHONE", 3, Phone, 5, "NOT_REQUIRED")}) EXCEPT !.fps = 2]
Doorbell ==
  LET code(decodes) == <<<<"code", "c", decodes>>>>
      door == Text(<<"bob", "tea", "bob">>)
  IN [File("VIDEO", <<Page("scan", door), Page("scan", code(1)), Page("scan", code(0))>>,
        {Candidate("v4", "PERSON_NAME", 1, <<W("bob")>>, 1, "PENDING"),
         Candidate("v4", "PERSON_NAME", 1, <<W("bob")>>, 3, "PENDING"),
         Visual("QR_CODE", 2, code(1), 1), Visual("QR_CODE", 3, code(0), 1)})
      EXCEPT !.fps = 2, !.spoken = <<W("bob")>>]

(* What identifies somebody together: in one text; in one record of a         *)
(* register, or, when an employer is dismissed, only across two.             *)
Advert ==
  LET words == Text(<<"forty", "pune", "nurse">>)
      of(type, at) == Candidate("v4", type, 1, <<words[at]>>, at, "NOT_REQUIRED")
  IN File("TEXT", <<Page("text", words)>>,
       {of("AGE", 1), of("LOCALITY", 2), of("JOB_TITLE", 3)})
Register ==
  LET of(type, page, word) == Candidate("field", type, page, <<W(word)>>, 1, "NOT_REQUIRED")
  IN File("DATASET", <<Cell(1, <<W("lake")>>), Cell(1, <<W("acme")>>), Cell(2, <<W("tea")>>)>>,
       {of("STREET_ADDRESS", 1, "lake"), of("EMPLOYER", 2, "acme"), of("EMPLOYER", 3, "tea")})

MCDocuments ==
  {Letter, Address, Dataset, Namesake, Unseen, SignedLetter, Badge, Form, Scan, Poster(0),
   Poster(1), Contested, Interview, Doorbell, Advert, Register}
MCJobs ==
  {[terms |-> {}, audience |-> "INTERNAL_OPERATIONS", enforced |-> FALSE],
   [terms |-> {"analytics"}, audience |-> "RESEARCH_PARTNER", enforced |-> TRUE],
   [terms |-> {"synthetic"}, audience |-> "PUBLIC_RELEASE", enforced |-> TRUE]}

(* Two findings in doubt: the bulk confirmation needs more than one.  The    *)
(* floor falls when both are dismissed.                                      *)
MCFindings == {"face", "name"}
MCMinimumLevel == [undismissed \in SUBSET MCFindings |-> IF undismissed = {} THEN 3 ELSE 4]

MCSettings ==
  [offline : BOOLEAN, token : Tokens, https : BOOLEAN, trust : BOOLEAN,
   networks : {{}, {"blank"}, {"gateway", "blank"}, {"universal"}, {"gateway", "malformed"}}]

MCRoutes == {<<"jobs", "j1">>, <<"jobs", "j2">>, <<"status">>}

(* A file and a later version of it, a link in its place, a document, one    *)
(* that quotes a key, one with a name from elsewhere, and what stays behind. *)
Source(path, content) == [path |-> path, content |-> content, link |-> FALSE]
AppPath == TreePath(<<"backend">>, "app", ".py")
NotesPath == TreePath(<<>>, "notes", ".md")
MCClimbingStems == {"..\\notes"}
MCSources ==
  {Source(AppPath, <<"text">>), Source(AppPath, <<"edited">>),
   [Source(AppPath, <<"text">>) EXCEPT !.link = TRUE],
   Source(NotesPath, <<"text">>), Source(NotesPath, PrivateKeyBlock),
   Source(TreePath(<<>>, "..\\notes", ".md"), <<"text">>),
   Source(TreePath(<<>>, ".env", ".local"), <<"text">>),
   Source(TreePath(<<>>, "state", ".db"), <<"text">>),
   Source(TreePath(<<".veilgraph">>, "device-ed25519", ".key"), PrivateKeyBlock),
   Source(TreePath(<<"competition", "releases">>, "release", ".zip"), <<"text">>)}

(* A poster and a cut of it whose hash is one bit away, a recording, and    *)
(* uploads with something wrong with them.                                  *)
Picture(file, look) ==
  [extension |-> "PNG", magic |-> "PNG", fits |-> TRUE, sound |-> TRUE, complete |-> TRUE,
   small |-> TRUE, file |-> file, look |-> look]
PosterFile == Picture("poster", {1, 2})
Recut == Picture("recut", {1})
Speech == [Picture("speech", {3}) EXCEPT !.extension = "WAV", !.magic = "WAV"]
Word(w) == {<<w, "plain">>}
Terms(territories, uses) ==
  [offset |-> "Z", from |-> 0, until |-> 1, territories |-> territories,
   channels |-> Word("web"), uses |-> uses]
Ad == Terms(Word("IN"), Word("ad"))
AdRetyped == [Terms({<<"IN", "cased">>}, {<<"ad", "padded">>, <<"ad", "cased">>, <<"", "padded">>})
                EXCEPT !.channels = {<<"web", "cased">>}]
PaddedAd == Terms({<<"IN", "padded">>}, Word("ad"))
Draft(id, consent, tolerance) ==
  [id |-> id, title |-> "work", consent |-> consent, tolerance |-> tolerance,
   boxed |-> TRUE, brands |-> {<<"acme", "cased">>}]
Flaws(upload) ==
  {[upload EXCEPT !.complete = FALSE], [upload EXCEPT !.sound = FALSE],
   [upload EXCEPT !.fits = FALSE], [upload EXCEPT !.small = FALSE],
   [upload EXCEPT !.extension = "TEXT"],
   [upload EXCEPT !.extension = "JPEG"], [upload EXCEPT !.magic = "PDF"],
   [upload EXCEPT !.magic = "PDF", !.extension = "PDF"], [upload EXCEPT !.extension = "other"]}
MCEnrolments ==
  {[upload |-> u, draft |-> Draft("e1", Ad, 0)] :
     u \in {PosterFile, Speech} \cup Flaws(PosterFile) \cup Flaws(Speech)}
  \cup {[upload |-> u, draft |-> d] : u \in {PosterFile, Speech},
         d \in {Draft("e1", AdRetyped, 64), Draft("e1", PaddedAd, 65),
                [Draft("e1", [Ad EXCEPT !.until = 0], 0) EXCEPT !.title = "", !.boxed = FALSE],
                [Draft("e1", [Ad EXCEPT !.offset = "none"], 0)
                   EXCEPT !.brands = {<<"", "padded">>}]}}

Ref(id, upload) == derive_image_reference(upload, Draft(id, Ad, 0)).entry
Face(id, upload, consent) == derive_likeness_template(upload, Draft(id, consent, 1)).entry
Voice(id, consent) == derive_voice_template(Speech, Draft(id, consent, 0)).entry
Mark(id, upload) == derive_visible_watermark_profile(upload, Draft(id, Ad, 0)).entry

LicenceAs(id, references, scope) ==
  [id |-> id, references |-> references, state |-> "ACTIVE", offset |-> scope.offset,
   from |-> scope.from, until |-> scope.until, territories |-> scope.territories,
   channels |-> scope.channels, uses |-> scope.uses]

AnyWord == Word("*")
AnyScope == [channel |-> AnyWord, audience |-> AnyWord, brand |-> AnyWord, territory |-> AnyWord]
Switched(on) ==
  [id |-> "p", allowed |-> AnyScope, required |-> <<>>, rules |-> <<>>,
   requireProvenance |-> on, requireClearance |-> on, blockTampered |-> on,
   blockUnlicensed |-> on, blockUnconsented |-> on]
IndiaRule == [id |-> "r1", effect |-> "BLOCK", provenance |-> {}, rights |-> {},
              scope |-> [AnyScope EXCEPT !.territory = {<<"IN", "padded">>}]]

Original(asset) == [id |-> "original", kind |-> "ORIGINAL", bytes |-> asset]
Thumb(asset) == [id |-> "thumb", kind |-> "DERIVED", bytes |-> asset]
Asked(asset) ==
  [asset |-> asset, representations |-> <<Original(asset), Thumb(asset)>>,
   context |-> [policy |-> "p", territories |-> Word("IN"), channel |-> "web",
                audience |-> "adults", brand |-> "acme",
                use |-> [written |-> "ad", stripped |-> "ad"]]]

(* A dossier, the same one in another order and another hand, what somebody *)
(* might edit in it, and what no parser takes.                              *)
Basic ==
  [request |-> Asked(PosterFile), distance |-> 0,
   references |-> <<Ref("a", PosterFile), Ref("b", Recut)>>,
   licences |-> <<LicenceAs("l1", <<"a", "b">>, Ad), LicenceAs("l2", <<"b">>, Ad)>>,
   policy |-> [Switched(TRUE) EXCEPT !.required = <<"watermark", "likeness-consent">>],
   watermarks |-> {<<Mark("w1", PosterFile)>>},
   consents |-> {<<Face("t1", PosterFile, Ad), Face("t2", Recut, Ad)>>}]
OtherHand ==
  [Basic EXCEPT
    !.request.representations = <<Thumb(PosterFile), Original(PosterFile)>>,
    !.request.context.territories = {<<"IN", "cased">>},
    !.references = <<Ref("b", Recut), Ref("a", PosterFile)>>,
    !.licences = <<LicenceAs("l2", <<"b">>, AdRetyped), LicenceAs("l1", <<"b", "a">>, AdRetyped)>>,
    !.policy.required = <<"likeness-consent", "watermark">>,
    !.policy.allowed = [AnyScope EXCEPT !.brand = {<<"*", "padded">>}],
    !.consents = {<<Face("t2", Recut, Ad), Face("t1", PosterFile, AdRetyped)>>}]
Edited ==
  {[Basic EXCEPT !.distance = 1],
   [Basic EXCEPT !.watermarks = {}], [Basic EXCEPT !.watermarks = {<<>>}],
   [Basic EXCEPT !.consents = {}], [Basic EXCEPT !.consents = {<<>>}],
   [Basic EXCEPT !.consents = {<<Face("t1", PosterFile, Terms(Word("US"), Word("ad")))>>}],
   [Basic EXCEPT !.licences = <<>>],
   [Basic EXCEPT !.licences[1].until = 2, !.licences[2].until = 2],
   [Basic EXCEPT !.licences[1].state = "REVOKED"],
   [Basic EXCEPT !.licences[1].offset = "+05:30"],
   [Basic EXCEPT !.watermarks = {<<Mark("w1", Recut)>>}],
   [Basic EXCEPT !.policy.rules = <<IndiaRule>>],
   [Basic EXCEPT !.request = Asked(Recut)],
   [Basic EXCEPT !.request.context.use.written = " ad"],
   [Basic EXCEPT !.request = Asked(Speech), !.consents = {<<Voice("v1", Ad)>>}]}
Faulty ==
  {[Basic EXCEPT !.distance = 65], [Basic EXCEPT !.request.representations = <<>>],
   [Basic EXCEPT !.request = Asked([PosterFile EXCEPT !.extension = "JPEG"])],
   [Basic EXCEPT !.request.context.territories = AnyWord],
   [Basic EXCEPT !.references = <<Ref("a", PosterFile), Ref("a", Recut)>>],
   [Basic EXCEPT !.references = <<Ref("a", PosterFile), Ref("b", PosterFile), Ref("c", PosterFile)>>],
   [Basic EXCEPT !.references = <<>>],
   [Basic EXCEPT !.licences[1].territories = {<<"IN", "padded">>}],
   [Basic EXCEPT !.licences[1].references = <<"a", "a">>],
   [Basic EXCEPT !.policy = Switched(FALSE)], [Basic EXCEPT !.policy.id = "q"],
   [Basic EXCEPT !.policy.rules = <<IndiaRule, IndiaRule>>],
   [Basic EXCEPT !.consents = {<<Face("t1", PosterFile, Ad), Voice("t1", Ad)>>}],
   [Basic EXCEPT !.watermarks = {<<Mark("w1", PosterFile), Mark("w1", Recut)>>}]}
MCDossiers == {Basic, OtherHand} \cup Edited \cup Faulty
MCTerritoryCodes == {"IN", "US"}
=============================================================================
