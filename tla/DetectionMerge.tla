---------------------------- MODULE DetectionMerge ----------------------------
(* How the candidates of the detectors become the mentions of a file:        *)
(* detect_all (detection/pipeline.py) and what analyse_file (api/routes.py)  *)
(* does with its result for a format.  A candidate owns a set of positions   *)
(* of its page as characters and a set as its rectangle (a cell of a dataset *)
(* is one rectangle); a shared area is a nonempty intersection, and ratios   *)
(* of areas are ratios of cardinalities.  origin names the label family:     *)
(*   "v5", "field" (authoritative v4), "v4", "v3", "plain", "structural",    *)
(*   "visual".                                                               *)
EXTENDS PrivacyPolicy, PythonBuiltins, SequencesExt, FiniteSets

IsV5(c) == c.origin = "v5"
IsV3(c) == c.origin = "v3"
IsField(c) == c.origin = "field"

(* sorted() is stable: among equals the order of the detectors decides.     *)
Detectors == <<"v5", "field", "v4", "plain", "v3", "visual">>
Flag(b) == IF b THEN 1 ELSE 0

Priority(type) ==
  CASE type \in {"PAN_LIKE", "AADHAAR_LIKE", "EMAIL", "DATE_OF_BIRTH", "POSTCODE",
                 "CASE_REFERENCE"} \cup CREDENTIAL_TYPES -> 0
    [] type = "PHONE" -> 2
    [] OTHER -> 1

SortKey(c) ==
  <<c.page, Min(c.box), 1 - Flag(IsField(c)), Priority(c.type), Flag(IsV5(c)),
    Flag(IsV3(c)), 100 - c.conf, CHOOSE i \in DOMAIN Detectors : Detectors[i] = c.origin>>

-----------------------------------------------------------------------------
(* Overlap, in percent *)

Shared(e, c) == e.chars \cap c.chars # {}
IouAtLeast(e, c, percent) ==
  LET both == Cardinality(e.box \cap c.box)
  IN both > 0 /\ 100 * both >= percent * Cardinality(e.box \cup c.box)
ContainedAtLeast(inner, outer, percent) ==
  100 * Cardinality(inner.box \cap outer.box) >= percent * Cardinality(inner.box)

-----------------------------------------------------------------------------
(* A candidate c against an accepted detection e of the same page.          *)

IDENTIFIER_TYPES ==
  {"AADHAAR_LIKE", "PAN_LIKE", "DATE_OF_BIRTH", "POSTCODE", "CASE_REFERENCE"}
    \cup CREDENTIAL_TYPES
ADDRESS_PARTS == {"BUILDING_NUMBER", "STREET_ADDRESS", "LOCALITY", "POSTCODE"}

(* Mutant of Duplicates: a value is found once on a page.                   *)
DuplicatesAnywhere(e, c) == e.type = c.type /\ e.value = c.value

Duplicates(e, c) ==
  /\ e.type = c.type
  /\ \/ e.value = c.value /\ IouAtLeast(e, c, 35)
     \/ Shared(e, c) /\ IsV5(c) /\ ~IsV5(e) /\ c.type # "STREET_ADDRESS"
     \/ Shared(e, c) /\ IsV5(e) /\ ~IsV5(c) /\ c.type = "STREET_ADDRESS"

(* The accepted detection keeps the span.                                   *)
Outranks(e, c) ==
  \/ /\ e.type = c.type /\ Shared(e, c)
     /\ IF c.type = "STREET_ADDRESS" THEN IsV5(c) /\ ~IsV5(e) ELSE IsV5(e) /\ ~IsV5(c)
  \/ /\ IsV3(c) /\ ~IsV3(e) /\ e.type = "STREET_ADDRESS"
     /\ c.type \in ADDRESS_PARTS /\ ContainedAtLeast(c, e, 80)
  \/ IsField(e) /\ ~IsField(c) /\ e.type # c.type /\ IouAtLeast(e, c, 72)
  \/ /\ IsV5(c) /\ ~IsV5(e) /\ c.type = "STREET_ADDRESS" /\ e.type = "STREET_ADDRESS"
     /\ ContainedAtLeast(e, c, 70)
  \/ /\ IsV5(c) /\ e.type \in IDENTIFIER_TYPES \cup {"EMAIL", "PHONE"} /\ e.type # c.type
     /\ Shared(e, c) /\ IouAtLeast(e, c, 55)
  \/ c.type = "GENERIC_DATE" /\ e.type = "DATE_OF_BIRTH" /\ IouAtLeast(e, c, 45)
  \/ c.type = "BUILDING_NUMBER" /\ e.type = "STREET_ADDRESS" /\ IouAtLeast(e, c, 75)
  \/ c.type = "PHONE" /\ e.type \in IDENTIFIER_TYPES /\ IouAtLeast(e, c, 45)

(* The first accepted detection that has a say decides; a duplicate takes   *)
(* its place only with a higher confidence.                                 *)
Consider(accepted, c) ==
  LET hits == {i \in DOMAIN accepted :
                 /\ accepted[i].page = c.page
                 /\ Duplicates(accepted[i], c) \/ Outranks(accepted[i], c)}
      first == Min(hits)
  IN CASE hits = {} -> Append(accepted, c)
       [] /\ hits # {}
          /\ Duplicates(accepted[first], c)
          /\ c.conf > accepted[first].conf -> [accepted EXCEPT ![first] = c]
       [] OTHER -> accepted

(* Of two overlapping detections of one class the v5 one stays, but for     *)
(* street addresses the other one.                                          *)
Shadowed(accepted, c) ==
  \E o \in ToSet(accepted) :
     /\ o.page = c.page /\ o.type = c.type /\ Shared(o, c)
     /\ IF c.type = "STREET_ADDRESS" THEN IsV5(c) /\ ~IsV5(o) ELSE IsV5(o) /\ ~IsV5(c)

detect_all(candidates) ==
  LET found == SetToSeq(candidates)
      accepted == FoldLeft(Consider, <<>>,
                            SortedBy(found, [k \in DOMAIN found |-> SortKey(found[k])]))
  IN Where(accepted, {k \in DOMAIN accepted : ~Shadowed(accepted, accepted[k])})

-----------------------------------------------------------------------------
(* What the formats add *)

MergeStructural(detections, c) ==
  LET same == {i \in DOMAIN detections :
                 /\ detections[i].page = c.page /\ detections[i].type = c.type
                 /\ detections[i].value = c.value /\ IouAtLeast(detections[i], c, 35)}
  IN CASE same = {} -> Append(detections, c)
       [] same # {} /\ c.conf > detections[Min(same)].conf -> [detections EXCEPT ![Min(same)] = c]
       [] OTHER -> detections

(* A labelled location owns its parts; a heading is not a person's name.    *)
StabilizedAway(detections, c) ==
  \/ /\ c.type = "LOCALITY" /\ c.origin \in {"v4", "field"}
     /\ \E s \in ToSet(detections) : /\ s.origin = "structural" /\ s.type = "LOCALITY"
                                     /\ s.page = c.page /\ c.chars \subseteq s.chars
  \/ c.type = "PERSON_NAME" /\ c.title /\ c.origin \in {"v4", "v5"}

Stabilize(detections) ==
  Where(detections, {k \in DOMAIN detections : ~StabilizedAway(detections, detections[k])})

ByPlace(detections) ==
  SortedBy(detections, [k \in DOMAIN detections |->
    LET c == detections[k] IN <<c.page, Min(c.box), TypeRank(c.type)>>])

WithStructural(detections, structural) ==
  ByPlace(FoldLeft(MergeStructural, detections, ByPlace(SetToSeq(structural))))

(* A video: codes that do not decode are dropped, and a name is asked about  *)
(* once.                                                                     *)
_filter_video_geometry_only_qr(detections) ==
  Where(detections, {k \in DOMAIN detections : LET c == detections[k]
                       IN ~(c.type = "QR_CODE" /\ Head(c.value)[3] = 0)})

AskedBefore(detections, k) ==
  \E j \in 1 .. k - 1 :
     /\ {detections[j].type, detections[k].type} = {"PERSON_NAME"}
     /\ {detections[j].review, detections[k].review} = {"PENDING"}
     /\ detections[j].value = detections[k].value
_collapse_video_temporal_reviews(detections) ==
  [k \in DOMAIN detections |->
     IF AskedBefore(detections, k) THEN [detections[k] EXCEPT !.review = "NOT_REQUIRED"]
     ELSE detections[k]]

(* The mentions of a file, in the order in which they become rows.          *)
Mentions(type, candidates) ==
  LET structural == {c \in candidates : c.origin = "structural"}
      found == detect_all(candidates \ structural)
  IN CASE type = "TEXT" -> Stabilize(found)
       [] type = "DOCX" -> Stabilize(WithStructural(found, structural))
       [] type = "VIDEO" ->
            _collapse_video_temporal_reviews(
              Stabilize(WithStructural(_filter_video_geometry_only_qr(found), structural)))
       [] OTHER -> found

(* A canonical entity is a type with a normalised value.                    *)
Entity(m) == <<m.type, m.value>>
=============================================================================
