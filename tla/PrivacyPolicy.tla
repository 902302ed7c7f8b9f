----------------------------- MODULE PrivacyPolicy -----------------------------
(* What a privacy level does to each kind of entity (policy/compiler.py) and *)
(* which level is recommended, and enforced, for a purpose and an audience   *)
(* (policy/recommendation.py).  A text is a sequence of words; a word is a   *)
(* triple whose first component tells what wrote it, so that the words of    *)
(* the source never equal the labels, tokens and aliases the compiler makes. *)
EXTENDS Naturals, Sequences

CONSTANTS
  Cities,   \* the words that generalisation keeps of a place
  Years     \* the words that generalisation keeps of a date

Levels == 1 .. 5
Audiences == {"PUBLIC_RELEASE", "RESEARCH_PARTNER", "INTERNAL_OPERATIONS"}
FileTypes == {"TEXT", "DATASET", "DOCX", "PDF", "IMAGE", "VIDEO"}

CREDENTIAL_TYPES ==
  {"NATIONAL_ID", "PASSPORT_NUMBER", "DRIVER_LICENSE_NUMBER", "TAX_IDENTIFIER",
   "SOCIAL_IDENTIFIER", "PAYMENT_CARD_NUMBER"}
DIRECT_TYPES ==
  {"PHONE", "EMAIL", "AADHAAR_LIKE", "PAN_LIKE", "PERSON_NAME", "CASE_REFERENCE"}
    \cup CREDENTIAL_TYPES
QUASI_TYPES ==
  {"DATE_OF_BIRTH", "AGE", "STREET_ADDRESS", "LOCALITY", "POSTCODE", "EMPLOYER",
   "JOB_TITLE", "PERSON_TITLE", "GENERIC_DATE", "BUILDING_NUMBER",
   "DEMOGRAPHIC_ATTRIBUTE"}
VISUAL_TYPES == {"FACE", "QR_CODE", "SIGNATURE_CANDIDATE"}
LEVEL2_PROTECT_TYPES ==
  DIRECT_TYPES \cup {"DATE_OF_BIRTH", "STREET_ADDRESS", "POSTCODE",
                     "BUILDING_NUMBER", "GENERIC_DATE", "DEMOGRAPHIC_ATTRIBUTE"}
EntityTypes == DIRECT_TYPES \cup QUASI_TYPES \cup VISUAL_TYPES

(* The order of the types as strings, in which queries and sorts put them.  *)
TypeOrder ==
  <<"AADHAAR_LIKE", "AGE", "BUILDING_NUMBER", "CASE_REFERENCE", "DATE_OF_BIRTH",
    "DEMOGRAPHIC_ATTRIBUTE", "DRIVER_LICENSE_NUMBER", "EMAIL", "EMPLOYER", "FACE",
    "GENERIC_DATE", "JOB_TITLE", "LOCALITY", "NATIONAL_ID", "PAN_LIKE",
    "PASSPORT_NUMBER", "PAYMENT_CARD_NUMBER", "PERSON_NAME", "PERSON_TITLE", "PHONE",
    "POSTCODE", "QR_CODE", "SIGNATURE_CANDIDATE", "SOCIAL_IDENTIFIER",
    "STREET_ADDRESS", "TAX_IDENTIFIER">>
TypeRank(type) == CHOOSE i \in DOMAIN TypeOrder : TypeOrder[i] = type

-----------------------------------------------------------------------------
(* The compiler *)

Generalized(type, audience) ==
  /\ type \in QUASI_TYPES
  /\ ~(audience = "INTERNAL_OPERATIONS" /\ type \in {"EMPLOYER", "JOB_TITLE"})

action_for(type, level, audience) ==
  CASE type \in VISUAL_TYPES -> "REMOVE"
    [] level = 5 /\ type \notin VISUAL_TYPES -> "SYNTHESIZE"
    [] level = 1 /\ type \in DIRECT_TYPES -> "MASK"
    [] level = 2 /\ type \in LEVEL2_PROTECT_TYPES -> "PROTECT"
    [] level = 3 /\ type \in DIRECT_TYPES -> "MASK"
    [] level = 3 /\ Generalized(type, audience) -> "GENERALIZE"
    [] level = 4 /\ type \in DIRECT_TYPES \cup {"EMPLOYER"} -> "PSEUDONYMIZE"
    [] level = 4 /\ type \in QUASI_TYPES \ {"EMPLOYER"} -> "GENERALIZE"
    [] OTHER -> "RETAIN"

Label(of) == <<"label", of, 0>>

(* A mask of a number keeps its last four characters, of an e-mail address  *)
(* its domain: the last word of the value stands for them.                  *)
replacement_for(type, value) ==
  IF type \in {"PERSON_NAME", "CASE_REFERENCE"} \cup QUASI_TYPES THEN <<Label(type)>>
  ELSE <<<<"mask", type, 0>>, value[Len(value)]>>

(* The alias of a PAN reads like that of any other tax identifier.          *)
Alias(type, ordinal) ==
  <<"alias", IF type = "PAN_LIKE" THEN "TAX_IDENTIFIER" ELSE type, ordinal>>

Landmarks(type) ==
  CASE type \in {"STREET_ADDRESS", "LOCALITY"} -> Cities
    [] type = "GENERIC_DATE" -> Years
    [] OTHER -> {}

(* A known city is named, a date keeps its year, a postcode its first       *)
(* digits; every other generalisation is a fixed category.                  *)
generalize(type, value) ==
  LET kept == SelectSeq(value, LAMBDA w : w \in Landmarks(type))
  IN CASE type = "POSTCODE" /\ Len(value) > 1 -> <<Head(value), Label(type)>>
       [] kept # <<>> -> <<Head(kept), Label(type)>>
       [] OTHER -> <<Label(type)>>

replacement_for_policy(type, value, level, audience, ordinal) ==
  LET action == action_for(type, level, audience)
  IN CASE action = "RETAIN" -> value
       [] action = "REMOVE" -> <<Label(type)>>
       [] action = "PROTECT" -> <<<<"token", type, ordinal>>>>
       [] action = "MASK" -> replacement_for(type, value)
       [] action = "SYNTHESIZE" -> <<Label("SYNTHETIC")>>
       [] action = "PSEUDONYMIZE" -> <<Alias(type, ordinal)>>
       [] action = "GENERALIZE" -> generalize(type, value)

-----------------------------------------------------------------------------
(* The recommendation.  A purpose is the set of the groups of terms that    *)
(* occur in the purpose and the recipient.                                  *)

TermGroups == {"synthetic", "public", "external", "analytics", "linkage", "internal"}
HIGH_RISK_TYPES == {"AADHAAR_LIKE", "PAN_LIKE"} \cup CREDENTIAL_TYPES

AtLeast(level, floor) == IF level < floor THEN floor ELSE level

AudienceLevel(audience) ==
  CASE audience = "PUBLIC_RELEASE" -> 4
    [] audience = "RESEARCH_PARTNER" -> 3
    [] OTHER -> 1
AudienceFloor(audience) ==
  CASE audience = "PUBLIC_RELEASE" -> 4
    [] audience = "RESEARCH_PARTNER" -> 2
    [] OTHER -> 1

PurposeLevel(terms, level, structured) ==
  IF "synthetic" \in terms THEN IF structured THEN 5 ELSE AtLeast(level, 4)
  ELSE IF terms \cap {"public", "external"} # {} THEN AtLeast(level, 4)
  ELSE IF "analytics" \in terms THEN AtLeast(level, 3)
  ELSE IF "linkage" \in terms THEN AtLeast(level, 2)
  ELSE level

HighRiskLevel(types, level, audience) ==
  IF types \cap HIGH_RISK_TYPES = {} THEN level
  ELSE AtLeast(level, IF audience = "INTERNAL_OPERATIONS" THEN 2 ELSE 4)

(* exposed: the identity exposure is 75 or more.                            *)
recommend_privacy_level(terms, audience, fileType, exposed, types) ==
  LET structured == fileType = "DATASET"
      stated == PurposeLevel(terms, AudienceLevel(audience), structured)
      risky == HighRiskLevel(types, stated, audience)
      raised == IF exposed /\ audience # "INTERNAL_OPERATIONS" THEN AtLeast(risky, 4)
                ELSE risky
  IN [recommended |-> IF raised = 5 /\ ~structured THEN 4 ELSE raised,
      minimum     |-> IF "synthetic" \in terms /\ structured THEN 5
                      ELSE AudienceFloor(audience)]
=============================================================================
