----------------------------- MODULE ExposureGraph -----------------------------
(* The identity exposure graph of a file (graph/exposure_graph.py): which of *)
(* its entities point at a person, alone or together, and the score of what   *)
(* they expose before and after a policy.  A row is an entity with its type   *)
(* and its mentions; a mention has the record it is in (the page, or the line *)
(* of a dataset), its review, and whether its context names a relative.       *)
(* Factors are in hundredths.                                                 *)
EXTENDS PrivacyPolicy, PythonBuiltins, SequencesExt, FiniteSets

Weights ==
  [PERSON_NAME |-> 22, PHONE |-> 18, EMAIL |-> 18, AADHAAR_LIKE |-> 26, PAN_LIKE |-> 24,
   CASE_REFERENCE |-> 17, NATIONAL_ID |-> 26, PASSPORT_NUMBER |-> 25,
   DRIVER_LICENSE_NUMBER |-> 23, TAX_IDENTIFIER |-> 24, SOCIAL_IDENTIFIER |-> 25,
   PAYMENT_CARD_NUMBER |-> 25, DATE_OF_BIRTH |-> 17, AGE |-> 8, STREET_ADDRESS |-> 22,
   LOCALITY |-> 11, POSTCODE |-> 16, EMPLOYER |-> 13, JOB_TITLE |-> 10, PERSON_TITLE |-> 4,
   GENERIC_DATE |-> 8, BUILDING_NUMBER |-> 9, DEMOGRAPHIC_ATTRIBUTE |-> 7,
   FACE |-> 24, QR_CODE |-> 20, SIGNATURE_CANDIDATE |-> 18]

Linkage(types, weight) == [types |-> types, weight |-> weight]
combination_specs ==
  <<Linkage(<<"DATE_OF_BIRTH", "POSTCODE", "EMPLOYER">>, 26),
    Linkage(<<"AGE", "LOCALITY", "JOB_TITLE">>, 18),
    Linkage(<<"STREET_ADDRESS", "EMPLOYER">>, 16)>>
(* The score also counts a person with a case.                               *)
combos == ToSet(combination_specs) \cup {Linkage(<<"PERSON_NAME", "CASE_REFERENCE">>, 16)}

(* Mutant of residual_factor: what is retained is not counted as a residue.  *)
factor_of_transformed(action) ==
  [REMOVE |-> 3, MASK |-> 14, PROTECT |-> 10, PSEUDONYMIZE |-> 8, SYNTHESIZE |-> 2,
   GENERALIZE |-> 30, RETAIN |-> 0][action]

residual_factor(action) ==
  [REMOVE |-> 3, MASK |-> 14, PROTECT |-> 10, PSEUDONYMIZE |-> 8, SYNTHESIZE |-> 2,
   GENERALIZE |-> 30, RETAIN |-> 100][action]

(* How much of a relationship the name's replacement still tells.            *)
relation_factor(action) ==
  CASE action = "SYNTHESIZE" -> 4
    [] action = "PSEUDONYMIZE" -> 12
    [] action = "PROTECT" -> 16
    [] action = "MASK" -> 18
    [] OTHER -> 100

utility_loss(action, type) ==
  CASE action = "RETAIN" -> 0
    [] action = "PSEUDONYMIZE" ->
         IF type \in {"PERSON_NAME", "EMPLOYER", "CASE_REFERENCE"} THEN 1 ELSE 2
    [] action = "SYNTHESIZE" -> 2
    [] action = "PROTECT" -> 4
    [] action = "GENERALIZE" ->
         IF type \in QUASI_TYPES \ {"STREET_ADDRESS", "POSTCODE", "EMPLOYER", "BUILDING_NUMBER"}
         THEN 3 ELSE 4
    [] action = "MASK" -> 3
    [] OTHER -> 5

-----------------------------------------------------------------------------
(* What is left of the rows when the dismissed mentions are gone             *)

_active_mentions(row) == {m \in row.mentions : m.review # "IGNORE"}
ActiveEntities(rows) ==
  Where([k \in DOMAIN rows |-> [rows[k] EXCEPT !.mentions = _active_mentions(rows[k])]],
        {k \in DOMAIN rows : _active_mentions(rows[k]) # {}})

TypesOf(rows) == {row.type : row \in ToSet(rows)}
IsRelative(row) == row.type = "PERSON_NAME" /\ \E m \in row.mentions : m.related

_review_state(row) ==
  LET statuses == {m.review : m \in row.mentions}
  IN CASE "PENDING" \in statuses -> "pending"
       [] statuses = {"IGNORE"} -> "ignored"
       [] "PROTECT" \in statuses -> "reviewed-protect"
       [] OTHER -> "automatic"

-----------------------------------------------------------------------------
(* The score *)

_component_scores(active, level, audience, after) ==
  LET Left(type) == IF after THEN residual_factor(action_for(type, level, audience)) ELSE 100
      Linked == IF after THEN relation_factor(action_for("PERSON_NAME", level, audience)) ELSE 100
      Raw(types) == SumOf([k \in {j \in DOMAIN active : active[j].type \in types} |->
                             Weights[active[k].type] * Left(active[k].type)])
      relatives == Cardinality({k \in DOMAIN active : IsRelative(active[k])})
      present == {c \in combos : ToSet(c.types) \subseteq TypesOf(active)}
      bonus == SumOf([c \in present |->
                        c.weight * Max({Left(type) : type \in ToSet(c.types)})])
  IN [direct       |-> Min({50, Rounded(Raw(DIRECT_TYPES \cup VISUAL_TYPES) * 60, 10000)}),
      quasi        |-> Min({34, Rounded(Raw(QUASI_TYPES) * 55, 10000)}),
      relationship |-> Min({14, Rounded(relatives * 14 * Linked, 100)}),
      combination  |-> Min({28, Rounded(bonus * 70, 10000)})]

Score(parts) ==
  Min({100, parts.direct + parts.quasi + parts.relationship + parts.combination})

_risk_band(score) ==
  CASE score >= 75 -> "critical" [] score >= 50 -> "high" [] score >= 25 -> "moderate"
    [] OTHER -> "low"

Risk(before, after, utility) ==
  [before |-> before, after |-> after, reduction |-> Max({0, before - after}),
   utility |-> utility, band |-> _risk_band(after)]

Utility(active, level, audience) ==
  LET loss == SumOf([k \in DOMAIN active |->
                utility_loss(action_for(active[k].type, level, audience), active[k].type)])
  IN Max({45, 100 - Min({55, loss})})

-----------------------------------------------------------------------------
(* The graph.  A node is named after an entity, or is one of these.          *)

FileNode == <<"document", <<>>>>
PersonNode == <<"subject", <<>>>>

(* The person the document is about; a dataset is about its records.         *)
Subject(active, dataset) ==
  LET people == {k \in DOMAIN active :
                   active[k].type = "PERSON_NAME" /\ ~IsRelative(active[k])}
  IN IF dataset \/ people = {} THEN PersonNode ELSE active[Min(people)].id

_kind(row, subject, dataset) ==
  CASE row.type = "PERSON_NAME" ->
         IF dataset THEN "direct_identifier"
         ELSE IF row.id = subject THEN "subject" ELSE "related_person"
    [] row.type \in DIRECT_TYPES -> "direct_identifier"
    [] row.type \in QUASI_TYPES -> "quasi_identifier"
    [] OTHER -> "visual_identifier"

EntityNode(row, kind) ==
  [id |-> row.id, kind |-> kind, review |-> _review_state(row),
   pages |-> {m.page : m \in row.mentions}]
Inferred(id, kind, review) == [id |-> id, kind |-> kind, review |-> review, pages |-> {}]

Tie(from, to, kind, weight) == [source |-> from, target |-> to, kind |-> kind, weight |-> weight]
Path(nodes, score) == [nodes |-> nodes, score |-> score]

(* How an entity hangs on the subject, and whether that alone is a path.     *)
SubjectTie(row, subject, kind) ==
  IF kind = "related_person" THEN Tie(subject, row.id, "related_to", 14)
  ELSE Tie(subject, row.id,
            IF row.type \in DIRECT_TYPES \cup VISUAL_TYPES THEN "identifies" ELSE "describes",
            Weights[row.type])
PathAlone(edge) == edge.kind = "related_to" \/ edge.weight >= 17

(* The types of a combination meet in one file, or in one record of it.      *)
Meet(active, types, dataset) ==
  /\ types \subseteq TypesOf(active)
  /\ dataset => \E r \in UNION {{m.page : m \in row.mentions} : row \in ToSet(active)} :
                   types \subseteq {row.type : row \in {a \in ToSet(active) :
                                                          \E m \in a.mentions : m.page = r}}

PathLimit == 8
Heaviest(paths) ==
  LET ranked == Arranged(paths, [k \in DOMAIN paths |->
                  {j \in DOMAIN paths : \/ paths[j].score > paths[k].score
                                        \/ paths[j].score = paths[k].score /\ j < k}])
  IN [k \in 1 .. Min({PathLimit, Len(paths)}) |-> ranked[k]]

(* The policy the graph names: what happens to each type that is present.    *)
policy_descriptor(types, level, audience) ==
  [type \in types |-> action_for(type, level, audience)]

build_exposure_graph(rows, dataset, level, audience) ==
  LET active == ActiveEntities(rows)
      subject == Subject(active, dataset)
      kind(row) == _kind(row, subject, dataset)
      others == Where(active, {k \in DOMAIN active : active[k].id # subject})
      hung == [k \in DOMAIN others |-> SubjectTie(others[k], subject, kind(others[k]))]
      alone == Where(hung, {k \in DOMAIN hung : PathAlone(hung[k])})
      first(type) == active[Min({k \in DOMAIN active : active[k].type = type})].id
      linked == Where(combination_specs, {k \in DOMAIN combination_specs :
                        Meet(active, ToSet(combination_specs[k].types), dataset)})
      chain(c) == [k \in DOMAIN c.types |-> first(c.types[k])]
      paths == [k \in DOMAIN alone |-> Path(<<alone[k].source, alone[k].target>>, alone[k].weight)]
                 \o [k \in DOMAIN linked |->
                       Path(<<subject>> \o chain(linked[k]), linked[k].weight)]
      before == Score(_component_scores(active, level, audience, FALSE))
      after == Score(_component_scores(active, level, audience, TRUE))
  IN [nodes |-> {Inferred(FileNode, "document", "source")}
                  \cup (IF subject # PersonNode THEN {}
                        ELSE {Inferred(PersonNode, "subject", "inferred")})
                  \cup {EntityNode(row, kind(row)) : row \in ToSet(active)},
      edges |-> {Tie(FileNode, subject, "contains", 10)}
                  \cup {Tie(FileNode, row.id, "contains", 4) : row \in ToSet(others)}
                  \cup ToSet(hung)
                  \cup UNION {{Tie(chain(c)[k], chain(c)[k + 1], "co_occurs_with", c.weight) :
                                 k \in 1 .. Len(c.types) - 1} : c \in ToSet(linked)},
      paths |-> Heaviest(paths),
      policy |-> policy_descriptor(TypesOf(active), level, audience),
      risk |-> Risk(before, after, Utility(active, level, audience))]

(* transform_file replaces the estimates for a synthetic twin by measurements. *)
Measured(graph, privacy, utility) ==
  [graph EXCEPT !.risk = Risk(graph.risk.before,
                              Min({graph.risk.after, Max({1, 100 - privacy})}), utility)]

-----------------------------------------------------------------------------
(* privacy_recommendation: the level to take, and what each level would do.  *)

Preview(rows, fileType, level, audience) ==
  LET dataset == fileType = "DATASET"
      risk == build_exposure_graph(rows, dataset, level, audience).risk
  IN IF level # 5 \/ dataset
     THEN [supported |-> TRUE, residual |-> risk.after, utility |-> risk.utility]
     ELSE [supported |-> FALSE, residual |-> risk.before, utility |-> 0]

Recommendation(rows, fileType, terms, audience) ==
  LET baseline == build_exposure_graph(rows, fileType = "DATASET", 1, audience)
  IN recommend_privacy_level(terms, audience, fileType, baseline.risk.before >= 75, TypesOf(rows))
privacy_recommendation(rows, fileType, terms, audience) ==
  [decision |-> Recommendation(rows, fileType, terms, audience),
   previews |-> [level \in Levels |-> Preview(rows, fileType, level, audience)]]
=============================================================================
