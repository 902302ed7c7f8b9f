-------------------------------- MODULE RedTeam --------------------------------
(* The verification of a protected file (verification/red_team.py): which of *)
(* the source's values can still be read, and where.  A test answers PASS,   *)
(* FAIL or INCONCLUSIVE; a file that is read back wrongly, or a tool that is *)
(* not installed, makes it INCONCLUSIVE.  out is what Sanitizer!Write wrote. *)
EXTENDS Sanitizer

CONSTANTS
  Identifiers,     \* the phrases that read like a direct identifier
  Numbers,         \* the words made of digits
  NativeWords      \* a PDF page with fewer words in its text layer is read by OCR

Statuses == {"PASS", "FAIL", "INCONCLUSIVE"}
Tools == {"reader", "tesseract", "pdftotext"}

(* Mutant of Attempt: a status of its own for what could not be tried.      *)
AttemptOrError(possible, pass) ==
  CASE ~possible -> "ERROR" [] possible /\ pass -> "PASS" [] OTHER -> "FAIL"

Attempt(possible, pass) ==
  CASE ~possible -> "INCONCLUSIVE" [] possible /\ pass -> "PASS" [] OTHER -> "FAIL"

-----------------------------------------------------------------------------
(* Whether a value can be read.  A number is looked for in the stream of the *)
(* digits, everything else as a phrase.  A replacement of the same type that *)
(* contains the value is blanked out first, wherever it stands as a whole.   *)

NUMERIC_TYPES == {"PHONE", "AADHAAR_LIKE", "POSTCODE"}
Blank == <<"blank", "", 0>>

_value_present(words, type, value) ==
  IF type \in NUMERIC_TYPES
  THEN LET digits(s) == SelectSeq(s, LAMBDA w : w \in Numbers)
       IN digits(value) # <<>> /\ Occurs(digits(value), digits(words))
  ELSE Occurs(value, words)

_approved_replacements_for_value(type, value, instructions) ==
  {i.repl : i \in {j \in ToSet(instructions) :
                     j.type = type /\ _value_present(j.repl, type, value)}}

Masked(words, phrases) ==
  LET covered == UNION UNION {Occurrences(f, words) : f \in phrases}
  IN [i \in DOMAIN words |-> IF i \in covered THEN Blank ELSE words[i]]

Outside(words, type, value, instructions) ==
  _value_present(Masked(words, _approved_replacements_for_value(type, value, instructions)),
                 type, value)

(* Mutant of _text_leaks: replacements are not blanked out.                 *)
LeaksAnywhere(words, known, instructions) ==
  \E k \in known : _value_present(words, k[1], k[2])

_text_leaks(words, known, instructions) ==
  \E k \in known : Outside(words, k[1], k[2], instructions)

(* The bytes of a file are searched for the value as it was written, if it  *)
(* has four characters.                                                     *)
RawLeaks(phrases, known, instructions) ==
  \E k \in known, f \in phrases :
     /\ ~IsShort(k[2])
     /\ Occurs(k[2], Masked(f, _approved_replacements_for_value(k[1], k[2], instructions)))

-----------------------------------------------------------------------------
(* What can be read of a file *)

Content(out) == FlattenSeq(out.layer)
Pictures(out) == FlattenSeq(out.pixels)

ReadByOcr(file, out, p) ==
  \/ file.type = "IMAGE"
  \/ file.type = "DOCX" /\ file.pages[p].kind = "scan"
  \/ file.type = "PDF" /\ Len(out.layer[p]) < NativeWords
  \/ file.type = "VIDEO" /\ p \in security_scan_frame_indices(out.pixels, file.fps)
Processable(file, out, tools) ==
  /\ "reader" \in tools
  /\ "tesseract" \in tools \/ \A p \in DOMAIN file.pages : ~ReadByOcr(file, out, p)
ProcessedPage(file, out, p) ==
  IF ReadByOcr(file, out, p) THEN out.pixels[p] ELSE out.layer[p]
Processed(file, out) ==
  FlattenSeq([p \in DOMAIN file.pages |-> ProcessedPage(file, out, p)])

-----------------------------------------------------------------------------
(* The tests of the contents *)

direct_identifier_rescan(file, out, tools) ==
  Attempt(Processable(file, out, tools),
          ~\E f \in Identifiers : Occurs(f, Processed(file, out)))

independent_extraction(file, out, known, instructions, tools) ==
  LET text == CASE file.type = "DOCX" /\ "tesseract" \in tools -> Content(out) \o Pictures(out)
                [] file.type = "VIDEO" -> Processed(file, out)
                [] OTHER -> Content(out)
  IN Attempt(/\ "reader" \in tools
             /\ file.type = "PDF" => "pdftotext" \in tools
             /\ file.type = "VIDEO" => "tesseract" \in tools,
             IF file.type = "IMAGE" THEN out.clean ELSE ~_text_leaks(text, known, instructions))

(* The parsers of plain text, of datasets and of WordprocessingML.          *)
secondary_parser_rescan(out, known, instructions, tools) ==
  Attempt("reader" \in tools, ~_text_leaks(Content(out), known, instructions))

ocr_rescan(out, known, instructions, tools) ==
  Attempt({"reader", "tesseract"} \subseteq tools,
          ~_text_leaks(Pictures(out), known, instructions))

(* A code that still decodes fails; any other needs a dismissed region of   *)
(* its own at its place.                                                    *)
CodesLeft(file, out) ==
  UNION {{<<p, i>> : i \in {j \in DOMAIN file.pages[p].words :
                              /\ file.pages[p].words[j][1] = "code"
                              /\ Raster(file.type, file.pages[p])
                              /\ j \notin out.redrawn[p]}} : p \in DOMAIN file.pages}
_partition_reviewed_ignored_qr(codes, dismissed) ==
  \E region \in [codes -> dismissed] :
     \A c \in codes :
        /\ region[c].type = "QR_CODE" /\ region[c].page = c[1] /\ c[2] \in region[c].box
        /\ \A d \in codes \ {c} : region[c] # region[d]
qr_rescan(file, out, dismissed, tools) ==
  LET left == CodesLeft(file, out)
  IN Attempt(Processable(file, out, tools),
             /\ \A c \in left : file.pages[c[1]].words[c[2]][3] = 0
             /\ _partition_reviewed_ignored_qr(left, dismissed))

raw_object_stream_scan(out, known, instructions, tools) ==
  Attempt("reader" \in tools,
          ~RawLeaks({Content(out)} \cup out.hidden, known, instructions))

(* Only plain text and a DOCX have channels of their own to hide in.        *)
hidden_channel_scan(out, known, instructions, tools) ==
  Attempt("reader" \in tools,
          out.clean /\ ~RawLeaks({Content(out)} \cup out.hidden, known, instructions))

(* A name of five letters is a fragment of its own; of other identifiers    *)
(* the words before the last stand for the seven characters and more that   *)
(* make a fragment.  Replacements are not blanked out.                      *)
FragmentsOf(type, value) ==
  CASE type = "PERSON_NAME" -> {<<w>> : w \in {v \in ToSet(value) : ~IsShort(<<v>>)}}
    [] type \in DIRECT_TYPES \ {"PERSON_NAME"} /\ Len(value) > 1 -> {Front(value)}
    [] type \in DIRECT_TYPES \ {"PERSON_NAME"} /\ Len(value) = 1 /\ ~IsShort(value) -> {value}
    [] OTHER -> {}
direct_identifier_fragment_attack(file, out, known, tools) ==
  Attempt(Processable(file, out, tools),
          ~\E k \in known : \E f \in FragmentsOf(k[1], k[2]) :
              \E p \in DOMAIN file.pages : Occurs(f, ProcessedPage(file, out, p)))

-----------------------------------------------------------------------------
(* The tests of the transformation *)

Redrawn(file, out, i) ==
  100 * Cardinality(out.redrawn[i.page] \cap i.box)
    >= (IF file.type = "VIDEO" THEN 20 ELSE 18) * Cardinality(i.box)
SpanGone(file, out, words, i, instructions) ==
  ~Outside(words, i.type, WordsAt(file.pages[i.page].words, i.chars), instructions)

IntactAt(file, out, i, instructions) ==
  CASE file.type = "TEXT" -> SpanGone(file, out, Content(out), i, instructions)
    [] file.type = "DATASET" -> out.layer[i.page] # file.pages[i.page].words
    [] file.type = "DOCX" /\ file.pages[i.page].kind = "text" ->
         /\ SpanGone(file, out, out.layer[i.page], i, instructions)
         /\ Occurs(i.repl, out.layer[i.page])
    [] OTHER -> Redrawn(file, out, i)
region_replacement_integrity(file, out, instructions, tools) ==
  Attempt("reader" \in tools,
          /\ file.type = "TEXT" => Content(out) # file.pages[1].words
          /\ file.type = "VIDEO" => out.intact
          /\ \A i \in ToSet(instructions) : IntactAt(file, out, i, instructions))

metadata_inspection(out, tools) ==
  Attempt("reader" \in tools, out.clean /\ out.sound = <<>>)

policy_coverage(instructions, expected) ==
  Attempt(TRUE, expected \subseteq {i.entity : i \in ToSet(instructions)})

relationship_consistency(instructions, level) ==
  LET all == ToSet(instructions)
      aliased == {i \in all : i.type \in {"PERSON_NAME", "EMPLOYER", "CASE_REFERENCE", "PHONE"}}
  IN Attempt(TRUE,
       \/ level = 5
       \/ /\ \A i, j \in all : i.entity = j.entity => i.repl = j.repl
          /\ level = 4 =>
               \A i, j \in aliased : i.entity # j.entity => i.repl # j.repl)

(* A picture or a frame has no text to look into; a PDF is looked at page by *)
(* page.                                                                     *)
replacement_presence_attack(file, out, instructions, tools) ==
  LET looked == {i \in ToSet(instructions) :
                   file.type = "DOCX" => i.type \notin VISUAL_TYPES}
  IN Attempt(IF file.type = "VIDEO" THEN Processable(file, out, tools) ELSE "reader" \in tools,
       \/ file.type \in {"IMAGE", "VIDEO"}
       \/ \A i \in looked :
            Occurs(i.repl, IF file.type = "PDF" THEN out.layer[i.page] ELSE Content(out)))

(* Words of letters outside the instructions, all of them from the pixels   *)
(* of a PDF or an image.                                                    *)
Anchors(file, instructions) ==
  LET near(p) == UNION {IF file.type = "TEXT" THEN i.chars ELSE i.box :
                          i \in {j \in ToSet(instructions) : j.page = p}}
  IN FlattenSeq([p \in DOMAIN file.pages |->
       SelectSeq(WordsAt(file.pages[p].words, DOMAIN file.pages[p].words \ near(p)),
                 LAMBDA w : w[1] = "w" /\ w \notin Numbers \cup Short)])
Times(word, words) == Len(SelectSeq(words, LAMBDA w : w = word))
utility_anchor_preservation(file, out, instructions, tools) ==
  LET anchors == Anchors(file, instructions)
      text == file.type = "TEXT"
      after == IF text THEN Content(out) ELSE Pictures(out)
      before(w) == Times(w, anchors)
      survived(w) == CASE text -> IF Occurs(<<w>>, after) THEN before(w) ELSE 0
                       [] ~text /\ before(w) < Times(w, after) -> before(w)
                       [] OTHER -> Times(w, after)
      preserved == FoldSet(LAMBDA w, n : n + survived(w), 0, ToSet(anchors))
  IN Attempt("reader" \in tools /\ (~text => "tesseract" \in tools),
       \/ Len(anchors) < 5
       \/ 100 * preserved >= (IF text THEN 90 ELSE 82) * Len(anchors))

structure_preservation(out, tools) == Attempt("reader" \in tools, out.intact)

-----------------------------------------------------------------------------
(* Datasets.  What a replacement of its type contains is left on purpose;   *)
(* the values that a synthetic twin may not repeat are those of identities. *)

_policy_required_absence_values(known, instructions) ==
  {k \in known : _approved_replacements_for_value(k[1], k[2], instructions) = {}}
_synthetic_identity_absence_values(known) ==
  {k \in known : k[1] \in DIRECT_TYPES \cup {"DATE_OF_BIRTH", "STREET_ADDRESS",
                                             "BUILDING_NUMBER", "POSTCODE"}}

Rows(file, words) ==
  {[p \in {q \in DOMAIN file.pages : file.pages[q].row = r} |-> words[p]] :
     r \in {file.pages[p].row : p \in DOMAIN file.pages}}
RecordCopied(file, out) ==
  Rows(file, out.layer) \cap Rows(file, [p \in DOMAIN file.pages |-> file.pages[p].words]) # {}
synthetic_source_record_copy_attack(file, out, tools) ==
  Attempt("reader" \in tools, ~RecordCopied(file, out))

(* What the generator reported of its twin before it was written: schema,   *)
(* copies, reuse, and a utility of 60.                                      *)
synthetic_utility_evidence_attack(useful) == Attempt(TRUE, useful)

-----------------------------------------------------------------------------
(* Videos.  Frames to read are selected anew on the protected file, codes are *)
(* looked for on all of them.  Identifiers count only if the source had them, *)
(* unless there is nothing that must be absent.                              *)

_video_direct_identifier_rescan_document(file, out, absent, tools) ==
  Attempt(Processable(file, out, tools),
          \A f \in Identifiers : Occurs(f, Processed(file, out)) =>
             absent # {} /\ ~\E k \in absent : _value_present(f, k[1], k[2]))

video_frame_ocr_rescan(file, out, absent, tools) ==
  Attempt(Processable(file, out, tools), ~_text_leaks(Processed(file, out), absent, <<>>))

_video_fragment_attack_from_text(file, out, absent, tools) ==
  Attempt(Processable(file, out, tools),
          ~\E k \in absent : \E f \in FragmentsOf(k[1], k[2]) : Occurs(f, Processed(file, out)))

video_visual_identifier_rescan(file, out, tools) ==
  Attempt("reader" \in tools,
          \A c \in CodesLeft(file, out) : file.pages[c[1]].words[c[2]][3] = 0)

video_audio_absence(out, tools) == Attempt("reader" \in tools, out.sound = <<>>)

-----------------------------------------------------------------------------
(* The tests of each format, and of a synthetic twin.                       *)

Content_tests(file, out, known, instructions, tools) ==
  {independent_extraction(file, out, known, instructions, tools),
   raw_object_stream_scan(out, known, instructions, tools),
   direct_identifier_fragment_attack(file, out, known, tools)}
Transformation_tests(file, out, instructions, expected, level, tools) ==
  {region_replacement_integrity(file, out, instructions, tools),
   metadata_inspection(out, tools),
   policy_coverage(instructions, expected),
   relationship_consistency(instructions, level),
   replacement_presence_attack(file, out, instructions, tools)}

run_red_team(file, out, known, instructions, expected, level, dismissed, useful, tools) ==
  LET twin == file.type = "DATASET" /\ level = 5
      absent == IF twin THEN _synthetic_identity_absence_values(known)
                ELSE _policy_required_absence_values(known, instructions)
      common == Transformation_tests(file, out, instructions, expected, level, tools)
      documents == Content_tests(file, out, known, instructions, tools)
                     \cup {direct_identifier_rescan(file, out, tools)}
      cells == Content_tests(file, out, absent, <<>>, tools)
                 \cup {secondary_parser_rescan(out, absent, <<>>, tools),
                       structure_preservation(out, tools)}
      frames == {independent_extraction(file, out, absent, <<>>, tools),
                 raw_object_stream_scan(out, absent, <<>>, tools),
                 _video_fragment_attack_from_text(file, out, absent, tools),
                 _video_direct_identifier_rescan_document(file, out, absent, tools),
                 video_frame_ocr_rescan(file, out, absent, tools),
                 video_visual_identifier_rescan(file, out, tools),
                 video_audio_absence(out, tools),
                 structure_preservation(out, tools)}
  IN common \cup
     CASE twin ->
            cells \cup {synthetic_source_record_copy_attack(file, out, tools),
                        synthetic_utility_evidence_attack(useful)}
       [] file.type = "DATASET" /\ ~twin ->
            cells \cup {direct_identifier_rescan(file, out, tools)}
       [] file.type = "VIDEO" -> frames
       [] file.type = "DOCX" ->
            documents \cup {secondary_parser_rescan(out, known, instructions, tools),
                            hidden_channel_scan(out, known, instructions, tools),
                            qr_rescan(file, out, dismissed, tools),
                            structure_preservation(out, tools)}
       [] file.type = "TEXT" ->
            documents \cup {secondary_parser_rescan(out, known, instructions, tools),
                            hidden_channel_scan(out, known, instructions, tools),
                            utility_anchor_preservation(file, out, instructions, tools)}
       [] OTHER ->
            documents \cup {ocr_rescan(out, known, instructions, tools),
                            qr_rescan(file, out, dismissed, tools),
                            utility_anchor_preservation(file, out, instructions, tools)}

(* Mutant of VerifiedSafe: what is inconclusive counts as passed.           *)
NothingFailed(results) == "FAIL" \notin results

(* Every test passed: the proof score is then 100.                          *)
VerifiedSafe(results) == results = {"PASS"}
=============================================================================
