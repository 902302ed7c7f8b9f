------------------------------- MODULE Sanitizer -------------------------------
(* The writers of protected files (transformation/sanitizer.py, docx.py,     *)
(* structured_data.py, synthetic_twin.py).  A page is [kind, words]: its     *)
(* words can be read from a text layer ("text") or only from its pixels      *)
(* ("scan"); a face, a signature or a QR code is a word of its own kind.  A  *)
(* cell of a dataset is a page, a picture in a DOCX and a frame of a video    *)
(* are scanned pages.  An instruction covers the positions chars, its        *)
(* rectangle the positions box.                                              *)
EXTENDS PrivacyPolicy, VideoTimeline, FiniteSets

CONSTANTS
  Short,           \* words below the minimum lengths of propagation and scans
  LegalSuffixes    \* words like Ltd that end the name of a company

Occurrences(phrase, words) ==
  {i .. i + Len(phrase) - 1 :
     i \in {j \in 1 .. Len(words) - Len(phrase) + 1 :
              SubSeq(words, j, j + Len(phrase) - 1) = phrase}}
Occurs(phrase, words) == Occurrences(phrase, words) # {}
IsShort(phrase) == Len(phrase) = 1 /\ Head(phrase) \in Short

WordsAt(words, positions) ==
  LET kept == SelectSeq([i \in DOMAIN words |-> <<i, words[i]>>],
                        LAMBDA x : x[1] \in positions)
  IN [i \in DOMAIN kept |-> kept[i][2]]

(* A place with several words is a list with commas.                        *)
_source_variants(type, source) ==
  LET stem == CASE type = "EMPLOYER" /\ Last(source) \in LegalSuffixes -> Front(source)
                [] type \in {"LOCALITY", "STREET_ADDRESS"} /\ Len(source) > 1 -> <<Head(source)>>
                [] OTHER -> <<>>
  IN SelectSeq(<<source, stem>>, LAMBDA v : v # <<>> /\ ~IsShort(v))

-----------------------------------------------------------------------------
(* A patch replaces the words of a span of a page.                          *)

Patch(page, span, repl) == [page |-> page, span |-> span, repl |-> repl]
Overlaps(a, b) == a.page = b.page /\ a.span \cap b.span # {}
Raster(type, page) == type \in {"PDF", "IMAGE"} \/ page.kind = "scan"

Committed(file, instructions) ==
  {Patch(i.page, IF Raster(file.type, file.pages[i.page]) THEN i.box ELSE i.chars, i.repl) :
     i \in ToSet(instructions)}

Place(candidates, patches) ==
  FoldLeft(LAMBDA placed, c : IF \E p \in placed : Overlaps(p, c) THEN placed ELSE placed \cup {c},
           patches, candidates)

(* The occurrences of the variants of a source on the pages they are looked *)
(* for, in the order of the pages.                                          *)
Found(file, pages, variant, repl) ==
  LET spans(p) == SetToSortSeq(Occurrences(variant, file.pages[p].words),
                               LAMBDA s, t : Min(s) < Min(t))
  IN FlattenSeq([k \in DOMAIN pages |->
       [j \in DOMAIN spans(pages[k]) |-> Patch(pages[k], spans(pages[k])[j], repl)]])

SourceOf(file, i) == WordsAt(file.pages[i.page].words, i.box)
VariantsFound(file, pages, i) ==
  LET variants == _source_variants(i.type, SourceOf(file, i))
  IN FlattenSeq([v \in DOMAIN variants |-> Found(file, pages, variants[v], i.repl)])

PagesOf(file, kind) ==
  SelectSeq([p \in DOMAIN file.pages |-> p], LAMBDA p : file.pages[p].kind = kind)

AllFound(file, pages, instructions) ==
  FlattenSeq([k \in DOMAIN instructions |-> VariantsFound(file, pages, instructions[k])])

-----------------------------------------------------------------------------
(* The writers.  A conflict raises ValueError.                              *)

Conflict(patches) == \E a, b \in patches : a # b /\ Overlaps(a, b)

(* Longest match first; spans that two instructions share are one patch     *)
(* when they agree on the replacement.                                      *)
sanitize_text(file, instructions) ==
  LET found == AllFound(file, <<1>>, instructions)
      ordered == SortSeq([i \in DOMAIN found |-> <<found[i], i>>],
                   LAMBDA x, y :
                     LET a == x[1] b == y[1]
                         size(c) == Cardinality(c.span)
                     IN \/ size(a) > size(b)
                        \/ size(a) = size(b) /\ Min(a.span) < Min(b.span)
                        \/ size(a) = size(b) /\ Min(a.span) = Min(b.span) /\ x[2] < y[2])
  IN Place([i \in DOMAIN ordered |-> ordered[i][1]], Committed(file, instructions))

(* Every reading of a variant in the text layers, unless it touches a       *)
(* region that is replaced already.                                         *)
_augment_pdf_instructions(file, instructions) ==
  LET native == SelectSeq(instructions, LAMBDA i : file.pages[i.page].kind = "text")
  IN Place(AllFound(file, PagesOf(file, "text"), native), Committed(file, instructions))

(* A scanned page is read again for the sources of its own instructions.    *)
_propagate_scanned_ocr_residuals(file, instructions, patches) ==
  LET scanned == SelectSeq(instructions, LAMBDA i :
                   file.pages[i.page].kind = "scan" /\ i.type \notin VISUAL_TYPES)
  IN Place(FlattenSeq([k \in DOMAIN scanned |->
                         VariantsFound(file, <<scanned[k].page>>, scanned[k])
                           \o Found(file, <<scanned[k].page>>, SourceOf(file, scanned[k]),
                                    scanned[k].repl)]),
           patches)

sanitize_pdf(file, instructions) ==
  _propagate_scanned_ocr_residuals(file, instructions,
                                   _augment_pdf_instructions(file, instructions))

(* A thing is followed from its first mention to its last one, and a little  *)
(* beyond; a visual thing is blurred, text is covered by a label.            *)
sanitize_video(file, instructions) ==
  LET track(e) == SelectSeq(instructions, LAMBDA i : i.entity = e)
      rect(e, p) == _video_interpolated_rect(track(e), p, hold_frames(file.fps))
      label(i) == IF i.type \in VISUAL_TYPES THEN <<>> ELSE i.repl
  IN UNION {{Patch(p, rect(e, p), label(Head(track(e)))) :
               p \in {q \in DOMAIN file.pages : rect(e, q) # {}}} :
            e \in {i.entity : i \in ToSet(instructions)}}

Patches(file, instructions) ==
  CASE file.type = "TEXT" -> sanitize_text(file, instructions)
    [] file.type = "PDF" -> sanitize_pdf(file, instructions)
    [] file.type = "VIDEO" -> sanitize_video(file, instructions)
    [] OTHER -> Committed(file, instructions)

(* A dataset takes even the same replacement twice for a conflict; a PDF or *)
(* an image overwrites.                                                     *)
Rejected(file, instructions) ==
  CASE file.type = "TEXT" -> Conflict(Committed(file, instructions))
    [] file.type = "DOCX" ->
         Conflict({p \in Committed(file, instructions) : file.pages[p.page].kind = "text"})
    [] file.type = "DATASET" ->
         \E j, k \in DOMAIN instructions :
            /\ j # k /\ instructions[j].page = instructions[k].page
            /\ instructions[j].chars \cap instructions[k].chars # {}
    [] OTHER -> FALSE

-----------------------------------------------------------------------------
(* What is written.  The libraries that write it may fail at one place:     *)
(* a patch is not applied at all, or not to the pixels; its words stay in a *)
(* hidden channel; its replacement gets lost; metadata stays, or the sound  *)
(* of a video; the structure is damaged.                                    *)

NoFault == [kind |-> "none", patch |-> Patch(0, {}, <<>>)]
Faults(file, patches) ==
  {NoFault} \cup {[NoFault EXCEPT !.kind = k] : k \in {"metadata", "shape"}}
    \cup (IF file.spoken # <<>> THEN {[NoFault EXCEPT !.kind = "audio"]} ELSE {})
    \cup {[kind |-> k, patch |-> p] : p \in patches,
          k \in {"skipped", "hidden", "lost"}
                  \cup (IF file.type = "PDF" THEN {"pixels"} ELSE {})}

Covered(patches) == UNION {p.span : p \in patches}

(* The words left in place, with each replacement where its span begins.    *)
Rewritten(words, removed, written) ==
  FlattenSeq([i \in DOMAIN words |->
    FlattenSeq(SetToSeq({p.repl : p \in {q \in written : Min(q.span) = i}}))
      \o (IF i \in Covered(removed) THEN <<>> ELSE <<words[i]>>)])

(* Only the labels reach the text layer of a scanned page.                  *)
Layer(file, p, removed, written) ==
  LET here(ps) == {q \in ps : q.page = p}
      words == file.pages[p].words
      scan == file.pages[p].kind = "scan"
  IN CASE ~scan -> Rewritten(words, here(removed), here(written))
       [] scan /\ file.type = "PDF" ->
            Rewritten(words, {Patch(p, DOMAIN words, <<>>)}, here(written))
       [] OTHER -> <<>>

Pixels(file, p, removed, written) ==
  LET here(ps) == {q \in ps : q.page = p}
  IN IF Raster(file.type, file.pages[p])
     THEN Rewritten(file.pages[p].words, here(removed), here(written)) ELSE <<>>

Write(file, patches, fault) ==
  LET of(kinds) == {p \in patches : fault.kind \in kinds /\ p = fault.patch}
      applied == patches \ of({"skipped"})
      drawn == applied \ of({"pixels"})
      written == applied \ of({"lost"})
  IN [layer   |-> [p \in DOMAIN file.pages |-> Layer(file, p, applied, written)],
      pixels  |-> [p \in DOMAIN file.pages |-> Pixels(file, p, drawn, written \cap drawn)],
      redrawn |-> [p \in DOMAIN file.pages |-> Covered({q \in drawn : q.page = p})],
      hidden  |-> {WordsAt(file.pages[p.page].words, p.span) : p \in of({"hidden"})},
      sound   |-> IF fault.kind = "audio" THEN file.spoken ELSE <<>>,
      clean   |-> fault.kind # "metadata",
      intact  |-> fault.kind # "shape"]

-----------------------------------------------------------------------------
(* Level 5: every cell with an instruction gets a generated value; another  *)
(* one gets a generated value too, or one of its column (copied).           *)

Generated(type, page) == <<<<"synthetic", type, page>>>>
Rebound(instructions) ==
  [k \in DOMAIN instructions |->
     [instructions[k] EXCEPT !.repl = Generated("CELL", instructions[k].page)]]

synthesize_structured_twin(file, instructions, copied) ==
  LET cells == {i.page : i \in ToSet(instructions)}
      whole(p) == Patch(p, DOMAIN file.pages[p].words, Generated("CELL", p))
  IN {whole(p) : p \in cells \cup (DOMAIN file.pages \ copied)}
=============================================================================
