----------------------------- MODULE FileProtection -----------------------------
(* One file from its analysis to the decision about its protected form       *)
(* (api/routes.py): analyse_file, review_mention, transform_file and         *)
(* verify_output.  What the detectors find in a document is part of it; the  *)
(* libraries that write may fail at one place, and a tool may be missing.    *)
(* ReviewRelease has the interleavings of these handlers and the outputs     *)
(* that a later decision makes stale; here a decision precedes the output.   *)
EXTENDS DetectionMerge, RedTeam, ExposureGraph

CONSTANTS
  Documents,   \* the files: type, pages, fps, spoken, candidates
  Jobs         \* terms of the purpose, audience, whether floors are enforced

Reviews == {"NOT_REQUIRED", "PENDING", "PROTECT", "IGNORE"}

(* What a detector reports, and a mention: a finding of a known type by a    *)
(* known detector, with a rectangle on a page.                               *)
IsFinding(c) ==
  /\ DOMAIN c = {"origin", "type", "page", "value", "chars", "box", "conf", "review", "title",
                 "related"}
  /\ c.origin \in ToSet(Detectors) \cup {"structural"} /\ c.type \in EntityTypes
  /\ c.page \in Nat /\ c.box # {} /\ c.box \subseteq Nat /\ IsFiniteSet(c.box)
  /\ c.conf \in 0 .. 100 /\ c.review \in Reviews

(* What is found in a file is finite, and nothing of it is decided yet.      *)
ASSUME FileAssumption ==
  \A d \in Documents :
    /\ IsFiniteSet(d.candidates)
    /\ \A c \in d.candidates : IsFinding(c) /\ c.review \in {"NOT_REQUIRED", "PENDING"}

VARIABLES
  stage,     \* what became of the file
  document, job,
  mentions,  \* its mentions in the order of their rows, with their review
  output,    \* the newest output and its manifest
  run        \* the tools of the newest verification and its results

FileVars == <<stage, document, job, mentions, output, run>>

FileStages == {"received", "failed", "analysed", "transformed", "released", "blocked"}
NoOutput ==
  [level |-> 0, instructions |-> <<>>, dismissed |-> {}, patches |-> {},
   written |-> [layer |-> <<>>, pixels |-> <<>>, redrawn |-> <<>>, hidden |-> {},
                sound |-> <<>>, clean |-> TRUE, intact |-> TRUE],
   useful |-> TRUE, graph |-> build_exposure_graph(<<>>, FALSE, 1, "PUBLIC_RELEASE")]
NoRun == [tools |-> {}, results |-> {}]

FileInit ==
  /\ stage = "received"
  /\ document \in Documents /\ job \in Jobs
  /\ mentions = <<>> /\ output = NoOutput /\ run = NoRun

ToolSets == {Tools} \cup {Tools \ {t} : t \in Tools}

-----------------------------------------------------------------------------
(* analyse_file: a document is read as the verifier reads an output.        *)

AsReceived(file) == Write(file, {}, NoFault)

(* Detectors see the frames of a video that are selected, and every page.    *)
Looked(file) ==
  IF file.type = "VIDEO" THEN {p \in DOMAIN file.pages : ReadByOcr(file, AsReceived(file), p)}
  ELSE DOMAIN file.pages
Nominated(file) == {c \in file.candidates : c.page \in Looked(file)}

Analyse ==
  /\ stage = "received"
  /\ \E tools \in ToolSets :
       IF Processable(document, AsReceived(document), tools)
       THEN /\ stage' = "analysed"
            /\ mentions' = Mentions(document.type, Nominated(document))
       ELSE stage' = "failed" /\ UNCHANGED mentions
  /\ UNCHANGED <<document, job, output, run>>

-----------------------------------------------------------------------------
(* review_mention; the bound, here and for a transformation: one output.    *)

Reviewable == stage \in {"analysed", "failed"}

Review(k, action) ==
  /\ Reviewable
  /\ mentions' = [mentions EXCEPT ![k].review = action]
  /\ stage' = "analysed"
  /\ UNCHANGED <<document, job, output, run>>

-----------------------------------------------------------------------------
(* transform_file *)

Pending == \E m \in ToSet(mentions) : m.review = "PENDING"
Active == Where(mentions, {k \in DOMAIN mentions : mentions[k].review # "IGNORE"})

(* Placeholders number the entities of a type as the analysis met them.     *)
Placeholder(e) == Min({k \in DOMAIN mentions : Entity(mentions[k]) = e})

_mentions_by_entity(e) ==
  {[page |-> IF document.type = "DATASET" THEN document.pages[m.page].row ELSE m.page,
    review |-> m.review, related |-> m.related] : m \in {n \in ToSet(mentions) : Entity(n) = e}}
_entity_rows ==
  LET first == {k \in DOMAIN mentions : Placeholder(Entity(mentions[k])) = k}
  IN Arranged([k \in first |-> [id |-> Entity(mentions[k]), type |-> mentions[k].type,
                                mentions |-> _mentions_by_entity(Entity(mentions[k]))]],
              [k \in first |-> {j \in first : Earlier(<<TypeRank(mentions[j].type), j>>,
                                                      <<TypeRank(mentions[k].type), k>>)}])
_graph(level) == build_exposure_graph(_entity_rows, document.type = "DATASET", level, job.audience)
Recommended == privacy_recommendation(_entity_rows, document.type, job.terms, job.audience)

EnforcedFloor ==
  IF job.enforced
  THEN Recommendation(_entity_rows, document.type, job.terms, job.audience).minimum
  ELSE 1

(* Mutant of _ordinal_map: the size of the group instead of the index.      *)
GroupSize(e) == Cardinality({Entity(m) : m \in {n \in ToSet(Active) : n.type = e[1]}})

_ordinal_map(e) ==
  Cardinality({Entity(m) : m \in {n \in ToSet(Active) :
                 n.type = e[1] /\ Placeholder(Entity(n)) < Placeholder(e)}})

RowKey(m) == <<TypeRank(m.type), Placeholder(Entity(m)), m.page, Min(m.box)>>
Instruction(m, level) ==
  [entity |-> Entity(m), type |-> m.type, page |-> m.page, chars |-> m.chars, box |-> m.box,
   repl |-> replacement_for_policy(m.type, m.value, level, job.audience,
                                   _ordinal_map(Entity(m)))]
Instructions(level) ==
  LET kept == Where(Active, {k \in DOMAIN Active :
                       action_for(Active[k].type, level, job.audience) # "RETAIN"})
      ordered == SortedBy(kept, [k \in DOMAIN kept |-> RowKey(kept[k])])
  IN [k \in DOMAIN ordered |-> Instruction(ordered[k], level)]

Dismissed ==
  {[type |-> m.type, page |-> m.page, box |-> m.box] :
     m \in {n \in ToSet(mentions) : n.review = "IGNORE" /\ n.type \in VISUAL_TYPES}}

Transformable(level) ==
  /\ Reviewable
  /\ ~Pending
  /\ level >= EnforcedFloor
  /\ Active # <<>>
  /\ level = 5 => document.type = "DATASET"

CannotWrite(level) ==
  LET instructions == Instructions(level)
  IN instructions = <<>> \/ (level < 5 /\ Rejected(document, instructions))

Store(level, instructions, patches, fault, useful, graph) ==
  /\ output' = [level |-> level, instructions |-> instructions, dismissed |-> Dismissed,
                patches |-> patches, written |-> Write(document, patches, fault),
                useful |-> useful, graph |-> graph]
  /\ stage' = "transformed" /\ run' = NoRun
  /\ UNCHANGED <<document, job, mentions>>

TransformFails(level) ==
  /\ Transformable(level) /\ CannotWrite(level)
  /\ stage' = "failed"
  /\ UNCHANGED <<document, job, mentions, output, run>>

Transform(level) ==
  /\ Transformable(level) /\ ~CannotWrite(level) /\ level < 5
  /\ LET patches == Patches(document, Instructions(level))
     IN \E fault \in Faults(document, patches) :
          Store(level, Instructions(level), patches, fault, TRUE, _graph(level))

(* A twin is useful when its report says so, which takes 90 for privacy.     *)
Untouched(instructions) == DOMAIN document.pages \ {i.page : i \in ToSet(instructions)}
Synthesize ==
  /\ Transformable(5) /\ ~CannotWrite(5)
  /\ \E copied \in SUBSET Untouched(Instructions(5)), privacy \in {50, 90}, useful \in BOOLEAN :
       LET patches == synthesize_structured_twin(document, Instructions(5), copied)
       IN /\ useful => privacy >= 90
          /\ useful => ~RecordCopied(document, Write(document, patches, NoFault))
          /\ \E fault \in Faults(document, patches) :
               Store(5, Rebound(Instructions(5)), patches, fault, useful,
                     Measured(_graph(5), privacy, 80))

-----------------------------------------------------------------------------
(* verify_output *)

Transformed == {i.entity : i \in ToSet(output.instructions)}
KnownValues == {e \in Transformed : e[1] \notin VISUAL_TYPES}

Verify ==
  /\ stage = "transformed"
  /\ \E tools \in ToolSets :
       LET results == run_red_team(document, output.written, KnownValues,
                        output.instructions, Transformed, output.level,
                        output.dismissed, output.useful, tools)
       IN /\ run' = [tools |-> tools, results |-> results]
          /\ stage' = IF VerifiedSafe(results) THEN "released" ELSE "blocked"
  /\ UNCHANGED <<document, job, mentions, output>>

FileNext ==
  \/ Analyse
  \/ \E k \in DOMAIN mentions, action \in {"PROTECT", "IGNORE"} : Review(k, action)
  \/ \E level \in Levels : TransformFails(level) \/ Transform(level)
  \/ Synthesize
  \/ Verify

FileSpec == FileInit /\ [][FileNext]_FileVars
-----------------------------------------------------------------------------
(* Properties *)

(* A file has a stage, mentions of known types with a review, and a level   *)
(* once there is an output.                                                 *)
FileTypeOK ==
  /\ stage \in FileStages
  /\ \A m \in ToSet(mentions) :
        m.type \in EntityTypes /\ m.review \in Reviews
  /\ stage \in {"transformed", "released", "blocked"} => output.level \in Levels
  /\ run.results \subseteq Statuses

Channels ==
  ToSet(output.written.layer) \cup output.written.hidden \cup {output.written.sound}
    \cup (IF document.type = "DATASET" THEN {} ELSE ToSet(output.written.pixels))
Approved(e) == {i.repl : i \in {j \in ToSet(output.instructions) :
                                  j.type = e[1] /\ Occurs(e[2], j.repl)}}

(* Whatever place of the writers fails, a file that was released shows no   *)
(* value of an entity the policy had to transform: not in its text, not in  *)
(* its pictures, not in a channel nobody sees, except inside a replacement  *)
(* that names it on purpose.  "Original values" is what every rescan of     *)
(* red_team.py looks for.  Values of fewer than four characters may stay in *)
(* hidden channels; a synthetic twin may repeat what identifies nobody, a   *)
(* dataset and a video what their own replacements contain.  No code that   *)
(* decodes is left, on the frames nobody read either.                       *)
ReleasedRevealsNothing ==
  stage = "released" =>
    /\ \A e \in KnownValues, c \in Channels :
         \/ IsShort(e[2]) /\ c \in output.written.hidden
         \/ document.type = "DATASET" /\ output.level = 5
         \/ document.type \in {"DATASET", "VIDEO"} /\ Approved(e) # {}
         \/ ~Occurs(e[2], Masked(c, Approved(e)))
    /\ \A c \in CodesLeft(document, output.written) : document.pages[c[1]].words[c[2]][3] = 0

(* A release is never for want of a tool: the rescans of a file that was    *)
(* released could run and found nothing, in its text and, for a PDF or an   *)
(* image, in its pixels, for a video in the frames that were read again,    *)
(* and it has no sound.  "INCONCLUSIVE" is not a pass (verify_output).     *)
ReleaseFailsClosed ==
  stage = "released" /\ document.type # "DATASET" =>
    /\ "reader" \in run.tools
    /\ document.type \in {"TEXT", "DOCX", "PDF"} =>
         ~_text_leaks(Content(output.written), KnownValues, output.instructions)
    /\ document.type \in {"PDF", "IMAGE"} =>
         /\ "tesseract" \in run.tools
         /\ ~_text_leaks(Pictures(output.written), KnownValues, output.instructions)
    /\ document.type = "PDF" => "pdftotext" \in run.tools
    /\ document.type = "VIDEO" =>
         /\ "tesseract" \in run.tools
         /\ ~_text_leaks(Processed(document, output.written),
                         _policy_required_absence_values(KnownValues, output.instructions), <<>>)
         /\ output.written.sound = <<>>

(* Nothing that was left to be found: every place where the value of a      *)
(* transformed entity stands is one of its mentions.                        *)
AllMentioned ==
  \A e \in KnownValues : \A p \in Looked(document) :
    \A s \in Occurrences(e[2], document.pages[p].words) :
       \E i \in ToSet(output.instructions) : i.entity = e /\ i.page = p /\ i.box = s

(* A value, or a fragment, that the rest of the output has in common: in a  *)
(* replacement that was not made to contain it, or outside the mentions.    *)
Coincides ==
  \E e \in KnownValues : \E f \in FragmentsOf(e[1], e[2]) \cup {e[2]} :
    \/ \E i \in ToSet(output.instructions) :
         (i.type # e[1] \/ f # e[2]) /\ Occurs(f, i.repl)
    \/ \E p \in Looked(document) : \E s \in Occurrences(f, document.pages[p].words) :
         ~\E i \in ToSet(output.instructions) : i.page = p /\ s \subseteq i.box

(* The one rectangle that follows an entity through a video misses a place   *)
(* of it: the value stands twice on a frame, stays longer than hold_frames,  *)
(* or does not move straight.                                                *)
OffTrack ==
  /\ document.type = "VIDEO"
  /\ \E e \in KnownValues : \E p \in DOMAIN document.pages :
       \E s \in Occurrences(e[2], document.pages[p].words) :
          ~\E q \in output.patches : q.page = p /\ s \subseteq q.span

(* The verifier does not cry wolf: when every tool is there, the writers    *)
(* did what they were told, nobody dismissed a mention and every occurrence *)
(* of every value was found, the file is released.  The exceptions are a    *)
(* synthetic twin whose own report is bad, a video that shows a value off    *)
(* its track, and a DOCX with a mention in a   *)
(* picture: replacement_presence_attack reads only the text parts.          *)
FaithfulOutputIsReleased ==
  stage = "blocked" =>
    \/ run.tools # Tools
    \/ output.written # Write(document, output.patches, NoFault)
    \/ ~output.useful
    \/ \E m \in ToSet(mentions) : m.review = "IGNORE"
    \/ ~AllMentioned
    \/ Coincides
    \/ OffTrack
    \/ document.type = "DOCX" /\ \E i \in ToSet(output.instructions) :
          document.pages[i.page].kind = "scan" /\ i.type \notin VISUAL_TYPES

(* Levels 2 and 4 promise that records about one entity can still be linked *)
(* and those of two cannot be confused: over a released file, a token or an *)
(* alias stands for one entity and an entity for one of them.  PAN and tax  *)
(* identifiers are the exception: they share the words of their alias.      *)
LinkageIsKept ==
  stage = "released" /\ output.level \in {2, 4} =>
    \A i, j \in ToSet(output.instructions) :
       {i.type, j.type} \subseteq DIRECT_TYPES \cup {"EMPLOYER"} =>
         \/ i.entity = j.entity <=> i.repl = j.repl
         \/ {i.type, j.type} = {"PAN_LIKE", "TAX_IDENTIFIER"}

Kept ==
  LET active == ActiveEntities(_entity_rows)
  IN Where(active, {k \in DOMAIN active :
                      action_for(active[k].type, output.level, job.audience) = "RETAIN"})
ToldOf(path, types) == {id[1] : id \in ToSet(Tail(path.nodes))} = types

(* "The selected audience policy permits this context; residual risk remains *)
(* visible in the score" (compiler.py): the graph in the manifest of an       *)
(* output is about what the output was made from.  It has a node for each     *)
(* entity that was transformed or retained and for no other, retained ones    *)
(* weigh as before, a combination that may be read in one record is a path    *)
(* unless eight others weigh more, and no preview promised a lower score.     *)
ExposureIsTold ==
  stage \in {"transformed", "released", "blocked"} =>
    LET graph == output.graph
        preview == Recommended.previews[output.level]
        kept == Kept
    IN /\ {n.id : n \in graph.nodes} \ {FileNode, PersonNode}
            = Transformed \cup {row.id : row \in ToSet(kept)}
       /\ graph.risk.after >= Score(_component_scores(kept, 1, job.audience, FALSE))
       /\ \A c \in ToSet(combination_specs) :
             Meet(kept, ToSet(c.types), document.type = "DATASET") =>
               \/ \E path \in ToSet(graph.paths) : ToldOf(path, ToSet(c.types))
               \/ \A k \in 1 .. PathLimit : graph.paths[k].score >= c.weight
       /\ preview.supported /\ graph.risk.after <= preview.residual

Touches(c, d) ==
  c.page = d.page /\ ((c.chars \cap d.chars) \cup (c.box \cap d.box)) # {}

(* Merging resolves overlaps, it does not forget: each candidate of the     *)
(* detectors is met by a mention, unless it is a heading, a code in a video  *)
(* that does not decode, or gave way to a                                    *)
(* detection whose place a v5 detection elsewhere then took.                *)
EveryCandidateIsAnswered ==
  mentions # <<>> =>
    \A c \in Nominated(document) :
       \/ \E m \in ToSet(mentions) : Touches(c, m)
       \/ c.title
       \/ document.type = "VIDEO" /\ c.type = "QR_CODE" /\ Head(c.value)[3] = 0
       \/ \E e, v \in document.candidates :
            /\ IsV5(v) /\ v.type = e.type /\ ~IsV5(e)
            /\ Touches(c, e) /\ Touches(e, v) /\ ~Touches(c, v)
=============================================================================
