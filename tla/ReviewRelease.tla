----------------------------- MODULE ReviewRelease -----------------------------
(* Analysis, human review, transformation, verification and release of one  *)
(* file (api/routes.py), as the reads and writes their handlers make in the *)
(* database, with the requests interleaved.  The document is the sequence   *)
(* of what the detectors find in it.  Job status, audit events and blobs    *)
(* belong to JobLifecycle; confidences, levels and replacements are left    *)
(* out, except that the policy retains entities of some kinds.              *)
EXTENDS SigningKey, Sequences, FiniteSets

CONSTANTS
  Handler,       \* the requests that run handlers
  Entity,        \* fingerprints of values
  Detected,      \* per detection: its entity, kind and initial review status
  RetainedKinds, \* kinds the privacy level leaves as they are
  MaxOutputs     \* bound: transformations that store an output

(* Kinds: "direct" values the rescan recognizes by itself, "context" values *)
(* it only knows when the entity was to be protected, "visual" QR shapes.   *)
Kinds == {"direct", "context", "visual"}

ASSUME ReviewAssumption ==
  /\ Handler \subseteq Maker
  /\ Detected \in Seq([entity : Entity, kind : Kinds,
                       review : {"PENDING", "NOT_REQUIRED"}])

VARIABLES
  entities,   \* rows of canonical_entities: [entity, by]
  mentions,   \* rows of mentions: [detection, by, review]
  outputs,    \* sequence of outputs: [protects, excused, status]
  handler,    \* local state of each request's handler
  certificates, downloads,   \* documents handed out
  dismissed   \* history: detections a reviewer has chosen to ignore

rows == <<entities, mentions, outputs>>
documents == <<certificates, downloads>>
review == <<rows, handler, documents, dismissed>>

PCs ==
  {"idle", "analyse", "entity", "mention", "transform", "rows", "regions", "store",
   "verify", "record", "key", "create", "write", "read", "leaving", "done"}

Detection == DOMAIN Detected

Local ==
  [pc : PCs, next : Nat, rows : SUBSET Detection, excused : SUBSET Detection,
   output : Nat, safe : BOOLEAN, named : Handler \cup {"none"}]

EntityRow == [entity : Entity, by : Handler]
MentionRow ==
  [detection : Detection, by : Handler,
   review : {"PENDING", "NOT_REQUIRED", "PROTECT", "IGNORE"}]
Output ==
  [protects : SUBSET Detection, excused : SUBSET Detection,
   status : {"CREATED", "VERIFIED_SAFE", "RELEASE_BLOCKED"}]

Fresh ==
  [pc |-> "idle", next |-> 0, rows |-> {}, excused |-> {}, output |-> 0,
   safe |-> FALSE, named |-> "none"]

ReviewInit ==
  /\ entities = {} /\ mentions = {} /\ outputs = <<>>
  /\ handler = [h \in Handler |-> Fresh]
  /\ certificates = {} /\ downloads = {} /\ dismissed = {}
  /\ KeyInit

Become(h, local) == handler' = [handler EXCEPT ![h] = local]

Goto(h, pc) == Become(h, [handler[h] EXCEPT !.pc = pc])

(* The handler's variables are gone once it answers.                        *)
Ended(pc) == [Fresh EXCEPT !.pc = pc]

Leave(h) == Become(h, Ended("leaving"))

-----------------------------------------------------------------------------
(* analyse_file *)

CheckUnanalysed(h) ==
  /\ handler[h].pc = "analyse"
  /\ IF entities # {} \/ Detected = <<>> THEN Leave(h)
     ELSE Become(h, [handler[h] EXCEPT !.pc = "entity", !.next = 1])
  /\ UNCHANGED <<rows, documents, dismissed, keyFile>>

(* The canonical entities this handler has made are in its own dictionary.  *)
Seen(i) == \E j \in 1 .. i - 1 : Detected[j].entity = Detected[i].entity

(* Slip: the UNIQUE constraint on a job's fingerprints is missing.          *)
RowExistsNever(i) == FALSE

(* UNIQUE(job_id, file_id, fingerprint)                                     *)
RowExists(i) == \E e \in entities : e.entity = Detected[i].entity

InsertEntity(h) ==
  LET i == handler[h].next IN
  /\ handler[h].pc = "entity"
  /\ IF ~Seen(i) /\ RowExists(i)
     THEN Leave(h) /\ UNCHANGED entities
     ELSE /\ entities' = entities \cup {[entity |-> Detected[i].entity, by |-> h]}
          /\ Goto(h, "mention")
  /\ UNCHANGED <<mentions, outputs, documents, dismissed, keyFile>>

InsertMention(h) ==
  LET i == handler[h].next IN
  /\ handler[h].pc = "mention"
  /\ mentions' = mentions \cup {[detection |-> i, by |-> h, review |-> Detected[i].review]}
  /\ IF i = Len(Detected) THEN Leave(h)
     ELSE Become(h, [handler[h] EXCEPT !.pc = "entity", !.next = i + 1])
  /\ UNCHANGED <<entities, outputs, documents, dismissed, keyFile>>

-----------------------------------------------------------------------------
(* review_mention: the row it reads cannot change but for its review.       *)

Review(m, decision) ==
  /\ m \in mentions /\ decision \in {"PROTECT", "IGNORE"}
  /\ mentions' = (mentions \ {m}) \cup {[m EXCEPT !.review = decision]}
  /\ dismissed' = IF decision = "IGNORE" THEN dismissed \cup {m.detection} ELSE dismissed
  /\ UNCHANGED <<entities, outputs, handler, documents, keyFile>>

-----------------------------------------------------------------------------
(* transform_file: three reads of the mentions, then the output.            *)

Pending == {m \in mentions : m.review = "PENDING"}

PassGate(h) ==
  /\ handler[h].pc = "transform"
  /\ IF Pending # {} THEN Leave(h) ELSE Goto(h, "rows")
  /\ UNCHANGED <<rows, documents, dismissed, keyFile>>

Detections(S) == {m.detection : m \in S}

ReadRows(h) ==
  LET kept == Detections({m \in mentions : m.review # "IGNORE"}) IN
  /\ handler[h].pc = "rows"
  /\ Become(h, [handler[h] EXCEPT !.pc = "regions", !.rows = kept])
  /\ UNCHANGED <<rows, documents, dismissed, keyFile>>

Visual(i) == Detected[i].kind = "visual"

(* Slip: every region that is not to be protected counts as dismissed.      *)
ExcusedUnlessProtected(mine) ==
  {i \in Detections(mentions) : Visual(i)} \ mine

ExcusedRegions(mine) ==
  {i \in Detections({m \in mentions : m.review = "IGNORE"}) : Visual(i)}

ReadRegions(h) ==
  /\ handler[h].pc = "regions"
  /\ IF handler[h].rows = {} THEN Leave(h)
     ELSE Become(h, [handler[h] EXCEPT !.pc = "store",
                                       !.excused = ExcusedRegions(handler[h].rows)])
  /\ UNCHANGED <<rows, documents, dismissed, keyFile>>

Protects(kept) == {i \in kept : Detected[i].kind \notin RetainedKinds}

StoreOutput(h) ==
  LET protects == Protects(handler[h].rows) IN
  /\ handler[h].pc = "store"
  /\ Len(outputs) < MaxOutputs
  /\ outputs' = IF protects = {} THEN outputs
                ELSE Append(outputs, [protects |-> protects, excused |-> handler[h].excused,
                                      status |-> "CREATED"])
  /\ Leave(h)
  /\ UNCHANGED <<entities, mentions, documents, dismissed, keyFile>>

-----------------------------------------------------------------------------
(* verify_output and run_red_team *)

(* What can still be seen in the output.                                    *)
Residual(output) == Detection \ output.protects

DirectIdentifierRescan(output) ==
  \A i \in Residual(output) : Detected[i].kind # "direct"

(* The known values are those of the entities the output protects.          *)
KnownValuesAbsent(output) ==
  \A i \in Residual(output), j \in output.protects :
     ~Visual(j) => Detected[i].entity # Detected[j].entity

QRRescan(output) ==
  \A i \in Residual(output) : Visual(i) => i \in output.excused

(* Every test must pass; those that are not modelled may fail or be         *)
(* inconclusive.                                                            *)
RunRedTeam(output, others) ==
  /\ DirectIdentifierRescan(output) /\ KnownValuesAbsent(output) /\ QRRescan(output)
  /\ others

Attack(h) ==
  \E others \in BOOLEAN :
  /\ handler[h].pc = "verify"
  /\ Become(h, [handler[h] EXCEPT !.pc = "record",
                                  !.safe = RunRedTeam(outputs[handler[h].output], others)])
  /\ UNCHANGED <<rows, documents, dismissed, keyFile>>

Record(h) ==
  /\ handler[h].pc = "record"
  /\ outputs' = [outputs EXCEPT ![handler[h].output].status =
                   IF handler[h].safe THEN "VERIFIED_SAFE" ELSE "RELEASE_BLOCKED"]
  /\ IF handler[h].safe THEN Goto(h, "key") ELSE Leave(h)
  /\ UNCHANGED <<entities, mentions, documents, dismissed, keyFile>>

-----------------------------------------------------------------------------
(* issue_certificate reads the key for the payload (twice, which one read   *)
(* stands for here) and again to sign it.                                   *)

LookForKey(h) ==
  /\ handler[h].pc = "key"
  /\ Goto(h, IF keyFile = "absent" THEN "create" ELSE "read")
  /\ UNCHANGED <<rows, documents, dismissed, keyFile>>

MakeKeyFile(h) ==
  /\ handler[h].pc = "create"
  /\ CreateKey
  /\ Goto(h, IF keyFile = "absent" THEN "write" ELSE "read")
  /\ UNCHANGED <<rows, documents, dismissed>>

FillKeyFile(h) ==
  /\ handler[h].pc = "write"
  /\ WriteKey(h)
  /\ Goto(h, "read")
  /\ UNCHANGED <<rows, documents, dismissed>>

(* The first read gives the key the certificate names, the second the one   *)
(* that signs it; an empty file raises SigningError.                        *)
ReadKey(h) ==
  /\ handler[h].pc = "read"
  /\ IF ~Readable THEN Leave(h) /\ UNCHANGED certificates
     ELSE IF handler[h].named = "none"
     THEN /\ Become(h, [handler[h] EXCEPT !.pc = "key", !.named = keyFile])
          /\ UNCHANGED certificates
     ELSE /\ certificates' = certificates \cup
               {[output |-> handler[h].output, named |-> handler[h].named, signed |-> keyFile]}
          /\ Leave(h)
  /\ UNCHANGED <<rows, downloads, dismissed, keyFile>>

-----------------------------------------------------------------------------
(* download_output: remembered with what it shows whose review is still     *)
(* unresolved at that moment.                                               *)

Download(o) ==
  /\ outputs[o].status = "VERIFIED_SAFE"
  /\ downloads' = downloads \cup
       {[output |-> o, unresolved |-> Detections(Pending) \cap Residual(outputs[o])]}
  /\ UNCHANGED <<rows, handler, certificates, dismissed, keyFile>>

(* A call of the handler raises, or refuses for a reason not modelled.      *)
Fails(h) ==
  /\ handler[h].pc \notin {"idle", "leaving", "done"}
  /\ Leave(h)
  /\ UNCHANGED <<rows, documents, dismissed, keyFile>>

Work(h) ==
  \/ CheckUnanalysed(h) \/ InsertEntity(h) \/ InsertMention(h)
  \/ PassGate(h) \/ ReadRows(h) \/ ReadRegions(h) \/ StoreOutput(h)
  \/ Attack(h) \/ Record(h)
  \/ LookForKey(h) \/ MakeKeyFile(h) \/ FillKeyFile(h) \/ ReadKey(h)
  \/ Fails(h)

-----------------------------------------------------------------------------
(* Properties *)

ReviewTypeOK ==
  /\ entities \subseteq EntityRow
  /\ mentions \subseteq MentionRow
  /\ outputs \in Seq(Output)
  /\ handler \in [Handler -> Local]
  /\ certificates \subseteq [output : Nat, named : Handler, signed : Handler]
  /\ downloads \subseteq [output : Nat, unresolved : SUBSET Detection]
  /\ dismissed \subseteq Detection
  /\ keyFile \in Handler \cup {"absent", "empty"}

(* The rows of an analysis are those of one request and a prefix of what    *)
(* was detected, even if two requests analyse the file at once or one fails *)
(* halfway; no detection is stored twice.                                   *)
AnalysisIsOfOnePiece ==
  /\ \A m, n \in mentions : m.by = n.by /\ (m.detection = n.detection => m = n)
  /\ \A m \in mentions : \A i \in 1 .. m.detection : i \in Detections(mentions)

(* A visual identifier that a VERIFIED_SAFE output still shows is one that  *)
(* a reviewer has chosen to ignore, however reviews and an unfinished       *)
(* analysis fall between the reads of the transformation.                   *)
ExcusedByReviewer ==
  \A o \in DOMAIN outputs : outputs[o].status = "VERIFIED_SAFE" =>
    {i \in Residual(outputs[o]) : Visual(i)} \subseteq dismissed

(* All certificates name and are signed by the one key the device keeps,    *)
(* whoever created it first, and across restarts.                           *)
OneIdentity ==
  \A c \in certificates : c.named = c.signed /\ c.signed = keyFile

(* "Where protection-critical review remains unresolved,                    *)
(* transformation/release is blocked" (PRIVACY_MODEL.md): at least, no      *)
(* released file shows a detection that still waits for its review.         *)
ReviewedBeforeRelease == \A d \in downloads : d.unresolved = {}
=============================================================================
