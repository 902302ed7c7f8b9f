----------------------------- MODULE JobLifecycle -----------------------------
(***************************************************************************)
(* One VeilGraph job from creation to cryptographic erasure: its rows in   *)
(* SQLite (core/database.py), its encrypted workspace and RAM-only key     *)
(* (security/workspace.py), its hash-chained audit ledger                  *)
(* (audit/ledger.py), the request handlers of api/routes.py that run in a  *)
(* thread pool, and the erasure of security/retention.py that runs against *)
(* them: on request, when retention expires, and after a restart.          *)
(*                                                                         *)
(* A handler is the sequence of its calls that read or write shared state. *)
(* The lock of the Database object covers one call and no more, so each is *)
(* an action and other threads step in between.                            *)
(***************************************************************************)
EXTENDS Naturals, Sequences, FiniteSets

CONSTANTS
  Request,         \* threads that serve requests
  None,            \* no receipt, no target
  MaxRequests,     \* bound: requests served, the creation of the job included
  MaxFaults        \* bound: crashes and unexpected exceptions

ASSUME LifecycleAssumption ==
  /\ MaxRequests \in Nat \ {0}
  /\ MaxFaults \in Nat

VARIABLES
  phase,           \* of the process: "starting" (lifespan) or "serving"
  expired,         \* the retention deadline has passed
  status,          \* jobs.status; every status but DESTROYED is "ACTIVE"
  files,           \* the files rows, each named after the request that made it
  entities,        \* the files that have canonical_entities rows
  outputs,         \* the outputs rows
  safe,            \* the outputs whose status is VERIFIED_SAFE
  certificates,    \* the proof_certificates rows
  ledger,          \* the audit_events rows
  receipt,         \* the destruction_receipts row
  key,             \* "live": registered; "popped": only referenced; "none"
  blobs,           \* the encrypted files in the workspace directory
  thread,          \* thread[r]: what request thread r still has to do
  eraser,          \* destroy_job_with_receipt, under _destroy_lock
  started,         \* how many requests have begun
  faults,          \* how many faults have happened
  erased           \* history: destroy_job_rows has committed

rows == <<status, files, entities, outputs, safe, certificates>>
store == <<rows, ledger, receipt>>
workspace == <<key, blobs>>
process == <<phase, expired, started, faults, erased>>
vars == <<store, workspace, thread, eraser, process>>

-----------------------------------------------------------------------------
Id == 1..MaxRequests

\* The calls each handler makes, in order.  Deviation: the row precedes the blob.
UploadStepsRowFirst ==
  <<"key", "file_row", "blob", "status", "tail", "event">>
UploadSteps == <<"key", "blob", "file_row", "status", "tail", "event">>

AnalyseSteps == <<"read", "active", "entity_row", "active", "mention_row",
                  "status", "tail", "event">>

TransformSteps == <<"read", "blob", "output_row", "status", "tail", "event">>

VerifySteps ==
  <<"read", "verdict", "status", "tail", "event", "certificate", "tail", "event">>

Steps ==
  [create    |-> <<"workspace", "job_row", "tail", "event">>,
   upload    |-> UploadSteps,
   analyse   |-> AnalyseSteps,
   review    |-> <<"status", "tail", "event">>,
   transform |-> TransformSteps,
   verify    |-> VerifySteps,
   export    |-> <<"read", "tail", "event">>]

Op == {"workspace", "job_row", "key", "blob", "file_row", "read", "active",
       "entity_row", "mention_row", "output_row", "verdict", "certificate",
       "status", "failed", "tail", "event"}

Trigger == {"MANUAL", "RETENTION_EXPIRED", "PROCESS_RESTART_KEY_LOSS"}

\* What the SHA-256 of an event commits to, besides the previous hash: the
\* request and the event type tell any two events of a job apart.
Hash == [seq : Nat, by : 0..MaxRequests,
         type : DOMAIN Steps \cup Trigger \cup {"certificate", "GENESIS"}]
Genesis == [seq |-> 0, by |-> 0, type |-> "GENESIS"]
Event == [hash : Hash, prev : Hash]

Thread == [type : DOMAIN Steps \cup {"idle", "certificate"}, id : 0..MaxRequests,
           target : Id \cup {None}, todo : Seq(Op), tail : Hash]

Idle == [type |-> "idle", id |-> 0, target |-> None, todo |-> <<>>,
         tail |-> Genesis]

Receipt == [trigger : Trigger, valid : BOOLEAN, head : Hash, count : Nat]

Eraser == [pc : {"idle", "tail", "append", "verify", "unregister", "wipe",
                 "rows", "receipt"},
           trigger : Trigger \cup {None}, tail : Hash, valid : BOOLEAN,
           head : Hash, count : Nat]

NoErasure == [pc |-> "idle", trigger |-> None, tail |-> Genesis,
              valid |-> FALSE, head |-> Genesis, count |-> 0]

TypeOK ==
  /\ phase \in {"starting", "serving"} /\ expired \in BOOLEAN
  /\ status \in {"ABSENT", "ACTIVE", "DESTROYED"}
  /\ files \subseteq Id /\ outputs \subseteq Id /\ blobs \subseteq Id
  /\ entities \subseteq files /\ safe \subseteq outputs
  /\ certificates \subseteq [output : outputs, by : Id]
  /\ ledger \subseteq Event
  /\ receipt \in Receipt \cup {None}
  /\ key \in {"none", "live", "popped"}
  /\ thread \in [Request -> Thread]
  /\ eraser \in Eraser
  /\ started \in 0..MaxRequests /\ faults \in 0..MaxFaults /\ erased \in BOOLEAN

Init ==
  /\ phase = "serving" /\ expired = FALSE
  /\ status = "ABSENT"
  /\ files = {} /\ entities = {} /\ outputs = {} /\ safe = {}
  /\ certificates = {} /\ ledger = {} /\ receipt = None
  /\ key = "none" /\ blobs = {}
  /\ thread = [r \in Request |-> Idle]
  /\ eraser = NoErasure
  /\ started = 0 /\ faults = 0 /\ erased = FALSE

-----------------------------------------------------------------------------
(* the audit ledger *)

\* SELECT ... ORDER BY sequence DESC LIMIT 1
LastHash ==
  IF ledger = {} THEN Genesis
  ELSE CHOOSE h \in {e.hash : e \in ledger} :
         \A e \in ledger : e.hash.seq <= h.seq

\* Deviation: the table has no UNIQUE constraint.
SequenceUnchecked(tail) == FALSE

\* UNIQUE(job_id, sequence)
SequenceTaken(tail) == \E e \in ledger : e.hash.seq = tail.seq + 1

Link(tail, by, type) ==
  [hash |-> [seq |-> tail.seq + 1, by |-> by, type |-> type], prev |-> tail]

\* verify_ledger: sequence numbers without a gap, every event committing to the
\* hash of the one before it.
ChainValid ==
  /\ {e.hash.seq : e \in ledger} = 1..Cardinality(ledger)
  /\ \A e \in ledger :
       /\ e.prev.seq + 1 = e.hash.seq
       /\ e.prev \in {f.hash : f \in ledger} \cup {Genesis}

-----------------------------------------------------------------------------
(* request handlers *)

\* A request has passed _job_or_404 and the other checks that read only, and
\* has been given the thread r.
Begin(r, type, target) ==
  /\ phase = "serving" /\ thread[r] = Idle /\ started < MaxRequests
  /\ thread' = [thread EXCEPT ![r] =
       [type |-> type, id |-> started + 1, target |-> target,
        todo |-> Steps[type], tail |-> Genesis]]
  /\ started' = started + 1
  /\ UNCHANGED <<store, workspace, eraser, phase, expired, faults, erased>>

\* The job id is known once POST /jobs has answered.
JobIsOpen == status = "ACTIVE" /\ \A r \in Request : thread[r].type # "create"

BeginCreate(r) == started = 0 /\ Begin(r, "create", None)
BeginUpload(r) == JobIsOpen /\ Begin(r, "upload", None)
BeginAnalyse(r) ==
  JobIsOpen /\ \E f \in files \ entities : Begin(r, "analyse", f)
BeginReview(r) == JobIsOpen /\ \E f \in entities : Begin(r, "review", f)
BeginTransform(r) == JobIsOpen /\ \E f \in entities : Begin(r, "transform", f)
BeginVerify(r) == JobIsOpen /\ \E o \in outputs : Begin(r, "verify", o)
BeginExport(r) == JobIsOpen /\ \E o \in safe : Begin(r, "export", o)

At(r, op) == thread[r].todo # <<>> /\ Head(thread[r].todo) = op

\* The handler goes on to its next call, or answers.
Proceed(r, t) ==
  thread' = [thread EXCEPT ![r] =
    IF Tail(t.todo) = <<>> THEN Idle ELSE [t EXCEPT !.todo = Tail(t.todo)]]
GoOn(r) == Proceed(r, thread[r])

\* An exception or an HTTP error ends the handler.
Stop(r) == thread' = [thread EXCEPT ![r] = Idle]

Usable == key \in {"live", "popped"}

CreateWorkspace(r) ==
  /\ At(r, "workspace")
  /\ key' = "live" /\ GoOn(r)
  /\ UNCHANGED <<store, blobs, eraser, process>>

InsertJob(r) ==
  /\ At(r, "job_row")
  /\ status' = "ACTIVE" /\ GoOn(r)
  /\ UNCHANGED <<files, entities, outputs, safe, certificates, ledger, receipt,
                 workspace, eraser, process>>

\* get_workspace finds only what is registered.
GetWorkspace(r) ==
  /\ At(r, "key")
  /\ IF key = "live" THEN GoOn(r) ELSE Stop(r)
  /\ UNCHANGED <<store, workspace, eraser, process>>

\* analyse and transform catch the exception and mark the job FAILED first.
FailOrStop(r) ==
  IF thread[r].type \in {"analyse", "transform"}
    THEN thread' = [thread EXCEPT ![r].todo = <<"failed">>]
    ELSE Stop(r)

\* get_workspace, read_encrypted, and the processing of the plaintext.
ReadBlob(r) ==
  /\ At(r, "read")
  /\ \/ key = "live" /\ thread[r].target \in blobs /\ GoOn(r)
     \/ FailOrStop(r)
  /\ UNCHANGED <<store, workspace, eraser, process>>

\* fingerprint, remember_plaintext: the workspace object is in hand.
UseWorkspace(r) ==
  /\ At(r, "active")
  /\ IF Usable THEN GoOn(r) ELSE Stop(r)
  /\ UNCHANGED <<store, workspace, eraser, process>>

\* Deviation: write_encrypted does not test _destroyed.
WriteBlobUnchecked(r) ==
  /\ At(r, "blob")
  /\ blobs' = blobs \cup {thread[r].id} /\ GoOn(r)
  /\ UNCHANGED <<store, key, eraser, process>>

WriteBlob(r) ==
  /\ At(r, "blob")
  /\ IF Usable
       THEN blobs' = blobs \cup {thread[r].id} /\ GoOn(r)
       ELSE blobs' = blobs /\ Stop(r)
  /\ UNCHANGED <<store, key, eraser, process>>

\* The files row refers to jobs, whose row is never deleted.
InsertFile(r) ==
  /\ At(r, "file_row")
  /\ files' = files \cup {thread[r].id} /\ GoOn(r)
  /\ UNCHANGED <<status, entities, outputs, safe, certificates, ledger, receipt,
                 workspace, eraser, process>>

\* The foreign key to files, and UNIQUE(job_id, file_id, fingerprint).
InsertEntity(r) ==
  /\ At(r, "entity_row")
  /\ IF thread[r].target \in files \ entities
       THEN entities' = entities \cup {thread[r].target} /\ GoOn(r)
       ELSE entities' = entities /\ Stop(r)
  /\ UNCHANGED <<status, files, outputs, safe, certificates, ledger, receipt,
                 workspace, eraser, process>>

\* INSERT OR IGNORE does not ignore the foreign key to canonical_entities.
InsertMention(r) ==
  /\ At(r, "mention_row")
  /\ IF thread[r].target \in entities THEN GoOn(r) ELSE Stop(r)
  /\ UNCHANGED <<store, workspace, eraser, process>>

\* Deviation: foreign keys are not enforced (SQLite's default).
InsertOutputUnchecked(r) ==
  /\ At(r, "output_row")
  /\ outputs' = outputs \cup {thread[r].id} /\ GoOn(r)
  /\ UNCHANGED <<status, files, entities, safe, certificates, ledger, receipt,
                 workspace, eraser, process>>

\* The foreign key to files again.
InsertOutput(r) ==
  /\ At(r, "output_row")
  /\ IF thread[r].target \in files
       THEN outputs' = outputs \cup {thread[r].id} /\ GoOn(r)
       ELSE outputs' = outputs /\ Stop(r)
  /\ UNCHANGED <<status, files, entities, safe, certificates, ledger, receipt,
                 workspace, eraser, process>>

\* UPDATE outputs ... WHERE id=?, which may match no row.  Without a
\* VERIFIED_SAFE verdict the handler skips the certificate and its event.
RecordVerdict(r) ==
  /\ At(r, "verdict")
  /\ \/ /\ safe' = safe \cup ({thread[r].target} \cap outputs)
        /\ GoOn(r)
     \/ /\ safe' = safe \ {thread[r].target}
        /\ thread' = [thread EXCEPT ![r].todo = <<"status", "tail", "event">>]
  /\ UNCHANGED <<status, files, entities, outputs, certificates, ledger, receipt,
                 workspace, eraser, process>>

\* UPDATE jobs SET status=? WHERE id=?, whatever the status is by now.
UpdateStatus(r) ==
  /\ At(r, "status") \/ At(r, "failed")
  /\ status' = "ACTIVE" /\ GoOn(r)
  /\ UNCHANGED <<files, entities, outputs, safe, certificates, ledger, receipt,
                 workspace, eraser, process>>

ReadTail(r) ==
  /\ At(r, "tail")
  /\ Proceed(r, [thread[r] EXCEPT !.tail = LastHash])
  /\ UNCHANGED <<store, workspace, eraser, process>>

InsertEvent(r) ==
  /\ At(r, "event")
  /\ IF SequenceTaken(thread[r].tail)
       THEN ledger' = ledger /\ Stop(r)
       ELSE /\ ledger' = ledger \cup
                 {Link(thread[r].tail, thread[r].id, thread[r].type)}
            /\ GoOn(r)
  /\ UNCHANGED <<rows, receipt, workspace, eraser, process>>

\* Deviation: as above, for the foreign key to outputs.
IssueCertificateUnchecked(r) ==
  /\ At(r, "certificate")
  /\ certificates' = certificates
       \cup {[output |-> thread[r].target, by |-> thread[r].id]}
  /\ GoOn(r)
  /\ UNCHANGED <<status, files, entities, outputs, safe, ledger, receipt,
                 workspace, eraser, process>>

\* verify_ledger, issue_certificate and upsert_certificate, which replaces the
\* certificate of an earlier verification; the foreign key is to outputs.
IssueCertificate(r) ==
  /\ At(r, "certificate")
  /\ IF thread[r].target \in outputs
       THEN /\ certificates' =
                 {c \in certificates : c.output # thread[r].target}
                   \cup {[output |-> thread[r].target, by |-> thread[r].id]}
            /\ Proceed(r, [thread[r] EXCEPT !.type = "certificate"])
       ELSE certificates' = certificates /\ Stop(r)
  /\ UNCHANGED <<status, files, entities, outputs, safe, ledger, receipt,
                 workspace, eraser, process>>

Handler(r) ==
  \/ CreateWorkspace(r) \/ InsertJob(r) \/ GetWorkspace(r) \/ ReadBlob(r)
  \/ UseWorkspace(r) \/ WriteBlob(r) \/ InsertFile(r) \/ InsertEntity(r)
  \/ InsertMention(r) \/ InsertOutput(r) \/ RecordVerdict(r)
  \/ UpdateStatus(r) \/ ReadTail(r) \/ InsertEvent(r) \/ IssueCertificate(r)

-----------------------------------------------------------------------------
(* destroy_job_with_receipt *)

EraserAt(pc) == eraser.pc = pc

\* Under the lock: a stored receipt answers at once, and a DESTROYED job
\* without one is a RuntimeError.
BeginErasure(trigger) ==
  /\ EraserAt("idle") /\ receipt = None /\ status = "ACTIVE"
  /\ eraser' = [NoErasure EXCEPT !.pc = "tail", !.trigger = trigger]
  /\ UNCHANGED <<store, workspace, thread, process>>

DestroyJob == phase = "serving" /\ JobIsOpen /\ BeginErasure("MANUAL")
SweepExpired ==
  phase = "serving" /\ expired /\ BeginErasure("RETENTION_EXPIRED")
SweepAfterRestart ==
  phase = "starting" /\ BeginErasure("PROCESS_RESTART_KEY_LOSS")

EraserReadTail ==
  /\ EraserAt("tail")
  /\ eraser' = [eraser EXCEPT !.pc = "append", !.tail = LastHash]
  /\ UNCHANGED <<store, workspace, thread, process>>

\* `except Exception`: the erasure continues whatever the audit does.
EraserAppend ==
  /\ EraserAt("append")
  /\ IF SequenceTaken(eraser.tail)
       THEN ledger' = ledger /\ eraser' = [eraser EXCEPT !.pc = "unregister"]
       ELSE /\ ledger' = ledger \cup {Link(eraser.tail, 0, eraser.trigger)}
            /\ eraser' = [eraser EXCEPT !.pc = "verify"]
  /\ UNCHANGED <<rows, receipt, workspace, thread, process>>

EraserVerify ==
  /\ EraserAt("verify")
  /\ eraser' = [eraser EXCEPT !.pc = "unregister", !.valid = ChainValid,
                  !.head = LastHash, !.count = Cardinality(ledger)]
  /\ UNCHANGED <<store, workspace, thread, process>>

\* Deviation: destroy_workspace ignores a directory without a key.
UnregisterOnly ==
  /\ EraserAt("unregister")
  /\ key' = IF key = "live" THEN "popped" ELSE key
  /\ eraser' = [eraser EXCEPT !.pc = IF key = "live" THEN "wipe" ELSE "rows"]
  /\ UNCHANGED <<store, blobs, thread, process>>

\* destroy_workspace pops the registered workspace; without one it removes the
\* orphaned directory right away.
Unregister ==
  /\ EraserAt("unregister")
  /\ \/ /\ key = "live"
        /\ key' = "popped" /\ blobs' = blobs
        /\ eraser' = [eraser EXCEPT !.pc = "wipe"]
     \/ /\ key = "none"
        /\ key' = key /\ blobs' = {}
        /\ eraser' = [eraser EXCEPT !.pc = "rows"]
  /\ UNCHANGED <<store, thread, process>>

\* JobWorkspace.destroy, under the lock read_encrypted and write_encrypted take.
WipeWorkspace ==
  /\ EraserAt("wipe")
  /\ key' = "none" /\ blobs' = {}
  /\ eraser' = [eraser EXCEPT !.pc = "rows"]
  /\ UNCHANGED <<store, thread, process>>

\* destroy_job_rows: one transaction.
DestroyRows ==
  /\ EraserAt("rows")
  /\ status' = "DESTROYED" /\ erased' = TRUE
  /\ files' = {} /\ entities' = {} /\ outputs' = {} /\ safe' = {}
  /\ certificates' = {} /\ ledger' = {}
  /\ eraser' = [eraser EXCEPT !.pc = "receipt"]
  /\ UNCHANGED <<receipt, workspace, thread, phase, expired, started, faults>>

StoreReceipt ==
  /\ EraserAt("receipt")
  /\ receipt' = [trigger |-> eraser.trigger, valid |-> eraser.valid,
                 head |-> eraser.head, count |-> eraser.count]
  /\ eraser' = NoErasure
  /\ UNCHANGED <<rows, ledger, workspace, thread, process>>

Erase ==
  \/ EraserReadTail \/ EraserAppend \/ EraserVerify \/ Unregister
  \/ WipeWorkspace \/ DestroyRows \/ StoreReceipt

-----------------------------------------------------------------------------
(* environment *)

Expire ==
  /\ status # "ABSENT" /\ ~expired
  /\ expired' = TRUE
  /\ UNCHANGED <<store, workspace, thread, eraser, phase, started, faults, erased>>

Fault == faults < MaxFaults /\ faults' = faults + 1

\* A call of a handler raises something it does not catch.
HandlerRaises(r) ==
  /\ Fault /\ thread[r] # Idle /\ Stop(r)
  /\ UNCHANGED <<store, workspace, eraser, phase, expired, started, erased>>

\* A database or signing error outside the `try` of the erasure; one inside it
\* only costs the audit, and JobWorkspace.destroy ignores those of rmtree.
EraserRaises ==
  /\ Fault /\ eraser.pc \notin {"idle", "wipe"}
  /\ eraser' = IF eraser.pc \in {"tail", "append", "verify"}
                 THEN [eraser EXCEPT !.pc = "unregister"]
                 ELSE NoErasure
  /\ UNCHANGED <<store, workspace, thread, phase, expired, started, erased>>

\* The process dies and a new one runs its lifespan: SQLite and the directory
\* survive, the key does not.
Crash ==
  /\ Fault
  /\ phase' = "starting" /\ key' = "none"
  /\ thread' = [r \in Request |-> Idle] /\ eraser' = NoErasure
  /\ UNCHANGED <<store, blobs, expired, started, erased>>

\* Deviation: the application starts without the sweep.
ServeUnswept ==
  /\ phase = "starting" /\ EraserAt("idle")
  /\ phase' = "serving"
  /\ UNCHANGED <<store, workspace, thread, eraser, expired, started, faults, erased>>

\* Startup has swept the jobs that are not DESTROYED.
Serve ==
  /\ phase = "starting" /\ EraserAt("idle")
  /\ status # "ACTIVE" \/ receipt # None
  /\ phase' = "serving"
  /\ UNCHANGED <<store, workspace, thread, eraser, expired, started, faults, erased>>

BeginRequest(r) ==
  \/ BeginCreate(r) \/ BeginUpload(r) \/ BeginAnalyse(r) \/ BeginReview(r)
  \/ BeginTransform(r) \/ BeginVerify(r) \/ BeginExport(r)

Next ==
  \/ \E r \in Request : BeginRequest(r) \/ Handler(r) \/ HandlerRaises(r)
  \/ DestroyJob \/ SweepExpired \/ SweepAfterRestart \/ Erase
  \/ EraserRaises \/ Expire \/ Crash \/ Serve

Spec == Init /\ [][Next]_vars

-----------------------------------------------------------------------------
(* safety *)

\* "Privacy erasure": from the moment its rows are gone the job has neither a
\* usable key nor ciphertext, whatever handlers were writing meanwhile, and
\* however many faults came in between.
KeysDieFirst == erased \/ receipt # None => key = "none" /\ blobs = {}

\* While the API serves requests no ciphertext is on disk whose key is lost:
\* startup has erased "orphaned encrypted job directories".
NoOrphanCiphertext == phase = "serving" /\ blobs # {} => Usable

\* Concurrent append_event calls may fail, but as long as the job is not
\* erased they leave neither a gap nor a fork in the chain; and a certificate
\* row never exists without the VERIFICATION_COMPLETED event of the
\* verification that issued it, not even when the erasure overtakes
\* verify_output.
LedgerIntact ==
  /\ ~erased => ChainValid
  /\ \A c \in certificates : \E e \in ledger : e.hash.type = "verify" /\ e.hash.by = c.by

\* Until the erasure starts, every files and outputs row of a job whose key is
\* live has its encrypted blob: handlers write the blob before the row.
RowsHaveBlobs == key = "live" => files \cup outputs \subseteq blobs

\* What identified persons stays erased: no canonical entity, output or
\* certificate survives destroy_job_rows or comes back.  Of the handlers that
\* overtake it, those that write such rows fail on a foreign key.
IdentityRowsStayErased ==
  erased => entities = {} /\ outputs = {} /\ certificates = {}

-----------------------------------------------------------------------------
(* what the documentation says and the code does not keep *)

\* SECURITY.md: "Destruction ... removes sensitive database rows and leaves only
\* a non-sensitive signed destruction tombstone."  Handlers that are still
\* running write status, files and audit_events after destroy_job_rows.
OnlyTombstoneRemains ==
  erased => status = "DESTROYED" /\ files = {} /\ ledger = {}

\* ARCHITECTURE.md: "Every major job event is chained with SHA-256 ... A verified
\* output receives an Ed25519 certificate".  Of two concurrent append_event calls
\* one fails and is not repeated, and a handler that stops there leaves a
\* VERIFIED_SAFE output without its event and its certificate.
VerifiedHasCertificate ==
  status = "ACTIVE" /\ EraserAt("idle") /\ (\A r \in Request : thread[r] = Idle) =>
    \A o \in safe : \E c \in certificates : c.output = o

\* retention.py: "The signed tombstone records whether the audit chain was valid
\* at destruction time."  It records FALSE for an intact chain when the append
\* of the erasure itself loses that race.
ReceiptIsAccurate == receipt # None => receipt.valid

\* retention.py: "Cryptographically erase one job and persist a signed
\* destruction tombstone."  After a crash or an error between the
\* two no receipt is ever stored: the job is DESTROYED, every later call raises.
DestroyedHasReceipt ==
  phase = "serving" /\ EraserAt("idle") /\ erased => receipt # None

-----------------------------------------------------------------------------
(* liveness *)

\* The sweeper's period, the thread pool and SQLite let whatever has begun go
\* on, and a crashed process is started again.  No request need ever come.
LiveNext ==
  \/ \E r \in Request : BeginRequest(r) \/ Handler(r)
  \/ DestroyJob \/ SweepExpired \/ SweepAfterRestart \/ Erase
  \/ Expire \/ Crash \/ Serve

LiveSpec ==
  /\ Init /\ [][LiveNext]_vars
  /\ WF_vars(Erase) /\ WF_vars(SweepExpired)
  /\ WF_vars(SweepAfterRestart) /\ WF_vars(Serve)

\* "TTL": once its retention has expired, a job's key and ciphertext are gone
\* for good, crashes included, even if handlers keep running.
ExpiredIsErased == expired ~> [](key = "none" /\ blobs = {})
==============================================================================
