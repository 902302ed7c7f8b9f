# VeilGraph / RightsGate: formal models

TLA+ models of the backend under `src/backend/app`, the TLC runs that check them
on small instances, and TLAPS proofs of the properties that matter most. Every
definition is translated from the source; `PROJECT.json` names, for each of
them, the lines it stands for. Paths below are relative to `src/backend/app`
unless they begin with `src/`.

1. [The system](#1-the-system): parts, state, interaction, runs
2. [The assessment store](#2-the-assessment-store)
3. [The job lifecycle](#3-the-job-lifecycle)
4. [Heavy requests, review and release](#4-heavy-requests-review-and-release)
5. [The protection of a file](#5-the-protection-of-a-file)
6. [The assessment of an asset](#6-the-assessment-of-an-asset)
7. [Release authorization](#7-release-authorization)
8. [Proof packages and exports](#8-proof-packages-and-exports)
9. [The two pages](#9-the-two-pages)
10. [The boundary, the metrics and the archive](#10-the-boundary-the-metrics-and-the-archive)
11. [Proved, only checked, out of reach](#11-proved-only-checked-out-of-reach)
12. [Not modelled](#12-not-modelled)
13. [Plan](#13-plan)

## 1. The system

VeilGraph takes a document, finds personal data in it, transforms it, attacks
the result, and releases it with a signed certificate; then it erases the job.
RightsGate, in the same process, assesses media assets for provenance and
rights and lets a CMS publish only with the approval of two reviewers.

One FastAPI process serves both. `async def` handlers run on the event loop
(`upload_file`, the RightsGate handlers between their `await`s); `def` handlers
run in a thread pool, many at a time. State lives in four places:

* SQLite (`core/database.py`): one connection behind one lock that covers **one
  call**; handlers hold no transaction across calls. Every other module's
  atomicity follows from this. `rightsgate/store.py` opens its own connections
  and uses `BEGIN IMMEDIATE`.
* the workspace directory with AES-GCM blobs (`security/workspace.py`);
* RAM: the registry of workspaces with their keys, the admission semaphore,
  counters. It is lost on restart;
* the key file of the device and the reviewer registry, files that outlive it.

### Components

| Component | State it keeps | Operations | Hard behaviour | What makes it correct | Module |
|---|---|---|---|---|---|
| Assessment store and `/assessments` (`rightsgate/store.py`, `rightsgate/api.py`) | row per idempotency key: status, inputs, attempt, lease, result | reserve, complete, fail, get | lease expires under a running attempt; crash between reserve and complete; clock read before the write lock | one live attempt; stale attempts are fenced; results immutable; all callers agree; a crash is recovered | `AssessmentStore`, `IdempotentExecution` |
| Job handlers (`api/routes.py`) | `jobs`, `files`, `canonical_entities`, `mentions`, `outputs`, `proof_certificates` | create, upload, analyse, review, transform, verify, export, destroy | several transactions per request; other handlers and the erasure run in between | rows refer to blobs; proof exists for what is released; nothing comes back after erasure | `JobLifecycle`, `ReviewRelease`, `FileProtection` |
| Retention and destruction (`security/retention.py`) | `destruction_receipts`, `_destroy_lock` | destroy with receipt, sweeps, worker | runs against handlers it does not lock out; crash between its steps | key and ciphertext die first and for good; every expired job is erased | `JobLifecycle` |
| Workspace (`security/workspace.py`) | registry, keys, `_destroyed`, blobs | create, get, read, write, destroy | directory without key after a crash | no ciphertext without key; no write after destruction | `JobLifecycle` |
| Audit ledger (`audit/ledger.py`) | `audit_events`, a hash chain per job | append_event, verify_ledger | append reads and inserts in two transactions | no gap, no fork | `JobLifecycle` |
| Lifespan and request boundary (`src/backend/main.py`) | process phase | startup sweep, retention task, slot around heavy requests | crash and restart | nothing is served before the sweep; every slot is given back | `JobLifecycle`, `HeavyRequests`, `DeploymentBoundary` |
| Deployment boundary (`security/deployment.py`, `network_guard.py`) | settings, the replaced socket functions | validate at startup, judge a request, guard a connection | settings that startup accepts and requests cannot meet | whom a handler sees; what the guard lets out offline | `DeploymentBoundary` |
| Runtime metrics (`ops/metrics.py`) | counters, latencies, the window of recent requests | begin, end, snapshot | every way a request can end, cancellation included | what began and what ended add up | `RuntimeMetrics` |
| Release archive (`security/release_package.py`, two scripts) | none; archive and manifest | build, verify, build from an unpacked archive | archives damaged or put together anew | an accepted signed archive is one that was built | `ReleasePackage` |
| Control documents and upload validation (`rightsgate/api.py`, `rights/`, `contracts.py`, `ingestion/validator.py`) | the row of a key | derive entries, validate registries and policies, commit, fingerprint, replay | one document typed, listed or ordered in several ways; days and releases go by | a key is bound to what its documents say | `ControlDocuments` |
| Admission controller (`ops/admission.py`) | semaphore, queue, active count | slot | time-out or cancellation while a permit is handed over | permits are conserved, no wake-up is lost | `Admission` |
| Review to release (`routes.py`, `proof/certificate.py`) | decisions per mention, outputs | analyse, review, transform, verify, download | half-inserted analysis; decisions between three reads | an output shows only what a reviewer excused | `ReviewRelease` |
| Proof packages and exports (`proof/`, `routes.py`) | `outputs`, `proof_certificates`, `audit_events` | verify, certificate, bundle, package, annotated and synthetic export | several reads per export while verdicts and certificates are replaced | what was exported verifies, mixtures do not; exports are on the ledger | `ProofPackage`, `ProofExport` |
| Signing key (`security/signing.py`) | key file | first use | file created and written in two steps | one identity | `SigningKey` |
| Detection (`detection/pipeline.py`) | none | merge the candidates | order of comparisons | no candidate is forgotten | `DetectionMerge` |
| Policy compiler, recommendation (`policy/`) | none | action, replacement, level | levels, types, audiences | monotone; floors can be met | `PrivacyPolicy` |
| Exposure graph (`graph/exposure_graph.py`) | none; stored with an output as its manifest | build, score, recommend | caps and roundings; combinations in one record; relatives | what identifies a person is told | `ExposureGraph` |
| Writers (`transformation/`, `extraction/docx.py`, `extraction/video.py`) | none | sanitize, synthesize | a library fails at one place; spans overlap; few frames of a video are read | covers all mentions or raises | `Sanitizer`, `VideoTimeline` |
| Privacy Red Team (`verification/red_team.py`) | none | run_red_team | exemptions; a tool is missing | nothing leaks through a release; no false alarm | `RedTeam` |
| Policy, licensing, consent (`rightsgate/policy.py`, `rights/`) | registries | decide, evaluate | overlapping scopes, inclusive bounds | fail closed | `PublicationPolicy`, `GovernedRights` |
| Lanes and contracts (`rightsgate/execution.py`, detectors) | none | assess | one lane or one frame fails; verdicts override each other | failures show; conflicts prevail | `AssessmentExecution`, `DetectorLanes`, `AssessmentContracts` |
| Release authorization (`rightsgate/release_authorization.py`, `integration.py`) | registry, receipts | decide, attest, issue, verify | registry, key and clocks change in between | two roles for this very item, fresh, in force | `ReleaseAuthorization`, `DualControl` |
| Privacy console, RightsGate page (`src/frontend/src/App.tsx`, `rightsgate/RightsGateApp.tsx`, `api/client.ts`) | the state of a React component | the handlers of its buttons, the lifecycle poll | async handlers overlap, go on with the values of the render they began in, and outlive the job or the page | what is shown is what the backend has | `ReleaseConsole`, `RightsGateConsole` |

`DecisionPipelines` puts file protection, assessment, control documents, proof export,
the two pages, the boundary, the metrics and the release archive side by side: they
share no row, key or handler (proof export begins where file protection ends, with
outputs as values, the assessment with documents that were accepted, and the pages see
the backend through its answers), so one moves while the others wait in their first
state.

`PROJECT.json` lists the hazards, line by line, with the properties that cover
them; the two without a property have a note that says why.

### Runs

| Run | Question | Distinct states |
|---|---|---|
| `assessment_store`, `assessment_recovery` | section 2 | 492,000; 4,800 |
| `job_lifecycle`, `job_retention` | section 3 | 1,340,000; 59,000 |
| `job_residue`, `job_uncertified`, `job_false_alarm`, `job_lost_receipt` | section 3, divergences | stop at the counterexample |
| `heavy_requests` | section 4 | 308,000 |
| `review_gap` | section 4, divergence | stops at the counterexample |
| `decision_pipelines` | sections 5, 6, 8, 9 and 10 | 299,000 |
| `release_authorization` | section 7 | see there |

## 2. The assessment store

`AssessmentStore.tla` is `store.py` and the handler around it. `row[k]` is the
table row of key `k` (`ABSENT` when there is none), `req[r]` the locals of
request slot `r`, over all worker processes. Each transaction is an action:
`ReserveNew`, `TakeOver`, `Replay` and `Refuse` are the outcomes of `reserve()`,
`Complete` and `CompleteRaises` those of `complete()`, `Fail` is `fail()`.
`Submit` reads the clock, as `reserve()` does **before** `BEGIN IMMEDIATE`;
`Abandon` is a dead worker or a cancelled task. An assessment is its input and
`created_at`: two attempts with the same inputs give different commitments, so
agreement between callers is not automatic.

`IdempotentExecution.tla` is what callers may rely on: a key is bound once,
decided once, and answered with what was decided. `KeepsPromise` states that the
store implements it.

| Run | Instance | Shows |
|---|---|---|
| `assessment_store` | 1 key, 2 inputs, 3 requests, lease 2, clock to 5, 1 crash | type invariant, three safety properties and the refinement |
| `assessment_recovery` | 1 key, 2 inputs, 2 requests, clock to 6, 2 crashes | a reserved key is decided after all |

Rows of different keys share nothing but the clock, so one key is enough. Three
requests give a holder, a successor and a caller who replays; a clock of five
ticks has room for two take-overs with a lease of two.

Fairness (`LiveSpec`): every request goes on (`WF`), a client repeats the request
for a pending key (`SF`; recovery happens on a retry and in no other way, as the
documentation says), and time passes while a lease runs (`SF`). `PromptTick` lets
time pass only as fast as executions finish within their lease. Without it an
execution that is always slower than the lease is overtaken for ever: the code
bounds it by nothing else.

### Proved (`AssessmentStoreProofs.tla`)

For any sets of keys, inputs and requests and any positive lease: `TypeCorrect`,
`LeaseExclusion`, `Fencing`, `CallersAgree`, `Immutability` (which the refinement implies, so no run repeats it),
`Implementation`. The safety properties are not inductive: that a completing
request may write needs what it knows about its row. `IInv` adds
`HolderKnows` (a holder's attempt is either the row's own, still `PENDING` with
the lease the holder computed, or its lease has already run out),
`OneHolderPerAttempt`, and what a request carries from one step to the next
(`Carries`). The proof that a step keeps it has one step per action;
`Implementation` maps each step to a step of the promise or to a stutter. The
assumptions are those of `StoreAssumption`.

## 3. The job lifecycle

`JobLifecycle.tla` composes handlers, workspace, ledger and erasure for one job.
A handler is the **sequence of its calls that read or write shared state**
(`UploadSteps`, `AnalyseSteps`, ...). `thread[r].todo` holds the calls thread `r`
has left and each is an action, because the database lock is released
between them:

* `GetWorkspace`, `ReadBlob`, `UseWorkspace`, `WriteBlob`: the workspace. A key is
  `live` while registered, `popped` when `destroy_workspace` has taken it out of
  the registry but handlers still have the object, `none` afterwards.
* `InsertFile` ... `UpdateStatus`: one transaction each, with the foreign keys that
  SQLite enforces. `UpdateStatus` has no guard, because the code has none.
* `ReadTail`, `InsertEvent`: the two halves of `append_event`. A taken sequence
  number violates the UNIQUE constraint and ends the handler.
* `RecordVerdict`, `IssueCertificate`: the end of `verify_output`.

`eraser` is `destroy_job_with_receipt` under `_destroy_lock`: audit event, snapshot,
`Unregister`, `WipeWorkspace`, `DestroyRows`, `StoreReceipt`, begun by `DestroyJob`
(a request), `SweepExpired` (the worker) or `SweepAfterRestart` (startup). `Crash`
loses threads, eraser and key and keeps SQLite and the directory; `Serve` ends the
startup. `HandlerRaises` and `EraserRaises` are unexpected exceptions; inside the
audit part of the erasure an exception only costs the audit, as in the code.

Abstractions. Every status but `DESTROYED` is `ACTIVE` (the handlers test for
nothing else); checks that only read are part of `Begin`; an analysis has one
detection (a file that has entities is not analysed again: status 409); review
decisions and policy levels are not state; an event's hash is its sequence
number, the request it belongs to and its type, which assumes no SHA-256
collision; `rmtree` succeeds (the code ignores its errors); `JobWorkspace.destroy`
is one action, although `fingerprint` and `remember_plaintext` do not take its
lock. Uploads run on the event loop and cannot interleave with everything a
pool thread can: the model allows more there than the program does, which is
sound for the safety properties.

| Run | Instance | Shows |
|---|---|---|
| `job_lifecycle` | 2 threads, 2 more requests after create, upload, analyse, transform; 1 fault | type invariant, six safety properties |
| `job_retention` | from creation on, 2 threads, 3 requests, 1 crash | an expired job loses key and ciphertext for good |
| `job_residue`, `job_uncertified`, `job_false_alarm`, `job_lost_receipt` | as `job_lifecycle`, no fault (the last one: 1) | the four divergences below |

`job_lifecycle` starts (`Transformed`) in the state that the first four requests
produce when served one after the other: from there every handler is enabled,
so every pair of handlers races, with the erasure as a third party and a crash or
an exception at any point. Two threads suffice for every race of two; more
requests in a row only repeat, as each event and row is named after its request.
Threads are interchangeable, so they form a symmetry set (not in the liveness
run). `CHECK_DEADLOCK FALSE`: an erased job has nothing left to do, and
the bound on requests ends a run as well.

Fairness (`LiveSpec`): the erasure under way, the sweeper, the startup sweep and the
end of the startup are weakly fair: the worker wakes up periodically, a
crashed process is restarted, SQLite answers. Handlers are **not** fair: the
erasure must not depend on them. Exceptions are left out of `LiveNext`: one in the
erasure may lose it for good, which is the last divergence below.

### Proved (`JobLifecycleProofs.tla`)

For any number of threads, requests and faults, from `Init`:

* `ErasureKeysDieFirst`: `Spec => []KeysDieFirst`;
* `NoCiphertextWithoutKey`: `Spec => []NoOrphanCiphertext`.

Neither is inductive. After the erasure only `create_workspace` could make a key
and only `write_encrypted` a blob. The second tests the key. The first is
harmless because it is the first call of one request only, and that request
runs alone, before the job has a row: `KInv` adds `WorkspaceComesFirst`,
`CreatesAlone`, `Unstarted` and `Unborn`, and covers the window between the wipe
and the rows (`Beyond`). `Shorter` says in one place what every handler does to
its thread: it leaves calls that were there before. One lemma each covers
`BeginRequest`, `Handler`, the erasure's two parts and the environment.

The second part of the module proves the other four invariants of `job_lifecycle`,
again from `Init` and for any number of threads, requests and faults:

* `JobTypesAreKept`: `Spec => []TypeOK`, which contains the foreign keys;
* `LiveRowsHaveBlobs`: `Spec => []RowsHaveBlobs`;
* `LedgerStaysIntact`: `Spec => []LedgerIntact`;
* `IdentitiesStayErased`: `Spec => []IdentityRowsStayErased`.

They rest on the order in which a handler makes its calls, so `RInv` relates the
calls a thread has left to what it has done. `Sequenced`: in `todo` a blob comes
before its row, `read` before the rows it leads to, and nothing writes two `files`
rows or two certificates. `Numbered` and `FreshFiles`: request numbers are unique,
and nobody works on a file before its row is there. `BlobsFirst`: a thread with a
row to write has its blob or is still to write it. `RowsStayErased`: after the
erasure, a thread with an entity or output to write names a file that is gone (the
foreign key refuses) or has yet to `read`, which fails without a key. That file cannot
come back, since its own row is written once and by its own request. `Chained`: until
the erasure, every tail that was read is the hash of an event of the chain or
`Genesis`, so with the UNIQUE constraint an insert either extends the last event or
fails (`ChainGrows`); and a certificate still to be written has its event in the
ledger or in front of it in `todo`. `Moved` says once what any step but the beginning
of a request does to any thread; each conjunct of `RInv` then needs only the
handlers that write what it is about. The proof uses `KInv` for the key.

### Where documentation and code differ

* **Residue** (`OnlyTombstoneRemains`): a handler past `_job_or_404` writes status,
  `files` and `audit_events` after `destroy_job_rows`. Later erasures return the
  stored receipt and leave them. `SECURITY.md:47` promises only the tombstone
  remains. What identifies persons does stay erased (`IdentityRowsStayErased`),
  thanks to foreign keys.
* **Released without proof** (`VerifiedHasCertificate`): of two concurrent
  `append_event` calls one fails. When it is `verify_output`'s, the output is
  `VERIFIED_SAFE` without event and certificate. The chain itself stays intact,
  and no certificate exists without its event (`LedgerIntact`).
* **False alarm** (`ReceiptIsAccurate`): when the erasure loses that race, it signs
  that the audit chain was invalid.
* **Lost receipt** (`DestroyedHasReceipt`): a crash or error between
  `destroy_job_rows` and `store_destruction_receipt` leaves a job without receipt
  that no later call can give one.

## 4. Heavy requests, review and release

`Admission.tla` is `AdmissionController.slot` on `asyncio.Semaphore` as the module
uses it: `EnterSlot` takes a free permit when nobody waits, `JoinQueue` waits,
`GiveUp` is the time-out or cancellation, which may come before or after the
permit was handed over, `Resume` is the waiter's task running again, `Vacate` the
`finally`. The semaphore itself (Python 3.12) is external code.

`ReviewRelease.tla` has the handlers of one file at the granularity of their
database calls: `analyse_file` checks for rows, then inserts entity and mention
one detection at a time; `review_mention`; `transform_file` counts the pending
mentions, then reads the rows to protect, then the dismissed regions, then stores;
`verify_output` reads the entities and records a verdict, then issues the
certificate with the key of `SigningKey.tla` (create exclusively, then write;
a reader may find the empty file); `download_output` looks at the status alone. A
detection is an entity, its kind and its initial review status.

`HeavyRequests.tla` puts the first three inside the slot. `Restart` loses requests,
semaphore and rows (the keys in RAM are gone, so startup erases the job) and keeps
the key file and what was handed out.

| Run | Instance | Shows |
|---|---|---|
| `heavy_requests` | 4 requests, 2 permits, a name that needs review and a QR code, 1 output, 1 restart | permits are conserved and no wake-up lost; an analysis is of one piece; what a released file shows of visual identifiers was dismissed; one key signs everything |
| `review_gap` | 3 requests, an e-mail address and a name found twice | the divergence below |

Four requests on two permits make a queue of two with two holders, the least in
which a hand-over, a time-out and a newcomer meet. `CHECK_DEADLOCK FALSE`: every
request is made once, so they get used up. The bounds are `MaxOutputs` and
`MaxRestarts`. Requests are a symmetry set in `heavy_requests`. There is no
liveness for the queue: that a waiter is served depends on handlers that end,
which nothing in the code bounds; `PermitsAreHandedOn` is its safety core.

### Proved (`HeavyRequestsProofs.tla`)

For any requests, permits, detections and restarts, the six invariants of the run.
None but the counting is inductive alone. `AInv` has the semaphore's type, the sum
of permits and the lost wake-up together, because each needs the others; `TInv` adds
what a handler's program counter says of its local variables; then
`KInv` (the key file and what handlers hold of it), `EInv` (what a handler carries as
excused was dismissed) and `PInv` (all rows are by one request, whose handler knows
how far it has come).

### Where documentation and code differ

* **Review gap** (`ReviewedBeforeRelease`): a transformation that starts between
  two inserts of an analysis, or after one that failed halfway, counts no pending
  mention, protects what is stored so far, and is released. `PRIVACY_MODEL.md:52`
  says that unresolved review blocks transformation and release.

Seen on the way: two first signatures at once can find an empty key file and raise
after `VERIFIED_SAFE` was stored, and a crash between the two steps leaves an
empty key file for good; concurrent reviews can leave the status
`HUMAN_REVIEW_REQUIRED` with nothing pending.

## 5. The protection of a file

`FileProtection.tla` follows one file through `analyse_file`, `review_mention`,
`transform_file` and `verify_output`, each one action, because what is asked here
is what happens to the **contents**; section 4 has the interleavings.

* A page is a sequence of words, readable from a text layer or only from pixels; a
  cell of a dataset is a page, a picture in a DOCX is a scanned page. Words of the
  source, labels, masks, tokens and aliases are told apart by their first
  component. A document carries the candidates that its detectors nominate.
* A frame of a video is a page without text layer. `VideoTimeline.tla` has which frames
  are read (two a second, thinned to `MaxEvidence`), which others the security scan
  looks at because a word appeared or vanished (the code's threshold on the mean
  difference of thumbnails is taken as one word), how long a mention holds, and
  where the rectangle of its track is between two frames.
* `DetectionMerge.tla`: `detect_all` sorts the candidates and `Consider`s each against
  those accepted (`Duplicates`, `Outranks`); `Shadowed` is the v5 clean-up;
  `WithStructural` and `Stabilize` are what `analyse_file` adds for a format, with
  codes and repeated reviews of a video thinned out.
* `PrivacyPolicy.tla`: `action_for`, `replacement_for_policy`, `recommend_privacy_level`.
* `ExposureGraph.tla`: the entities that are left when dismissed mentions are gone, as
  a graph around the person the document is about (none in a dataset), with the score
  before and after a level, its caps and its roundings, the eight heaviest paths, and `privacy_recommendation` with its previews of
  all levels. The enforced floor of `transform_file` and its manifest come from it.
* `PythonBuiltins.tla`: how Python rounds, sums, sorts and filters. Sorted and filtered lists
  are `Arranged`: the place of a value is the number of those ahead of it. The operators
  of the library for this (`SelectSeq`, `SortSeq`) are closed to the prover, these are not.
* `Sanitizer.tla`: `Committed` are the patches of the instructions; the formats add
  propagated ones (`sanitize_text`, `_augment_pdf_instructions`,
  `_propagate_scanned_ocr_residuals`); `Rejected` is the `ValueError`. `Write` gives
  text layer, pixels, redrawn positions and hidden channels, with one of `Faults`:
  a patch skipped, missing in the pixels, its words left in a hidden channel, its
  replacement lost, metadata left, structure damaged, sound kept.
  `synthesize_structured_twin` regenerates the cells of a dataset.
* `RedTeam.tla`: each test is `Attempt(possible, pass)`, INCONCLUSIVE when it is not
  possible. Values are looked for with the masking of approved replacements, bytes
  with the minimum of four characters, names by fragments.

The instance has sixteen documents of all six formats (`MCDecisionPipelines.tla`), each made for a case
that goes wrong easily: a value reviewed and another unreviewed in one text, an
address whose parts overlap, a dataset whose record has no mention, a person
named like a city, an occurrence nobody found, a DOCX with a picture, a PDF of two
pages, a scan, codes that decode or not, contested spans, a relative, a combination of quasi-identifiers
within one record and one spread over two, a video with a moving name, and one with sound and a value that is seen between two frames that are read. Three jobs give all
audiences, with and without enforced floors. At most one fault and one missing tool:
the tests are independent, so the question is which single failure they miss. One
output per file (`Reviewable`); section 4 has what later decisions do to it.

| Property | Says |
|---|---|
| `ReleasedRevealsNothing` | no channel of a released file shows a transformed value, whatever the writers did |
| `ReleaseFailsClosed` | a release never rests on a rescan that could not run (proved) |
| `FaithfulOutputIsReleased` | the verifier blocks a file only for one of the reasons listed in it |
| `LinkageIsKept` | at levels 2 and 4 one alias stands for one entity |
| `EveryCandidateIsAnswered` | merging forgets no candidate, but for the cases it lists |
| `ExposureIsTold` | the manifest of an output is about what it was made from: a node for each active entity, retained ones weigh in full, combinations of them in one record are paths, and no preview promised less |

The exceptions written into these properties are behaviours of the code worth knowing:

* a name in a picture of a DOCX can only be released when its replacement
  also occurs in the text: `replacement_presence_attack` reads text parts only;
* without tesseract a scan cannot be analysed at all;
* a mention that is dismissed while another of the same value is protected is
  overridden by propagation in TEXT and PDF, and ends as RELEASE_BLOCKED in a DOCX
  or dataset;
* approval of a replacement is per type, so a person named like a city blocks a
  dataset in which that city survives in a locality;
* overlapping accepted detections (an address and the locality in it) raise, and
  the job is FAILED until a reviewer dismisses one;
* PAN and tax identifiers share the words of their alias;
* one instruction follows one track: of a value that is twice in a frame, is gone for
  longer than the hold, or does not move in a straight line, an occurrence is missed
  by the writer, and the rescan of that frame blocks the video;
* codes of a video that no decoder reads and that only geometry nominates are dropped;
* a dataset or a video may go on showing what one of its own replacements contains;
* that replacements are present is never checked for images and videos;
* the score of a dataset counts combinations over the whole file, its paths only those
  that meet in one record; a person with a case reference scores without being a path;
* the measured score of a synthetic twin replaces the estimate without its breakdown;
* dismissed entities still count for the level that is recommended;
* a candidate can be lost when the detection it gave way to is replaced by a v5 one
  elsewhere (`Contested`).

### Proved (`FileProtectionProofs.tla`)

For any documents with finitely many findings (`FileAssumption`: a finding is what the class
`DetectedMention` holds, of a known type and detector, with a rectangle), any jobs and tools:

* `Release`: `FileSpec => []ReleaseFailsClosed`, from the invariant `VerdictHolds` (only `Verify`
  sets "released", and nothing then changes what it judged) and `SafeMeansRescanned` (which
  tests `run_red_team` contains for a format).
* `FileKeepsTypes`, `LinkageLasts` and `ExposureLasts`: `FileTypeOK`, `LinkageIsKept` and
  `ExposureIsTold`. The inductive invariant is `FileInv`: mentions are a list of findings
  (`AreMentions`), and an output still has the instructions and the graph of its level
  that file and mentions give (`OutputHolds`; a measured twin has them rebound and with its own
  score). Without the second the properties could not be inductive: they compare
  what was stored with what would be made now. TLC checked `FileInv` first.
* `NothingIsHidden`: the part of `ReleasedRevealsNothing` that holds of every document, from
  the same invariant. A released file has no sound; no value that its format seeks is in the
  bytes of the file, taken together, or in a channel of its own; no fragment of an identifier is
  on a page, and no code that decodes, but for the formats that cannot carry them.
* `NoClusterIsForgotten`: `detect_all` keeps one candidate of every set that is closed under
  overlap, for chains of any length and whichever of its tests decides between two
  (`ConsiderHolds` for the one that is taken next, `FilterHolds` for the v5 filter).
* `IdentifiersAreNeverRetained`, `HigherLevelsProtectMore` and `RecommendationMeetsFloor`
  are about the compiler and the recommendation, for all inputs.

`Linked` rests on `OrdinalNamesEntity`: two entities of a type never share a number, since the
number counts the first mentions before its own. `Exposed` has three arguments:

* the rows of a file are its entities, each once (`FileRowsAre`), so the nodes of its graph are
  what an output transforms and what it keeps (`NodesAre`, `EntitiesAreTold`);
* what is retained weighs after a level what it weighs alone, so every sum in the score of
  what is kept is at most its like in the score of the file (`RetainedWeigh`,
  `RetainedCombine`), and products, caps and roundings are monotone (`ScoreGrows`). Relatives
  are no exception, as names are never retained. For a twin, which retains nothing, the score
  of what is kept is 0 (`NothingScores`), whatever was measured;
* a combination that meets among the kept rows meets among all (`MeetGrows`) and has its path
  (`ChainTells`); of the paths sorted by weight the graph shows eight, so a path that is not
  shown has eight before it that weigh as much (`HeaviestIs`).

What these rest on is what arranging does (`ArrangedTakes`: each place once, in its order;
`SortedKeeps`, `WhereKeeps`), and folds and sums over sets, by smallest
counterexamples (`BySubsets`, `FoldExists`, `SumGrows`; section 10). `PipelinesProtectFiles` in
`DecisionPipelinesProofs` carries all of it into the composition the run checks:
`PipelinesSpec => FileSpec`.

## 6. The assessment of an asset

`AssessmentExecution.tla` is `rightsgate/execution.py` as a pipeline: validate,
analyse, evaluate rights, decide, publish or refuse. `DetectorLanes.tla` has what
each adapter concludes from its observation, its failure results, and the
aggregation over frames; `GovernedRights.tla` licences and consents with their
windows and scopes; `PublicationPolicy.tla` the policy with all its reasons and
rules; `AssessmentContracts.tla` the validators of the record and of the graph.

Observations are arbitrary: every combination of what detectors see on an image,
on up to two frames (`MaxFrames`) and on audio, with the registries and policies
of `MCAssessmentExecution.tla`. Requests vary one dimension at a time around a
common one, so that each registry meets each observation. Two frames suffice
for an aggregate to differ from each of its parts.

| Property | Says |
|---|---|
| `NothingIsCleared` | no policy makes this executor say GO, as no lane can clear rights |
| `UncoveredUseIsBlocked` | a matched reference or person not covered for the whole use is a conflict |
| `TamperingIsNeverOutvoted` | tampering prevails, then credentials, then metadata and watermarks |
| `FailureIsNotAveragedAway` | a lane that failed, on one frame even, keeps its dimension from COMPLETE |
| `DocumentsMeanWhatTheySay` | in `AssessmentExecution`, the executor never builds a record its own contract refuses, except under a policy that requires the policy compiler (`RefusalsAreForeseen`); in `ControlDocuments`, `ControlsAreBound`, below |
| `GraphTellsTheRights` | the graph shows what the rights verdict rests on |

Behaviour noted in these properties: with `block_unlicensed_reference_match` off a
licence conflict is still blocked by the consent rule, which cites
"rights.consent-coverage" (policy.py:270-291); template ids are unique but consent
ids need not be (consent.py:132), so a consent node shows the coverage evaluated
last; licensing strips blanks of the intended use and consent does not
(consent.py:311); the likeness and voice matchers raise on media they cannot
read; `assessed_at` is not in the execution fingerprint.

`ControlDocuments.tla` has what comes before: the documents of a request as they are
typed (registries of references, licences, consents and watermarks, the policy, the
context), `validate_upload`, the endpoints that derive an entry from a file, the
validators in the order of the code (`Checks`), what each document commits to, the
`execution_fingerprint` over all of it, and the stored row with the integrity checks
of `get` and `reserve`. One key is followed while days and releases of the service go
by and its row may be altered; `AssessmentStore` has the pending row and its lease.
The dossiers of `MCDecisionPipelines.tla` are one that is accepted, the same in another
hand (other order, capitals and blanks), edits that mean something else, and faults,
one for each check. `ControlsAreBound` joins three statements:

* `BoundToTheInputs`: what is handed out for a key is what its documents give on the
  day it was made, a retry gets it from the release that made it only, and documents
  that say the same are not in conflict;
* `EnrolledIsRecognised`: an asset whose very bytes were enrolled is recognised, and
  blocked without any licence, where the policy says so;
* `DerivedIsAccepted`: what an endpoint derives, the validators accept unchanged.

What the code does here, and the property permits: a replay is as of the day of the
first execution, as the time is not in the fingerprint, so a licence may have run out
since; after an upgrade every retry is a conflict; a registry that is absent and one
that is empty are different documents; a territory with blanks around it is refused,
except in a regulatory rule, which strips it; the use and channel of a context are
compared as typed, so other capitals there are a conflict; and so are the times of
licences and consents, so the same moment with another offset from UTC is one too; the row's checks notice an
altered document, not one altered together with its commitment. The limit of 2 MiB on
a control document counts entries here (`MaxControlEntries`).

### Proved (`AssessmentExecutionProofs.tla`)

For any requests, policies, registries and number of frames, under two assumptions:
`MaxFrames` is positive, and `RegistriesAssumption`, which is what the validators of
the registries see to before an execution begins: ids are unique (consent.py:132,
licensing.py:103, watermark.py:87), an optional registry is one or none
(execution.py:597-612), times are integers.

* `TypeCorrect`, `NoClearance`, `UseIsCovered`, `TamperingPrevails`, `FailuresShow`,
  `GraphIsTrue`: `TypeOK` and the five properties of this run that the table names;
* `RefusalsForeseen`: `Spec => []RefusalsAreForeseen`.

The properties speak of the outcome, the reasons for them lie in the lanes, two stages
before it. `AInv` therefore carries through the stages what was known when the lanes
returned: `LanesTell` (what each lane's evidence, claims and matches say of its
observation and of the request) and `LanesFit` (ids are unique and refer to each
other), and that `licence`, `rights`, `provenance` and `deployment` are what the
operators make of them. The conjunct about "failed" says which two ways lead there; it
is what `RefusalsAreForeseen` needs. TLC checked `AInv` on the instance of the run
before it was proved. `GraphIsTrue` and `RefusalsForeseen` are long because the
contracts are: one lemma for each rule of `validate_assessment` and of the graph. That
`strongest` picks one value rests on the percentages being bounded integers
(`LeastOf`, by well-foundedness of `<`, without an induction of our own).

### Proved (the end of `AssessmentExecutionProofs.tla`, `DecisionPipelinesProofs.tla`)

`DocumentsAreTakenAtTheirWord`: `PipelinesSpec => []DocumentsMeanWhatTheySay`; its first clause is
`RefusalsForeseen`, above. For the second, dossiers and enrolments may be any that have the form
the parsers of `models.py` leave behind (`ControlAssumption`), whatever days and releases go
by (the counts of both are positive). `SameFingerprint` follows each document that is accepted to its payload: what says the
same has the same payload, in spite of order and typing.
`SameAssessment` is the way back: of equal fingerprints the executor reads nothing in which they
differ. `ControlsInv` joins them over time: `KeyRowHolds` (the row has the fingerprint of
the dossier it was made for and commits to what that dossier gives on that day), and `AnswerHolds`
(what is handed over is the row's commitment, to a dossier with its fingerprint; a
conflict is one with another).

## 7. Release authorization

`ReleaseAuthorization.tla` is `release_authorization.py` with the receipts of
`integration.py`. Documents (decision receipts, attestations, authorizations) are
records that, once signed, anyone may present again. The actions are `Assess`,
`Decide`, `Approve`, `Issue` and `Release` (the CMS verifies and publishes), with their
refusals where a refusal depends on time or persons, and around them `SetRegistry`,
`RotateSigner` (the signing key is lost and made anew) and `Tick`. A reviewer signs with a clock of their own. Signatures and
commitments are perfect, the clock of the service does not go back.

`DualControl.tla` is the promise without clocks, receipts and signatures: GO, and
two people with both roles under the trust in force at publication, for this very
item. `ImplementsDualControl` states the refinement.

`release_authorization`: 2 reviewers with clocks 0 and 1 ahead, a GO and a REVIEW
assessment, 1 content slot, time to live 1, review ages 1, no skew, time to 3, up
to 3 attestations, 2 decisions, 1 authorization, 2 generations of the signing key,
registries with both roles staffed, one revoked, both in one role, or none. Three
ticks are room for a review to be fresh at issue and stale at verification. An
authorization stands for itself, so one is enough.

### Proved (`ReleaseAuthorizationProofs.tla`)

`TypeCorrect`, `Freshness`, `NoRevival`, `IssuedIsUsable`, `Implementation`, for any
reviewers, registries, ages, clock errors and times. The inductive invariant is
`TypeOK` with `DecisionOK`, `ApprovalOK` and `IssuedOK`: whatever was issued refers to
attestations that were signed, with a key of the person, after the decision.

## 8. Proof packages and exports

`ProofPackage.tla` has certificates, ledger snapshots, bundles, packages and annotated
exports as records and `verify_proof_package_bytes` as the conjunction of its checks,
grouped as in the code. A hash is a tag with what it was computed from; the chain of
events is nested as it is computed; a signature is the payload it signs.

`ProofExport.tla` runs `verify_output` and the GET handlers of one job against each
other: each reads the row, the certificate and the ledger in calls of its own, and
`append_event` reads the tail before it inserts. `MCProofExport.tla` gives nine sets
of up to four requests on a PDF, a video and a repetitive twin: exports that meet
another verification or each other, two packages of one output under two
certificates, packages of two outputs, and each kind of export once. `after` lets a
client wait for an answer; a verification passes or is inconclusive.

| Property | Says |
|---|---|
| `VerifiersAcceptWhatWasBuilt` | (its clause `VerifierAcceptsTheExports`) a package verifies whatever came between its reads, and one into which a part of another got, reindexed or not, does not |
| `VerifiersAcceptWhatWasBuilt` | (its clause `HandedOutIsAudited`) what left is on the ledger with its hash, in a chain without gap |

What these properties rest on, and what they except:

* the verification payload carries no time: two runs that pass are equal, so a
  certificate of one and a row of the other still agree. With a time in it an export
  between two verifications would not verify (the mutant of the first property);
* an artifact that deflate shrinks more than 250 times makes a package that the
  builder exports and the verifier refuses;
* certificates and their PDFs leave without a ledger event;
* a passing and an inconclusive verification at once may leave a certificate on a
  blocked output; every handler checks the row's status first and serves neither;
* an annotated export draws the units of a video beyond its page count, those of
  other types only below it.

### Proved (`ProofExportProofs.tla`)

`WhatLeavesIsAudited`: `Spec => []HandedOutIsAudited`, for any number of requests and any order
of their calls. `EInv` adds to it what a handler knows between two calls: at "append",
the tail it has read is not ahead of the ledger, and its hash is that of the last event
unless the ledger has moved on (`TailIsKnown`), so that the insert extends the chain or
fails on the UNIQUE constraint; at "checkpoint", its event is on the ledger
(`OnLedger`), so that what it hands out is covered.

`PackagesAreAccepted`: `Spec => []VerifierAcceptsTheExports`, for any requests of which no two
share a name (`ExportAssumption`: the name stands for the time of the verdict, which is in the
id of the certificate). The invariant `PackagesInv` says of some set of issued certificates, one
to an id (`IdsTell`): what rows and requests hold is issued (`IsIssued`), made of a ledger that
the present one extends (`Snap`); bundles hold one of them with a ledger not shorter
than the certificate's (`IsBundle`); packages add a receipt and a ledger with the event of the
export (`IsPackage`). Each is kept when the ledger grows (`Grows` and the lemmas after it).
From these, `ExportsPass` walks through the verifier's checks, `ReceiptTells` shows
that a receipt fits one bundle and one ledger, and `MembersTell` that a member of another bundle
is seen in the index or is the same.

## 9. The two pages

`ReleaseConsole.tla` is the page of `App.tsx` against a backend that is what the page
sees of it: jobs with the decisions on their findings, and outputs with the decisions
they were made with. A handler is a promise. Its captured values (job, level, output)
are those of the render in which its button was pressed, `todo` are the calls ahead.
`Serve` is a call the backend answers, `Resume` the page going on, `Fail` a call that
is refused or lost. `Expire` erases a job, `pollLifecycle` lets the page learn of it,
`Leave` unmounts the page for RightsGate: what its handlers still do concerns a job
no page shows, which is left to retention.

`RightsGateConsole.tla` is `RightsGateApp.tsx`: derive the reference, assess, have the
receipt signed, while the form can be changed and a result dismissed.

| Property | Says |
|---|---|
| `ConsolesAreTruthful` | an offered release is one verified and certified output of this job, made with the decisions that are stored; the graph is of the level beside it; protection is offered when nothing is pending; a receipt shown beside a result is for it, and licences name references that were sent with them |

Two findings, two levels, two outputs (`MaxArtifacts`), and two turns (`MaxTurns`: jobs
made, and handlers begun since a bulk confirmation ran beside another handler) on the
console; three assessments (`MaxAssessed`), two assets and one reference on the other
page. Two outputs are the least for the proof of one to be shown beside the other; two
jobs are the least for answers to arrive in the wrong release.

What the code does, and the property excepts or permits:

* the button that confirms a bulk protection is the only one not disabled while
  another handler runs (history variable `aside`). With it, an `IGNORE` review still
  under way can be stored after an output was made and verified, so that a release is
  offered whose output shows another decision than the stored one; level and graph can
  be out of step; and a second transform under a verification shows the certificate of
  the output before it. The download still serves only what the backend verified;
* an answer that arrives after `startNewRelease` is shown in the new release, which also
  keeps `busy`, the open question and the level of the one before;
* a job whose page was left cannot be opened again: the page was all that knew its id;
* a RightsGate result dismissed while its receipt is being signed leaves the receipt in
  the page without a result until the next run, and "signing unavailable" is shown for
  as long as a receipt is awaited.

### Proved (`DecisionPipelinesProofs.tla`)

`PagesTellTheTruth`: `PipelinesSpec => []ConsolesAreTruthful`, for any number of jobs, outputs,
assessments and levels, and any finite set of findings (`ConsoleAssumption`; the bulk
confirmation enumerates them), with floors that are levels.

The invariant of the console is `CInv`. While `aside = 0` one handler at a time waits, which
`busy` mirrors, so it is about the page and this handler. `PageHolds`: level and graph
agree, a decision on the page is stored or still pending, the output shown is made of
the stored decisions and of the level shown, a proof beside an output is of this output.
`PromiseHolds` is about the answers the page has not taken yet: `Formed` (what a handler has not
asked for any more it has got), `InOrder` (the calls that others rest on come first),
`AnswersHold` (answers are still right when they are taken, also after an erasure),
`ReviewsPending`, and `Follows` (a handler is about the job of its page, or the page
is a new one; a review never runs beside an output of the job). There is one lemma for
each way a handler begins, for each kind of answer (`ReviewServed`, `ArtifactsServed`, `JobServed`,
`AnswerGiven`), for going on (`NextCalls`, `ReviewsShow`) and for coming to an end (`Ends`).
The other page has `IntakeInv`. Since a step of one pipeline leaves the variables of the others
alone, the theorem follows for the composition (so does `VerifiersTellWhatWasBuilt`, see
section 10). TLC checked both invariants on
instances with up to three jobs and outputs first.

`PipelinesKeepTypes`: `PipelinesSpec => []PipelinesTypeOK`, of all pipelines. For this page `CInv`
does not do: with `aside > 0` it says nothing, and types have to hold then too. `TypesHold` is an
invariant however many handlers run beside each other, since what it says of a waiting
handler is about this handler alone (`PromiseTyped`): it asks for the job before all else and
until then has no answers; one that makes a job will have or has a recommendation before it
shows it; and the jobs and outputs it has been told of exist. The other pipelines add little to
their invariants: a request for an export is at a step of its handler (`HandlerSteps`), the window
of durations never exceeds its size (`WindowHolds`), trees and archives hold files of the sources
and the manifest (`TreeTyped`).

## 10. The boundary, the metrics and the archive

`DeploymentBoundary.tla`: `Configure` chooses the environment of the next start,
`Startup` is `lifespan` with `validate_online_configuration`, `Judged` the middleware up
to the handler, `Dial` a call out of the process: a stream, a datagram or a lookup, by
any of the functions of `socket` that raise an audit event with an address (`Raised`, which
models Python). What `_audit_hook` does not look at falls through. Addresses stand for
their class (this machine, a gateway, elsewhere, a name, the path of a socket), tokens for
what the comparisons tell apart.

`RuntimeMetrics.tla` has the middleware's measuring around admission and handler for
two callers. A request may be refused by admission, end in an answer of any class,
raise, or be cancelled; one the boundary refuses does not get here. Counters per route
and status class, the latencies with their percentiles and the window of recent
requests are as in `ops/metrics.py`; paths with a job id fall together.

`ReleasePackage.tla`: a working tree that is edited, the two scripts that archive it,
archives that are damaged or put together anew from parts of others, verification
with and without an expected signer, and an archive unpacked as the next tree.

| Property | Says |
|---|---|
| `BoundaryIsKept` | whatever settings a start accepts, a handler sees only whom they admit and nobody with that standing is turned away; offline no stream is opened to another machine, `getaddrinfo` resolves no name but this machine's, and its literal address can be reached |
| `RequestsAreCounted` | what was counted adds up: by route, by class, in the window and in flight, however requests ended |
| `VerifiersAcceptWhatWasBuilt` | (its clause `ReleaseIsWhatWasBuilt`) an archive that verifies under the pinned signer has the members of one that key has signed, and one a script wrote verifies |

What the code does, and these properties except:

* a token with a letter beyond ASCII is accepted by startup, but `compare_digest`
  raises for it, so every request that carries one gets 500;
* offline, datagrams (`sendto`, `sendmsg`) and the lookups of `gethostbyname`,
  `gethostbyaddr` and `getnameinfo` leave the process, because the hook looks at
  `socket.connect` and `socket.getaddrinfo` only (`network_guard.py:39`). The module calls
  itself "fail-closed for Python socket connections and DNS resolution" (line 3) and
  reports `dns_fail_closed: True` (line 83). The property names these calls (`Loose`) and
  says that they leave. A name given straight to `connect` is looked up by the socket
  before its event, which the model, whose `connect` is one call, does not tell apart;
* a Unix socket on this machine is refused, its path being no loopback address;
* a start that validation refuses leaves schema and jobs alone: expired jobs wait for
  the next start that is accepted;
* a request that is cancelled, and one that admission refuses, counts as 5xx; one
  that the boundary refuses is not counted;
* a tree unpacked from a release has the manifest in it, and the builder's own
  verification refuses what it builds from there;
* a file whose name leads out of the tree once its backslash is read as "/" makes the
  builder refuse its own archive;
* the path of the key is relative: from another directory the script makes another
  key, and its own verification against the pinned fingerprint fails;
* without an expected fingerprint an unsigned manifest, written anew for other
  members, is accepted.

Bounds: two callers, two jobs and a route without one, three measured requests
(`MaxMeasured`) in a window of two, so that one leaves it; two changes (`MaxChanges`),
an edit and a damage or two edits.

### Proved (`DecisionPipelinesProofs.tla`)

`VerifiersTellWhatWasBuilt`: `PipelinesSpec => []VerifiersAcceptWhatWasBuilt`, of the proof packages
(section 8) and of the archive, for any files, changes and keys (`PackagingAssumption`: a file is
path, content and kind, something may be released, and `MaxChanges` is a natural number). The invariant is
`PackagingInv`: trees and archives have one file to a path, and a document that carries a signature
of the pinned key carries it for the manifest of members that a script has written,
whatever else was changed about it. `PinnedIsWritten` rests on `ManifestTellsMembers` (two
archives without links and with one manifest are one), `BuildersRefuse` on counting paths.

`BoundaryIsEnforced`: `PipelinesSpec => []BoundaryIsKept`, for any set
of settings (`BoundaryAssumption`: configured tokens are tokens, switches are on or off):
`BoundaryInv` says that a process that runs has passed validation under the settings in
force, that the handler's answer is that of `Judged` for them, and that a call went as
the guard lets it; `StandingIsAnswered` compares the middleware's order of refusals with who has the
standing, and `WhatIsBlocked` the events each call raises with those the hook stops.

`RequestsAddUp`: `PipelinesSpec => []RequestsAreCounted`, for any callers, routes, durations and window
(`MetricsAssumption`: the routes are finitely many, "{id}" is no identifier): `MetricsInv` adds to
the sums of the property that what a snapshot has read can only have grown since, and
that a percentile is the one of the window then (`SnapshotTells`).

That the counters of all routes sum to the requests, and that a percentile has as many
samples below it as it says, are inductions over data. They are done without an
induction theorem: of the sets for which a statement fails a smallest one is taken
(`CountingUp` for numbers, `BySubsets` of `FileProtectionProofs` for finite sets). `FoldExists` shows in this way that the
function by which the fold of a sum is defined exists, `SumAfterOneMore` what one more request
changes, `SortingExists` that values can be sorted (the next value goes before the first greater
one), `CountedAlike` that sorting changes no count, and `PercentileIs` what the nearest rank is.

## 11. Proved, only checked, out of reach

| Module of proofs | Theorems |
|---|---|
| `AssessmentStoreProofs` | all invariants and the refinement of `assessment_store` |
| `JobLifecycleProofs` | all invariants of `job_lifecycle` |
| `HeavyRequestsProofs` | all invariants of `heavy_requests` |
| `ReleaseAuthorizationProofs` | all properties of `release_authorization` |
| `AssessmentExecutionProofs` | all invariants about the execution of an assessment, with `RefusalsAreForeseen`; what two dossiers that say the same have in common, and the invariant of the row of a key |
| `ProofExportProofs` | `HandedOutIsAudited` and `VerifierAcceptsTheExports`, the clauses of `VerifiersAcceptWhatWasBuilt` about exports |
| `FileProtectionProofs` | `ReleaseFailsClosed`, `LinkageIsKept`, `ExposureIsTold`, `NothingIsHidden` and the types of a file; that merging forgets no cluster; three facts on the compiler and the recommendation |
| `DecisionPipelinesProofs` | for the composition of the pipelines `ConsolesAreTruthful`, `VerifiersAcceptWhatWasBuilt`, `DocumentsMeanWhatTheySay`, `BoundaryIsKept`, `RequestsAreCounted` and `PipelinesTypeOK`, and that they implement the protection of a file |

Only model-checked:

* `PendingIsDecided` and `ExpiredIsErased`, which are liveness under fairness and beyond
  the prover;
* `ReleasedRevealsNothing`, which holds of the documents the model reads and not of all:
  in `Content` an approved replacement may reach across two pages and so hide a value from
  a rescan of the whole. Its part that holds of every document is `NothingIsHidden`, proved;
* `EveryCandidateIsAnswered`, which is likewise true of the documents of the instance: a
  chain of candidates, each replacing the one before, may end in one that overlaps the
  first no more. What holds of every file is `NoClusterIsForgotten`, proved: of such a chain
  one candidate is kept;
* `FaithfulOutputIsReleased`, which rests on what the writers and the readers of each
  format compute word by word.

Fairness is assumed in two
runs only, `assessment_recovery` and `job_retention`, for the reasons given there.
`MaxClock`, `MaxCrashes`, `MaxRequests`, `MaxFaults`, `MaxOutputs`, `MaxRestarts`,
`MaxTime`, `MaxArtifacts`, `MaxTurns`, `MaxAssessed`, `MaxMeasured`, `MaxChanges`,
`LastRelease`, `LastDay`, `MaxApprovals`, `MaxDecisions`, `MaxIssued` and `MaxSigner`
bound what the program does not bound; the theorems hold for every value of those
they mention. `MaxFrames`, `MaxEvidence`, `NativeWords`, `MaxControlEntries` and
`Window` stand for limits of the code that are larger there.

## 12. Not modelled

* What a detector nominates (patterns, lexicons, classifiers, OCR, image and audio
  features): numeric or textual functions of bytes. They are inputs of the models,
  arbitrary for assets and sixteen documents for files. OCR is taken as exact, and
  the exemption made for OCR that misreads an approved mask
  (`_matches_approved_mask_artifact`, `verification/red_team.py:232`) is left out: the
  Red Team of the model is the stricter one.
* The parsers and exporters of formats. `_video_replacement_presence_from_text`
  (`verification/red_team.py`) is called from nowhere.
* The numeric fidelity of the synthetic twin: its report passes or not.
* Page previews: computed from rows, read by no decision. Of the status report,
  sizes, versions and the quick check of the database.
* The parsing of addresses and networks, and response headers.
* Several jobs in one sweep. `retention_worker` has no `try`: one exception ends the
  sweeping until the next start, and `destroy_job_with_receipt` raises for a job
  that is DESTROYED without receipt (the state of `job_lost_receipt`).
* `JobWorkspace.destroy` in steps: `fingerprint` and `remember_plaintext` take no lock.
* Of the frontend, layout, the drawing of the graph and the theme. Benchmarks and
  `src/competition` with its frozen copies of the backend: most of the repository's
  lines, none of its decisions.

## 13. Plan

Done: the modules above. Next, in this order:

1. Several jobs under one retention worker, with the death of the worker, as a
   module over the interface of `JobLifecycle`.
