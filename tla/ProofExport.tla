------------------------------- MODULE ProofExport -------------------------------
(* What is handed out about the outputs of one job, while they may be        *)
(* verified again: verify_output and the GET handlers from the certificate   *)
(* to the synthetic export receipt (api/routes.py).  A handler reads the     *)
(* output's row, its certificate and the ledger in calls of their own, and   *)
(* append_event reads the tail before it inserts.  Erasure and workspace     *)
(* belong to JobLifecycle, the tests themselves to RedTeam.                  *)
EXTENDS ProofPackage

CONSTANT
  Scenarios  \* sets of requests made of the job: name, kind, output, format,
             \* the requests awaited, and what tests may come to

(* The name of a request stands for the time of its verdict: no two share it. *)
ASSUME ExportAssumption == \A s \in Scenarios : \A q, r \in s : q.name = r.name => q = r

VARIABLES
  desk,            \* the local state of each request
  outputRow,       \* per output: status and verification
  certificateRow,  \* per output: the row of proof_certificates
  ledger,          \* audit_events of the job
  handedOut        \* what clients were given, with the request and the event it names

ExportVars == <<desk, outputRow, certificateRow, ledger, handedOut>>

Absent == [payload |-> <<>>]
NoEvent == [type |-> "", details |-> <<>>]
NewRequest ==
  [pc |-> "start", row |-> <<>>, certificate |-> Absent, snapshot |-> <<>>, body |-> <<>>,
   event |-> NoEvent, tail |-> <<>>]

ExportInit ==
  /\ \E requests \in Scenarios : desk = [r \in requests |-> NewRequest]
  /\ outputRow = [o \in {r.output : r \in DOMAIN desk} |->
                    [status |-> "CREATED", verification |-> <<>>]]
  /\ certificateRow = [o \in DOMAIN outputRow |-> Absent]
  /\ ledger = <<>> /\ handedOut = {}

At(r, pc) == desk[r].pc = pc
(* A client may wait for answers before it asks for more.                    *)
Arrives(r) == At(r, "start") /\ \A q \in DOMAIN desk : q.name \in r.after => At(q, "done")
Set(r, local) == desk' = [desk EXCEPT ![r] = local]
Answer(r) == Set(r, [NewRequest EXCEPT !.pc = "done"])

HandOut(r, body, event) ==
  handedOut' = handedOut \cup {[kind |-> r.kind, output |-> r.output, body |-> body, event |-> event]}

-----------------------------------------------------------------------------
(* append_event: UNIQUE(job_id, sequence) makes one of two writers raise.    *)

Append_(r, type, details, local) ==
  Set(r, [local EXCEPT !.pc = "tail", !.event = [type |-> type, details |-> details]])

ReadLedgerTail(r) ==
  /\ At(r, "tail")
  /\ Set(r, [desk[r] EXCEPT !.pc = "append",
                            !.tail = <<Len(ledger), HeadOf(ledger)>>])
  /\ UNCHANGED <<outputRow, certificateRow, ledger, handedOut>>

SequenceIsTaken(r) == Len(ledger) > desk[r].tail[1]

AppendRaises(r) ==
  /\ At(r, "append") /\ SequenceIsTaken(r)
  /\ Answer(r)
  /\ UNCHANGED <<outputRow, certificateRow, ledger, handedOut>>

(* What a handler does once its event is stored: it certifies, checks the    *)
(* ledger once more for the receipt of a package, or answers.                *)
AfterEvent(r) ==
  CASE desk[r].event.type = "VERIFICATION_COMPLETED"
         /\ desk[r].row.status = "VERIFIED_SAFE" -> "snapshot"
    [] r.kind = "proof-package" -> "checkpoint"
    [] OTHER -> "done"

InsertLedgerEvent(r) ==
  /\ At(r, "append") /\ ~SequenceIsTaken(r)
  /\ ledger' = Append(ledger, Event(desk[r].tail[1] + 1, desk[r].event.type,
                                    desk[r].event.details, desk[r].tail[2]))
  /\ IF AfterEvent(r) = "done"
     THEN /\ Answer(r)
          /\ IF r.kind = "verify" THEN UNCHANGED handedOut
             ELSE HandOut(r, desk[r].body, desk[r].event)
     ELSE Set(r, [desk[r] EXCEPT !.pc = AfterEvent(r)]) /\ UNCHANGED handedOut
  /\ UNCHANGED <<outputRow, certificateRow>>

-----------------------------------------------------------------------------
(* verify_output *)

(* The tests depend on the files and on the tools that are there: two runs   *)
(* that pass say the same.  Slip: the payload carries the time of the run.   *)
TimedVerification(r, outcome) ==
  [tests |-> <<outcome, r.name>>,
   release_decision |-> IF outcome = "PASS" THEN "ALLOW_RELEASE" ELSE "BLOCK_RELEASE"]

VerificationPayload(r, outcome) ==
  [tests |-> <<outcome>>,
   release_decision |-> IF outcome = "PASS" THEN "ALLOW_RELEASE" ELSE "BLOCK_RELEASE"]

VerifyOutput(r, outcome) ==
  LET row == [status |-> IF outcome = "PASS" THEN "VERIFIED_SAFE" ELSE "RELEASE_BLOCKED",
              verification |-> VerificationPayload(r, outcome)]
  IN /\ Arrives(r) /\ r.kind = "verify"
     /\ outputRow' = [outputRow EXCEPT ![r.output] = row]
     /\ Append_(r, "VERIFICATION_COMPLETED",
                [output_id |-> r.output, verification_sha256 |-> VerificationSha(row.verification)],
                [desk[r] EXCEPT !.row = row])
     /\ UNCHANGED <<certificateRow, ledger, handedOut>>

SnapshotLedger(r) ==
  /\ At(r, "snapshot")
  /\ Set(r, [desk[r] EXCEPT !.pc = "certify", !.snapshot = verify_ledger(ledger)])
  /\ UNCHANGED <<outputRow, certificateRow, ledger, handedOut>>

(* upsert_certificate: one row per output, the last one wins.                *)
UpsertCertificate(r) ==
  LET certificate == issue_certificate(r.output, desk[r].row.verification, r.name,
                                       desk[r].snapshot)
  IN /\ At(r, "certify")
     /\ certificateRow' = [certificateRow EXCEPT ![r.output] = certificate]
     /\ Append_(r, "PROOF_CERTIFICATE_ISSUED",
                [output_id |-> r.output, certificate_sha256 |-> _certificate_sha256(certificate)],
                [desk[r] EXCEPT !.snapshot = <<>>])
     /\ UNCHANGED <<outputRow, ledger, handedOut>>

-----------------------------------------------------------------------------
(* The handlers that hand something out *)

Formats == {"csv", "json", "xlsx", "docx", "pdf"}

(* _synthetic_export_or_423 comes between the row and the export.            *)
Exportable(r) ==
  r.kind \in {"synthetic-export", "synthetic-export-receipt"} =>
    /\ Outputs[r.output].privacy_level = 5
    /\ Outputs[r.output].synthetic_twin
    /\ r.format \in Formats

export_synthetic_representation(r) ==
  [source_sha256 |-> Artifact(r.output), target_format |-> r.format]

_synthetic_export_receipt(r, row) ==
  Sign([source_output_sha256 |-> Artifact(r.output), source_verification_status |-> row.status,
        export_sha256 |-> export_synthetic_representation(r)])

NotServed(r) == outputRow[r.output].status # "VERIFIED_SAFE" \/ ~Exportable(r)

(* What a handler has to say once it knows its row and, where it needs one,  *)
(* its certificate: an event to append and then a body, or a body at once.   *)
download_output(r, local) ==
  Append_(r, "PROTECTED_ARTIFACT_DOWNLOADED",
    [output_id |-> r.output, output_sha256 |-> Artifact(r.output)],
    [local EXCEPT !.body = Artifact(r.output)])

synthetic_format_export(r, local) ==
  LET export == export_synthetic_representation(r)
  IN Append_(r, "SYNTHETIC_FORMAT_EXPORTED",
       [output_id |-> r.output, export_sha256 |-> export], [local EXCEPT !.body = export])

synthetic_format_export_receipt(r, local) ==
  Append_(r, "SYNTHETIC_FORMAT_RECEIPT_ISSUED",
    [output_id |-> r.output, export_sha256 |-> export_synthetic_representation(r)],
    [local EXCEPT !.body = _synthetic_export_receipt(r, local.row)])

annotated_output_export(r, local) ==
  LET annotated == build_annotated_export(r.output, local.certificate)
  IN IF verify_annotation_evidence(annotated.annotation, Artifact(r.output))
     THEN Append_(r, "ANNOTATED_EVIDENCE_EXPORTED",
            [output_id |-> r.output, annotated_export_sha256 |-> annotated],
            [local EXCEPT !.body = annotated])
     ELSE Answer(r)

proof_certificate(r, local) == Answer(r) /\ HandOut(r, local.certificate, NoEvent)

proof_certificate_pdf(r, local) ==
  /\ Answer(r)
  /\ HandOut(r, certificate_pdf(local.certificate, local.row.verification), NoEvent)

ReadOutputRow(r) ==
  LET local == [desk[r] EXCEPT !.row = outputRow[r.output]]
  IN /\ Arrives(r) /\ r.kind # "verify"
     /\ CASE NotServed(r) -> Answer(r)
          [] ~NotServed(r) /\ r.kind = "download" -> download_output(r, local)
          [] ~NotServed(r) /\ r.kind = "synthetic-export" -> synthetic_format_export(r, local)
          [] ~NotServed(r) /\ r.kind = "synthetic-export-receipt" ->
               synthetic_format_export_receipt(r, local)
          [] OTHER -> Set(r, [local EXCEPT !.pc = "certificate"])
     /\ UNCHANGED <<outputRow, certificateRow, ledger, handedOut>>

(* _certificate_or_404 and verify_certificate.                               *)
ReadCertificate(r) ==
  LET certificate == certificateRow[r.output]
      local == [desk[r] EXCEPT !.certificate = certificate]
      found == certificate # Absent
  IN /\ At(r, "certificate")
     /\ CASE ~found -> Answer(r) /\ UNCHANGED handedOut
          [] found /\ r.kind = "certificate" -> proof_certificate(r, local)
          [] found /\ r.kind = "certificate.pdf" -> proof_certificate_pdf(r, local)
          [] found /\ r.kind = "annotated-export" ->
               annotated_output_export(r, local) /\ UNCHANGED handedOut
          [] OTHER -> Set(r, [local EXCEPT !.pc = "bundle"]) /\ UNCHANGED handedOut
     /\ UNCHANGED <<outputRow, certificateRow, ledger>>

(* verify_ledger and build_proof_bundle: the bundle of both kinds of export. *)
BuildBundle(r) ==
  LET snapshot == verify_ledger(ledger)
      bundle == build_proof_bundle(r.output, desk[r].certificate, snapshot,
                                   desk[r].row.verification)
  IN /\ At(r, "bundle")
     /\ IF snapshot.valid
        THEN Append_(r, "PROOF_BUNDLE_EXPORTED",
               [output_id |-> r.output, bundle_sha256 |-> BundleSha(bundle),
                certificate_id |-> desk[r].certificate.payload.certificate_id],
               [desk[r] EXCEPT !.body = bundle])
        ELSE Answer(r)
     /\ UNCHANGED <<outputRow, certificateRow, ledger, handedOut>>

FinishPackage(r) ==
  LET snapshot == verify_ledger(ledger)
      receipt == issue_bundle_receipt(desk[r].body, desk[r].certificate, snapshot)
  IN /\ At(r, "checkpoint")
     /\ IF snapshot.valid
        THEN HandOut(r, build_proof_package(desk[r].body, receipt, snapshot), desk[r].event)
        ELSE UNCHANGED handedOut
     /\ Answer(r)
     /\ UNCHANGED <<outputRow, certificateRow, ledger>>

ExportStep(r) ==
  \/ \E outcome \in r.outcomes : VerifyOutput(r, outcome)
  \/ SnapshotLedger(r)
  \/ UpsertCertificate(r)
  \/ ReadLedgerTail(r)
  \/ InsertLedgerEvent(r)
  \/ AppendRaises(r)
  \/ ReadOutputRow(r)
  \/ ReadCertificate(r)
  \/ BuildBundle(r)
  \/ FinishPackage(r)

ExportNext == \E r \in DOMAIN desk : ExportStep(r)

ExportSpec == ExportInit /\ [][ExportNext]_ExportVars
-----------------------------------------------------------------------------
(* Properties *)

ExportTypeOK ==
  /\ \A r \in DOMAIN desk :
       desk[r].pc \in {"start", "tail", "append", "snapshot", "certify", "certificate",
                       "bundle", "checkpoint", "done"}
  /\ \A o \in DOMAIN outputRow :
       outputRow[o].status \in {"CREATED", "VERIFIED_SAFE", "RELEASE_BLOCKED"}

Packages == {d.body : d \in {h \in handedOut : h.kind = "proof-package"}}

(* p with the parts outside of its bundle, and one of those inside, of q.    *)
Inside(p, q, member, reindexed) ==
  LET entries == [p.bundle.entries EXCEPT ![member] = q.bundle.entries[member]]
  IN [p EXCEPT !.bundle = [entries |-> entries,
                           index |-> IF reindexed THEN MemberShas(entries) ELSE p.bundle.index]]
Mixtures(p, q) ==
  {[bundle |-> b.bundle, receipt |-> c.receipt, ledger |-> l.ledger] :
     b, c, l \in {p, q}}
    \cup {Inside(p, q, member, reindexed) : member \in Indexed, reindexed \in BOOLEAN}

(* The verifier accepts what was exported and nothing else that can be put   *)
(* together from exports: every package handed out passes, whatever verdicts *)
(* and exports came between its reads, and a package into which a piece of   *)
(* another one got, reindexed or not, fails.  "A valid result independently  *)
(* checks ..." (package.py).  The exception is an artifact that deflate      *)
(* shrinks more than the verifier lets pass.                                 *)
VerifierAcceptsTheExports ==
  /\ \A p \in Packages :
       /\ verify_proof_package_bytes(p) \/ ~_validate_zip_archive(p.bundle)
       /\ p.bundle.entries.certificate.payload.release_decision = "ALLOW_RELEASE"
  /\ \A p, q \in Packages : \A m \in Mixtures(p, q) \ Packages : ~verify_proof_package_bytes(m)

(* Whatever leaves the service is on the ledger with its hash, in a chain    *)
(* without gap; only certificates and their PDFs leave without a trace.      *)
HandedOutIsAudited ==
  /\ Chained(ledger)
  /\ \A d \in handedOut :
       \/ d.kind \in {"certificate", "certificate.pdf"}
       \/ \E k \in DOMAIN ledger :
            ledger[k].event_type = d.event.type /\ ledger[k].details = d.event.details
=============================================================================
