------------------------------ MODULE ProofPackage ------------------------------
(* Proof certificates, bundles, packages and annotated exports as values, and *)
(* the verifier that anyone can run on a package (proof/certificate.py,      *)
(* proof/package.py, presentation/annotated_export.py, audit/ledger.py).     *)
(* SHA-256 is injective and signatures cannot be forged: a hash is a tag with *)
(* what tells two values of its kind apart, an event's is nested as it is    *)
(* computed, the signature of a payload is the payload.  Schemas, sizes, the *)
(* names of members, time stamps and layouts are left out.                   *)
EXTENDS Naturals, Sequences, FiniteSets

CONSTANT
  Outputs  \* what transform_file made, by id: type, pages, level, twin, annotated, repetitive

GENESIS_HASH == <<>>

Artifact(o) == <<"artifact", o>>
Graph(o) == [of |-> o, graph_sha256 |-> <<"graph", o>>]

(* The members of a bundle that its index lists.                             *)
Indexed == {"protected", "certificate", "pdf", "ledger", "verification", "manifest",
            "graph", "annotation"}

-----------------------------------------------------------------------------
(* Audit ledger *)

_event_hash(sequence, type, details, prev) == <<sequence, type, details, prev>>

Event(sequence, type, details, prev) ==
  [sequence |-> sequence, event_type |-> type, details |-> details, prev_hash |-> prev,
   event_hash |-> _event_hash(sequence, type, details, prev)]

HeadOf(events) == IF events = <<>> THEN GENESIS_HASH ELSE events[Len(events)].event_hash

Chained(events) ==
  \A k \in DOMAIN events :
    events[k] = Event(k, events[k].event_type, events[k].details, HeadOf(SubSeq(events, 1, k - 1)))

verify_ledger(events) ==
  [valid |-> Chained(events), event_count |-> Len(events), chain_head |-> HeadOf(events),
   events |-> events]

verify_audit_snapshot(snapshot) ==
  /\ Chained(snapshot.events)
  /\ snapshot.event_count = Len(snapshot.events)
  /\ snapshot.chain_head = HeadOf(snapshot.events)
  /\ snapshot.valid

-----------------------------------------------------------------------------
(* Documents *)

Sign(payload) == [payload |-> payload, signature |-> payload]
Signed(document) == document.signature = document.payload

build_annotation_evidence(o) ==
  [protected_output_sha256 |-> Artifact(o), sha |-> <<"annotation", o>>, of |-> o]

Manifest(o) ==
  [sha |-> <<"manifest", o>>, identity_exposure_graph |-> Graph(o),
   annotation_evidence |-> build_annotation_evidence(o)]

VerificationSha(verification) == <<"verification", verification.tests>>

(* The identity of a certificate is the artifact and the time of its verdict. *)
issue_certificate(o, verification, verified_at, snapshot) ==
  Sign([certificate_id |-> <<"certificate", o, verified_at>>,
        output_sha256 |-> Artifact(o),
        manifest_sha256 |-> Manifest(o).sha,
        graph_sha256 |-> Graph(o).graph_sha256,
        verification_sha256 |-> VerificationSha(verification),
        release_decision |-> verification.release_decision,
        audit_head |-> snapshot.chain_head,
        audit_events |-> snapshot.event_count])

_certificate_sha256(certificate) == certificate.payload.certificate_id

certificate_pdf(certificate, verification) ==
  <<"pdf", _certificate_sha256(certificate), verification.tests>>

MemberShas(entries) ==
  [entries EXCEPT !.certificate = _certificate_sha256(@),
                  !.ledger = <<"ledger", @.event_count, @.chain_head>>,
                  !.verification = VerificationSha(@),
                  !.manifest = @.sha, !.graph = @.graph_sha256, !.annotation = @.sha]

build_proof_bundle(o, certificate, ledger, verification) ==
  LET entries == [protected |-> Artifact(o), certificate |-> certificate,
                  pdf |-> certificate_pdf(certificate, verification), ledger |-> ledger,
                  verification |-> verification, manifest |-> Manifest(o),
                  graph |-> Graph(o), annotation |-> build_annotation_evidence(o)]
  IN [entries |-> entries, index |-> MemberShas(entries)]

BundleSha(bundle) == <<"bundle", MemberShas(bundle.entries), bundle.index>>

issue_bundle_receipt(bundle, certificate, snapshot) ==
  LET payload == certificate.payload
  IN Sign([certificate_id |-> payload.certificate_id,
           certificate_sha256 |-> _certificate_sha256(certificate),
           bundle_sha256 |-> BundleSha(bundle), output_sha256 |-> payload.output_sha256,
           manifest_sha256 |-> payload.manifest_sha256, graph_sha256 |-> payload.graph_sha256,
           verification_sha256 |-> payload.verification_sha256,
           audit_head |-> snapshot.chain_head, audit_events |-> snapshot.event_count])

build_proof_package(bundle, receipt, ledger) ==
  [bundle |-> bundle, receipt |-> receipt, ledger |-> ledger]

verify_annotation_evidence(annotation, artifact) ==
  /\ annotation.protected_output_sha256 = artifact
  /\ annotation.sha = <<"annotation", annotation.of>>

(* Units to draw: those a page count bounds, except for the frames of a video. *)
PreviewPages(o) ==
  {p \in Outputs[o].annotated : Outputs[o].file_type = "VIDEO" \/ p < Outputs[o].page_count}

build_annotated_export(o, certificate) ==
  [protected |-> Artifact(o), annotation |-> build_annotation_evidence(o),
   certificate |-> _certificate_sha256(certificate), previews |-> PreviewPages(o)]

-----------------------------------------------------------------------------
(* verify_proof_package_bytes *)

(* A member that deflate shrinks beyond max_proof_entry_compression_ratio.   *)
_validate_zip_archive(bundle) == ~Outputs[bundle.entries.protected[2]].repetitive

_check_index(bundle) == bundle.index = MemberShas(bundle.entries)

OneProtectedArtifact(bundle) ==
  Cardinality({m \in Indexed :
     bundle.index[m] = bundle.entries.certificate.payload.output_sha256}) = 1

(* Slip: the receipt's own hash of the bundle is not compared.               *)
ReceiptOfAnyBundle(package) ==
  /\ Signed(package.receipt)
  /\ verify_audit_snapshot(package.ledger)
  /\ package.ledger.chain_head = package.receipt.payload.audit_head
  /\ package.ledger.event_count = package.receipt.payload.audit_events

ReceiptChecks(package) ==
  LET payload == package.receipt.payload
      events == package.ledger.events
  IN /\ Signed(package.receipt)
     /\ BundleSha(package.bundle) = payload.bundle_sha256
     /\ verify_audit_snapshot(package.ledger)
     /\ package.ledger.chain_head = payload.audit_head
     /\ package.ledger.event_count = payload.audit_events
     /\ \E k \in DOMAIN events :
          /\ events[k].event_type = "PROOF_BUNDLE_EXPORTED"
          /\ events[k].details.bundle_sha256 = BundleSha(package.bundle)
          /\ events[k].details.certificate_id = payload.certificate_id

CertificateChecks(bundle, receipt) ==
  LET payload == bundle.entries.certificate.payload
      named == receipt.payload
  IN /\ Signed(bundle.entries.certificate)
     /\ _certificate_sha256(bundle.entries.certificate) = named.certificate_sha256
     /\ payload.certificate_id = named.certificate_id
     /\ bundle.entries.protected = payload.output_sha256
     /\ payload.output_sha256 = named.output_sha256
     /\ bundle.entries.manifest.sha = payload.manifest_sha256
     /\ payload.manifest_sha256 = named.manifest_sha256
     /\ VerificationSha(bundle.entries.verification) = payload.verification_sha256
     /\ payload.verification_sha256 = named.verification_sha256

GraphChecks(bundle, receipt) ==
  LET graph == bundle.entries.graph
      payload == bundle.entries.certificate.payload
  IN /\ graph.graph_sha256 = <<"graph", graph.of>>
     /\ graph.graph_sha256 = payload.graph_sha256
     /\ payload.graph_sha256 = receipt.payload.graph_sha256
     /\ bundle.entries.manifest.identity_exposure_graph = graph

AnnotationChecks(bundle) ==
  /\ verify_annotation_evidence(bundle.entries.annotation,
                                bundle.entries.certificate.payload.output_sha256)
  /\ bundle.entries.manifest.annotation_evidence = bundle.entries.annotation

CheckpointChecks(bundle) ==
  LET payload == bundle.entries.certificate.payload
      snapshot == bundle.entries.ledger
  IN /\ verify_audit_snapshot(snapshot)
     /\ Len(snapshot.events) >= payload.audit_events
     /\ HeadOf(SubSeq(snapshot.events, 1, payload.audit_events)) = payload.audit_head

verify_proof_package_bytes(package) ==
  /\ ReceiptChecks(package)
  /\ _validate_zip_archive(package.bundle)
  /\ OneProtectedArtifact(package.bundle)
  /\ _check_index(package.bundle)
  /\ CertificateChecks(package.bundle, package.receipt)
  /\ GraphChecks(package.bundle, package.receipt)
  /\ AnnotationChecks(package.bundle)
  /\ CheckpointChecks(package.bundle)
=============================================================================
