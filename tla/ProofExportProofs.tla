--------------------------- MODULE ProofExportProofs ---------------------------
(* What leaves the service about the outputs of a job is on its ledger, and  *)
(* the ledger is a chain, for any number of requests whose handlers read and *)
(* append in calls of their own; and the verifier accepts every proof        *)
(* package that was handed out and no mixture of two.                        *)
EXTENDS ProofExport, FiniteSetTheorems, TLAPS

OnLedger(event) ==
  \E k \in DOMAIN ledger :
    ledger[k].event_type = event.type /\ ledger[k].details = event.details

Exempt(kind) == kind \in {"certificate", "certificate.pdf"}

(* A handler that is about to append has read a tail that is not ahead of    *)
(* the ledger, and knows the hash of its last event unless it is behind.     *)
TailIsKnown(r) ==
  LET n == desk[r].tail[1] IN
  /\ n \in Nat /\ n <= Len(ledger)
  /\ n = Len(ledger) => desk[r].tail[2] = HeadOf(ledger)

LedgerIsSequence == \E S : ledger \in Seq(S)

EInv ==
  /\ LedgerIsSequence /\ Chained(ledger)
  /\ \A r \in DOMAIN desk :
       /\ DOMAIN desk[r] = DOMAIN NewRequest
       /\ At(r, "append") => TailIsKnown(r)
       /\ At(r, "checkpoint") => OnLedger(desk[r].event)
  /\ \A d \in handedOut : Exempt(d.kind) \/ OnLedger(d.event)

-----------------------------------------------------------------------------
(* The chain *)

(* A longer ledger begins with the shorter one.                              *)
LEMMA Longer ==
  ASSUME NEW S, NEW s \in Seq(S), NEW e
  PROVE  /\ \E T : Append(s, e) \in Seq(T)
         /\ Len(Append(s, e)) = Len(s) + 1 /\ DOMAIN Append(s, e) = 1 .. Len(s) + 1
         /\ \A k \in 1 .. Len(s) : Append(s, e)[k] = s[k]
         /\ Append(s, e)[Len(s) + 1] = e
<1>1. s \in Seq(S \cup {e})
  OBVIOUS
<1>2. Append(s, e) \in Seq(S \cup {e})
  BY <1>1
<1> QED
  BY <1>2

LEMMA Beginnings ==
  ASSUME NEW S, NEW s \in Seq(S), NEW e, NEW n \in 0 .. Len(s)
  PROVE  HeadOf(SubSeq(Append(s, e), 1, n)) = HeadOf(SubSeq(s, 1, n))
<1>1. Append(s, e) \in Seq(S \cup {e}) /\ s \in Seq(S \cup {e})
  OBVIOUS
<1>2. SubSeq(Append(s, e), 1, n) = SubSeq(s, 1, n)
  BY <1>1
<1> QED
  BY <1>2

LEMMA ChainGrows ==
  ASSUME NEW S, NEW s \in Seq(S), Chained(s), NEW type, NEW details
  PROVE  Chained(Append(s, Event(Len(s) + 1, type, details, HeadOf(s))))
<1> DEFINE e == Event(Len(s) + 1, type, details, HeadOf(s))
           t == Append(s, e)
<1>1. e.event_type = type /\ e.details = details
  BY DEF Event
<1>2. SubSeq(s, 1, Len(s)) = s
  OBVIOUS
<1>3. e = Event(Len(s) + 1, e.event_type, e.details, HeadOf(SubSeq(s, 1, Len(s))))
  BY <1>1, <1>2
<1> HIDE DEF e
<1> SUFFICES ASSUME NEW k \in DOMAIN t
             PROVE  t[k] = Event(k, t[k].event_type, t[k].details, HeadOf(SubSeq(t, 1, k - 1)))
  BY DEF Chained, e
<1>4. k \in 1 .. Len(s) + 1 /\ k - 1 \in 0 .. Len(s)
  BY Longer
<1>5. HeadOf(SubSeq(t, 1, k - 1)) = HeadOf(SubSeq(s, 1, k - 1))
  BY <1>4, Beginnings
<1>6. CASE k \in 1 .. Len(s)
  <2>1. t[k] = s[k] /\ k \in DOMAIN s
    BY <1>6, Longer
  <2>2. s[k] = Event(k, s[k].event_type, s[k].details, HeadOf(SubSeq(s, 1, k - 1)))
    BY <2>1 DEF Chained
  <2> QED
    BY <1>5, <2>1, <2>2
<1>7. CASE k = Len(s) + 1
  <2>1. t[k] = e /\ k - 1 = Len(s)
    BY <1>7, Longer
  <2> QED
    BY <1>3, <1>5, <1>7, <2>1
<1> QED
  BY <1>4, <1>6, <1>7
-----------------------------------------------------------------------------
(* The requests *)

(* A step that leaves the ledger alone and takes its handler neither to the  *)
(* append nor to the checkpoint keeps the invariant when what it hands out,  *)
(* if anything, needs no event or has one.                                   *)
LEMMA QuietStep ==
  ASSUME EInv, NEW r \in DOMAIN desk, NEW local, DOMAIN local = DOMAIN NewRequest,
         Set(r, local), local.pc \notin {"append", "checkpoint"}, ledger' = ledger,
         \A d \in handedOut' : d \in handedOut \/ Exempt(d.kind) \/ OnLedger(d.event)
  PROVE  EInv'
<1>1. LedgerIsSequence' /\ Chained(ledger')
  BY DEF EInv, LedgerIsSequence
<1>2. DOMAIN desk' = DOMAIN desk /\ \A q \in DOMAIN desk : desk'[q] = IF q = r THEN local ELSE desk[q]
  BY DEF Set
<1>4. ASSUME NEW q \in DOMAIN desk'
      PROVE  /\ DOMAIN desk'[q] = DOMAIN NewRequest
             /\ At(q, "append")' => TailIsKnown(q)'
             /\ At(q, "checkpoint")' => OnLedger(desk[q].event)'
  <2>1. CASE q = r
    BY <1>2, <2>1 DEF At
  <2>2. CASE q # r
    BY <1>2, <2>2 DEF EInv, At, TailIsKnown, OnLedger
  <2> QED
    BY <2>1, <2>2
<1>5. \A d \in handedOut' : Exempt(d.kind) \/ OnLedger(d.event)'
  BY DEF EInv, OnLedger
<1> QED
  BY <1>1, <1>4, <1>5 DEF EInv

LEMMA AnswerIsQuiet ==
  /\ DOMAIN [NewRequest EXCEPT !.pc = "done"] = DOMAIN NewRequest
  /\ [NewRequest EXCEPT !.pc = "done"].pc = "done"
BY DEF NewRequest
(* A handler that is to append an event next goes to the ledger's tail.      *)
LEMMA AppendIsQuiet ==
  ASSUME EInv, NEW r \in DOMAIN desk, NEW local, NEW type, NEW details,
         DOMAIN local = DOMAIN NewRequest, Append_(r, type, details, local),
         UNCHANGED <<ledger, handedOut>>
  PROVE  EInv'
<1> DEFINE next == [local EXCEPT !.pc = "tail", !.event = [type |-> type, details |-> details]]
<1>1. DOMAIN next = DOMAIN NewRequest /\ next.pc = "tail"
  BY DEF NewRequest
<1>2. Set(r, next)
  BY DEF Append_
<1> HIDE DEF next
<1> QED
  BY <1>1, <1>2, QuietStep

(* The requests that hand nothing out and do not write to the ledger.        *)
LEMMA LocalSteps ==
  ASSUME EInv, NEW r \in DOMAIN desk,
         \/ \E outcome \in r.outcomes : VerifyOutput(r, outcome)
         \/ SnapshotLedger(r)
         \/ UpsertCertificate(r)
         \/ AppendRaises(r)
         \/ BuildBundle(r)
  PROVE  EInv'
<1>0. DOMAIN desk[r] = DOMAIN NewRequest
  BY DEF EInv
<1>1. CASE \E outcome \in r.outcomes : VerifyOutput(r, outcome)
  <2> PICK outcome \in r.outcomes : VerifyOutput(r, outcome)
    BY <1>1
  <2> DEFINE row == [status |-> IF outcome = "PASS" THEN "VERIFIED_SAFE" ELSE "RELEASE_BLOCKED",
                     verification |-> VerificationPayload(r, outcome)]
  <2>1. DOMAIN [desk[r] EXCEPT !.row = row] = DOMAIN NewRequest
    BY <1>0
  <2>2. /\ Append_(r, "VERIFICATION_COMPLETED",
                   [output_id |-> r.output,
                    verification_sha256 |-> VerificationSha(row.verification)],
                   [desk[r] EXCEPT !.row = row])
        /\ UNCHANGED <<ledger, handedOut>>
    BY DEF VerifyOutput
  <2> QED
    BY <2>1, <2>2, AppendIsQuiet
<1>2. CASE SnapshotLedger(r)
  <2> DEFINE local == [desk[r] EXCEPT !.pc = "certify", !.snapshot = verify_ledger(ledger)]
  <2>1. DOMAIN local = DOMAIN NewRequest /\ local.pc = "certify"
    BY <1>0 DEF NewRequest
  <2>2. Set(r, local) /\ UNCHANGED <<ledger, handedOut>>
    BY <1>2 DEF SnapshotLedger
  <2> HIDE DEF local
  <2> QED
    BY <2>1, <2>2, QuietStep
<1>3. CASE UpsertCertificate(r)
  <2> DEFINE certificate == issue_certificate(r.output, desk[r].row.verification, r.name,
                                              desk[r].snapshot)
  <2>1. DOMAIN [desk[r] EXCEPT !.snapshot = <<>>] = DOMAIN NewRequest
    BY <1>0
  <2>2. /\ Append_(r, "PROOF_CERTIFICATE_ISSUED",
                   [output_id |-> r.output,
                    certificate_sha256 |-> _certificate_sha256(certificate)],
                   [desk[r] EXCEPT !.snapshot = <<>>])
        /\ UNCHANGED <<ledger, handedOut>>
    BY <1>3 DEF UpsertCertificate
  <2> QED
    BY <2>1, <2>2, AppendIsQuiet
<1>4. CASE AppendRaises(r)
  BY <1>4, AnswerIsQuiet, QuietStep DEF AppendRaises, Answer
<1>5. CASE BuildBundle(r)
  <2> DEFINE bundle == build_proof_bundle(r.output, desk[r].certificate, verify_ledger(ledger),
                                          desk[r].row.verification)
             details == [output_id |-> r.output, bundle_sha256 |-> BundleSha(bundle),
                         certificate_id |-> desk[r].certificate.payload.certificate_id]
  <2>1. DOMAIN [desk[r] EXCEPT !.body = bundle] = DOMAIN NewRequest
    BY <1>0
  <2>2. /\ \/ Append_(r, "PROOF_BUNDLE_EXPORTED", details, [desk[r] EXCEPT !.body = bundle])
           \/ Answer(r)
        /\ UNCHANGED <<ledger, handedOut>>
    BY <1>5 DEF BuildBundle
  <2> HIDE DEF bundle, details
  <2> QED
    BY <2>1, <2>2, AppendIsQuiet, AnswerIsQuiet, QuietStep DEF Answer
<1> QED
  BY <1>1, <1>2, <1>3, <1>4, <1>5

(* The requests that read a row or a certificate, and the end of a package:  *)
(* what they hand out is a certificate, its PDF or a package whose export    *)
(* was appended before.                                                      *)
LEMMA ReadingSteps ==
  ASSUME EInv, NEW r \in DOMAIN desk,
         ReadOutputRow(r) \/ ReadCertificate(r) \/ FinishPackage(r)
  PROVE  EInv'
<1>0. DOMAIN desk[r] = DOMAIN NewRequest
  BY DEF EInv
<1>1. CASE ReadOutputRow(r)
  <2> DEFINE local == [desk[r] EXCEPT !.row = outputRow[r.output]]
  <2>1. DOMAIN local = DOMAIN NewRequest
    BY <1>0
  <2>2. UNCHANGED <<ledger, handedOut>>
    BY <1>1 DEF ReadOutputRow
  <2>3. \/ Answer(r)
        \/ download_output(r, local)
        \/ synthetic_format_export(r, local)
        \/ synthetic_format_export_receipt(r, local)
        \/ Set(r, [local EXCEPT !.pc = "certificate"])
    BY <1>1 DEF ReadOutputRow
  <2> HIDE DEF local
  <2>4. CASE Answer(r)
    BY <2>2, <2>4, AnswerIsQuiet, QuietStep DEF Answer
  <2>5. CASE download_output(r, local)
    <3>1. DOMAIN [local EXCEPT !.body = Artifact(r.output)] = DOMAIN NewRequest
      BY <2>1
    <3> QED
      BY <2>2, <2>5, <3>1, AppendIsQuiet DEF download_output
  <2>6. CASE synthetic_format_export(r, local)
    <3>1. DOMAIN [local EXCEPT !.body = export_synthetic_representation(r)] = DOMAIN NewRequest
      BY <2>1
    <3> QED
      BY <2>2, <2>6, <3>1, AppendIsQuiet DEF synthetic_format_export
  <2>7. CASE synthetic_format_export_receipt(r, local)
    <3>1. DOMAIN [local EXCEPT !.body = _synthetic_export_receipt(r, local.row)] = DOMAIN NewRequest
      BY <2>1
    <3> QED
      BY <2>2, <2>7, <3>1, AppendIsQuiet DEF synthetic_format_export_receipt
  <2>8. CASE Set(r, [local EXCEPT !.pc = "certificate"])
    <3> DEFINE next == [local EXCEPT !.pc = "certificate"]
    <3>1. DOMAIN next = DOMAIN NewRequest /\ next.pc = "certificate"
      BY <2>1 DEF NewRequest
    <3>2. Set(r, next)
      BY <2>8
    <3> HIDE DEF next
    <3> QED
      BY <2>2, <3>1, <3>2, QuietStep
  <2> QED
    BY <2>3, <2>4, <2>5, <2>6, <2>7, <2>8
<1>2. CASE ReadCertificate(r)
  <2> DEFINE local == [desk[r] EXCEPT !.certificate = certificateRow[r.output]]
  <2>1. DOMAIN local = DOMAIN NewRequest
    BY <1>0
  <2>2. ledger' = ledger
    BY <1>2 DEF ReadCertificate
  <2>3. \/ Answer(r) /\ UNCHANGED handedOut
        \/ r.kind = "certificate" /\ proof_certificate(r, local)
        \/ r.kind = "certificate.pdf" /\ proof_certificate_pdf(r, local)
        \/ annotated_output_export(r, local) /\ UNCHANGED handedOut
        \/ Set(r, [local EXCEPT !.pc = "bundle"]) /\ UNCHANGED handedOut
    BY <1>2 DEF ReadCertificate
  <2> HIDE DEF local
  <2>4. CASE Answer(r) /\ UNCHANGED handedOut
    BY <2>2, <2>4, AnswerIsQuiet, QuietStep DEF Answer
  <2>5. CASE r.kind = "certificate" /\ proof_certificate(r, local)
    <3>1. \A d \in handedOut' : d \in handedOut \/ Exempt(d.kind)
      BY <2>5 DEF proof_certificate, HandOut, Exempt
    <3> QED
      BY <2>2, <2>5, <3>1, AnswerIsQuiet, QuietStep DEF Answer, proof_certificate
  <2>6. CASE r.kind = "certificate.pdf" /\ proof_certificate_pdf(r, local)
    <3>1. \A d \in handedOut' : d \in handedOut \/ Exempt(d.kind)
      BY <2>6 DEF proof_certificate_pdf, HandOut, Exempt
    <3> QED
      BY <2>2, <2>6, <3>1, AnswerIsQuiet, QuietStep DEF Answer, proof_certificate_pdf
  <2>7. CASE annotated_output_export(r, local) /\ UNCHANGED handedOut
    <3> DEFINE annotated == build_annotated_export(r.output, local.certificate)
    <3>1. DOMAIN [local EXCEPT !.body = annotated] = DOMAIN NewRequest
      BY <2>1
    <3>2. \/ Append_(r, "ANNOTATED_EVIDENCE_EXPORTED",
                     [output_id |-> r.output, annotated_export_sha256 |-> annotated],
                     [local EXCEPT !.body = annotated])
          \/ Answer(r)
      BY <2>7 DEF annotated_output_export
    <3> QED
      BY <2>2, <2>7, <3>1, <3>2, AppendIsQuiet, AnswerIsQuiet, QuietStep DEF Answer
  <2>8. CASE Set(r, [local EXCEPT !.pc = "bundle"]) /\ UNCHANGED handedOut
    <3> DEFINE next == [local EXCEPT !.pc = "bundle"]
    <3>1. DOMAIN next = DOMAIN NewRequest /\ next.pc = "bundle"
      BY <2>1 DEF NewRequest
    <3>2. Set(r, next)
      BY <2>8
    <3> HIDE DEF next
    <3> QED
      BY <2>2, <2>8, <3>1, <3>2, QuietStep
  <2> QED
    BY <2>3, <2>4, <2>5, <2>6, <2>7, <2>8
<1>3. CASE FinishPackage(r)
  <2>1. OnLedger(desk[r].event)
    BY <1>3 DEF FinishPackage, EInv
  <2>2. \A d \in handedOut' : d \in handedOut \/ d.event = desk[r].event
    BY <1>3 DEF FinishPackage, HandOut
  <2>3. \A d \in handedOut' : d \in handedOut \/ OnLedger(d.event)
    BY <2>1, <2>2 DEF OnLedger
  <2>4. Answer(r) /\ ledger' = ledger
    BY <1>3 DEF FinishPackage
  <2> QED
    BY <2>3, <2>4, AnswerIsQuiet, QuietStep DEF Answer
<1> QED
  BY <1>1, <1>2, <1>3
-----------------------------------------------------------------------------
(* The ledger *)

(* append_event reads the tail as it is.                                     *)
LEMMA ReadingTheTail ==
  ASSUME EInv, NEW r \in DOMAIN desk, ReadLedgerTail(r)
  PROVE  EInv'
<1> DEFINE local == [desk[r] EXCEPT !.pc = "append", !.tail = <<Len(ledger), HeadOf(ledger)>>]
<1>0. DOMAIN desk[r] = DOMAIN NewRequest
  BY DEF EInv
<1>1. /\ DOMAIN local = DOMAIN NewRequest
      /\ local.pc = "append" /\ local.tail = <<Len(ledger), HeadOf(ledger)>>
  BY <1>0 DEF NewRequest
<1>2. UNCHANGED <<ledger, handedOut>> /\ Set(r, local)
  BY DEF ReadLedgerTail
<1> HIDE DEF local
<1>3. local.tail[1] = Len(ledger) /\ local.tail[2] = HeadOf(ledger)
  BY <1>1
<1>4. Len(ledger) \in Nat /\ Len(ledger) <= Len(ledger)
  BY DEF EInv, LedgerIsSequence
<1>5. LedgerIsSequence' /\ Chained(ledger')
  BY <1>2 DEF EInv, LedgerIsSequence
<1>6. DOMAIN desk' = DOMAIN desk /\ \A q \in DOMAIN desk : desk'[q] = IF q = r THEN local ELSE desk[q]
  BY <1>2 DEF Set
<1>7. ASSUME NEW q \in DOMAIN desk'
      PROVE  /\ DOMAIN desk'[q] = DOMAIN NewRequest
             /\ At(q, "append")' => TailIsKnown(q)'
             /\ At(q, "checkpoint")' => OnLedger(desk[q].event)'
  <2>1. CASE q = r
    <3>1. desk'[q] = local
      BY <1>6, <2>1
    <3>2. TailIsKnown(q)'
      BY <1>2, <1>3, <1>4, <3>1 DEF TailIsKnown
    <3> QED
      BY <1>1, <3>1, <3>2 DEF At
  <2>2. CASE q # r
    BY <1>2, <1>6, <2>2 DEF EInv, At, TailIsKnown, OnLedger
  <2> QED
    BY <2>1, <2>2
<1>8. \A d \in handedOut' : Exempt(d.kind) \/ OnLedger(d.event)'
  BY <1>2 DEF EInv, OnLedger
<1> QED
  BY <1>5, <1>7, <1>8 DEF EInv

(* The sequence number is the next one: the chain grows by the event, every  *)
(* event stays where it was, and whoever else has read a tail is behind.     *)
LEMMA Inserting ==
  ASSUME EInv, NEW r \in DOMAIN desk, InsertLedgerEvent(r)
  PROVE  EInv'
<1> DEFINE type == desk[r].event.type
           details == desk[r].event.details
           e == Event(desk[r].tail[1] + 1, type, details, desk[r].tail[2])
<1>0. DOMAIN desk[r] = DOMAIN NewRequest
  BY DEF EInv
<1>1. PICK S : ledger \in Seq(S)
  BY DEF EInv, LedgerIsSequence
<1>2. desk[r].tail[1] = Len(ledger) /\ desk[r].tail[2] = HeadOf(ledger)
  <2>1. TailIsKnown(r) /\ ~(Len(ledger) > desk[r].tail[1])
    BY DEF InsertLedgerEvent, SequenceIsTaken, EInv
  <2> QED
    BY <1>1, <2>1 DEF TailIsKnown
<1>3. ledger' = Append(ledger, e)
  BY DEF InsertLedgerEvent
<1>4. Chained(ledger')
  BY <1>1, <1>2, <1>3, ChainGrows DEF EInv
<1>5. e.event_type = type /\ e.details = details
  BY DEF Event
<1> HIDE DEF e
<1>6. /\ LedgerIsSequence'
      /\ Len(ledger) \in Nat /\ Len(ledger') = Len(ledger) + 1
      /\ DOMAIN ledger = 1 .. Len(ledger) /\ DOMAIN ledger' = 1 .. Len(ledger) + 1
      /\ \A k \in 1 .. Len(ledger) : ledger'[k] = ledger[k]
      /\ ledger'[Len(ledger) + 1] = e
  BY <1>1, <1>3, Longer DEF LedgerIsSequence
<1>7. ASSUME NEW event, OnLedger(event)
      PROVE  \E k \in DOMAIN ledger' : ledger'[k].event_type = event.type /\ ledger'[k].details = event.details
  <2>1. PICK k \in DOMAIN ledger :
             ledger[k].event_type = event.type /\ ledger[k].details = event.details
    BY <1>7 DEF OnLedger
  <2>2. k \in DOMAIN ledger' /\ ledger'[k] = ledger[k]
    BY <1>6
  <2> QED
    BY <2>1, <2>2
<1>8. \E k \in DOMAIN ledger' : ledger'[k].event_type = type /\ ledger'[k].details = details
  <2>1. Len(ledger) + 1 \in DOMAIN ledger'
    BY <1>6
  <2> QED
    BY <1>5, <1>6, <2>1
<1>9. \/ Set(r, [NewRequest EXCEPT !.pc = "done"])
      \/ Set(r, [desk[r] EXCEPT !.pc = AfterEvent(r)]) /\ AfterEvent(r) \in {"snapshot", "checkpoint"}
  BY DEF InsertLedgerEvent, Answer, AfterEvent
<1>10. PICK local :
         /\ Set(r, local) /\ DOMAIN local = DOMAIN NewRequest
         /\ local.pc \in {"done", "snapshot", "checkpoint"}
         /\ local.pc = "checkpoint" => local.event = desk[r].event
  <2>1. CASE Set(r, [NewRequest EXCEPT !.pc = "done"])
    BY <2>1, AnswerIsQuiet
  <2>2. CASE /\ Set(r, [desk[r] EXCEPT !.pc = AfterEvent(r)])
             /\ AfterEvent(r) \in {"snapshot", "checkpoint"}
    <3> DEFINE next == [desk[r] EXCEPT !.pc = AfterEvent(r)]
    <3>1. DOMAIN next = DOMAIN NewRequest /\ next.pc = AfterEvent(r) /\ next.event = desk[r].event
      BY <1>0 DEF NewRequest
    <3>2. Set(r, next)
      BY <2>2
    <3> HIDE DEF next
    <3> QED
      BY <2>2, <3>1, <3>2
  <2> QED
    BY <1>9, <2>1, <2>2
<1>11. DOMAIN desk' = DOMAIN desk /\ \A q \in DOMAIN desk : desk'[q] = IF q = r THEN local ELSE desk[q]
  BY <1>10 DEF Set
<1>12. ASSUME NEW q \in DOMAIN desk'
       PROVE  /\ DOMAIN desk'[q] = DOMAIN NewRequest
              /\ At(q, "append")' => TailIsKnown(q)'
              /\ At(q, "checkpoint")' => OnLedger(desk[q].event)'
  <2>1. CASE q = r
    <3>1. desk'[q] = local
      BY <1>11, <2>1
    <3>2. local.pc = "checkpoint" => OnLedger(desk[q].event)'
      BY <1>8, <1>10, <3>1 DEF OnLedger
    <3> QED
      BY <1>10, <3>1, <3>2 DEF At
  <2>2. CASE q # r
    <3>1. desk'[q] = desk[q] /\ q \in DOMAIN desk
      BY <1>11, <2>2
    <3>2. At(q, "append")' => TailIsKnown(q)'
      <4>1. At(q, "append")' => TailIsKnown(q)
        BY <3>1 DEF EInv, At
      <4>2. TailIsKnown(q) => desk[q].tail[1] \in Nat /\ desk[q].tail[1] <= Len(ledger)
        BY DEF TailIsKnown
      <4>3. TailIsKnown(q) => TailIsKnown(q)'
        <5> DEFINE n == desk[q].tail[1]
        <5>1. desk'[q].tail[1] = n
          BY <3>1
        <5> HIDE DEF n
        <5>2. n \in Nat /\ n <= Len(ledger) => n <= Len(ledger') /\ n # Len(ledger')
          BY <1>6
        <5> QED
          BY <4>2, <5>1, <5>2 DEF TailIsKnown, n
      <4> QED
        BY <4>1, <4>3
    <3>3. At(q, "checkpoint")' => OnLedger(desk[q].event)
      BY <3>1 DEF EInv, At
    <3>4. At(q, "checkpoint")' => OnLedger(desk[q].event)'
      BY <1>7, <3>1, <3>3 DEF OnLedger
    <3> QED
      BY <3>1, <3>2, <3>4 DEF EInv
  <2> QED
    BY <2>1, <2>2
<1>13. ASSUME NEW d \in handedOut'
       PROVE  Exempt(d.kind) \/ OnLedger(d.event)'
  <2>1. d \in handedOut \/ d.event = desk[r].event
    BY DEF InsertLedgerEvent, HandOut
  <2>2. CASE d \in handedOut
    BY <1>7, <2>2 DEF EInv, OnLedger
  <2>3. CASE d.event = desk[r].event
    BY <1>8, <2>3 DEF OnLedger
  <2> QED
    BY <2>1, <2>2, <2>3
<1> QED
  BY <1>4, <1>6, <1>12, <1>13 DEF EInv

-----------------------------------------------------------------------------
(* Any step keeps the invariant.                                             *)
LEMMA ExportStepKeeps ==
  ASSUME EInv, [ExportNext]_ExportVars
  PROVE  EInv'
<1>1. CASE UNCHANGED ExportVars
  BY <1>1 DEF ExportVars, EInv, LedgerIsSequence, At, TailIsKnown, OnLedger
<1>2. CASE ExportNext
  BY <1>2, LocalSteps, ReadingSteps, ReadingTheTail, Inserting DEF ExportNext, ExportStep
<1> QED
  BY <1>1, <1>2

LEMMA ExportStarts == ExportInit => EInv
<1> SUFFICES ASSUME ExportInit
             PROVE  EInv
  OBVIOUS
<1>1. ledger = <<>> /\ handedOut = {}
  BY DEF ExportInit
<1>2. ledger \in Seq({}) /\ DOMAIN ledger = {}
  BY <1>1
<1>3. \A r \in DOMAIN desk : desk[r] = NewRequest
  BY DEF ExportInit
<1>4. NewRequest.pc = "start"
  BY DEF NewRequest
<1> QED
  BY <1>1, <1>2, <1>3, <1>4 DEF EInv, LedgerIsSequence, Chained, At

LEMMA WhatLeftIsOnTheLedger == EInv => HandedOutIsAudited
BY DEF EInv, HandedOutIsAudited, Exempt, OnLedger

(* Whatever verify_output and the GET handlers hand out, except certificates *)
(* and their PDFs, has an event with its hash on the job's ledger by then,   *)
(* and the ledger is a chain without gap, however the handlers' reads and    *)
(* appends interleave (append_event, api/routes.py).                         *)
THEOREM WhatLeavesIsAudited == ExportSpec => []HandedOutIsAudited
BY WhatLeftIsOnTheLedger, ExportStarts, ExportStepKeeps, PTL DEF ExportSpec

-----------------------------------------------------------------------------
(* What is exported *)

Passed == [tests |-> <<"PASS">>, release_decision |-> "ALLOW_RELEASE"]

(* The ledger as it was after n events.                                      *)
Snap(n) == verify_ledger(SubSeq(ledger, 1, n))

CertificateOf(o, name, n) == issue_certificate(o, Passed, name, Snap(n))

(* A certificate of the issued ones, with the ledger that it was issued at.  *)
IsIssued(c, o, issued) ==
  /\ c \in issued
  /\ \E name : \E n \in 0 .. Len(ledger) : c = CertificateOf(o, name, n)

(* A bundle of an output holds a certificate, and a ledger at least as long  *)
(* as the one that the certificate names.                                    *)
IsBundle(bundle, c, o, issued) ==
  /\ c \in issued
  /\ \E name, k, n :
       /\ k \in 0 .. Len(ledger) /\ n \in 0 .. k
       /\ c = CertificateOf(o, name, n)
       /\ bundle = build_proof_bundle(o, c, Snap(k), Passed)

ExportEvent(bundle, c, o) ==
  [type |-> "PROOF_BUNDLE_EXPORTED",
   details |-> [output_id |-> o, bundle_sha256 |-> BundleSha(bundle),
                certificate_id |-> c.payload.certificate_id]]

IsRecorded(event, events) ==
  \E j \in DOMAIN events : events[j].event_type = event.type /\ events[j].details = event.details

(* A package adds a receipt and the ledger with the event of its export.     *)
IsPackage(p, issued) ==
  \E bundle, c, o : \E m \in 0 .. Len(ledger) :
    /\ IsBundle(bundle, c, o, issued)
    /\ p = build_proof_package(bundle, issue_bundle_receipt(bundle, c, Snap(m)), Snap(m))
    /\ IsRecorded(ExportEvent(bundle, c, o), Snap(m).events)

(* An id is of one certificate.                                              *)
IdsTell(issued) ==
  \A c, d \in issued : c.payload.certificate_id = d.payload.certificate_id => c = d

-----------------------------------------------------------------------------
(* Snapshots *)

(* A beginning of a chain is one, and a beginning of that is a beginning.    *)
LEMMA LedgerPrefixes ==
  ASSUME NEW S, NEW s \in Seq(S), Chained(s), NEW n \in 0 .. Len(s)
  PROVE  /\ Chained(SubSeq(s, 1, n)) /\ Len(SubSeq(s, 1, n)) = n
         /\ \A k \in 0 .. n : SubSeq(SubSeq(s, 1, n), 1, k) = SubSeq(s, 1, k)
<1> DEFINE t == SubSeq(s, 1, n)
<1>1. t \in Seq(S) /\ Len(t) = n /\ DOMAIN t = 1 .. n /\ \A k \in 1 .. n : t[k] = s[k]
  OBVIOUS
<1>2. ASSUME NEW k \in 0 .. n
      PROVE  SubSeq(t, 1, k) = SubSeq(s, 1, k)
  <2>1. /\ SubSeq(t, 1, k) \in Seq(S) /\ Len(SubSeq(t, 1, k)) = k
        /\ SubSeq(s, 1, k) \in Seq(S) /\ Len(SubSeq(s, 1, k)) = k
        /\ \A j \in 1 .. k : SubSeq(t, 1, k)[j] = SubSeq(s, 1, k)[j]
    BY <1>1
  <2> QED
    BY <2>1
<1>3. ASSUME NEW k \in DOMAIN t
      PROVE  t[k] = Event(k, t[k].event_type, t[k].details, HeadOf(SubSeq(t, 1, k - 1)))
  <2>1. k \in DOMAIN s /\ t[k] = s[k] /\ k - 1 \in 0 .. n
    BY <1>1
  <2>2. SubSeq(t, 1, k - 1) = SubSeq(s, 1, k - 1)
    BY <1>2, <2>1
  <2> QED
    BY <2>1, <2>2 DEF Chained
<1> QED
  BY <1>1, <1>2, <1>3 DEF Chained

(* A snapshot passes, is told by its length, and contains the earlier ones.  *)
LEMMA Snapshots ==
  ASSUME EInv, NEW k \in 0 .. Len(ledger)
  PROVE  /\ verify_audit_snapshot(Snap(k)) /\ Snap(k).valid
         /\ Snap(k).event_count = k /\ Len(Snap(k).events) = k
         /\ \A n \in 0 .. k : HeadOf(SubSeq(Snap(k).events, 1, n)) = Snap(n).chain_head
<1> PICK S : ledger \in Seq(S)
  BY DEF EInv, LedgerIsSequence
<1>1. /\ Chained(SubSeq(ledger, 1, k)) /\ Len(SubSeq(ledger, 1, k)) = k
      /\ \A n \in 0 .. k : SubSeq(SubSeq(ledger, 1, k), 1, n) = SubSeq(ledger, 1, n)
  BY LedgerPrefixes DEF EInv
<1>2. \A n : /\ Snap(n).valid = Chained(SubSeq(ledger, 1, n))
             /\ Snap(n).event_count = Len(SubSeq(ledger, 1, n))
             /\ Snap(n).chain_head = HeadOf(SubSeq(ledger, 1, n))
             /\ Snap(n).events = SubSeq(ledger, 1, n)
  BY DEF Snap, verify_ledger
<1> QED
  BY <1>1, <1>2 DEF verify_audit_snapshot
-----------------------------------------------------------------------------
(* Hashes *)

Sha(member, x) ==
  CASE member = "certificate" -> _certificate_sha256(x)
    [] member = "ledger" -> <<"ledger", x.event_count, x.chain_head>>
    [] member = "verification" -> VerificationSha(x)
    [] member \in {"manifest", "annotation"} -> x.sha
    [] member = "graph" -> x.graph_sha256
    [] OTHER -> x

LEMMA ShasOfMembers ==
  ASSUME NEW entries, DOMAIN entries = Indexed, entries = [m \in Indexed |-> entries[m]]
  PROVE  MemberShas(entries) = [m \in Indexed |-> Sha(m, entries[m])]
BY DEF MemberShas, Indexed, Sha

(* The fields of what is issued.                                             *)
LEMMA CertificateFields ==
  ASSUME NEW o, NEW name, NEW n
  PROVE  LET c == CertificateOf(o, name, n)
         IN /\ c.signature = c.payload
            /\ c.payload.certificate_id = <<"certificate", o, name>>
            /\ c.payload.output_sha256 = <<"artifact", o>>
            /\ c.payload.manifest_sha256 = <<"manifest", o>>
            /\ c.payload.graph_sha256 = <<"graph", o>>
            /\ c.payload.verification_sha256 = <<"verification", <<"PASS">>>>
            /\ c.payload.release_decision = "ALLOW_RELEASE"
            /\ c.payload.audit_head = Snap(n).chain_head
            /\ c.payload.audit_events = Snap(n).event_count
<1> DEFINE payload == [certificate_id |-> <<"certificate", o, name>>,
        output_sha256 |-> Artifact(o),
        manifest_sha256 |-> Manifest(o).sha,
        graph_sha256 |-> Graph(o).graph_sha256,
        verification_sha256 |-> VerificationSha(Passed),
        release_decision |-> Passed.release_decision,
        audit_head |-> Snap(n).chain_head,
        audit_events |-> Snap(n).event_count]
<1>1. CertificateOf(o, name, n) = [payload |-> payload, signature |-> payload]
  BY DEF CertificateOf, issue_certificate, Sign
<1>2. /\ Artifact(o) = <<"artifact", o>> /\ Manifest(o).sha = <<"manifest", o>>
      /\ Graph(o).graph_sha256 = <<"graph", o>>
      /\ VerificationSha(Passed) = <<"verification", <<"PASS">>>>
      /\ Passed.release_decision = "ALLOW_RELEASE"
  BY DEF Artifact, Manifest, Graph, VerificationSha, Passed
<1>3. /\ payload.certificate_id = <<"certificate", o, name>>
      /\ payload.output_sha256 = Artifact(o)
      /\ payload.manifest_sha256 = Manifest(o).sha
      /\ payload.graph_sha256 = Graph(o).graph_sha256
      /\ payload.verification_sha256 = VerificationSha(Passed)
      /\ payload.release_decision = Passed.release_decision
      /\ payload.audit_head = Snap(n).chain_head
      /\ payload.audit_events = Snap(n).event_count
  OBVIOUS
<1> HIDE DEF payload
<1>4. /\ CertificateOf(o, name, n).payload = payload
      /\ CertificateOf(o, name, n).signature = payload
  BY <1>1
<1> QED
  BY <1>2, <1>3, <1>4

(* The members of a bundle and their hashes.                                 *)
LEMMA BundleFields ==
  ASSUME NEW o, NEW c, NEW snapshot, NEW b, b = build_proof_bundle(o, c, snapshot, Passed)
  PROVE  /\ b = [entries |-> b.entries, index |-> b.index]
         /\ DOMAIN b.entries = Indexed /\ b.entries = [m \in Indexed |-> b.entries[m]]
         /\ b.index = MemberShas(b.entries)
         /\ b.entries["protected"] = <<"artifact", o>> /\ b.entries["certificate"] = c
         /\ b.entries["pdf"] = <<"pdf", c.payload.certificate_id, <<"PASS">>>>
         /\ b.entries["ledger"] = snapshot /\ b.entries["verification"] = Passed
         /\ b.entries["manifest"] = Manifest(o) /\ b.entries["graph"] = Graph(o)
         /\ b.entries["annotation"] = build_annotation_evidence(o)
<1> DEFINE entries == [protected |-> Artifact(o), certificate |-> c,
                  pdf |-> certificate_pdf(c, Passed), ledger |-> snapshot,
                  verification |-> Passed, manifest |-> Manifest(o),
                  graph |-> Graph(o), annotation |-> build_annotation_evidence(o)]
<1>1. build_proof_bundle(o, c, snapshot, Passed) = [entries |-> entries, index |-> MemberShas(entries)]
  BY DEF build_proof_bundle
<1>2. /\ DOMAIN entries = Indexed /\ entries = [m \in Indexed |-> entries[m]]
      /\ entries["protected"] = Artifact(o) /\ entries["certificate"] = c
      /\ entries["pdf"] = certificate_pdf(c, Passed)
      /\ entries["ledger"] = snapshot /\ entries["verification"] = Passed
      /\ entries["manifest"] = Manifest(o) /\ entries["graph"] = Graph(o)
      /\ entries["annotation"] = build_annotation_evidence(o)
  BY DEF Indexed
<1>3. /\ Artifact(o) = <<"artifact", o>>
      /\ certificate_pdf(c, Passed) = <<"pdf", c.payload.certificate_id, <<"PASS">>>>
  BY DEF Artifact, certificate_pdf, _certificate_sha256, Passed
<1> HIDE DEF entries
<1>4. /\ build_proof_bundle(o, c, snapshot, Passed).entries = entries
      /\ build_proof_bundle(o, c, snapshot, Passed).index = MemberShas(entries)
  BY <1>1
<1> QED
  BY <1>1, <1>2, <1>3, <1>4

(* All of a bundle: its members and their hashes.                            *)
BundleShape(b, o, c, snapshot) ==
  /\ b = [entries |-> b.entries, index |-> b.index]
  /\ DOMAIN b.entries = Indexed /\ b.entries = [m \in Indexed |-> b.entries[m]]
  /\ b.index = MemberShas(b.entries) /\ b.index = [m \in Indexed |-> Sha(m, b.entries[m])]
  /\ b.entries["protected"] = <<"artifact", o>> /\ b.entries["certificate"] = c
  /\ b.entries["pdf"] = <<"pdf", c.payload.certificate_id, <<"PASS">>>>
  /\ b.entries["ledger"] = snapshot /\ b.entries["verification"] = Passed
  /\ b.entries["manifest"] = Manifest(o) /\ b.entries["graph"] = Graph(o)
  /\ b.entries["annotation"] = build_annotation_evidence(o)
  /\ b.index["protected"] = <<"artifact", o>>
  /\ b.index["certificate"] = c.payload.certificate_id
  /\ b.index["pdf"] = <<"pdf", c.payload.certificate_id, <<"PASS">>>>
  /\ b.index["ledger"] = <<"ledger", snapshot.event_count, snapshot.chain_head>>
  /\ b.index["verification"] = <<"verification", <<"PASS">>>>
  /\ b.index["manifest"] = <<"manifest", o>>
  /\ b.index["graph"] = <<"graph", o>>
  /\ b.index["annotation"] = <<"annotation", o>>

(* The index lists each member's hash, and nothing but the artifact has the  *)
(* hash that the certificate names.                                          *)
LEMMA BundleShapes ==
  ASSUME NEW o, NEW c, NEW snapshot, NEW b, b = build_proof_bundle(o, c, snapshot, Passed)
  PROVE  BundleShape(b, o, c, snapshot)
<1> DEFINE e == b.entries
<1>1. /\ b = [entries |-> e, index |-> b.index]
      /\ DOMAIN e = Indexed /\ e = [m \in Indexed |-> e[m]] /\ b.index = MemberShas(e)
      /\ e["protected"] = <<"artifact", o>> /\ e["certificate"] = c
      /\ e["pdf"] = <<"pdf", c.payload.certificate_id, <<"PASS">>>>
      /\ e["ledger"] = snapshot /\ e["verification"] = Passed
      /\ e["manifest"] = Manifest(o) /\ e["graph"] = Graph(o)
      /\ e["annotation"] = build_annotation_evidence(o)
  BY BundleFields
<1> HIDE DEF e
<1>2. b.index = [m \in Indexed |-> Sha(m, e[m])]
  BY <1>1, ShasOfMembers
<1>3. \A m \in Indexed : b.index[m] = Sha(m, e[m])
  BY <1>2
<1>4. /\ b.index["protected"] = <<"artifact", o>>
      /\ b.index["pdf"] = <<"pdf", c.payload.certificate_id, <<"PASS">>>>
  BY <1>1, <1>3 DEF Sha, Indexed
<1>5. b.index["certificate"] = c.payload.certificate_id
  BY <1>1, <1>3 DEF Sha, Indexed, _certificate_sha256
<1>6. b.index["ledger"] = <<"ledger", snapshot.event_count, snapshot.chain_head>>
  BY <1>1, <1>3 DEF Sha, Indexed
<1>7. b.index["verification"] = <<"verification", <<"PASS">>>>
  BY <1>1, <1>3 DEF Sha, Indexed, VerificationSha, Passed
<1>8. b.index["manifest"] = <<"manifest", o>> /\ b.index["graph"] = <<"graph", o>>
  BY <1>1, <1>3 DEF Sha, Indexed, Manifest, Graph
<1>9. b.index["annotation"] = <<"annotation", o>>
  BY <1>1, <1>3 DEF Sha, Indexed, build_annotation_evidence
<1> QED
  BY <1>1, <1>2, <1>4, <1>5, <1>6, <1>7, <1>8, <1>9 DEF e, BundleShape

(* A hash tells the member of a bundle that it is the hash of.               *)
LEMMA ShasTell ==
  ASSUME EInv, NEW issued, IdsTell(issued),
         NEW b, NEW c, NEW o, IsBundle(b, c, o, issued),
         NEW b1, NEW c1, NEW o1, IsBundle(b1, c1, o1, issued),
         NEW m \in Indexed, b.index[m] = b1.index[m]
  PROVE  b.entries[m] = b1.entries[m]
<1>1. PICK name, k, n :
             /\ k \in 0 .. Len(ledger) /\ n \in 0 .. k
             /\ c = CertificateOf(o, name, n)
             /\ b = build_proof_bundle(o, c, Snap(k), Passed)
  BY DEF IsBundle
<1>2. PICK name1, k1, n1 :
             /\ k1 \in 0 .. Len(ledger) /\ n1 \in 0 .. k1
             /\ c1 = CertificateOf(o1, name1, n1)
             /\ b1 = build_proof_bundle(o1, c1, Snap(k1), Passed)
  BY DEF IsBundle
<1>3. c \in issued /\ c1 \in issued
  BY DEF IsBundle
<1>4. BundleShape(b, o, c, Snap(k)) /\ BundleShape(b1, o1, c1, Snap(k1))
  BY <1>1, <1>2, BundleShapes
<1>8. CASE m = "protected"
  BY <1>4, <1>8 DEF BundleShape
<1>9. CASE m = "certificate"
  <2>1. /\ b.index[m] = c.payload.certificate_id /\ b1.index[m] = c1.payload.certificate_id
        /\ b.entries[m] = c /\ b1.entries[m] = c1
    BY <1>4, <1>9 DEF BundleShape
  <2> QED
    BY <1>3, <2>1 DEF IdsTell
<1>10. CASE m = "pdf"
  BY <1>4, <1>10 DEF BundleShape
<1>11. CASE m = "ledger"
  <2>1. Snap(k).event_count = k /\ Snap(k1).event_count = k1
    BY <1>1, <1>2, Snapshots
  <2>2. k = k1
    <3>1. <<"ledger", Snap(k).event_count, Snap(k).chain_head>>
            = <<"ledger", Snap(k1).event_count, Snap(k1).chain_head>>
      BY <1>4, <1>11 DEF BundleShape
    <3>2. Snap(k).event_count = Snap(k1).event_count
      BY <3>1
    <3> QED
      BY <2>1, <3>2
  <2> QED
    BY <1>4, <1>11, <2>2 DEF BundleShape
<1>12. CASE m = "verification"
  BY <1>4, <1>12 DEF BundleShape
<1>13. CASE m = "manifest"
  <2>1. o = o1
    <3>1. <<"manifest", o>> = <<"manifest", o1>>
      BY <1>4, <1>13 DEF BundleShape
    <3> QED
      BY <3>1
  <2> QED
    BY <1>4, <1>13, <2>1 DEF BundleShape
<1>14. CASE m = "graph"
  <2>1. o = o1
    <3>1. <<"graph", o>> = <<"graph", o1>>
      BY <1>4, <1>14 DEF BundleShape
    <3> QED
      BY <3>1
  <2> QED
    BY <1>4, <1>14, <2>1 DEF BundleShape
<1>15. CASE m = "annotation"
  <2>1. o = o1
    <3>1. <<"annotation", o>> = <<"annotation", o1>>
      BY <1>4, <1>15 DEF BundleShape
    <3> QED
      BY <3>1
  <2> QED
    BY <1>4, <1>15, <2>1 DEF BundleShape
<1> QED
  BY <1>8, <1>9, <1>10, <1>11, <1>12, <1>13, <1>14, <1>15 DEF Indexed

(* The form of a bundle, whichever it is.                                    *)
LEMMA BundleForm ==
  ASSUME NEW issued, NEW b, NEW c, NEW o, IsBundle(b, c, o, issued)
  PROVE  /\ b = [entries |-> b.entries, index |-> b.index]
         /\ DOMAIN b.entries = Indexed /\ b.entries = [m \in Indexed |-> b.entries[m]]
         /\ b.index = MemberShas(b.entries) /\ b.index = [m \in Indexed |-> Sha(m, b.entries[m])]
<1>1. PICK k : b = build_proof_bundle(o, c, Snap(k), Passed)
  BY DEF IsBundle
<1> QED
  BY <1>1, BundleShapes DEF BundleShape

(* Bundles with one hash are one.                                            *)
LEMMA BundleShaTells ==
  ASSUME EInv, NEW issued, IdsTell(issued),
         NEW b, NEW c, NEW o, IsBundle(b, c, o, issued),
         NEW b1, NEW c1, NEW o1, IsBundle(b1, c1, o1, issued),
         BundleSha(b) = BundleSha(b1)
  PROVE  b = b1
<1>1. b.index = b1.index
  BY DEF BundleSha
<1>2. \A m \in Indexed : b.entries[m] = b1.entries[m]
  BY <1>1, ShasTell
<1>3. /\ b = [entries |-> b.entries, index |-> b.index] /\ b.entries = [m \in Indexed |-> b.entries[m]]
      /\ b1 = [entries |-> b1.entries, index |-> b1.index]
      /\ b1.entries = [m \in Indexed |-> b1.entries[m]]
  BY BundleForm
<1>4. b.entries = b1.entries
  BY <1>2, <1>3
<1> QED
  BY <1>1, <1>3, <1>4

(* The receipt of a package.                                                 *)
LEMMA PackageFields ==
  ASSUME NEW b, NEW c, NEW snapshot
  PROVE  LET p == build_proof_package(b, issue_bundle_receipt(b, c, snapshot), snapshot)
             named == p.receipt.payload
         IN /\ p = [bundle |-> b, receipt |-> p.receipt, ledger |-> snapshot]
            /\ p.bundle = b /\ p.ledger = snapshot
            /\ p.receipt.signature = named
            /\ named.certificate_id = c.payload.certificate_id
            /\ named.certificate_sha256 = c.payload.certificate_id
            /\ named.bundle_sha256 = BundleSha(b)
            /\ named.output_sha256 = c.payload.output_sha256
            /\ named.manifest_sha256 = c.payload.manifest_sha256
            /\ named.graph_sha256 = c.payload.graph_sha256
            /\ named.verification_sha256 = c.payload.verification_sha256
            /\ named.audit_head = snapshot.chain_head
            /\ named.audit_events = snapshot.event_count
<1> DEFINE payload == [certificate_id |-> c.payload.certificate_id,
           certificate_sha256 |-> _certificate_sha256(c),
           bundle_sha256 |-> BundleSha(b), output_sha256 |-> c.payload.output_sha256,
           manifest_sha256 |-> c.payload.manifest_sha256, graph_sha256 |-> c.payload.graph_sha256,
           verification_sha256 |-> c.payload.verification_sha256,
           audit_head |-> snapshot.chain_head, audit_events |-> snapshot.event_count]
<1>1. issue_bundle_receipt(b, c, snapshot) = [payload |-> payload, signature |-> payload]
  BY DEF issue_bundle_receipt, Sign
<1>2. /\ payload.certificate_id = c.payload.certificate_id
      /\ payload.certificate_sha256 = c.payload.certificate_id
      /\ payload.bundle_sha256 = BundleSha(b)
      /\ payload.output_sha256 = c.payload.output_sha256
      /\ payload.manifest_sha256 = c.payload.manifest_sha256
      /\ payload.graph_sha256 = c.payload.graph_sha256
      /\ payload.verification_sha256 = c.payload.verification_sha256
      /\ payload.audit_head = snapshot.chain_head
      /\ payload.audit_events = snapshot.event_count
  BY DEF _certificate_sha256
<1> HIDE DEF payload
<1>3. build_proof_package(b, issue_bundle_receipt(b, c, snapshot), snapshot)
        = [bundle |-> b, receipt |-> [payload |-> payload, signature |-> payload],
           ledger |-> snapshot]
  BY <1>1 DEF build_proof_package
<1> QED
  BY <1>2, <1>3

(* The verifier accepts a package that was handed out, as far as its archive *)
(* may shrink.                                                               *)
LEMMA ExportsPass ==
  ASSUME EInv, NEW issued, NEW p, IsPackage(p, issued)
  PROVE  /\ verify_proof_package_bytes(p) \/ ~_validate_zip_archive(p.bundle)
         /\ p.bundle.entries.certificate.payload.release_decision = "ALLOW_RELEASE"
<1>1. PICK bundle, c, o, m :
        /\ m \in 0 .. Len(ledger)
        /\ IsBundle(bundle, c, o, issued)
        /\ p = build_proof_package(bundle, issue_bundle_receipt(bundle, c, Snap(m)), Snap(m))
        /\ IsRecorded(ExportEvent(bundle, c, o), Snap(m).events)
  BY DEF IsPackage
<1>2. PICK name, k, n :
        /\ k \in 0 .. Len(ledger) /\ n \in 0 .. k
        /\ c = CertificateOf(o, name, n) /\ bundle = build_proof_bundle(o, c, Snap(k), Passed)
  BY <1>1 DEF IsBundle
<1>3. BundleShape(bundle, o, c, Snap(k))
  BY <1>2, BundleShapes
<1>4. PICK payload : payload = c.payload
  OBVIOUS
<1>5. /\ c.signature = payload /\ c.payload = payload
      /\ payload.certificate_id = <<"certificate", o, name>>
      /\ payload.output_sha256 = <<"artifact", o>>
      /\ payload.manifest_sha256 = <<"manifest", o>>
      /\ payload.graph_sha256 = <<"graph", o>>
      /\ payload.verification_sha256 = <<"verification", <<"PASS">>>>
      /\ payload.release_decision = "ALLOW_RELEASE"
      /\ payload.audit_head = Snap(n).chain_head
      /\ payload.audit_events = Snap(n).event_count
  BY <1>2, <1>4, CertificateFields
<1>6. PICK receipt : receipt = issue_bundle_receipt(bundle, c, Snap(m))
  OBVIOUS
<1>7. PICK named : named = receipt.payload
  OBVIOUS
<1>8. /\ p.bundle = bundle /\ p.ledger = Snap(m) /\ p.receipt = receipt
      /\ receipt.signature = named /\ receipt.payload = named
      /\ named.certificate_id = payload.certificate_id
      /\ named.certificate_sha256 = payload.certificate_id
      /\ named.bundle_sha256 = BundleSha(bundle)
      /\ named.output_sha256 = payload.output_sha256
      /\ named.manifest_sha256 = payload.manifest_sha256
      /\ named.graph_sha256 = payload.graph_sha256
      /\ named.verification_sha256 = payload.verification_sha256
      /\ named.audit_head = Snap(m).chain_head
      /\ named.audit_events = Snap(m).event_count
  <2>1. p = [bundle |-> bundle, receipt |-> receipt, ledger |-> Snap(m)]
    BY <1>1, <1>6 DEF build_proof_package
  <2> QED
    BY <1>4, <1>6, <1>7, <2>1, PackageFields DEF build_proof_package
<1>9. ReceiptChecks(p)
  <2>1. \E j \in DOMAIN Snap(m).events :
          /\ Snap(m).events[j].event_type = "PROOF_BUNDLE_EXPORTED"
          /\ Snap(m).events[j].details.bundle_sha256 = BundleSha(bundle)
          /\ Snap(m).events[j].details.certificate_id = payload.certificate_id
    BY <1>1, <1>4 DEF IsRecorded, ExportEvent
  <2>2. verify_audit_snapshot(Snap(m))
    BY <1>1, Snapshots
  <2> QED
    BY <1>8, <2>1, <2>2 DEF ReceiptChecks, Signed
<1>10. OneProtectedArtifact(bundle)
  <2>1. {m1 \in Indexed : bundle.index[m1] = bundle.entries.certificate.payload.output_sha256}
          = {"protected"}
    <3> DEFINE x == bundle.index
    <3>1. /\ x["protected"] = <<"artifact", o>> /\ bundle.entries.certificate = c
          /\ x["certificate"][1] = "certificate" /\ x["pdf"][1] = "pdf"
          /\ x["ledger"][1] = "ledger" /\ x["verification"][1] = "verification"
          /\ x["manifest"][1] = "manifest" /\ x["graph"][1] = "graph"
          /\ x["annotation"][1] = "annotation"
      <4>1. /\ x["protected"] = <<"artifact", o>> /\ bundle.entries.certificate = c
            /\ x["certificate"] = c.payload.certificate_id
        BY <1>3 DEF BundleShape
      <4>2. x["certificate"][1] = "certificate"
        BY <1>4, <1>5, <4>1
      <4>3. /\ x["pdf"][1] = "pdf"
            /\ x["ledger"][1] = "ledger" /\ x["verification"][1] = "verification"
        BY <1>3 DEF BundleShape
      <4>4. /\ x["manifest"][1] = "manifest" /\ x["graph"][1] = "graph"
            /\ x["annotation"][1] = "annotation"
        BY <1>3 DEF BundleShape
      <4> QED
        BY <4>1, <4>2, <4>3, <4>4
    <3>2. <<"artifact", o>>[1] = "artifact"
      OBVIOUS
    <3> HIDE DEF x
    <3>3. \A m1 \in Indexed : x[m1] = <<"artifact", o>> <=> m1 = "protected"
      BY <3>1, <3>2 DEF Indexed
    <3>4. {m1 \in Indexed : x[m1] = <<"artifact", o>>} = {"protected"}
      BY <3>3 DEF Indexed
    <3>5. bundle.entries.certificate.payload.output_sha256 = <<"artifact", o>>
      BY <1>4, <1>5, <3>1
    <3> QED
      BY <3>4, <3>5 DEF x
  <2> QED
    BY <2>1, FS_Singleton DEF OneProtectedArtifact
<1>11. _check_index(bundle)
  BY <1>3 DEF _check_index, BundleShape
<1>12. CertificateChecks(bundle, receipt)
  <2>1. VerificationSha(Passed) = <<"verification", <<"PASS">>>> /\ Manifest(o).sha = <<"manifest", o>>
    BY DEF VerificationSha, Passed, Manifest
  <2>2. /\ bundle.entries.certificate = c /\ bundle.entries.protected = <<"artifact", o>>
        /\ bundle.entries.manifest = Manifest(o) /\ bundle.entries.verification = Passed
    BY <1>3 DEF BundleShape
  <2> QED
    BY <1>5, <1>8, <2>1, <2>2 DEF CertificateChecks, Signed, _certificate_sha256
<1>13. GraphChecks(bundle, receipt)
  <2>1. /\ Graph(o).graph_sha256 = <<"graph", o>> /\ Graph(o).of = o
        /\ Manifest(o).identity_exposure_graph = Graph(o)
    BY DEF Graph, Manifest
  <2>2. /\ bundle.entries.certificate = c /\ bundle.entries.graph = Graph(o)
        /\ bundle.entries.manifest = Manifest(o)
    BY <1>3 DEF BundleShape
  <2> QED
    BY <1>5, <1>8, <2>1, <2>2 DEF GraphChecks
<1>14. AnnotationChecks(bundle)
  <2> DEFINE a == build_annotation_evidence(o)
  <2>1. /\ a.protected_output_sha256 = <<"artifact", o>> /\ a.sha = <<"annotation", o>> /\ a.of = o
        /\ Manifest(o).annotation_evidence = a
    BY DEF build_annotation_evidence, Artifact, Manifest
  <2> HIDE DEF a
  <2>2. /\ bundle.entries.certificate = c /\ bundle.entries.annotation = a
        /\ bundle.entries.manifest = Manifest(o)
    BY <1>3 DEF BundleShape, a
  <2> QED
    BY <1>5, <2>1, <2>2 DEF AnnotationChecks, verify_annotation_evidence
<1>15. CheckpointChecks(bundle)
  <2>1. bundle.entries.certificate = c /\ bundle.entries.ledger = Snap(k)
    BY <1>3 DEF BundleShape
  <2>2. n \in 0 .. Len(ledger) /\ n <= k
    <3>1. Len(ledger) \in Nat
      BY DEF EInv, LedgerIsSequence
    <3> QED
      BY <1>2, <3>1
  <2>3. /\ verify_audit_snapshot(Snap(k)) /\ Len(Snap(k).events) = k
        /\ HeadOf(SubSeq(Snap(k).events, 1, n)) = Snap(n).chain_head
    BY <1>2, Snapshots
  <2>4. Snap(n).event_count = n
    BY <2>2, Snapshots
  <2>5. k >= n
    BY <1>2, <2>2
  <2> QED
    BY <1>5, <2>1, <2>3, <2>4, <2>5 DEF CheckpointChecks
<1>16. bundle.entries.certificate.payload.release_decision = "ALLOW_RELEASE"
  BY <1>3, <1>5 DEF BundleShape
<1> QED
  BY <1>8, <1>9, <1>10, <1>11, <1>12, <1>13, <1>14, <1>15, <1>16 DEF verify_proof_package_bytes

(* The verifier tells a package by its receipt: one with the bundle of one   *)
(* package and the receipt and ledger of others is the one of its receipt.   *)
LEMMA ReceiptTells ==
  ASSUME EInv, NEW issued, IdsTell(issued),
         NEW p, NEW q, NEW l, IsPackage(p, issued), IsPackage(q, issued), IsPackage(l, issued),
         verify_proof_package_bytes([bundle |-> p.bundle, receipt |-> q.receipt, ledger |-> l.ledger])
  PROVE  [bundle |-> p.bundle, receipt |-> q.receipt, ledger |-> l.ledger] = q
<1>1. PICK b, c, o, m :
        /\ m \in 0 .. Len(ledger) /\ IsBundle(b, c, o, issued)
        /\ p = build_proof_package(b, issue_bundle_receipt(b, c, Snap(m)), Snap(m))
  BY DEF IsPackage
<1>2. PICK b1, c1, o1, m1 :
        /\ m1 \in 0 .. Len(ledger) /\ IsBundle(b1, c1, o1, issued)
        /\ q = build_proof_package(b1, issue_bundle_receipt(b1, c1, Snap(m1)), Snap(m1))
  BY DEF IsPackage
<1>3. PICK b2, c2, o2, m2 :
        /\ m2 \in 0 .. Len(ledger) /\ IsBundle(b2, c2, o2, issued)
        /\ l = build_proof_package(b2, issue_bundle_receipt(b2, c2, Snap(m2)), Snap(m2))
  BY DEF IsPackage
<1>4. p.bundle = b /\ l.ledger = Snap(m2)
  BY <1>1, <1>3 DEF build_proof_package
<1>5. /\ q = [bundle |-> b1, receipt |-> q.receipt, ledger |-> Snap(m1)]
      /\ q.receipt.payload.bundle_sha256 = BundleSha(b1)
      /\ q.receipt.payload.audit_events = Snap(m1).event_count
  BY <1>2, PackageFields
<1> DEFINE mixed == [bundle |-> p.bundle, receipt |-> q.receipt, ledger |-> l.ledger]
<1>6. mixed.bundle = b /\ mixed.receipt = q.receipt /\ mixed.ledger = Snap(m2)
  BY <1>4
<1>7. /\ BundleSha(b) = q.receipt.payload.bundle_sha256
      /\ Snap(m2).event_count = q.receipt.payload.audit_events
  <2>1. ReceiptChecks(mixed)
    BY DEF verify_proof_package_bytes
  <2> HIDE DEF mixed
  <2> QED
    BY <1>6, <2>1 DEF ReceiptChecks
<1>8. b = b1
  BY <1>1, <1>2, <1>5, <1>7, BundleShaTells
<1>9. m2 = m1
  <2>1. Snap(m2).event_count = m2 /\ Snap(m1).event_count = m1
    BY <1>2, <1>3, Snapshots
  <2> QED
    BY <1>5, <1>7, <2>1
<1> QED
  BY <1>4, <1>5, <1>8, <1>9

(* A member of another bundle in a package either shows or is the same.      *)
LEMMA MembersTell ==
  ASSUME EInv, NEW issued, IdsTell(issued),
         NEW p, NEW q, IsPackage(p, issued), IsPackage(q, issued),
         NEW member \in Indexed, NEW reindexed \in BOOLEAN,
         verify_proof_package_bytes(Inside(p, q, member, reindexed))
  PROVE  Inside(p, q, member, reindexed) = p
<1>1. PICK b, c, o, m :
        /\ IsBundle(b, c, o, issued)
        /\ p = build_proof_package(b, issue_bundle_receipt(b, c, Snap(m)), Snap(m))
  BY DEF IsPackage
<1>2. PICK b1, c1, o1, m1 :
        /\ IsBundle(b1, c1, o1, issued)
        /\ q = build_proof_package(b1, issue_bundle_receipt(b1, c1, Snap(m1)), Snap(m1))
  BY DEF IsPackage
<1>3. /\ p = [bundle |-> b, receipt |-> p.receipt, ledger |-> Snap(m)] /\ q.bundle = b1
      /\ p.bundle = b /\ p.receipt.payload.bundle_sha256 = BundleSha(b)
  <2>1. /\ p = [bundle |-> b, receipt |-> p.receipt, ledger |-> Snap(m)]
        /\ p.bundle = b /\ p.receipt.payload.bundle_sha256 = BundleSha(b)
    BY <1>1, PackageFields
  <2>2. q.bundle = b1
    BY <1>2, PackageFields
  <2> QED
    BY <2>1, <2>2
<1>4. PICK entries : entries = [b.entries EXCEPT ![member] = b1.entries[member]]
  OBVIOUS
<1>5. PICK index : index = IF reindexed THEN MemberShas(entries) ELSE b.index
  OBVIOUS
<1>6. Inside(p, q, member, reindexed)
        = [bundle |-> [entries |-> entries, index |-> index], receipt |-> p.receipt,
           ledger |-> Snap(m)]
  <2>1. Inside(p, q, member, reindexed) = [p EXCEPT !.bundle = [entries |-> entries, index |-> index]]
    BY <1>3, <1>4, <1>5 DEF Inside
  <2> QED
    BY <1>3, <2>1
<1>7. PICK mixed : mixed = Inside(p, q, member, reindexed)
  OBVIOUS
<1>8. /\ mixed.bundle = [entries |-> entries, index |-> index] /\ mixed.receipt = p.receipt
      /\ mixed.bundle.entries = entries /\ mixed.bundle.index = index
  BY <1>6, <1>7
<1>9. index = MemberShas(entries) /\ BundleSha(mixed.bundle) = BundleSha(b)
  <2>1. ReceiptChecks(mixed) /\ _check_index(mixed.bundle)
    BY <1>7 DEF verify_proof_package_bytes
  <2> QED
    BY <1>3, <1>8, <2>1 DEF ReceiptChecks, _check_index
<1>10. MemberShas(entries) = MemberShas(b.entries)
  <2>1. BundleSha(mixed.bundle) = <<"bundle", MemberShas(entries), index>>
    BY <1>8 DEF BundleSha
  <2>2. BundleSha(b) = <<"bundle", MemberShas(b.entries), b.index>>
    BY DEF BundleSha
  <2>3. <<"bundle", MemberShas(entries), index>> = <<"bundle", MemberShas(b.entries), b.index>>
    BY <1>9, <2>1, <2>2
  <2> QED
    BY <2>3
<1>11. /\ b = [entries |-> b.entries, index |-> b.index]
       /\ DOMAIN b.entries = Indexed /\ b.entries = [m2 \in Indexed |-> b.entries[m2]]
       /\ b.index = MemberShas(b.entries)
       /\ b.index = [m2 \in Indexed |-> Sha(m2, b.entries[m2])]
       /\ b1.index = [m2 \in Indexed |-> Sha(m2, b1.entries[m2])]
  BY <1>1, <1>2, BundleForm
<1>12. /\ DOMAIN entries = Indexed /\ entries = [m2 \in Indexed |-> entries[m2]]
       /\ entries[member] = b1.entries[member]
  BY <1>4, <1>11
<1>13. MemberShas(entries)[member] = Sha(member, b1.entries[member])
  BY <1>12, ShasOfMembers
<1>14. b.index[member] = b1.index[member]
  BY <1>10, <1>11, <1>13
<1>15. b.entries[member] = b1.entries[member]
  BY <1>1, <1>2, <1>14, ShasTell
<1>16. entries = b.entries
  BY <1>4, <1>11, <1>15
<1> QED
  BY <1>3, <1>6, <1>9, <1>10, <1>11, <1>16
-----------------------------------------------------------------------------
(* Certificates, bundles and packages in the hands of the requests *)

IsCertified(local) ==
  \/ local.pc = "done"
  \/ local.pc \in {"tail", "append"} /\ local.event.type = "PROOF_CERTIFICATE_ISSUED"

(* One certificate to an id, each by a request that needs to issue no more.  *)
Issued(issued) ==
  /\ IdsTell(issued)
  /\ \A c \in issued : \E q \in DOMAIN desk :
       IsCertified(desk[q]) /\ c.payload.certificate_id[3] = q.name

RowHolds(row) == row.status = "VERIFIED_SAFE" => row.verification = Passed

(* The bundle of r is built and its event on its way to the ledger.          *)
BundleReady(r, local, issued) ==
  /\ IsBundle(local.body, local.certificate, r.output, issued)
  /\ local.event = ExportEvent(local.body, local.certificate, r.output)

LocalHolds(r, local, issued) ==
  /\ local.pc \in {"snapshot", "certify", "certificate", "bundle"} => local.row.verification = Passed
  /\ local.pc \in {"snapshot", "certify"} => r.kind = "verify"
  /\ local.pc = "certify" => \E n \in 0 .. Len(ledger) : local.snapshot = Snap(n)
  /\ local.pc = "bundle" => IsIssued(local.certificate, r.output, issued)
  /\ local.pc \in {"tail", "append"} =>
       /\ local.event.type = "VERIFICATION_COMPLETED" => r.kind = "verify" /\ RowHolds(local.row)
       /\ r.kind = "proof-package" => BundleReady(r, local, issued)
  /\ local.pc = "checkpoint" => r.kind = "proof-package" /\ BundleReady(r, local, issued)

(* All that is around for issued certificates.                               *)
ExportsHold(issued) ==
  /\ \A q, r \in DOMAIN desk : q.name = r.name => q = r
  /\ DOMAIN certificateRow = DOMAIN outputRow
  /\ \A r \in DOMAIN desk : r.output \in DOMAIN outputRow
  /\ Issued(issued)
  /\ \A o \in DOMAIN outputRow : RowHolds(outputRow[o])
  /\ \A o \in DOMAIN certificateRow :
       certificateRow[o] # Absent => IsIssued(certificateRow[o], o, issued)
  /\ \A r \in DOMAIN desk : LocalHolds(r, desk[r], issued)
  /\ \A d \in handedOut : d.kind = "proof-package" => IsPackage(d.body, issued)

PackagesInv == EInv /\ \E issued : ExportsHold(issued)

(* What holds of packages makes the verifier accept them and nothing mixed.  *)
LEMMA PackagesPass == PackagesInv => VerifierAcceptsTheExports
<1> SUFFICES ASSUME PackagesInv
             PROVE  VerifierAcceptsTheExports
  OBVIOUS
<1>1. PICK issued : ExportsHold(issued)
  BY DEF PackagesInv
<1>2. EInv /\ IdsTell(issued) /\ \A p \in Packages : IsPackage(p, issued)
  BY <1>1 DEF PackagesInv, ExportsHold, Issued, Packages
<1>3. ASSUME NEW p \in Packages, NEW q \in Packages, NEW m \in Mixtures(p, q),
             verify_proof_package_bytes(m)
      PROVE  m \in Packages
  <2>1. \/ \E b, c, l \in {p, q} : m = [bundle |-> b.bundle, receipt |-> c.receipt, ledger |-> l.ledger]
        \/ \E member \in Indexed, reindexed \in BOOLEAN : m = Inside(p, q, member, reindexed)
    BY DEF Mixtures
  <2>2. CASE \E b, c, l \in {p, q} : m = [bundle |-> b.bundle, receipt |-> c.receipt, ledger |-> l.ledger]
    <3>1. PICK b \in {p, q}, c \in {p, q}, l \in {p, q} :
               m = [bundle |-> b.bundle, receipt |-> c.receipt, ledger |-> l.ledger]
      BY <2>2
    <3>2. IsPackage(b, issued) /\ IsPackage(c, issued) /\ IsPackage(l, issued)
      BY <1>2
    <3>3. m = c
      BY <1>2, <1>3, <3>1, <3>2, ReceiptTells
    <3> QED
      BY <3>3
  <2>3. CASE \E member \in Indexed, reindexed \in BOOLEAN : m = Inside(p, q, member, reindexed)
    <3>1. PICK member \in Indexed, reindexed \in BOOLEAN : m = Inside(p, q, member, reindexed)
      BY <2>3
    <3>2. m = p
      BY <1>2, <1>3, <3>1, MembersTell
    <3> QED
      BY <3>2
  <2> QED
    BY <2>1, <2>2, <2>3
<1> QED
  BY <1>2, <1>3, ExportsPass DEF VerifierAcceptsTheExports

-----------------------------------------------------------------------------
(* The steps of one request *)

(* The ledger stays or gets longer: what it was before it still was.         *)
Grows ==
  /\ Len(ledger) \in Nat
  /\ \A n \in 0 .. Len(ledger) : n \in 0 .. Len(ledger') /\ Snap(n)' = Snap(n)

LEMMA LongerLedger ==
  ASSUME EInv, ledger' = ledger \/ \E e : ledger' = Append(ledger, e)
  PROVE  Grows
<1> PICK S : ledger \in Seq(S)
  BY DEF EInv, LedgerIsSequence
<1>1. CASE ledger' = ledger
  <2>1. Len(ledger) \in Nat /\ Len(ledger') = Len(ledger)
    BY <1>1
  <2> QED
    BY <1>1, <2>1 DEF Grows, Snap
<1>2. CASE \E e : ledger' = Append(ledger, e)
  <2> PICK e : ledger' = Append(ledger, e)
    BY <1>2
  <2>1. ledger \in Seq(S \cup {e}) /\ ledger' \in Seq(S \cup {e})
    OBVIOUS
  <2>2. Len(ledger) \in Nat /\ Len(ledger') = Len(ledger) + 1
    OBVIOUS
  <2>3. ASSUME NEW n \in 0 .. Len(ledger)
        PROVE  n \in 0 .. Len(ledger') /\ SubSeq(ledger', 1, n) = SubSeq(ledger, 1, n)
    BY <2>1, <2>2
  <2> QED
    BY <2>2, <2>3 DEF Grows, Snap
<1> QED
  BY <1>1, <1>2

(* What is issued, bundled or packaged stays so.                             *)
LEMMA IssuedStays ==
  ASSUME Grows, NEW S, NEW T, S \subseteq T, NEW c, NEW o, IsIssued(c, o, S)
  PROVE  IsIssued(c, o, T)'
<1>1. PICK name, n : c \in S /\ n \in 0 .. Len(ledger) /\ c = CertificateOf(o, name, n)
  BY DEF IsIssued
<1>2. n \in 0 .. Len(ledger') /\ Snap(n)' = Snap(n)
  BY <1>1 DEF Grows
<1>3. CertificateOf(o, name, n)' = c
  BY <1>1, <1>2 DEF CertificateOf
<1> QED
  BY <1>1, <1>2, <1>3 DEF IsIssued

LEMMA BundleStays ==
  ASSUME Grows, NEW S, NEW T, S \subseteq T, NEW b, NEW c, NEW o, IsBundle(b, c, o, S)
  PROVE  IsBundle(b, c, o, T)'
<1>1. PICK name, k, n :
        /\ c \in S /\ k \in 0 .. Len(ledger) /\ n \in 0 .. k
        /\ c = CertificateOf(o, name, n) /\ b = build_proof_bundle(o, c, Snap(k), Passed)
  BY DEF IsBundle
<1>2. /\ k \in 0 .. Len(ledger') /\ Snap(k)' = Snap(k)
      /\ n \in 0 .. Len(ledger') /\ Snap(n)' = Snap(n)
  <2>1. n \in 0 .. Len(ledger)
    BY <1>1 DEF Grows
  <2> QED
    BY <1>1, <2>1 DEF Grows
<1>3. CertificateOf(o, name, n)' = c /\ b = build_proof_bundle(o, c, Snap(k)', Passed)
  BY <1>1, <1>2 DEF CertificateOf
<1> QED
  BY <1>1, <1>2, <1>3 DEF IsBundle

LEMMA PackageStays ==
  ASSUME Grows, NEW S, NEW T, S \subseteq T, NEW p, IsPackage(p, S)
  PROVE  IsPackage(p, T)'
<1>1. PICK b, c, o, m :
        /\ m \in 0 .. Len(ledger)
        /\ IsBundle(b, c, o, S)
        /\ p = build_proof_package(b, issue_bundle_receipt(b, c, Snap(m)), Snap(m))
        /\ IsRecorded(ExportEvent(b, c, o), Snap(m).events)
  BY DEF IsPackage
<1>2. m \in 0 .. Len(ledger') /\ Snap(m)' = Snap(m)
  BY <1>1 DEF Grows
<1>3. IsBundle(b, c, o, T)'
  BY <1>1, BundleStays
<1> QED
  BY <1>1, <1>2, <1>3 DEF IsPackage

LEMMA LocalStays ==
  ASSUME Grows, NEW S, NEW T, S \subseteq T, NEW r, NEW local, LocalHolds(r, local, S)
  PROVE  LocalHolds(r, local, T)'
<1>1. local.pc = "certify" => (\E n \in 0 .. Len(ledger) : local.snapshot = Snap(n))'
  BY DEF LocalHolds, Grows
<1>2. BundleReady(r, local, S) => BundleReady(r, local, T)'
  BY BundleStays DEF BundleReady
<1>3. local.pc = "bundle" => IsIssued(local.certificate, r.output, T)'
  BY IssuedStays DEF LocalHolds
<1> QED
  BY <1>1, <1>2, <1>3 DEF LocalHolds

(* A request's step keeps the exports right when its own state is right, its *)
(* rows are, and what it hands out, if it is a package.                      *)
LEMMA RequestStep ==
  ASSUME NEW S, ExportsHold(S), Grows, NEW T, S \subseteq T,
         NEW r \in DOMAIN desk, NEW local, Set(r, local), LocalHolds(r, local, T),
         IsCertified(desk[r]) => IsCertified(local),
         IdsTell(T),
         \A c \in T : c \in S \/ (IsCertified(local) /\ c.payload.certificate_id[3] = r.name),
         DOMAIN outputRow' = DOMAIN outputRow,
         \A o \in DOMAIN outputRow : outputRow'[o] = outputRow[o] \/ RowHolds(outputRow'[o]),
         DOMAIN certificateRow' = DOMAIN certificateRow,
         \A o \in DOMAIN certificateRow :
           certificateRow'[o] = certificateRow[o] \/ IsIssued(certificateRow'[o], o, T),
         \A d \in handedOut' :
           d \in handedOut \/ d.kind # "proof-package" \/ IsPackage(d.body, T)
  PROVE  ExportsHold(T)'
<1>1. DOMAIN desk' = DOMAIN desk /\ \A q \in DOMAIN desk : desk'[q] = IF q = r THEN local ELSE desk[q]
  BY DEF Set
<1>2. Issued(T)'
  <2>1. ASSUME NEW c \in T
        PROVE  \E q \in DOMAIN desk' : IsCertified(desk'[q]) /\ c.payload.certificate_id[3] = q.name
    <3>1. CASE c \in S
      <4>1. PICK q \in DOMAIN desk : IsCertified(desk[q]) /\ c.payload.certificate_id[3] = q.name
        BY <3>1 DEF ExportsHold, Issued
      <4>2. IsCertified(desk'[q])
        BY <1>1, <4>1
      <4> QED
        BY <1>1, <4>1, <4>2
    <3>2. CASE IsCertified(local) /\ c.payload.certificate_id[3] = r.name
      BY <1>1, <3>2
    <3> QED
      BY <3>1, <3>2
  <2> QED
    BY <2>1 DEF Issued
<1>3. ASSUME NEW q \in DOMAIN desk'
      PROVE  LocalHolds(q, desk[q], T)'
  <2>1. PICK l : l = desk'[q]
    OBVIOUS
  <2>2. LocalHolds(q, l, S) \/ LocalHolds(q, l, T)
    BY <1>1, <2>1 DEF ExportsHold
  <2>3. LocalHolds(q, l, T)'
    BY <2>2, LocalStays
  <2> QED
    BY <2>1, <2>3
<1>4. ASSUME NEW o \in DOMAIN certificateRow', certificateRow'[o] # Absent
      PROVE  IsIssued(certificateRow[o], o, T)'
  <2>1. PICK c : c = certificateRow'[o]
    OBVIOUS
  <2>2. IsIssued(c, o, S) \/ IsIssued(c, o, T)
    BY <1>4, <2>1 DEF ExportsHold
  <2>3. IsIssued(c, o, T)'
    BY <2>2, IssuedStays
  <2> QED
    BY <2>1, <2>3
<1>5. ASSUME NEW d \in handedOut', d.kind = "proof-package"
      PROVE  IsPackage(d.body, T)'
  <2>1. IsPackage(d.body, S) \/ IsPackage(d.body, T)
    BY <1>5 DEF ExportsHold
  <2> QED
    BY <2>1, PackageStays
<1>6. \A o \in DOMAIN outputRow' : RowHolds(outputRow'[o])
  BY DEF ExportsHold
<1>7. /\ \A q, q1 \in DOMAIN desk' : q.name = q1.name => q = q1
      /\ DOMAIN certificateRow' = DOMAIN outputRow'
      /\ \A q \in DOMAIN desk' : q.output \in DOMAIN outputRow'
  BY <1>1 DEF ExportsHold
<1> QED
  BY <1>2, <1>3, <1>4, <1>5, <1>6, <1>7 DEF ExportsHold, RowHolds

(* Most steps issue nothing and leave the rows alone.                        *)
LEMMA QuietRequest ==
  ASSUME NEW S, ExportsHold(S), Grows, UNCHANGED <<outputRow, certificateRow>>,
         NEW r \in DOMAIN desk, NEW local, Set(r, local), LocalHolds(r, local, S),
         IsCertified(desk[r]) => IsCertified(local),
         \A d \in handedOut' : d \in handedOut \/ d.kind # "proof-package" \/ IsPackage(d.body, S)
  PROVE  ExportsHold(S)'
<1>1. IdsTell(S)
  BY DEF ExportsHold, Issued
<1>2. /\ DOMAIN outputRow' = DOMAIN outputRow /\ DOMAIN certificateRow' = DOMAIN certificateRow
      /\ \A o \in DOMAIN outputRow : outputRow'[o] = outputRow[o]
      /\ \A o \in DOMAIN certificateRow : certificateRow'[o] = certificateRow[o]
  OBVIOUS
<1>3. S \subseteq S /\ \A c \in S : c \in S \/ (IsCertified(local) /\ c.payload.certificate_id[3] = r.name)
  OBVIOUS
<1>4. \A o \in DOMAIN outputRow : outputRow'[o] = outputRow[o] \/ RowHolds(outputRow'[o])
  BY <1>2
<1>5. \A o \in DOMAIN certificateRow :
        certificateRow'[o] = certificateRow[o] \/ IsIssued(certificateRow'[o], o, S)
  BY <1>2
<1> QED
  BY <1>1, <1>2, <1>3, <1>4, <1>5, RequestStep

(* Whoever has answered holds nothing.                                       *)
LEMMA AnsweredHolds ==
  \A r, S : /\ LocalHolds(r, [NewRequest EXCEPT !.pc = "done"], S)
            /\ IsCertified([NewRequest EXCEPT !.pc = "done"])
<1>1. [NewRequest EXCEPT !.pc = "done"].pc = "done"
  BY DEF NewRequest
<1> QED
  BY <1>1 DEF LocalHolds, IsCertified

(* A request with an event to append.                                        *)
ToAppend(local, event) == [local EXCEPT !.pc = "tail", !.event = event]

LEMMA AppendingFields ==
  ASSUME NEW local, DOMAIN local = DOMAIN NewRequest, NEW event
  PROVE  LET next == ToAppend(local, event)
         IN /\ next.pc = "tail" /\ next.event = event /\ next.row = local.row
            /\ next.body = local.body /\ next.certificate = local.certificate
BY DEF ToAppend, NewRequest

-----------------------------------------------------------------------------
(* Each step *)

(* verify_output runs the tests; its row goes with them.                     *)
LEMMA VerifyKeeps ==
  ASSUME EInv, NEW S, ExportsHold(S), NEW r \in DOMAIN desk, NEW outcome, VerifyOutput(r, outcome)
  PROVE  ExportsHold(S)'
<1>1. PICK row : row = [status |-> IF outcome = "PASS" THEN "VERIFIED_SAFE" ELSE "RELEASE_BLOCKED",
                        verification |-> VerificationPayload(r, outcome)]
  OBVIOUS
<1>2. RowHolds(row)
  BY <1>1 DEF RowHolds, VerificationPayload, Passed
<1>3. PICK local : local = [desk[r] EXCEPT !.row = row]
  OBVIOUS
<1>4. DOMAIN local = DOMAIN NewRequest /\ local.row = row
  BY <1>3 DEF EInv, NewRequest
<1>5. /\ At(r, "start") /\ r.kind = "verify" /\ outputRow' = [outputRow EXCEPT ![r.output] = row]
      /\ UNCHANGED <<certificateRow, ledger, handedOut>>
  BY <1>1 DEF VerifyOutput, Arrives
<1>6. PICK event : /\ event.type = "VERIFICATION_COMPLETED"
                   /\ Set(r, ToAppend(local, event))
  <2>1. PICK details : Append_(r, "VERIFICATION_COMPLETED", details, local)
    BY <1>1, <1>3 DEF VerifyOutput
  <2>2. PICK event : event = [type |-> "VERIFICATION_COMPLETED", details |-> details]
    OBVIOUS
  <2>3. event.type = "VERIFICATION_COMPLETED"
    BY <2>2
  <2> QED
    BY <2>1, <2>2, <2>3 DEF Append_, ToAppend
<1>7. PICK next : /\ Set(r, next) /\ LocalHolds(r, next, S)
  <2>1. PICK next : /\ Set(r, next) /\ next.pc = "tail" /\ next.row = row
                    /\ next.event.type = "VERIFICATION_COMPLETED"
    BY <1>4, <1>6, AppendingFields
  <2>2. LocalHolds(r, next, S)
    BY <1>2, <1>5, <2>1 DEF LocalHolds
  <2> QED
    BY <2>1, <2>2
<1>8. ~IsCertified(desk[r])
  BY <1>5 DEF At, IsCertified
<1>9. \A o \in DOMAIN outputRow : outputRow'[o] = outputRow[o] \/ RowHolds(outputRow'[o])
  BY <1>2, <1>5
<1>10. Grows /\ S \subseteq S /\ IdsTell(S)
  BY <1>5, LongerLedger DEF ExportsHold, Issued
<1>11. /\ DOMAIN outputRow' = DOMAIN outputRow /\ DOMAIN certificateRow' = DOMAIN certificateRow
       /\ \A o \in DOMAIN certificateRow :
            certificateRow'[o] = certificateRow[o] \/ IsIssued(certificateRow'[o], o, S)
       /\ \A d \in handedOut' : d \in handedOut \/ d.kind # "proof-package" \/ IsPackage(d.body, S)
  BY <1>5
<1>12. \A c \in S : c \in S \/ (IsCertified(next) /\ c.payload.certificate_id[3] = r.name)
  OBVIOUS
<1> QED
  BY <1>7, <1>8, <1>9, <1>10, <1>11, <1>12, RequestStep

(* The ledger is read for the certificate.                                   *)
LEMMA SnapshotKeeps ==
  ASSUME EInv, NEW S, ExportsHold(S), NEW r \in DOMAIN desk, SnapshotLedger(r)
  PROVE  ExportsHold(S)'
<1>1. PICK local : local = [desk[r] EXCEPT !.pc = "certify", !.snapshot = verify_ledger(ledger)]
  OBVIOUS
<1>2. /\ desk[r].pc = "snapshot" /\ Set(r, local)
      /\ UNCHANGED <<outputRow, certificateRow, ledger, handedOut>>
  BY <1>1 DEF SnapshotLedger, At
<1>3. local.pc = "certify" /\ local.snapshot = verify_ledger(ledger) /\ local.row = desk[r].row
  BY <1>1 DEF EInv, NewRequest
<1>4. Len(ledger) \in 0 .. Len(ledger) /\ Snap(Len(ledger)) = verify_ledger(ledger)
  <2> PICK Q : ledger \in Seq(Q)
    BY DEF EInv, LedgerIsSequence
  <2>1. Len(ledger) \in 0 .. Len(ledger) /\ SubSeq(ledger, 1, Len(ledger)) = ledger
    OBVIOUS
  <2> QED
    BY <2>1 DEF Snap
<1>5. LocalHolds(r, desk[r], S)
  BY DEF ExportsHold
<1>6. LocalHolds(r, local, S)
  BY <1>2, <1>3, <1>4, <1>5 DEF LocalHolds
<1>7. ~IsCertified(desk[r]) /\ Grows
  BY <1>2, LongerLedger DEF IsCertified
<1> QED
  BY <1>2, <1>6, <1>7, QuietRequest

(* A new certificate has an id of its own: the request is the only one of    *)
(* its name, and issues no other.                                            *)
LEMMA UpsertKeeps ==
  ASSUME EInv, NEW S, ExportsHold(S), NEW r \in DOMAIN desk, UpsertCertificate(r)
  PROVE  \E T : ExportsHold(T)'
<1>1. PICK certificate :
        certificate = issue_certificate(r.output, desk[r].row.verification, r.name, desk[r].snapshot)
  OBVIOUS
<1>2. /\ desk[r].pc = "certify"
      /\ certificateRow' = [certificateRow EXCEPT ![r.output] = certificate]
      /\ UNCHANGED <<outputRow, ledger, handedOut>>
  BY <1>1 DEF UpsertCertificate, At
<1>3. PICK local : local = [desk[r] EXCEPT !.snapshot = <<>>]
  OBVIOUS
<1>4. DOMAIN local = DOMAIN NewRequest
  BY <1>3 DEF EInv
<1>5. PICK event : /\ event.type = "PROOF_CERTIFICATE_ISSUED"
                   /\ Set(r, ToAppend(local, event))
  <2>1. PICK details : Append_(r, "PROOF_CERTIFICATE_ISSUED", details, local)
    BY <1>1, <1>3 DEF UpsertCertificate
  <2>2. PICK event : event = [type |-> "PROOF_CERTIFICATE_ISSUED", details |-> details]
    OBVIOUS
  <2>3. event.type = "PROOF_CERTIFICATE_ISSUED"
    BY <2>2
  <2> QED
    BY <2>1, <2>2, <2>3 DEF Append_, ToAppend
<1>6. /\ desk[r].row.verification = Passed /\ r.kind = "verify"
      /\ \E n \in 0 .. Len(ledger) : desk[r].snapshot = Snap(n)
  BY <1>2 DEF ExportsHold, LocalHolds
<1>7. PICK n \in 0 .. Len(ledger) : certificate = CertificateOf(r.output, r.name, n)
  BY <1>1, <1>6 DEF CertificateOf
<1>8. certificate.payload.certificate_id = <<"certificate", r.output, r.name>>
  BY <1>7, CertificateFields
<1> DEFINE T == S \cup {certificate}
<1>9. IsIssued(certificate, r.output, T)
  BY <1>7 DEF IsIssued
<1>10. PICK next : /\ Set(r, next) /\ LocalHolds(r, next, T)
                   /\ next.pc = "tail" /\ next.event.type = "PROOF_CERTIFICATE_ISSUED"
  <2>1. PICK next : /\ Set(r, next) /\ next.pc = "tail"
                    /\ next.event.type = "PROOF_CERTIFICATE_ISSUED"
    BY <1>4, <1>5, AppendingFields
  <2>2. LocalHolds(r, next, T)
    BY <1>6, <2>1 DEF LocalHolds
  <2> QED
    BY <2>1, <2>2
<1>11. IsCertified(next) /\ ~IsCertified(desk[r])
  BY <1>2, <1>10 DEF IsCertified
<1>12. ASSUME NEW c \in S
       PROVE  c.payload.certificate_id # certificate.payload.certificate_id
  <2>1. PICK q \in DOMAIN desk : IsCertified(desk[q]) /\ c.payload.certificate_id[3] = q.name
    BY DEF ExportsHold, Issued
  <2>2. q.name # r.name
    BY <1>11, <2>1 DEF ExportsHold
  <2> QED
    BY <1>8, <2>1, <2>2
<1>13. IdsTell(T)
  <2>1. IdsTell(S)
    BY DEF ExportsHold, Issued
  <2> QED
    BY <1>12, <2>1 DEF IdsTell
<1>14. \A c \in T : c \in S \/ (IsCertified(next) /\ c.payload.certificate_id[3] = r.name)
  BY <1>8, <1>11
<1>15. /\ DOMAIN certificateRow' = DOMAIN certificateRow
       /\ \A o \in DOMAIN certificateRow :
            certificateRow'[o] = certificateRow[o] \/ IsIssued(certificateRow'[o], o, T)
  BY <1>2, <1>9
<1>16. /\ DOMAIN outputRow' = DOMAIN outputRow
       /\ \A o \in DOMAIN outputRow : outputRow'[o] = outputRow[o] \/ RowHolds(outputRow'[o])
       /\ \A d \in handedOut' : d \in handedOut \/ d.kind # "proof-package" \/ IsPackage(d.body, T)
  BY <1>2
<1>17. Grows /\ S \subseteq T
  BY <1>2, LongerLedger
<1> HIDE DEF T
<1>18. ExportsHold(T)'
  BY <1>10, <1>11, <1>13, <1>14, <1>15, <1>16, <1>17, RequestStep
<1> QED
  BY <1>18

-----------------------------------------------------------------------------
(* Reading the rows *)

LEMMA LastSnapshot ==
  EInv => Len(ledger) \in 0 .. Len(ledger) /\ Snap(Len(ledger)) = verify_ledger(ledger)
<1> SUFFICES ASSUME EInv
             PROVE  Len(ledger) \in 0 .. Len(ledger) /\ Snap(Len(ledger)) = verify_ledger(ledger)
  OBVIOUS
<1> PICK Q : ledger \in Seq(Q)
  BY DEF EInv, LedgerIsSequence
<1>1. Len(ledger) \in 0 .. Len(ledger) /\ SubSeq(ledger, 1, Len(ledger)) = ledger
  OBVIOUS
<1> QED
  BY <1>1 DEF Snap

(* A request that answers with nothing, or that goes to append the event of  *)
(* what it hands out, keeps the exports right unless it asks for a package.  *)
LEMMA AnswerKeeps ==
  ASSUME EInv, NEW S, ExportsHold(S), NEW r \in DOMAIN desk, Answer(r),
         UNCHANGED <<outputRow, certificateRow, ledger>>,
         \A d \in handedOut' : d \in handedOut \/ d.kind # "proof-package" \/ IsPackage(d.body, S)
  PROVE  ExportsHold(S)'
<1>1. PICK local : local = [NewRequest EXCEPT !.pc = "done"]
  OBVIOUS
<1>2. Set(r, local) /\ Grows
  BY <1>1, LongerLedger DEF Answer
<1>3. LocalHolds(r, local, S) /\ IsCertified(local)
  BY <1>1, AnsweredHolds
<1> QED
  BY <1>2, <1>3, QuietRequest

LEMMA AppendKeeps ==
  ASSUME EInv, NEW S, ExportsHold(S), NEW r \in DOMAIN desk, ~IsCertified(desk[r]),
         NEW local, DOMAIN local = DOMAIN NewRequest, NEW type, NEW details,
         Append_(r, type, details, local), type # "VERIFICATION_COMPLETED",
         r.kind = "proof-package" =>
           /\ IsBundle(local.body, local.certificate, r.output, S)
           /\ [type |-> type, details |-> details]
                = ExportEvent(local.body, local.certificate, r.output),
         UNCHANGED <<outputRow, certificateRow, ledger, handedOut>>
  PROVE  ExportsHold(S)'
<1>1. PICK event : event = [type |-> type, details |-> details]
  OBVIOUS
<1>2. event.type = type
  BY <1>1
<1>3. PICK next : next = ToAppend(local, event)
  OBVIOUS
<1>4. /\ next.pc = "tail" /\ next.event = event /\ next.body = local.body
      /\ next.certificate = local.certificate
  BY <1>3, AppendingFields
<1>5. Set(r, next) /\ Grows
  BY <1>1, <1>3, LongerLedger DEF Append_, ToAppend
<1>6. r.kind = "proof-package" => BundleReady(r, next, S)
  BY <1>1, <1>4 DEF BundleReady
<1>7. LocalHolds(r, next, S)
  BY <1>2, <1>4, <1>6 DEF LocalHolds
<1> QED
  BY <1>5, <1>7, QuietRequest

(* A read of the row leads to an answer, an event or the certificate.        *)
LEMMA ReadRowKeeps ==
  ASSUME EInv, NEW S, ExportsHold(S), NEW r \in DOMAIN desk, ReadOutputRow(r)
  PROVE  ExportsHold(S)'
<1> DEFINE local == [desk[r] EXCEPT !.row = outputRow[r.output]]
<1>1. DOMAIN local = DOMAIN NewRequest /\ local.row = outputRow[r.output]
  BY DEF EInv, NewRequest
<1>2. UNCHANGED <<outputRow, certificateRow, ledger, handedOut>> /\ ~IsCertified(desk[r])
  BY DEF ReadOutputRow, Arrives, At, IsCertified
<1>3. \/ Answer(r)
      \/ r.kind = "download" /\ download_output(r, local)
      \/ r.kind = "synthetic-export" /\ synthetic_format_export(r, local)
      \/ r.kind = "synthetic-export-receipt" /\ synthetic_format_export_receipt(r, local)
      \/ Set(r, [local EXCEPT !.pc = "certificate"]) /\ ~NotServed(r)
  BY DEF ReadOutputRow
<1> HIDE DEF local
<1>4. CASE Answer(r)
  BY <1>2, <1>4, AnswerKeeps
<1>5. CASE r.kind = "download" /\ download_output(r, local)
  <2>1. DOMAIN [local EXCEPT !.body = Artifact(r.output)] = DOMAIN NewRequest
    BY <1>1
  <2> QED
    BY <1>2, <1>5, <2>1, AppendKeeps DEF download_output
<1>6. CASE r.kind = "synthetic-export" /\ synthetic_format_export(r, local)
  <2>1. DOMAIN [local EXCEPT !.body = export_synthetic_representation(r)] = DOMAIN NewRequest
    BY <1>1
  <2> QED
    BY <1>2, <1>6, <2>1, AppendKeeps DEF synthetic_format_export
<1>7. CASE r.kind = "synthetic-export-receipt" /\ synthetic_format_export_receipt(r, local)
  <2>1. DOMAIN [local EXCEPT !.body = _synthetic_export_receipt(r, local.row)] = DOMAIN NewRequest
    BY <1>1
  <2> QED
    BY <1>2, <1>7, <2>1, AppendKeeps DEF synthetic_format_export_receipt
<1>8. CASE Set(r, [local EXCEPT !.pc = "certificate"]) /\ ~NotServed(r)
  <2>1. PICK next : next = [local EXCEPT !.pc = "certificate"]
    OBVIOUS
  <2>2. next.pc = "certificate" /\ next.row = outputRow[r.output]
    BY <1>1, <2>1 DEF NewRequest
  <2>3. outputRow[r.output].status = "VERIFIED_SAFE" /\ RowHolds(outputRow[r.output])
    BY <1>8 DEF NotServed, ExportsHold
  <2>4. LocalHolds(r, next, S)
    BY <2>2, <2>3 DEF LocalHolds, RowHolds
  <2>5. Set(r, next) /\ Grows
    BY <1>2, <1>8, <2>1, LongerLedger
  <2> QED
    BY <1>2, <2>4, <2>5, QuietRequest
<1> QED
  BY <1>3, <1>4, <1>5, <1>6, <1>7, <1>8

(* A certificate that was found is the output's.                             *)
LEMMA ReadCertificateKeeps ==
  ASSUME EInv, NEW S, ExportsHold(S), NEW r \in DOMAIN desk, ReadCertificate(r)
  PROVE  ExportsHold(S)'
<1> DEFINE local == [desk[r] EXCEPT !.certificate = certificateRow[r.output]]
<1>1. /\ DOMAIN local = DOMAIN NewRequest /\ local.row = desk[r].row
      /\ local.certificate = certificateRow[r.output]
  BY DEF EInv, NewRequest
<1>2. /\ UNCHANGED <<outputRow, certificateRow, ledger>>
      /\ desk[r].pc = "certificate" /\ ~IsCertified(desk[r])
  BY DEF ReadCertificate, At, IsCertified
<1>3. \/ Answer(r) /\ UNCHANGED handedOut
      \/ r.kind = "certificate" /\ proof_certificate(r, local)
      \/ r.kind = "certificate.pdf" /\ proof_certificate_pdf(r, local)
      \/ r.kind = "annotated-export" /\ annotated_output_export(r, local) /\ UNCHANGED handedOut
      \/ /\ certificateRow[r.output] # Absent
         /\ Set(r, [local EXCEPT !.pc = "bundle"]) /\ UNCHANGED handedOut
  BY DEF ReadCertificate
<1> HIDE DEF local
<1>4. CASE Answer(r) /\ UNCHANGED handedOut
  BY <1>2, <1>4, AnswerKeeps
<1>5. CASE r.kind = "certificate" /\ proof_certificate(r, local)
  <2>1. Answer(r) /\ \A d \in handedOut' : d \in handedOut \/ d.kind # "proof-package"
    BY <1>5 DEF proof_certificate, HandOut
  <2> QED
    BY <1>2, <2>1, AnswerKeeps
<1>6. CASE r.kind = "certificate.pdf" /\ proof_certificate_pdf(r, local)
  <2>1. Answer(r) /\ \A d \in handedOut' : d \in handedOut \/ d.kind # "proof-package"
    BY <1>6 DEF proof_certificate_pdf, HandOut
  <2> QED
    BY <1>2, <2>1, AnswerKeeps
<1>7. CASE r.kind = "annotated-export" /\ annotated_output_export(r, local) /\ UNCHANGED handedOut
  <2> DEFINE annotated == build_annotated_export(r.output, local.certificate)
  <2>1. DOMAIN [local EXCEPT !.body = annotated] = DOMAIN NewRequest
    BY <1>1
  <2>2. \/ Append_(r, "ANNOTATED_EVIDENCE_EXPORTED",
                   [output_id |-> r.output, annotated_export_sha256 |-> annotated],
                   [local EXCEPT !.body = annotated])
        \/ Answer(r)
    BY <1>7 DEF annotated_output_export
  <2> HIDE DEF annotated
  <2> QED
    BY <1>2, <1>7, <2>1, <2>2, AppendKeeps, AnswerKeeps
<1>8. CASE /\ certificateRow[r.output] # Absent
           /\ Set(r, [local EXCEPT !.pc = "bundle"]) /\ UNCHANGED handedOut
  <2>1. PICK next : next = [local EXCEPT !.pc = "bundle"]
    OBVIOUS
  <2>2. /\ next.pc = "bundle" /\ next.row = desk[r].row
        /\ next.certificate = certificateRow[r.output]
    BY <1>1, <2>1 DEF NewRequest
  <2>3. /\ desk[r].row.verification = Passed
        /\ IsIssued(certificateRow[r.output], r.output, S)
    BY <1>2, <1>8 DEF ExportsHold, LocalHolds
  <2>4. LocalHolds(r, next, S)
    BY <2>2, <2>3 DEF LocalHolds
  <2>5. Set(r, next) /\ Grows
    BY <1>2, <1>8, <2>1, LongerLedger
  <2> QED
    BY <1>2, <1>8, <2>4, <2>5, QuietRequest
<1> QED
  BY <1>3, <1>4, <1>5, <1>6, <1>7, <1>8

-----------------------------------------------------------------------------
(* Bundles and packages *)

(* The bundle has the ledger as it is: the certificate's is not longer.      *)
LEMMA BundleKeeps ==
  ASSUME EInv, NEW S, ExportsHold(S), NEW r \in DOMAIN desk, BuildBundle(r)
  PROVE  ExportsHold(S)'
<1>1. PICK bundle : bundle = build_proof_bundle(r.output, desk[r].certificate, verify_ledger(ledger),
                                                desk[r].row.verification)
  OBVIOUS
<1>2. PICK local : local = [desk[r] EXCEPT !.body = bundle]
  OBVIOUS
<1>3. /\ DOMAIN local = DOMAIN NewRequest /\ local.body = bundle
      /\ local.certificate = desk[r].certificate
  BY <1>2 DEF EInv, NewRequest
<1>4. /\ UNCHANGED <<outputRow, certificateRow, ledger, handedOut>>
      /\ desk[r].pc = "bundle" /\ ~IsCertified(desk[r])
  BY DEF BuildBundle, At, IsCertified
<1>5. PICK details : details = [output_id |-> r.output, bundle_sha256 |-> BundleSha(bundle),
                                certificate_id |-> desk[r].certificate.payload.certificate_id]
  OBVIOUS
<1>6. Append_(r, "PROOF_BUNDLE_EXPORTED", details, local) \/ Answer(r)
  BY <1>1, <1>2, <1>5 DEF BuildBundle
<1>7. desk[r].row.verification = Passed /\ IsIssued(desk[r].certificate, r.output, S)
  BY <1>4 DEF ExportsHold, LocalHolds
<1>8. IsBundle(local.body, local.certificate, r.output, S)
  <2>1. PICK name, n : /\ desk[r].certificate \in S /\ n \in 0 .. Len(ledger)
                       /\ desk[r].certificate = CertificateOf(r.output, name, n)
    BY <1>7 DEF IsIssued
  <2>2. bundle = build_proof_bundle(r.output, desk[r].certificate, Snap(Len(ledger)), Passed)
    BY <1>1, <1>7, LastSnapshot
  <2> QED
    BY <1>3, <2>1, <2>2, LastSnapshot DEF IsBundle
<1>9. [type |-> "PROOF_BUNDLE_EXPORTED", details |-> details]
        = ExportEvent(local.body, local.certificate, r.output)
  BY <1>3, <1>5 DEF ExportEvent
<1>10. CASE Append_(r, "PROOF_BUNDLE_EXPORTED", details, local)
  BY <1>3, <1>4, <1>8, <1>9, <1>10, AppendKeeps
<1>11. CASE Answer(r)
  BY <1>4, <1>11, AnswerKeeps
<1> QED
  BY <1>6, <1>10, <1>11

(* The event of the bundle is on the ledger that the package has.            *)
LEMMA PackageKeeps ==
  ASSUME EInv, NEW S, ExportsHold(S), NEW r \in DOMAIN desk, FinishPackage(r)
  PROVE  ExportsHold(S)'
<1>1. /\ UNCHANGED <<outputRow, certificateRow, ledger>>
      /\ desk[r].pc = "checkpoint" /\ Answer(r)
  BY DEF FinishPackage, At
<1>2. PICK package :
        package = build_proof_package(desk[r].body,
                    issue_bundle_receipt(desk[r].body, desk[r].certificate, verify_ledger(ledger)),
                    verify_ledger(ledger))
  OBVIOUS
<1>3. \A d \in handedOut' : d \in handedOut \/ d.body = package
  BY <1>2 DEF FinishPackage, HandOut
<1>4. BundleReady(r, desk[r], S) /\ OnLedger(desk[r].event)
  BY <1>1 DEF ExportsHold, LocalHolds, EInv, At
<1>5. IsRecorded(ExportEvent(desk[r].body, desk[r].certificate, r.output),
                 Snap(Len(ledger)).events)
  <2>1. verify_ledger(ledger).events = ledger
    BY DEF verify_ledger
  <2>2. Snap(Len(ledger)).events = ledger
    BY <2>1, LastSnapshot
  <2> QED
    BY <1>4, <2>2 DEF BundleReady, OnLedger, IsRecorded
<1>6. IsPackage(package, S)
  <2>1. package = build_proof_package(desk[r].body,
                    issue_bundle_receipt(desk[r].body, desk[r].certificate, Snap(Len(ledger))),
                    Snap(Len(ledger)))
    BY <1>2, LastSnapshot
  <2> QED
    BY <1>4, <1>5, <2>1, LastSnapshot DEF IsPackage, BundleReady
<1> QED
  BY <1>1, <1>3, <1>6, AnswerKeeps

-----------------------------------------------------------------------------
(* The ledger *)

LEMMA TailKeeps ==
  ASSUME EInv, NEW S, ExportsHold(S), NEW r \in DOMAIN desk, ReadLedgerTail(r)
  PROVE  ExportsHold(S)'
<1>1. PICK local : local = [desk[r] EXCEPT !.pc = "append",
                                           !.tail = <<Len(ledger), HeadOf(ledger)>>]
  OBVIOUS
<1>2. /\ UNCHANGED <<outputRow, certificateRow, ledger, handedOut>>
      /\ desk[r].pc = "tail" /\ Set(r, local)
  BY <1>1 DEF ReadLedgerTail, At
<1>3. /\ local.pc = "append" /\ local.event = desk[r].event /\ local.row = desk[r].row
      /\ local.body = desk[r].body /\ local.certificate = desk[r].certificate
  BY <1>1 DEF EInv, NewRequest
<1>4. LocalHolds(r, desk[r], S)
  BY DEF ExportsHold
<1>5. LocalHolds(r, local, S)
  BY <1>2, <1>3, <1>4 DEF LocalHolds, BundleReady
<1>6. (IsCertified(desk[r]) => IsCertified(local)) /\ Grows
  BY <1>2, <1>3, LongerLedger DEF IsCertified
<1> QED
  BY <1>2, <1>5, <1>6, QuietRequest

(* A verdict goes on to its certificate, a package to its receipt.           *)
LEMMA InsertKeeps ==
  ASSUME EInv, NEW S, ExportsHold(S), NEW r \in DOMAIN desk, InsertLedgerEvent(r)
  PROVE  ExportsHold(S)'
<1>1. UNCHANGED <<outputRow, certificateRow>> /\ desk[r].pc = "append" /\ Grows
  <2>1. \E e : ledger' = Append(ledger, e)
    BY DEF InsertLedgerEvent
  <2> QED
    BY <2>1, LongerLedger DEF InsertLedgerEvent, At
<1>2. /\ desk[r].event.type = "VERIFICATION_COMPLETED" =>
           r.kind = "verify" /\ RowHolds(desk[r].row)
      /\ r.kind = "proof-package" => BundleReady(r, desk[r], S)
  BY <1>1 DEF ExportsHold, LocalHolds
<1>3. IsCertified(desk[r]) => desk[r].event.type = "PROOF_CERTIFICATE_ISSUED"
  BY <1>1 DEF IsCertified
<1>4. r.kind = "proof-package" => desk[r].event.type = "PROOF_BUNDLE_EXPORTED"
  <2>1. \A b, c, o : ExportEvent(b, c, o).type = "PROOF_BUNDLE_EXPORTED"
    BY DEF ExportEvent
  <2> QED
    BY <1>2, <2>1 DEF BundleReady
<1>5. \/ /\ AfterEvent(r) = "snapshot" /\ desk[r].event.type = "VERIFICATION_COMPLETED"
         /\ desk[r].row.status = "VERIFIED_SAFE"
      \/ AfterEvent(r) = "checkpoint" /\ r.kind = "proof-package"
      \/ AfterEvent(r) = "done" /\ r.kind # "proof-package"
  BY <1>2, <1>4 DEF AfterEvent
<1>6. CASE AfterEvent(r) = "done" /\ r.kind # "proof-package"
  <2>1. Answer(r) /\ \A d \in handedOut' : d \in handedOut \/ d.kind # "proof-package"
    BY <1>6 DEF InsertLedgerEvent, HandOut
  <2>2. PICK local : local = [NewRequest EXCEPT !.pc = "done"]
    OBVIOUS
  <2>3. Set(r, local) /\ LocalHolds(r, local, S) /\ IsCertified(local)
    BY <2>1, <2>2, AnsweredHolds DEF Answer
  <2> QED
    BY <1>1, <2>1, <2>3, QuietRequest
<1>7. CASE AfterEvent(r) # "done"
  <2>1. PICK local : local = [desk[r] EXCEPT !.pc = AfterEvent(r)]
    OBVIOUS
  <2>2. Set(r, local) /\ UNCHANGED handedOut
    BY <1>7, <2>1 DEF InsertLedgerEvent
  <2>3. /\ local.pc = AfterEvent(r) /\ local.event = desk[r].event /\ local.row = desk[r].row
        /\ local.body = desk[r].body /\ local.certificate = desk[r].certificate
    BY <2>1 DEF EInv, NewRequest
  <2>4. LocalHolds(r, local, S)
    BY <1>2, <1>5, <1>7, <2>3 DEF LocalHolds, BundleReady, RowHolds
  <2>5. ~IsCertified(desk[r])
    BY <1>3, <1>4, <1>5, <1>7
  <2> QED
    BY <1>1, <2>2, <2>4, <2>5, QuietRequest
<1> QED
  BY <1>5, <1>6, <1>7

-----------------------------------------------------------------------------
(* Every step *)

LEMMA ExportsKept ==
  ASSUME PackagesInv, [ExportNext]_ExportVars
  PROVE  PackagesInv'
<1>1. EInv /\ EInv'
  BY ExportStepKeeps DEF PackagesInv
<1>2. PICK S : ExportsHold(S)
  BY DEF PackagesInv
<1>3. CASE UNCHANGED ExportVars
  <2>1. Grows
    BY <1>1, <1>3, LongerLedger DEF ExportVars
  <2>2. ExportsHold(S)'
    <3>1. ASSUME NEW q \in DOMAIN desk'
          PROVE  LocalHolds(q, desk[q], S)'
      <4>1. PICK l : l = desk'[q]
        OBVIOUS
      <4>2. LocalHolds(q, l, S)
        BY <1>2, <1>3, <4>1 DEF ExportsHold, ExportVars
      <4>3. LocalHolds(q, l, S)'
        BY <2>1, <4>2, LocalStays
      <4> QED
        BY <4>1, <4>3
    <3>2. ASSUME NEW o \in DOMAIN certificateRow', certificateRow'[o] # Absent
          PROVE  IsIssued(certificateRow[o], o, S)'
      <4>1. PICK c : c = certificateRow'[o]
        OBVIOUS
      <4>2. IsIssued(c, o, S)
        BY <1>2, <1>3, <3>2, <4>1 DEF ExportsHold, ExportVars
      <4>3. IsIssued(c, o, S)'
        BY <2>1, <4>2, IssuedStays
      <4> QED
        BY <4>1, <4>3
    <3>3. ASSUME NEW d \in handedOut', d.kind = "proof-package"
          PROVE  IsPackage(d.body, S)'
      <4>1. IsPackage(d.body, S)
        BY <1>2, <1>3, <3>3 DEF ExportsHold, ExportVars
      <4> QED
        BY <2>1, <4>1, PackageStays
    <3>4. Issued(S)'
      BY <1>2, <1>3 DEF ExportsHold, Issued, ExportVars
    <3> QED
      BY <1>2, <1>3, <3>1, <3>2, <3>3, <3>4 DEF ExportsHold, ExportVars
  <2> QED
    BY <1>1, <2>2 DEF PackagesInv
<1>4. CASE ExportNext
  <2>1. PICK r \in DOMAIN desk : ExportStep(r)
    BY <1>4 DEF ExportNext
  <2>2. \E T : ExportsHold(T)'
    <3>1. CASE \E outcome \in r.outcomes : VerifyOutput(r, outcome)
      BY <1>1, <1>2, <3>1, VerifyKeeps
    <3>2. CASE SnapshotLedger(r)
      BY <1>1, <1>2, <3>2, SnapshotKeeps
    <3>3. CASE UpsertCertificate(r)
      BY <1>1, <1>2, <3>3, UpsertKeeps
    <3>4. CASE ReadLedgerTail(r)
      BY <1>1, <1>2, <3>4, TailKeeps
    <3>5. CASE InsertLedgerEvent(r)
      BY <1>1, <1>2, <3>5, InsertKeeps
    <3>6. CASE AppendRaises(r)
      BY <1>1, <1>2, <3>6, AnswerKeeps DEF AppendRaises
    <3>7. CASE ReadOutputRow(r)
      BY <1>1, <1>2, <3>7, ReadRowKeeps
    <3>8. CASE ReadCertificate(r)
      BY <1>1, <1>2, <3>8, ReadCertificateKeeps
    <3>9. CASE BuildBundle(r)
      BY <1>1, <1>2, <3>9, BundleKeeps
    <3>10. CASE FinishPackage(r)
      BY <1>1, <1>2, <3>10, PackageKeeps
    <3> QED
      BY <2>1, <3>1, <3>2, <3>3, <3>4, <3>5, <3>6, <3>7, <3>8, <3>9, <3>10 DEF ExportStep
  <2> QED
    BY <1>1, <2>2 DEF PackagesInv
<1> QED
  BY <1>3, <1>4

(* At first nothing is issued.                                               *)
LEMMA ExportsStart ==
  ASSUME ExportInit
  PROVE  PackagesInv
<1>0. \A q, r \in DOMAIN desk : q.name = r.name => q = r
  BY ExportAssumption DEF ExportInit
<1>1. NewRequest.pc = "start"
  BY DEF NewRequest
<1>2. /\ \A r \in DOMAIN desk : desk[r] = NewRequest /\ r.output \in DOMAIN outputRow
      /\ DOMAIN certificateRow = DOMAIN outputRow /\ handedOut = {}
      /\ \A o \in DOMAIN outputRow : outputRow[o].status = "CREATED"
      /\ \A o \in DOMAIN certificateRow : certificateRow[o] = Absent
  BY DEF ExportInit
<1>3. Issued({})
  BY DEF Issued, IdsTell
<1>4. \A r \in DOMAIN desk : LocalHolds(r, desk[r], {})
  BY <1>1, <1>2 DEF LocalHolds
<1>5. ExportsHold({})
  BY <1>0, <1>2, <1>3, <1>4 DEF ExportsHold, RowHolds
<1> QED
  BY <1>5, ExportStarts DEF PackagesInv

(* Every package that proof_package hands out passes                         *)
(* verify_proof_package_bytes, and nothing that can be put together from two *)
(* of them does unless it is one of them: whatever verdicts, certificates    *)
(* and exports come between the reads of a handler (proof/package.py).       *)
THEOREM PackagesAreAccepted == ExportSpec => []VerifierAcceptsTheExports
BY ExportsStart, ExportsKept, PackagesPass, PTL DEF ExportSpec

-----------------------------------------------------------------------------
(* Types *)

(* The steps of a handler.                                                   *)
HandlerSteps == {"start", "tail", "append", "snapshot", "certify", "certificate", "bundle",
                 "checkpoint", "done"}

(* Replacing the local state of one request.                                 *)
LEMMA LocalKeepsTypes ==
  ASSUME ExportTypeOK, NEW r \in DOMAIN desk, NEW local, local.pc \in HandlerSteps,
         Set(r, local), UNCHANGED outputRow
  PROVE  ExportTypeOK'
<1>1. DOMAIN desk' = DOMAIN desk /\ \A q \in DOMAIN desk : desk'[q] = IF q = r THEN local ELSE desk[q]
  BY DEF Set
<1> QED BY <1>1 DEF ExportTypeOK, HandlerSteps

(* An answer ends a request.                                                *)
LEMMA AnswerKeepsTypes ==
  ASSUME ExportTypeOK, NEW r \in DOMAIN desk, Answer(r), UNCHANGED outputRow
  PROVE  ExportTypeOK'
<1> DEFINE local == [NewRequest EXCEPT !.pc = "done"]
<1>1. Set(r, local) /\ local.pc \in HandlerSteps
  BY DEF Answer, NewRequest, HandlerSteps
<1> HIDE DEF local
<1> QED BY <1>1, LocalKeepsTypes

(* What is to be written to the ledger waits for its tail.                   *)
LEMMA AppendKeepsTypes ==
  ASSUME ExportTypeOK, NEW r \in DOMAIN desk, NEW type, NEW details, NEW local, "pc" \in DOMAIN local,
         Append_(r, type, details, local), UNCHANGED outputRow
  PROVE  ExportTypeOK'
<1> DEFINE later == [local EXCEPT !.pc = "tail", !.event = [type |-> type, details |-> details]]
<1>1. Set(r, later) /\ later.pc \in HandlerSteps
  BY DEF Append_, HandlerSteps
<1> HIDE DEF later
<1> QED BY <1>1, LocalKeepsTypes

(* Whatever a handler does, it goes on to one of its steps, and a row has a  *)
(* status that verify_output writes.                                         *)
LEMMA ExportKeepsTypes ==
  ASSUME ExportTypeOK, EInv, [ExportNext]_ExportVars
  PROVE  ExportTypeOK'
<1>1. CASE UNCHANGED ExportVars
  BY <1>1 DEF ExportVars, ExportTypeOK
<1> SUFFICES ASSUME NEW r \in DOMAIN desk, ExportStep(r) PROVE ExportTypeOK'
  BY <1>1 DEF ExportNext
<1>0. DOMAIN desk[r] = {"pc", "row", "certificate", "snapshot", "body", "event", "tail"}
  BY DEF EInv, NewRequest
<1>2. ASSUME NEW outcome \in r.outcomes, VerifyOutput(r, outcome) PROVE ExportTypeOK'
  <2> DEFINE row == [status |-> IF outcome = "PASS" THEN "VERIFIED_SAFE" ELSE "RELEASE_BLOCKED",
                     verification |-> VerificationPayload(r, outcome)]
             before == [desk[r] EXCEPT !.row = row]
             local == [before EXCEPT !.pc = "tail",
                                     !.event = [type |-> "VERIFICATION_COMPLETED",
                                                details |-> [output_id |-> r.output,
                                                   verification_sha256 |-> VerificationSha(row.verification)]]]
  <2>1. outputRow' = [outputRow EXCEPT ![r.output] = row] /\ Set(r, local)
    BY <1>2 DEF VerifyOutput, Append_
  <2>2. row.status \in {"CREATED", "VERIFIED_SAFE", "RELEASE_BLOCKED"}
    OBVIOUS
  <2>3. local.pc \in HandlerSteps
    <3> HIDE DEF row
    <3> QED BY <1>0 DEF HandlerSteps
  <2> HIDE DEF row, local
  <2>4. DOMAIN desk' = DOMAIN desk /\ \A q \in DOMAIN desk : desk'[q] = IF q = r THEN local ELSE desk[q]
    BY <2>1 DEF Set
  <2>5. DOMAIN outputRow' = DOMAIN outputRow
        /\ \A o \in DOMAIN outputRow : outputRow'[o] = IF o = r.output THEN row ELSE outputRow[o]
    BY <2>1
  <2> QED BY <2>2, <2>3, <2>4, <2>5 DEF ExportTypeOK, HandlerSteps
<1>3. CASE SnapshotLedger(r)
  <2> DEFINE local == [desk[r] EXCEPT !.pc = "certify", !.snapshot = verify_ledger(ledger)]
  <2>1. Set(r, local) /\ UNCHANGED outputRow
    BY <1>3 DEF SnapshotLedger
  <2>2. local.pc \in HandlerSteps
    BY <1>0 DEF HandlerSteps
  <2> HIDE DEF local
  <2> QED BY <2>1, <2>2, LocalKeepsTypes
<1>4. CASE UpsertCertificate(r)
  <2> DEFINE local == [desk[r] EXCEPT !.snapshot = <<>>]
             certificate == issue_certificate(r.output, desk[r].row.verification, r.name,
                                              desk[r].snapshot)
             details == [output_id |-> r.output, certificate_sha256 |-> _certificate_sha256(certificate)]
             type == "PROOF_CERTIFICATE_ISSUED"
  <2>1. Append_(r, type, details, local) /\ UNCHANGED outputRow
    BY <1>4 DEF UpsertCertificate
  <2>2. "pc" \in DOMAIN local
    BY <1>0
  <2> HIDE DEF local, details, type
  <2> QED BY <2>1, <2>2, AppendKeepsTypes
<1>5. CASE ReadLedgerTail(r)
  <2> DEFINE local == [desk[r] EXCEPT !.pc = "append", !.tail = <<Len(ledger), HeadOf(ledger)>>]
  <2>1. Set(r, local) /\ UNCHANGED outputRow
    BY <1>5 DEF ReadLedgerTail
  <2>2. local.pc \in HandlerSteps
    BY <1>0 DEF HandlerSteps
  <2> HIDE DEF local
  <2> QED BY <2>1, <2>2, LocalKeepsTypes
<1>6. CASE InsertLedgerEvent(r)
  <2> DEFINE local == [desk[r] EXCEPT !.pc = AfterEvent(r)]
  <2>1. UNCHANGED outputRow /\ (Answer(r) \/ Set(r, local))
    BY <1>6 DEF InsertLedgerEvent
  <2>2. local.pc \in HandlerSteps
    BY <1>0 DEF HandlerSteps, AfterEvent
  <2> HIDE DEF local
  <2> QED BY <2>1, <2>2, AnswerKeepsTypes, LocalKeepsTypes
<1>7. CASE AppendRaises(r)
  BY <1>7, AnswerKeepsTypes DEF AppendRaises
<1>8. CASE ReadOutputRow(r)
  <2> DEFINE local == [desk[r] EXCEPT !.row = outputRow[r.output]]
             later == [local EXCEPT !.pc = "certificate"]
  <2>1. /\ UNCHANGED outputRow
        /\ \/ Answer(r) \/ Set(r, later)
           \/ download_output(r, local) \/ synthetic_format_export(r, local)
           \/ synthetic_format_export_receipt(r, local)
    BY <1>8 DEF ReadOutputRow
  <2>2. later.pc \in HandlerSteps /\ "pc" \in DOMAIN local
    BY <1>0 DEF HandlerSteps
  <2> HIDE DEF local, later
  <2>3. ASSUME download_output(r, local) PROVE ExportTypeOK'
    <3> DEFINE body == [local EXCEPT !.body = Artifact(r.output)]
               type == "PROTECTED_ARTIFACT_DOWNLOADED"
               details == [output_id |-> r.output, output_sha256 |-> Artifact(r.output)]
    <3>1. Append_(r, type, details, body) /\ "pc" \in DOMAIN body
      BY <2>2, <2>3 DEF download_output
    <3> HIDE DEF body, type, details
    <3> QED BY <2>1, <3>1, AppendKeepsTypes
  <2>4. ASSUME synthetic_format_export(r, local) PROVE ExportTypeOK'
    <3> DEFINE export == export_synthetic_representation(r)
               body == [local EXCEPT !.body = export]
               type == "SYNTHETIC_FORMAT_EXPORTED"
               details == [output_id |-> r.output, export_sha256 |-> export]
    <3>1. Append_(r, type, details, body) /\ "pc" \in DOMAIN body
      BY <2>2, <2>4 DEF synthetic_format_export
    <3> HIDE DEF body, type, details
    <3> QED BY <2>1, <3>1, AppendKeepsTypes
  <2>5. ASSUME synthetic_format_export_receipt(r, local) PROVE ExportTypeOK'
    <3> DEFINE body == [local EXCEPT !.body = _synthetic_export_receipt(r, local.row)]
               type == "SYNTHETIC_FORMAT_RECEIPT_ISSUED"
               details == [output_id |-> r.output,
                           export_sha256 |-> export_synthetic_representation(r)]
    <3>1. Append_(r, type, details, body) /\ "pc" \in DOMAIN body
      BY <2>2, <2>5 DEF synthetic_format_export_receipt
    <3> HIDE DEF body, type, details
    <3> QED BY <2>1, <3>1, AppendKeepsTypes
  <2> QED BY <2>1, <2>2, <2>3, <2>4, <2>5, AnswerKeepsTypes, LocalKeepsTypes
<1>9. CASE ReadCertificate(r)
  <2> DEFINE local == [desk[r] EXCEPT !.certificate = certificateRow[r.output]]
             later == [local EXCEPT !.pc = "bundle"]
  <2>1. /\ UNCHANGED outputRow
        /\ Answer(r) \/ Set(r, later) \/ annotated_output_export(r, local)
    BY <1>9 DEF ReadCertificate, proof_certificate, proof_certificate_pdf
  <2>2. later.pc \in HandlerSteps /\ "pc" \in DOMAIN local
    BY <1>0 DEF HandlerSteps
  <2> HIDE DEF local, later
  <2>3. ASSUME annotated_output_export(r, local) PROVE ExportTypeOK'
    <3> DEFINE annotated == build_annotated_export(r.output, local.certificate)
               body == [local EXCEPT !.body = annotated]
               type == "ANNOTATED_EVIDENCE_EXPORTED"
               details == [output_id |-> r.output, annotated_export_sha256 |-> annotated]
    <3>1. Answer(r) \/ Append_(r, type, details, body)
      BY <2>3 DEF annotated_output_export
    <3>2. "pc" \in DOMAIN body
      BY <2>2
    <3> HIDE DEF body, type, details
    <3> QED BY <2>1, <3>1, <3>2, AnswerKeepsTypes, AppendKeepsTypes
  <2> QED BY <2>1, <2>2, <2>3, AnswerKeepsTypes, LocalKeepsTypes
<1>10. CASE BuildBundle(r)
  <2> DEFINE bundle == build_proof_bundle(r.output, desk[r].certificate, verify_ledger(ledger),
                                          desk[r].row.verification)
             local == [desk[r] EXCEPT !.body = bundle]
             type == "PROOF_BUNDLE_EXPORTED"
             details == [output_id |-> r.output, bundle_sha256 |-> BundleSha(bundle),
                         certificate_id |-> desk[r].certificate.payload.certificate_id]
  <2>1. UNCHANGED outputRow /\ (Answer(r) \/ Append_(r, type, details, local))
    BY <1>10 DEF BuildBundle
  <2>2. "pc" \in DOMAIN local
    BY <1>0
  <2> HIDE DEF local, type, details
  <2> QED BY <2>1, <2>2, AnswerKeepsTypes, AppendKeepsTypes
<1>11. CASE FinishPackage(r)
  BY <1>11, AnswerKeepsTypes DEF FinishPackage
<1> QED BY <1>2, <1>3, <1>4, <1>5, <1>6, <1>7, <1>8, <1>9, <1>10, <1>11 DEF ExportStep

LEMMA ExportOpensTyped == ExportInit => ExportTypeOK
<1> SUFFICES ASSUME ExportInit
             PROVE  ExportTypeOK
  OBVIOUS
<1>1. NewRequest.pc = "start"
  BY DEF NewRequest
<1>2. /\ \A r \in DOMAIN desk : desk[r] = NewRequest
      /\ \A o \in DOMAIN outputRow : outputRow[o].status = "CREATED"
  BY DEF ExportInit
<1> QED
  BY <1>1, <1>2 DEF ExportTypeOK
=============================================================================
