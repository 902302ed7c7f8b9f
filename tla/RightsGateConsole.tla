-------------------------- MODULE RightsGateConsole --------------------------
(* The page of RightsGate (RightsGateApp.tsx): one asset is assessed under   *)
(* registries and a policy that the page puts together, and the result gets a *)
(* signed receipt for the CMS.  While the calls are under way the form can be *)
(* changed and a result can be dismissed.  Bytes are named for their file.    *)
EXTENDS Naturals, Sequences

CONSTANTS
  Assets, ReferenceImages,   \* files to choose from
  MaxAssessed                \* assessments that are made

VARIABLES
  form,      \* the files chosen
  result,    \* what is shown: an assessment of the service, or 0
  cmsReceipt,\* the receipt shown: the assessment it is for, or 0
  busy,
  assessing, \* assess(), when it waits for a call
  assessed   \* assessments the service has stored
IntakeVars == <<form, result, cmsReceipt, busy, assessing, assessed>>

NoFileYet == "no file"
EmptyForm == [asset |-> NoFileYet, reference |-> NoFileYet]
NotAssessing == [awaits |-> "nothing"]

choose ==
  /\ result = 0
  /\ \/ \E a \in Assets : form' = [form EXCEPT !.asset = a]
     \/ \E r \in ReferenceImages : form' = [form EXCEPT !.reference = r]
  /\ UNCHANGED <<result, cmsReceipt, busy, assessing, assessed>>

(* The files are those of the render in which the button was pressed.        *)
assess ==
  /\ result = 0 /\ ~busy /\ form.asset # NoFileYet
  /\ busy' = TRUE /\ result' = 0 /\ cmsReceipt' = 0
  /\ assessing' = [awaits |-> IF form.reference = NoFileYet THEN "execution" ELSE "derivation",
                   asset |-> form.asset, reference |-> form.reference,
                   references |-> {}, of |-> 0]
  /\ UNCHANGED <<form, assessed>>

(* The page computes the id under which the service derives the reference;   *)
(* the registry carries the one, the licence names the other.                *)
deriveReference ==
  /\ assessing.awaits = "derivation"
  /\ assessing' = [assessing EXCEPT !.awaits = "execution", !.references = {assessing.reference}]
  /\ UNCHANGED <<form, result, cmsReceipt, busy, assessed>>

executeRightsGate ==
  /\ assessing.awaits = "execution" /\ Len(assessed) < MaxAssessed
  /\ \E licenceEnabled \in BOOLEAN :
        assessed' = Append(assessed,
          [asset |-> assessing.asset, references |-> assessing.references,
           licensed |-> IF licenceEnabled THEN {assessing.reference} \ {NoFileYet} ELSE {}])
  /\ result' = Len(assessed')
  /\ assessing' = [assessing EXCEPT !.awaits = "receipt", !.of = Len(assessed')]
  /\ UNCHANGED <<form, cmsReceipt, busy>>

(* The service compares the asset that is expected with the assessment's.    *)
createCmsDecision ==
  /\ assessing.awaits = "receipt" /\ assessed[assessing.of].asset = assessing.asset
  /\ cmsReceipt' = assessing.of
  /\ assessing' = NotAssessing /\ busy' = FALSE
  /\ UNCHANGED <<form, result, assessed>>

(* Bytes that cannot be read, a registry that is no JSON, a call that fails. *)
failAssessing ==
  /\ assessing # NotAssessing
  /\ assessing' = NotAssessing /\ busy' = FALSE
  /\ UNCHANGED <<form, result, cmsReceipt, assessed>>

(* A result can be dismissed while its receipt is still being signed.        *)
reset ==
  /\ result # 0
  /\ result' = 0 /\ cmsReceipt' = 0 /\ form' = EmptyForm
  /\ UNCHANGED <<busy, assessing, assessed>>

(* The privacy console is opened, and RightsGate comes back as a new page.   *)
openPrivacy ==
  /\ form' = EmptyForm /\ result' = 0 /\ cmsReceipt' = 0 /\ busy' = FALSE
  /\ assessing' = NotAssessing
  /\ UNCHANGED assessed

IntakeInit ==
  /\ form = EmptyForm /\ result = 0 /\ cmsReceipt = 0 /\ busy = FALSE
  /\ assessing = NotAssessing /\ assessed = <<>>

IntakeNext ==
  \/ choose \/ assess \/ deriveReference \/ executeRightsGate \/ createCmsDecision
  \/ failAssessing \/ reset \/ openPrivacy

-----------------------------------------------------------------------------

IntakeTypeOK ==
  /\ result \in 0 .. Len(assessed) /\ cmsReceipt \in 0 .. Len(assessed)
  /\ busy = (assessing # NotAssessing)
  /\ form \in [asset : Assets \cup {NoFileYet}, reference : ReferenceImages \cup {NoFileYet}]

(* What the page shows belongs together although it can be dismissed and     *)
(* filled in anew while an assessment is under way: a receipt beside a        *)
(* result is for it, a result beside which the page is busy is the one whose  *)
(* receipt it waits for, and every licence that was sent names a reference    *)
(* that was sent with it.                                                    *)
ReceiptIsOfResult ==
  /\ result # 0 /\ cmsReceipt # 0 => cmsReceipt = result
  /\ result # 0 /\ busy => assessing.awaits = "receipt" /\ assessing.of = result
  /\ \A n \in DOMAIN assessed : assessed[n].licensed \subseteq assessed[n].references
=============================================================================
