------------------------ MODULE DecisionPipelinesProofs ------------------------
(* The two pages never show what the service does not stand behind, for any  *)
(* number of findings, jobs, outputs and assessments: the invariant of each  *)
(* page, kept by each of its handlers at every call it waits for.  What the  *)
(* verifiers accept is what was built: the archive of the source tree, with  *)
(* the proof packages of ProofExportProofs.  What the compiler, the          *)
(* recommendation and the verifier of a file guarantee for every document    *)
(* and every fault of the libraries that write.  The theorems about the      *)
(* composition close with what its parts prove of themselves.                *)
EXTENDS DecisionPipelines, ProofExportProofs, AssessmentExecutionProofs, FileProtectionProofs,
        FiniteSetTheorems, SequenceTheorems, TLAPS

(* A sequence of anything: what the backend stores is not typed further.     *)
IsSequence(s) == \E S : s \in Seq(S)

-----------------------------------------------------------------------------
(* The backend, as long as anything runs: jobs and outputs keep their form.  *)
BackendHolds ==
  /\ IsSequence(workspaces) /\ IsSequence(artifacts)
  /\ \A j \in DOMAIN workspaces : DOMAIN workspaces[j] = {"status", "decided"}
  /\ \A a \in DOMAIN artifacts : DOMAIN artifacts[a] = {"job", "level", "decided", "status"}

(* A job has decisions on all the findings, or is erased and has none.       *)
IsActive(j) == workspaces[j].status = "ACTIVE"

DecisionsHold ==
  \A j \in DOMAIN workspaces :
    /\ IsActive(j) => DOMAIN workspaces[j].decided = Findings
    /\ ~IsActive(j) => workspaces[j].decided = <<>>

(* The output that the page shows is one of the job that it shows.           *)
Current ==
  view.job # 0 /\ view.transformed # 0 /\ artifacts[view.transformed].job = view.job

(* The page: level and graph agree; a decision it shows is the stored one or *)
(* still pending; an output of the job is made of the stored decisions; and  *)
(* a proof beside an output is of this output, which is the job's.           *)
PageHolds ==
  /\ DOMAIN view = DOMAIN NewPage
  /\ view.job \in 0 .. Len(workspaces) /\ view.transformed \in 0 .. Len(artifacts)
  /\ DOMAIN view.entities \subseteq Findings
  /\ view.transformed # 0 => artifacts[view.transformed].job \in 1 .. Len(workspaces)
  /\ view.job # 0 => view.graph = <<view.job, view.level>>
  /\ view.job # 0 /\ IsActive(view.job) =>
       /\ DOMAIN view.entities = Findings
       /\ \A f \in Findings : view.entities[f] \in {"PENDING", workspaces[view.job].decided[f]}
  /\ Current =>
       /\ artifacts[view.transformed].level = view.level
       /\ artifacts[view.transformed].decided = workspaces[view.job].decided
       /\ Undecided(view.entities) = {}
  /\ view.transformed # 0 /\ view.certificate # 0 /\ view.verification[2] = "VERIFIED_SAFE" =>
       /\ Current
       /\ view.certificate = view.transformed /\ view.verification[1] = view.transformed

(* What the calls of a handler answer.                                       *)
Answers(does) ==
  CASE does = "create" -> {"job", "file", "analysis", "entities", "recommendation", "graph"}
    [] does = "level" -> {"graph"}
    [] does = "review" -> {"review", "entities", "graph", "recommendation"}
    [] does = "bulk" -> {"review", "entities", "graph"}
    [] does = "transform" -> {"transformed"}
    [] does = "verify" -> {"verification", "certificate", "audit"}
    [] does = "destroy" -> {"destruction"}
Kinds == {"create", "level", "review", "bulk", "transform", "verify", "destroy"}

Asks(p, f) == \E i \in DOMAIN p.todo : \E c \in p.todo[i] : c[1] = f
HasGot(p, f) == f \in DOMAIN p.got

(* A waiting handler asks only for what it is there for, and what it has not *)
(* asked for any more it has got.                                            *)
Formed(p) ==
  /\ DOMAIN p = {"does", "todo", "got", "job", "level", "output"}
  /\ p.does \in Kinds
  /\ IsSequence(p.todo) /\ p.todo # <<>>
  /\ p.job \in 0 .. Len(workspaces)
  /\ \A i \in DOMAIN p.todo : \A c \in p.todo[i] : c[1] \in Answers(p.does)
  /\ DOMAIN p.got \subseteq Answers(p.does)
  /\ p.does \notin {"review", "bulk"} => \A f \in Answers(p.does) : Asks(p, f) \/ HasGot(p, f)

(* The order of the calls that others rest on: a job before all else, a      *)
(* recommendation before the graph of its level, reviews before the list.    *)
InOrder(p) ==
  /\ \A i \in DOMAIN p.todo : \A c \in p.todo[i] :
       c[1] \in {"job", "verification"} => i = 1 /\ \A d \in p.todo[1] : d[1] = c[1]
  /\ \A i, j \in DOMAIN p.todo : \A c \in p.todo[i], d \in p.todo[j] :
       \/ c[1] = "recommendation" /\ d[1] = "graph" /\ p.does = "create"
       \/ c[1] = "review" /\ d[1] = "entities"
       => i < j
  /\ p.job = 0 => Asks(p, "job") /\ p.got = <<>>
  /\ Asks(p, "job") => p.job = 0 
  /\ HasGot(p, "graph") /\ p.does = "create" => ~Asks(p, "recommendation")
  /\ HasGot(p, "entities") => ~Asks(p, "review")

(* The answers a handler holds are still right when the page takes them.     *)
AnswersHold(p) ==
  /\ HasGot(p, "job") => p.got["job"] = p.job
  /\ HasGot(p, "graph") =>
       p.got["graph"] = <<p.job, IF p.does = "create" THEN p.got["recommendation"] ELSE p.level>>
  /\ HasGot(p, "entities") =>
       /\ DOMAIN p.got["entities"] \subseteq Findings
       /\ IsActive(p.job) => p.got["entities"] = workspaces[p.job].decided
  /\ HasGot(p, "transformed") =>
       /\ p.got["transformed"] \in DOMAIN artifacts
       /\ artifacts[p.got["transformed"]].job = p.job
       /\ artifacts[p.got["transformed"]].level = p.level
       /\ artifacts[p.got["transformed"]].decided = workspaces[p.job].decided
  /\ HasGot(p, "verification") =>
       p.got["verification"][1] = p.output /\ artifacts[p.output].job = p.job
  /\ HasGot(p, "certificate") => p.got["certificate"] = p.output

(* A finding whose review is under way is pending on the page.               *)
ReviewsPending(p) ==
  \A i \in DOMAIN p.todo : \A c \in p.todo[i] : c[1] = "review" =>
    /\ c[2] \in Findings
    /\ view.job # 0 => view.entities[c[2]] = "PENDING"

(* A handler and the page it was begun on, or a new page without a job.      *)
Follows(p) ==
  /\ p.does = "verify" => p.output \in DOMAIN artifacts
  /\ view.job # 0 =>
       /\ p.does # "create" /\ p.job = view.job
       /\ p.does # "level" => p.level = view.level
       /\ p.does = "verify" => p.output = view.transformed
       /\ p.does = "transform" => Undecided(view.entities) = {}
       /\ p.does \in {"review", "bulk"} => ~Current
  /\ p.does = "create" /\ view.transformed # 0 => artifacts[view.transformed].job # p.job
  /\ p.does # "create" /\ view.job = 0 => view.transformed = 0

PromiseHolds(p) == Formed(p) /\ InOrder(p) /\ AnswersHold(p) /\ ReviewsPending(p) /\ Follows(p)

(* While no bulk confirmation has run beside another handler, one handler at *)
(* a time waits, and the page is busy as long as it does.                    *)
CInv ==
  /\ BackendHolds /\ aside \in Nat /\ DOMAIN promises = Slots
  /\ aside = 0 =>
       /\ DecisionsHold /\ PageHolds
       /\ promises[2] = NoPromise
       /\ view.busy = (promises[1] # NoPromise)
       /\ promises[1] # NoPromise => PromiseHolds(promises[1])

(* RightsGate *)
IntakeInv ==
  /\ result \in Nat /\ cmsReceipt \in Nat
  /\ busy = (assessing # NotAssessing)
  /\ assessing = NotAssessing => (result # 0 /\ cmsReceipt # 0 => cmsReceipt = result)
  /\ assessing # NotAssessing =>
       /\ DOMAIN assessing = {"awaits", "asset", "reference", "references", "of"}
       /\ cmsReceipt = 0 /\ assessing.of \in Nat
       /\ assessing.awaits \in {"derivation", "execution", "receipt"}
       /\ assessing.awaits = "derivation" => assessing.reference # NoFileYet
       /\ assessing.awaits # "receipt" => result = 0
       /\ assessing.awaits = "execution" => {assessing.reference} \ {NoFileYet} \subseteq assessing.references
       /\ assessing.awaits = "receipt" => result \in {0, assessing.of}
  /\ IsSequence(assessed)
  /\ \A n \in DOMAIN assessed : assessed[n].licensed \subseteq assessed[n].references

-----------------------------------------------------------------------------
(* Sequences *)

(* Facts about sequences of which only this is known.                        *)
LEMMA PlacesOf ==
  ASSUME NEW s, IsSequence(s)
  PROVE  /\ Len(s) \in Nat /\ DOMAIN s = 1 .. Len(s)
         /\ s = <<>> <=> Len(s) = 0
BY DEF IsSequence

(* The empty sequence is the empty function.                                 *)
LEMMA EmptySequence == IsSequence(<<>>) /\ DOMAIN <<>> = {}
<1>1. <<>> \in Seq({})
  OBVIOUS
<1> QED
  BY <1>1 DEF IsSequence

(* A sequence with one element more.                                         *)
LEMMA AppendSequence ==
  ASSUME NEW s, IsSequence(s), NEW e
  PROVE  /\ IsSequence(Append(s, e))
         /\ Len(Append(s, e)) = Len(s) + 1 /\ DOMAIN Append(s, e) = 1 .. Len(s) + 1
         /\ \A k \in 1 .. Len(s) : Append(s, e)[k] = s[k]
         /\ Append(s, e)[Len(s) + 1] = e
<1>1. PICK S : s \in Seq(S)
  BY DEF IsSequence
<1>2. s \in Seq(S \cup {e})
  BY <1>1
<1>3. Append(s, e) \in Seq(S \cup {e})
  BY <1>2
<1> QED
  BY <1>2, <1>3 DEF IsSequence

(* A function on the places of a sequence is one.                            *)
LEMMA MapSequence ==
  ASSUME NEW s, IsSequence(s), NEW t, DOMAIN t = DOMAIN s, t = [i \in DOMAIN s |-> t[i]]
  PROVE  IsSequence(t) /\ Len(t) = Len(s)
<1>1. Len(s) \in Nat /\ DOMAIN t = 1 .. Len(s)
  BY PlacesOf
<1> DEFINE S == {t[i] : i \in DOMAIN s}
<1>2. t \in [1 .. Len(s) -> S]
  BY <1>1, PlacesOf
<1>3. t \in Seq(S)
  BY <1>1, <1>2
<1>4. Len(t) = Len(s)
  BY <1>1, <1>2, <1>3
<1> QED
  BY <1>3, <1>4 DEF IsSequence

(* A sequence with two elements more.                                        *)
LEMMA TwoMore ==
  ASSUME NEW S, NEW s \in Seq(S), NEW a \in S, NEW b \in S
  PROVE  LET t == s \o <<a, b>>
         IN  /\ IsSequence(t) /\ t # <<>> /\ DOMAIN t = 1 .. Len(s) + 2
             /\ \A k \in 1 .. Len(s) : t[k] = s[k]
             /\ t[Len(s) + 1] = a /\ t[Len(s) + 2] = b
<1> DEFINE two == <<a, b>>
           t == s \o two
           n == Len(s)
<1>1. two \in Seq(S) /\ Len(two) = 2 /\ two[1] = a /\ two[2] = b
  OBVIOUS
<1>2. n \in Nat
  OBVIOUS
<1> HIDE DEF two
<1>3. /\ t \in Seq(S) /\ Len(t) = n + Len(two)
      /\ \A i \in 1 .. n + Len(two) : t[i] = IF i <= n THEN s[i] ELSE two[i - n]
  BY <1>1, ConcatProperties, Zenon
<1> HIDE DEF t, n
<1>4. DOMAIN t = 1 .. n + 2 /\ Len(t) = n + 2
  BY <1>1, <1>3
<1>5. t[n + 1] = a /\ t[n + 2] = b
  <2>1. /\ n + 1 \in 1 .. n + 2 /\ n + 2 \in 1 .. n + 2 /\ ~(n + 1 <= n) /\ ~(n + 2 <= n)
        /\ n + 1 - n = 1 /\ n + 2 - n = 2
    BY <1>2
  <2>2. n + 1 \in 1 .. n + Len(two) /\ n + 2 \in 1 .. n + Len(two)
    BY <1>1, <2>1
  <2> DEFINE one == n + 1
             other == n + 2
  <2>3. /\ one \in 1 .. n + Len(two) /\ ~(one <= n) /\ one - n = 1
        /\ other \in 1 .. n + Len(two) /\ ~(other <= n) /\ other - n = 2
    BY <1>1, <1>2, <2>2
  <2> HIDE DEF one, other
  <2>4. t[one] = two[1] /\ t[other] = two[2]
    BY <1>3, <2>3
  <2> QED
    BY <1>1, <2>4 DEF one, other
<1>6. \A k \in 1 .. n : t[k] = s[k]
  BY <1>1, <1>2, <1>3
<1>7. IsSequence(t) /\ t # <<>>
  BY <1>2, <1>3, <1>4, PlacesOf DEF IsSequence
<1> QED
  BY <1>4, <1>5, <1>6, <1>7 DEF t, n, two

(* A sequence without its first element.                                     *)
LEMMA TailSequence ==
  ASSUME NEW s, IsSequence(s), s # <<>>
  PROVE  /\ Head(s) = s[1] /\ 1 \in DOMAIN s
         /\ IsSequence(Tail(s)) /\ Len(Tail(s)) = Len(s) - 1
         /\ DOMAIN Tail(s) = 1 .. Len(s) - 1
         /\ \A i \in DOMAIN Tail(s) : i + 1 \in DOMAIN s /\ Tail(s)[i] = s[i + 1]
<1>1. PICK S : s \in Seq(S)
  BY DEF IsSequence
<1>2. Tail(s) \in Seq(S) /\ Head(s) = s[1]
  BY <1>1
<1>3. Len(s) \in Nat /\ Len(s) # 0 /\ DOMAIN s = 1 .. Len(s)
  BY PlacesOf
<1>4. /\ Len(Tail(s)) = Len(s) - 1 /\ Len(s) - 1 \in Nat
      /\ \A i \in 1 .. Len(s) - 1 : Tail(s)[i] = s[i + 1]
  BY <1>1, <1>3
<1>5. DOMAIN Tail(s) = 1 .. Len(s) - 1
  BY <1>2, <1>4
<1>6. 1 \in DOMAIN s /\ \A i \in 1 .. Len(s) - 1 : i + 1 \in DOMAIN s
  BY <1>3
<1> QED
  BY <1>2, <1>4, <1>5, <1>6 DEF IsSequence

-----------------------------------------------------------------------------
(* RightsGate *)

(* The page of RightsGate opens right.                                       *)
LEMMA IntakeStarts == IntakeInit => IntakeInv
<1> SUFFICES ASSUME IntakeInit
             PROVE  IntakeInv
  OBVIOUS
<1>1. DOMAIN assessed = {} /\ IsSequence(assessed)
  BY EmptySequence DEF IntakeInit
<1> QED
  BY <1>1 DEF IntakeInit, IntakeInv

(* Every handler of RightsGateApp.tsx, and every answer, keeps it right.     *)
LEMMA IntakeStep ==
  ASSUME IntakeInv, [IntakeNext]_IntakeVars
  PROVE  IntakeInv'
<1> USE DEF IntakeInv
<1>1. CASE choose
  BY <1>1 DEF choose
<1>2. CASE assess
  BY <1>2 DEF assess, NotAssessing
<1>3. CASE deriveReference
  <2> DEFINE next == [assessing EXCEPT !.awaits = "execution", !.references = {assessing.reference}]
  <2>1. assessing # NotAssessing /\ assessing' = next /\ assessing.awaits = "derivation"
    BY <1>3 DEF deriveReference, NotAssessing
  <2>2. /\ DOMAIN next = DOMAIN assessing /\ next.awaits = "execution"
        /\ next.references = {assessing.reference} /\ next.reference = assessing.reference
    BY <2>1
  <2> HIDE DEF next
  <2>3. assessing' # NotAssessing
    BY <2>1, <2>2 DEF NotAssessing
  <2> QED
    BY <1>3, <2>1, <2>2, <2>3 DEF deriveReference
<1>4. CASE executeRightsGate
  <2>1. assessing # NotAssessing /\ assessing.awaits = "execution"
    BY <1>4 DEF executeRightsGate, NotAssessing
  <2> PICK licenceEnabled \in BOOLEAN :
         assessed' = Append(assessed,
          [asset |-> assessing.asset, references |-> assessing.references,
           licensed |-> IF licenceEnabled THEN {assessing.reference} \ {NoFileYet} ELSE {}])
    BY <1>4 DEF executeRightsGate
  <2> DEFINE licensed == IF licenceEnabled THEN {assessing.reference} \ {NoFileYet} ELSE {}
             new == [asset |-> assessing.asset, references |-> assessing.references,
                     licensed |-> licensed]
  <2>2. new.licensed \subseteq new.references
    BY <2>1
  <2>3. assessed' = Append(assessed, new)
    OBVIOUS
  <2> HIDE DEF new
  <2>4. /\ IsSequence(assessed') /\ Len(assessed') \in Nat
        /\ \A n \in DOMAIN assessed' : \/ n \in DOMAIN assessed /\ assessed'[n] = assessed[n]
                                      \/ assessed'[n] = new
    BY <2>3, AppendSequence, PlacesOf
  <2> DEFINE next == [assessing EXCEPT !.awaits = "receipt", !.of = Len(assessed')]
  <2>5. result' = Len(assessed') /\ assessing' = next /\ UNCHANGED <<cmsReceipt, busy>>
    BY <1>4 DEF executeRightsGate
  <2>6. DOMAIN next = DOMAIN assessing /\ next.awaits = "receipt" /\ next.of = result'
    BY <2>1, <2>5
  <2> HIDE DEF next
  <2>7. assessing' # NotAssessing
    BY <2>5, <2>6 DEF NotAssessing
  <2>8. \A n \in DOMAIN assessed' : assessed'[n].licensed \subseteq assessed'[n].references
    BY <2>2, <2>4
  <2> QED
    BY <2>1, <2>4, <2>5, <2>6, <2>7, <2>8
<1>5. CASE createCmsDecision
  <2>1. assessing # NotAssessing /\ assessing.awaits = "receipt"
    BY <1>5 DEF createCmsDecision, NotAssessing
  <2>2. /\ cmsReceipt' = assessing.of /\ assessing' = NotAssessing /\ busy' = FALSE
        /\ UNCHANGED <<result, assessed>>
    BY <1>5 DEF createCmsDecision
  <2>3. assessing.of \in Nat /\ (result # 0 => result = assessing.of)
    BY <2>1
  <2> QED
    BY <2>2, <2>3
<1>6. CASE failAssessing
  BY <1>6 DEF failAssessing
<1>7. CASE reset
  BY <1>7 DEF reset
<1>8. CASE openPrivacy
  BY <1>8 DEF openPrivacy
<1>9. CASE UNCHANGED IntakeVars
  BY <1>9 DEF IntakeVars
<1> QED
  BY <1>1, <1>2, <1>3, <1>4, <1>5, <1>6, <1>7, <1>8, <1>9 DEF IntakeNext

(* What is right of the page says that a receipt is of its result.           *)
LEMMA ReceiptFits == IntakeInv => ReceiptIsOfResult
BY DEF IntakeInv, ReceiptIsOfResult

-----------------------------------------------------------------------------
(* What the page and a handler rest on when little changes *)

SamePage ==
  /\ DOMAIN view' = DOMAIN view
  /\ view'.job = view.job /\ view'.transformed = view.transformed
  /\ view'.entities = view.entities /\ view'.graph = view.graph /\ view'.level = view.level
  /\ view'.certificate = view.certificate /\ view'.verification = view.verification

SameBackend == workspaces' = workspaces /\ artifacts' = artifacts

(* A step that changes neither the page's content nor the backend.           *)
LEMMA PageStays ==
  ASSUME PageHolds, SamePage, SameBackend
  PROVE  PageHolds'
BY DEF PageHolds, SamePage, SameBackend, Current, IsActive

(* The same for a handler that waits.                                        *)
LEMMA PromiseStays ==
  ASSUME NEW p, PromiseHolds(p), SamePage, SameBackend
  PROVE  PromiseHolds(p)'
<1>1. Formed(p)'
  BY DEF PromiseHolds, Formed, SamePage, SameBackend
<1>2. AnswersHold(p)'
  BY DEF PromiseHolds, AnswersHold, SamePage, SameBackend, IsActive
<1>3. ReviewsPending(p)'
  BY DEF PromiseHolds, ReviewsPending, SamePage, SameBackend
<1>4. Follows(p)'
  BY DEF PromiseHolds, Follows, Current, SamePage, SameBackend
<1> QED
  BY <1>1, <1>2, <1>3, <1>4 DEF PromiseHolds, InOrder

(* The same for the backend.                                                 *)
LEMMA BackendStays ==
  ASSUME BackendHolds, SameBackend
  PROVE  BackendHolds' /\ (DecisionsHold => DecisionsHold')
BY DEF BackendHolds, DecisionsHold, IsActive, SameBackend

(* A page on which only a dialog or a message changes.                       *)
LEMMA DialogStep ==
  ASSUME CInv, SamePage, SameBackend, view'.busy = view.busy,
         UNCHANGED <<promises, aside>>
  PROVE  CInv'
<1>1. BackendHolds' /\ (DecisionsHold => DecisionsHold')
  BY BackendStays DEF CInv
<1>2. aside = 0 => PageHolds'
  BY PageStays DEF CInv
<1>3. aside = 0 /\ promises[1] # NoPromise => PromiseHolds(promises[1])'
  <2> SUFFICES ASSUME aside = 0, promises[1] # NoPromise
               PROVE  PromiseHolds(promises[1])'
    OBVIOUS
  <2> PICK p : p = promises[1]
    OBVIOUS
  <2>1. PromiseHolds(p)'
    BY PromiseStays DEF CInv
  <2>2. p = promises'[1]
    OBVIOUS
  <2> QED
    BY <2>1, <2>2
<1> QED
  BY <1>1, <1>2, <1>3 DEF CInv

(* Erasure leaves jobs without decisions and outputs where they were.        *)
LEMMA Erasure ==
  ASSUME BackendHolds, NEW jobs, Erase(jobs)
  PROVE  /\ BackendHolds'
         /\ Len(workspaces') = Len(workspaces) /\ DOMAIN workspaces' = DOMAIN workspaces
         /\ Len(artifacts') = Len(artifacts) /\ DOMAIN artifacts' = DOMAIN artifacts
         /\ \A j \in DOMAIN workspaces :
              /\ j \in jobs => workspaces'[j].status = "DESTROYED" /\ workspaces'[j].decided = <<>>
              /\ j \notin jobs => workspaces'[j] = workspaces[j]
         /\ \A a \in DOMAIN artifacts :
              /\ artifacts'[a].job = artifacts[a].job /\ artifacts'[a].level = artifacts[a].level
              /\ artifacts[a].job \in jobs => artifacts'[a].decided = <<>>
              /\ artifacts[a].job \notin jobs => artifacts'[a].decided = artifacts[a].decided
<1>1. /\ DOMAIN workspaces' = DOMAIN workspaces
      /\ \A j \in DOMAIN workspaces :
           workspaces'[j] = IF j \in jobs THEN [status |-> "DESTROYED", decided |-> <<>>]
                            ELSE workspaces[j]
      /\ workspaces' = [j \in DOMAIN workspaces |-> workspaces'[j]]
  BY DEF Erase
<1>2. /\ DOMAIN artifacts' = DOMAIN artifacts
      /\ \A a \in DOMAIN artifacts :
           artifacts'[a] = IF artifacts[a].job \in jobs
                           THEN [artifacts[a] EXCEPT !.status = "DESTROYED", !.decided = <<>>]
                           ELSE artifacts[a]
      /\ artifacts' = [a \in DOMAIN artifacts |-> artifacts'[a]]
  BY DEF Erase
<1>3. IsSequence(workspaces') /\ Len(workspaces') = Len(workspaces)
  BY <1>1, MapSequence DEF BackendHolds
<1>4. IsSequence(artifacts') /\ Len(artifacts') = Len(artifacts)
  BY <1>2, MapSequence DEF BackendHolds
<1>5. ASSUME NEW j \in DOMAIN workspaces
      PROVE  /\ DOMAIN workspaces'[j] = {"status", "decided"}
             /\ j \in jobs => workspaces'[j].status = "DESTROYED" /\ workspaces'[j].decided = <<>>
             /\ j \notin jobs => workspaces'[j] = workspaces[j]
  BY <1>1 DEF BackendHolds
<1>6. ASSUME NEW a \in DOMAIN artifacts
      PROVE  /\ DOMAIN artifacts'[a] = {"job", "level", "decided", "status"}
             /\ artifacts'[a].job = artifacts[a].job /\ artifacts'[a].level = artifacts[a].level
             /\ artifacts[a].job \in jobs => artifacts'[a].decided = <<>>
             /\ artifacts[a].job \notin jobs => artifacts'[a].decided = artifacts[a].decided
  BY <1>2 DEF BackendHolds
<1> QED
  BY <1>1, <1>2, <1>3, <1>4, <1>5, <1>6 DEF BackendHolds

(* Erasure keeps what the page rests on: a job's decisions and those of its  *)
(* outputs go together.                                                      *)
LEMMA ErasureKeepsPage ==
  ASSUME BackendHolds, DecisionsHold, PageHolds, NEW jobs, Erase(jobs), SamePage
  PROVE  PageHolds' /\ DecisionsHold'
<1>1. DecisionsHold'
  BY Erasure DEF DecisionsHold, IsActive
<1>0. /\ view.job # 0 => view.job \in DOMAIN workspaces
      /\ view.transformed # 0 => view.transformed \in DOMAIN artifacts
  BY PlacesOf DEF PageHolds, BackendHolds
<1>2. ASSUME view'.job # 0, workspaces'[view'.job].status = "ACTIVE"
      PROVE  /\ DOMAIN view'.entities = Findings
             /\ \A f \in Findings :
                  view'.entities[f] \in {"PENDING", workspaces'[view'.job].decided[f]}
  <2>1. view'.job = view.job /\ view'.entities = view.entities /\ view.job \in DOMAIN workspaces
    BY <1>0, <1>2 DEF SamePage
  <2>2. view.job \notin jobs /\ workspaces'[view.job] = workspaces[view.job]
    BY <1>2, <2>1, Erasure
  <2> QED
    BY <1>2, <2>1, <2>2 DEF PageHolds, IsActive
<1>3. Current' => Current
  BY <1>0, Erasure DEF SamePage, Current
<1>4. Current => Current'
  BY <1>0, Erasure DEF SamePage, Current
<1>5. Current' =>
       /\ artifacts'[view'.transformed].level = view'.level
       /\ artifacts'[view'.transformed].decided = workspaces'[view'.job].decided
       /\ Undecided(view'.entities) = {}
  BY <1>0, <1>3, Erasure DEF PageHolds, SamePage, Current
<1>6. view'.transformed # 0 => artifacts'[view'.transformed].job \in 1 .. Len(workspaces')
  BY <1>0, Erasure DEF PageHolds, SamePage
<1> QED
  BY <1>1, <1>2, <1>4, <1>5, <1>6, Erasure DEF PageHolds, SamePage, IsActive

(* Erasure keeps what a waiting handler holds.                               *)
LEMMA ErasureKeepsPromise ==
  ASSUME BackendHolds, DecisionsHold, PageHolds, NEW jobs, Erase(jobs), SamePage,
         NEW p, PromiseHolds(p)
  PROVE  PromiseHolds(p)'
<1>0. /\ view.job # 0 => view.job \in DOMAIN workspaces
      /\ view.transformed # 0 => view.transformed \in DOMAIN artifacts
      /\ p.job # 0 => p.job \in DOMAIN workspaces
  BY PlacesOf DEF PageHolds, BackendHolds, PromiseHolds, Formed
<1>1. Formed(p)'
  BY Erasure DEF PromiseHolds, Formed
<1>2. AnswersHold(p)'
  <2>1. \A f : HasGot(p, f) => p.job \in DOMAIN workspaces
    BY <1>0, EmptySequence DEF PromiseHolds, InOrder, HasGot
  <2>2. HasGot(p, "entities") =>
          /\ DOMAIN p.got["entities"] \subseteq Findings
          /\ IsActive(p.job)' => p.got["entities"] = workspaces'[p.job].decided
    BY <2>1, Erasure DEF PromiseHolds, AnswersHold, IsActive
  <2>3. HasGot(p, "transformed") =>
          /\ p.got["transformed"] \in DOMAIN artifacts'
          /\ artifacts'[p.got["transformed"]].job = p.job
          /\ artifacts'[p.got["transformed"]].level = p.level
          /\ artifacts'[p.got["transformed"]].decided = workspaces'[p.job].decided
    BY <2>1, Erasure DEF PromiseHolds, AnswersHold
  <2>4. HasGot(p, "verification") => p.output \in DOMAIN artifacts
    BY DEF PromiseHolds, Formed, Follows, HasGot, Answers, Kinds
  <2> QED
    BY <2>2, <2>3, <2>4, Erasure DEF PromiseHolds, AnswersHold
<1>3. ReviewsPending(p)'
  BY DEF PromiseHolds, ReviewsPending, SamePage
<1>4. Follows(p)'
  <2>1. Current' => Current
    BY <1>0, Erasure DEF SamePage, Current
  <2> QED
    BY <1>0, <2>1, Erasure DEF PromiseHolds, Follows, SamePage
<1> QED
  BY <1>1, <1>2, <1>3, <1>4 DEF PromiseHolds, InOrder

(* A page without a job and without an output shows nothing that could be    *)
(* wrong.                                                                    *)
ShowsNothing(page) ==
  /\ DOMAIN page = DOMAIN NewPage
  /\ page.job = 0 /\ page.transformed = 0 /\ DOMAIN page.entities \subseteq Findings

(* A page that shows nothing is right.                                       *)
LEMMA EmptyPage ==
  ASSUME ShowsNothing(view)', BackendHolds'
  PROVE  PageHolds'
<1>1. Len(workspaces') \in Nat /\ Len(artifacts') \in Nat
  BY PlacesOf DEF BackendHolds
<1> QED
  BY <1>1 DEF PageHolds, ShowsNothing, Current

(* A handler whose page has gone still is what it was.                       *)
LEMMA PromiseOnEmptyPage ==
  ASSUME NEW p, PromiseHolds(p), SameBackend, ShowsNothing(view)'
  PROVE  PromiseHolds(p)'
<1>1. Formed(p)' /\ AnswersHold(p)'
  BY DEF PromiseHolds, Formed, AnswersHold, SameBackend, IsActive
<1>2. ReviewsPending(p)' /\ Follows(p)'
  BY DEF PromiseHolds, ReviewsPending, Follows, ShowsNothing, SameBackend
<1> QED
  BY <1>1, <1>2 DEF PromiseHolds, InOrder

(* A new page shows nothing and is not busy.                                 *)
LEMMA NewPageIsEmpty == ShowsNothing(NewPage) /\ NewPage.busy = FALSE
BY EmptySequence DEF ShowsNothing, NewPage

(* The page's own transitions, and a job that expires.                       *)
LEMMA OwnSteps ==
  ASSUME CInv,
         \/ askBulkProtect \/ cancelBulkProtect
         \/ pollLifecycle \/ startNewRelease \/ Leave
         \/ \E j \in DOMAIN workspaces : Expire(j)
  PROVE  CInv'
<1>1. CASE \E confirm \in BOOLEAN :
             /\ view' = [view EXCEPT !.confirm = confirm] \/ view' = [view EXCEPT !.destruction = TRUE]
             /\ UNCHANGED <<promises, workspaces, artifacts, aside>>
  <2>1. SameBackend /\ UNCHANGED <<promises, aside>>
    BY <1>1 DEF SameBackend
  <2>2. aside = 0 => SamePage /\ view'.busy = view.busy
    BY <1>1 DEF CInv, SamePage, PageHolds, NewPage
  <2>3. CASE aside = 0
    BY <2>1, <2>2, <2>3, DialogStep
  <2>4. CASE aside # 0
    BY <2>1, <2>4, BackendStays DEF CInv
  <2> QED
    BY <2>3, <2>4
<1>2. CASE startNewRelease
  <2> DEFINE page == [NewPage EXCEPT !.busy = view.busy, !.confirm = view.confirm,
                                     !.level = view.level]
  <2>1. ShowsNothing(page) /\ page.busy = view.busy
    BY EmptySequence DEF ShowsNothing, NewPage
  <2>2. view' = page /\ SameBackend /\ UNCHANGED <<promises, aside>>
    BY <1>2 DEF startNewRelease, SameBackend
  <2> HIDE DEF page
  <2>3. ShowsNothing(view)' /\ view'.busy = view.busy
    BY <2>1, <2>2 DEF ShowsNothing
  <2>4. BackendHolds' /\ (DecisionsHold => DecisionsHold')
    BY <2>2, BackendStays DEF CInv
  <2>5. PageHolds'
    BY <2>3, <2>4, EmptyPage
  <2>6. ASSUME NEW p, PromiseHolds(p)
        PROVE  PromiseHolds(p)'
    BY <2>2, <2>3, <2>6, PromiseOnEmptyPage
  <2>7. aside = 0 /\ promises[1] # NoPromise => PromiseHolds(promises[1])'
    <3> PICK p : p = promises[1]
      OBVIOUS
    <3>1. p = promises'[1]
      BY <2>2
    <3> QED
      BY <2>6, <3>1 DEF CInv
  <2> QED
    BY <2>2, <2>3, <2>4, <2>5, <2>7 DEF CInv
<1>3. CASE Leave
  <2>1. /\ view' = NewPage /\ promises' = [s \in Slots |-> NoPromise] /\ aside' = 0
        /\ Erase(DOMAIN workspaces)
    BY <1>3 DEF Leave
  <2>2. BackendHolds' /\ DecisionsHold'
    <3>1. BackendHolds'
      BY <2>1, Erasure DEF CInv
    <3>2. \A j \in DOMAIN workspaces' :
             workspaces'[j].status = "DESTROYED" /\ workspaces'[j].decided = <<>>
      BY <2>1, Erasure DEF CInv
    <3> QED
      BY <3>1, <3>2 DEF DecisionsHold, IsActive
  <2>3. ShowsNothing(view)' /\ view'.busy = FALSE
    BY <2>1, NewPageIsEmpty DEF ShowsNothing
  <2>4. PageHolds'
    BY <2>2, <2>3, EmptyPage
  <2>5. DOMAIN promises' = Slots /\ promises'[1] = NoPromise /\ promises'[2] = NoPromise
    BY <2>1 DEF Slots
  <2>6. (view.busy = (promises[1] # NoPromise))'
    BY <2>3, <2>5
  <2> QED
    BY <2>1, <2>2, <2>4, <2>5, <2>6 DEF CInv
<1>4. CASE \E j \in DOMAIN workspaces : Expire(j)
  <2> PICK j \in DOMAIN workspaces : Expire(j)
    BY <1>4
  <2>1. Erase({j}) /\ UNCHANGED <<view, promises, aside>>
    BY DEF Expire
  <2>2. SamePage
    BY <2>1 DEF SamePage
  <2>3. BackendHolds'
    BY <2>1, Erasure DEF CInv
  <2>4. aside = 0 => PageHolds' /\ DecisionsHold'
    BY <2>1, <2>2, ErasureKeepsPage DEF CInv
  <2>5. aside = 0 /\ promises[1] # NoPromise => PromiseHolds(promises[1])'
    <3> PICK p : p = promises[1]
      OBVIOUS
    <3>1. p = promises'[1]
      BY <2>1
    <3>2. aside = 0 /\ p # NoPromise => PromiseHolds(p)'
      BY <2>1, <2>2, ErasureKeepsPromise DEF CInv
    <3> QED
      BY <3>1, <3>2
  <2> QED
    BY <2>1, <2>3, <2>4, <2>5 DEF CInv
<1>5. askBulkProtect \/ cancelBulkProtect \/ pollLifecycle =>
        \E confirm, destruction \in BOOLEAN :
             /\ view' = [view EXCEPT !.confirm = confirm] \/ view' = [view EXCEPT !.destruction = TRUE]
             /\ UNCHANGED <<promises, workspaces, artifacts, aside>>
  BY DEF askBulkProtect, cancelBulkProtect, pollLifecycle
<1> QED
  BY <1>1, <1>2, <1>3, <1>4, <1>5

-----------------------------------------------------------------------------
(* Handlers begin *)

(* A handler that begins alone, on a page that is right, may count on it; one *)
(* that begins beside another is counted aside.                              *)
LEMMA Begins ==
  ASSUME CInv, NEW promise, execute(promise), aside' \in Nat,
         aside # 0 => aside' # 0,
         aside' = 0 => ~view.busy,
         aside = 0 /\ ~view.busy => PromiseHolds(promise)
  PROVE  CInv'
<1>1. SameBackend /\ view' = [view EXCEPT !.busy = TRUE] /\ DOMAIN promises' = Slots
  BY DEF execute, SameBackend, CInv
<1>2. BackendHolds' /\ (DecisionsHold => DecisionsHold')
  BY <1>1, BackendStays DEF CInv
<1>3. CASE aside' # 0
  BY <1>1, <1>2, <1>3 DEF CInv
<1>4. CASE aside' = 0
  <2>1. aside = 0 /\ ~view.busy /\ PromiseHolds(promise)
    BY <1>4
  <2>2. SamePage /\ view'.busy = TRUE
    BY <1>1, <2>1 DEF CInv, SamePage, PageHolds, NewPage
  <2>3. promises[1] = NoPromise /\ promises[2] = NoPromise
    BY <2>1 DEF CInv
  <2>4. PICK s \in Slots :
          /\ \A t \in 1 .. s - 1 : promises[t] # NoPromise
          /\ promises' = [promises EXCEPT ![s] = promise]
    BY DEF execute
  <2>5. s = 1
    <3>1. CASE s = 2
      <4>1. 1 \in 1 .. s - 1
        BY <3>1
      <4> QED
        BY <2>3, <2>4, <4>1
    <3> QED
      BY <3>1 DEF Slots
  <2>6. promises'[1] = promise /\ promises'[2] = NoPromise
    BY <2>3, <2>4, <2>5 DEF CInv, Slots
  <2>7. promise # NoPromise
    <3>1. DOMAIN promise # DOMAIN NoPromise
      BY <2>1 DEF PromiseHolds, Formed, NoPromise
    <3> QED
      BY <3>1
  <2>8. PromiseHolds(promise)'
    BY <1>1, <2>1, <2>2, PromiseStays
  <2>9. PageHolds' /\ DecisionsHold'
    BY <1>1, <1>2, <2>1, <2>2, PageStays DEF CInv
  <2>10. (view.busy = (promises[1] # NoPromise))'
    BY <2>2, <2>6, <2>7
  <2> QED
    BY <1>1, <1>2, <1>4, <2>6, <2>8, <2>9, <2>10 DEF CInv
<1> QED
  BY <1>3, <1>4

(* The same for a handler that is begun by the button of an idle page.       *)
LEMMA Awaited ==
  ASSUME CInv, NEW promise, Await(promise), ~view.busy,
         aside = 0 => PromiseHolds(promise)
  PROVE  CInv'
<1>1. aside' \in Nat /\ (aside # 0 => aside' # 0)
  BY DEF Await, Count, CInv
<1> QED
  BY <1>1, Begins DEF Await

(* A handler that makes one set of calls.                                    *)
LEMMA OneSet ==
  ASSUME NEW p, NEW f, BackendHolds, PageHolds,
         DOMAIN p = {"does", "todo", "got", "job", "level", "output"},
         p.does \in {"level", "transform", "destroy"}, Answers(p.does) = {f},
         p.todo = <<{<<f>>}>>, p.got = <<>>,
         p.job = view.job, view.job # 0, Follows(p), f \notin {"job", "verification", "review"}
  PROVE  PromiseHolds(p)
<1>1. DOMAIN p.got = {}
  BY EmptySequence
<1>2. IsSequence(p.todo) /\ p.todo # <<>> /\ DOMAIN p.todo = {1}
  <2> DEFINE asked == {<<f>>}
  <2> HIDE DEF asked
  <2>1. <<asked>> \in Seq({asked}) /\ DOMAIN <<asked>> = {1} /\ <<asked>> # <<>>
    OBVIOUS
  <2> QED
    BY <2>1 DEF IsSequence, asked
<1>3. p.todo[1] = {<<f>>} /\ <<f>>[1] = f
  OBVIOUS
<1>4. \A i \in DOMAIN p.todo : \A c \in p.todo[i] : i = 1 /\ c[1] = f
  BY <1>2, <1>3
<1>5. Asks(p, f)
  BY <1>2, <1>3 DEF Asks
<1>6. \A g : Asks(p, g) => g = f
  BY <1>4 DEF Asks
<1>7. Formed(p)
  BY <1>1, <1>2, <1>4, <1>5 DEF Formed, Kinds, PageHolds
<1>8. InOrder(p)
  BY <1>1, <1>4, <1>6 DEF InOrder, HasGot
<1> QED
  BY <1>1, <1>4, <1>7, <1>8 DEF PromiseHolds, AnswersHold, ReviewsPending, HasGot

(* What a handler has when it begins.                                        *)
LEMMA PromiseFields ==
  ASSUME NEW does, NEW todo
  PROVE  /\ DOMAIN Promise(does, todo) = {"does", "todo", "got", "job", "level", "output"}
         /\ Promise(does, todo).does = does /\ Promise(does, todo).todo = todo
         /\ Promise(does, todo).got = <<>> /\ Promise(does, todo).job = view.job
         /\ Promise(does, todo).level = view.level
         /\ Promise(does, todo).output = view.transformed
BY DEF Promise

(* A level is chosen, an output made, a job destroyed.                       *)
LEMMA SmallBeginnings ==
  ASSUME CInv, selectLevel \/ transform \/ destroy
  PROVE  CInv'
<1>1. CASE selectLevel
  <2> PICK level \in LevelChoices :
         Await([Promise("level", <<{<<"graph">>}>>) EXCEPT !.level = level])
    BY <1>1 DEF selectLevel
  <2> DEFINE p == [Promise("level", <<{<<"graph">>}>>) EXCEPT !.level = level]
  <2>1. /\ DOMAIN p = {"does", "todo", "got", "job", "level", "output"}
        /\ p.does = "level" /\ p.todo = <<{<<"graph">>}>> /\ p.got = <<>> /\ p.job = view.job
    BY PromiseFields
  <2>2. ~view.busy /\ view.job # 0
    BY <1>1 DEF selectLevel, Workspace
  <2>3. Await(p)
    OBVIOUS
  <2> HIDE DEF p
  <2>4. Answers(p.does) = {"graph"} /\ Follows(p)
    BY <2>1, <2>2 DEF Answers, Follows
  <2>5. aside = 0 => PromiseHolds(p)
    BY <2>1, <2>2, <2>4, OneSet DEF CInv
  <2> QED
    BY <2>2, <2>3, <2>5, Awaited
<1>2. CASE transform
  <2> DEFINE p == Promise("transform", <<{<<"transformed">>}>>)
  <2>1. /\ DOMAIN p = {"does", "todo", "got", "job", "level", "output"}
        /\ p.does = "transform" /\ p.todo = <<{<<"transformed">>}>> /\ p.got = <<>>
        /\ p.job = view.job /\ p.level = view.level
    BY PromiseFields
  <2>2. ~view.busy /\ view.job # 0 /\ Undecided(view.entities) = {} /\ Await(p)
    BY <1>2 DEF transform, CanApply, Workspace
  <2> HIDE DEF p
  <2>4. Answers(p.does) = {"transformed"} /\ Follows(p)
    BY <2>1, <2>2 DEF Answers, Follows
  <2>5. aside = 0 => PromiseHolds(p)
    BY <2>1, <2>2, <2>4, OneSet DEF CInv
  <2> QED
    BY <2>2, <2>5, Awaited
<1>3. CASE destroy
  <2> DEFINE p == Promise("destroy", <<{<<"destruction">>}>>)
  <2>1. /\ DOMAIN p = {"does", "todo", "got", "job", "level", "output"}
        /\ p.does = "destroy" /\ p.todo = <<{<<"destruction">>}>> /\ p.got = <<>>
        /\ p.job = view.job /\ p.level = view.level
    BY PromiseFields
  <2>2. ~view.busy /\ view.job # 0 /\ Await(p)
    BY <1>3 DEF destroy, Workspace
  <2> HIDE DEF p
  <2>4. Answers(p.does) = {"destruction"} /\ Follows(p)
    BY <2>1, <2>2 DEF Answers, Follows
  <2>5. aside = 0 => PromiseHolds(p)
    BY <2>1, <2>2, <2>4, OneSet DEF CInv
  <2> QED
    BY <2>2, <2>5, Awaited
<1> QED
  BY <1>1, <1>2, <1>3

(* A verification and the certificate after it.                              *)
LEMMA VerifyBegins ==
  ASSUME CInv, verify
  PROVE  CInv'
<1> DEFINE A == {<<"verification">>}
           B == {<<"certificate">>, <<"audit">>}
           p == Promise("verify", <<A, B>>)
<1>1. /\ DOMAIN p = {"does", "todo", "got", "job", "level", "output"}
      /\ p.does = "verify" /\ p.todo = <<A, B>> /\ p.got = <<>>
      /\ p.job = view.job /\ p.level = view.level /\ p.output = view.transformed
  BY PromiseFields
<1>2. ~view.busy /\ view.job # 0 /\ view.transformed # 0 /\ Await(p)
  BY DEF verify, Workspace
<1>3. /\ \A c \in A : c[1] = "verification"
      /\ \A c \in B : c[1] \in {"certificate", "audit"}
      /\ <<"verification">> \in A /\ <<"certificate">> \in B /\ <<"audit">> \in B
      /\ <<"verification">>[1] = "verification"
      /\ <<"certificate">>[1] = "certificate" /\ <<"audit">>[1] = "audit"
  OBVIOUS
<1> HIDE DEF p, A, B
<1>4. /\ IsSequence(p.todo) /\ p.todo # <<>> /\ DOMAIN p.todo = {1, 2}
      /\ p.todo[1] = A /\ p.todo[2] = B
  <2>1. <<A, B>> \in Seq({A, B}) /\ <<A, B>> # <<>> /\ DOMAIN <<A, B>> = {1, 2}
    OBVIOUS
  <2>2. <<A, B>>[1] = A /\ <<A, B>>[2] = B
    OBVIOUS
  <2> QED
    BY <1>1, <2>1, <2>2 DEF IsSequence
<1>5. \A i \in DOMAIN p.todo : \A c \in p.todo[i] :
        \/ i = 1 /\ c[1] = "verification"
        \/ i = 2 /\ c[1] \in {"certificate", "audit"}
  BY <1>3, <1>4
<1>6. Asks(p, "verification") /\ Asks(p, "certificate") /\ Asks(p, "audit")
  BY <1>3, <1>4 DEF Asks
<1>7. \A f : Asks(p, f) => f \in {"verification", "certificate", "audit"}
  BY <1>5 DEF Asks
<1>8. DOMAIN p.got = {} /\ Answers(p.does) = {"verification", "certificate", "audit"}
  BY <1>1, EmptySequence DEF Answers
<1>9. ASSUME aside = 0
      PROVE  PromiseHolds(p)
  <2>1. PageHolds /\ BackendHolds
    BY <1>9 DEF CInv
  <2>2. Formed(p)
    BY <1>1, <1>4, <1>5, <1>6, <1>8, <2>1 DEF Formed, Kinds, PageHolds
  <2>3. p.todo[1] = A /\ \A d \in p.todo[1] : d[1] = "verification"
    BY <1>3, <1>4
  <2>4. InOrder(p)
    BY <1>1, <1>2, <1>5, <1>7, <1>8, <2>3 DEF InOrder, HasGot
  <2>5. view.transformed \in DOMAIN artifacts
    BY <1>2, <2>1, PlacesOf DEF PageHolds, BackendHolds
  <2>6. Follows(p)
    BY <1>1, <1>2, <2>5 DEF Follows
  <2> QED
    BY <1>5, <1>8, <2>2, <2>4, <2>6 DEF PromiseHolds, AnswersHold, ReviewsPending, HasGot
<1> QED
  BY <1>2, <1>9, Awaited

(* A handler that decides on findings: what it decides on is pending on the  *)
(* page, so there is no output yet.                                          *)
LEMMA Deciding ==
  ASSUME NEW p, BackendHolds, PageHolds,
         DOMAIN p = {"does", "todo", "got", "job", "level", "output"},
         p.does \in {"review", "bulk"}, p.got = <<>>,
         p.job = view.job, view.job # 0, p.level = view.level,
         IsSequence(p.todo), p.todo # <<>>,
         \A i \in DOMAIN p.todo : \A c \in p.todo[i] :
           /\ c[1] \in Answers(p.does)
           /\ c[1] = "review" => c[2] \in Undecided(view.entities),
         \A i, j \in DOMAIN p.todo : \A c \in p.todo[i], d \in p.todo[j] :
           c[1] = "review" /\ d[1] = "entities" => i < j,
         Undecided(view.entities) # {}
  PROVE  PromiseHolds(p)
<1>1. DOMAIN p.got = {}
  BY EmptySequence
<1>2. "job" \notin Answers(p.does) /\ "verification" \notin Answers(p.does)
  BY DEF Answers
<1>3. Formed(p)
  BY <1>1 DEF Formed, Kinds, PageHolds
<1>4. InOrder(p)
  BY <1>1, <1>2 DEF InOrder, HasGot, Asks
<1>5. ReviewsPending(p)
  BY DEF ReviewsPending, Undecided, PageHolds
<1>6. Follows(p)
  BY DEF Follows, PageHolds
<1> QED
  BY <1>1, <1>3, <1>4, <1>5, <1>6 DEF PromiseHolds, AnswersHold, HasGot

(* The review of one mention.                                                *)
LEMMA ReviewBegins ==
  ASSUME CInv, reviewMention
  PROVE  CInv'
<1> PICK f \in Undecided(view.entities), action \in {"PROTECT", "IGNORE"} :
       Await(Promise("review", <<{<<"review", f, action>>}, {<<"entities">>}, {<<"graph">>},
                                 {<<"recommendation">>}>>))
  BY DEF reviewMention
<1> DEFINE A == {<<"review", f, action>>}
           B == {<<"entities">>}
           C == {<<"graph">>}
           D == {<<"recommendation">>}
           p == Promise("review", <<A, B, C, D>>)
<1>1. /\ DOMAIN p = {"does", "todo", "got", "job", "level", "output"}
      /\ p.does = "review" /\ p.todo = <<A, B, C, D>> /\ p.got = <<>>
      /\ p.job = view.job /\ p.level = view.level
  BY PromiseFields
<1>2. ~view.busy /\ view.job # 0 /\ Await(p)
  BY DEF reviewMention, Workspace
<1>3. /\ \A c \in A : c[1] = "review" /\ c[2] = f
      /\ \A c \in B : c[1] = "entities"
      /\ \A c \in C : c[1] = "graph"
      /\ \A c \in D : c[1] = "recommendation"
  OBVIOUS
<1> HIDE DEF p, A, B, C, D
<1>4. /\ IsSequence(p.todo) /\ p.todo # <<>> /\ DOMAIN p.todo = {1, 2, 3, 4}
      /\ p.todo[1] = A /\ p.todo[2] = B /\ p.todo[3] = C /\ p.todo[4] = D
  <2> DEFINE asked == <<A, B, C, D>>
  <2>1. asked \in Seq({A, B, C, D}) /\ asked # <<>> /\ DOMAIN asked = {1, 2, 3, 4}
    OBVIOUS
  <2>2. asked[1] = A /\ asked[2] = B /\ asked[3] = C /\ asked[4] = D
    OBVIOUS
  <2>3. p.todo = asked
    BY <1>1
  <2> HIDE DEF asked
  <2> QED
    BY <2>1, <2>2, <2>3 DEF IsSequence
<1>5. \A i \in DOMAIN p.todo : \A c \in p.todo[i] :
        \/ i = 1 /\ c[1] = "review" /\ c[2] = f
        \/ i = 2 /\ c[1] = "entities"
        \/ i \in {3, 4} /\ c[1] \in {"graph", "recommendation"}
  BY <1>3, <1>4
<1>6. Answers(p.does) = {"review", "entities", "graph", "recommendation"}
  BY <1>1 DEF Answers
<1>7. \A i, j \in DOMAIN p.todo : \A c \in p.todo[i], d \in p.todo[j] :
        c[1] = "review" /\ d[1] = "entities" => i < j
  BY <1>5
<1>8. aside = 0 => PromiseHolds(p)
  BY <1>1, <1>2, <1>4, <1>5, <1>6, <1>7, Deciding DEF CInv
<1> QED
  BY <1>2, <1>8, Awaited

(* A new job with its file, analysis, mentions, level and graph.             *)
LEMMA CreateBegins ==
  ASSUME CInv, createUploadAnalyse
  PROVE  CInv'
<1> DEFINE A == {<<"job">>}
           B == {<<"file">>}
           C == {<<"analysis">>}
           D == {<<"entities">>, <<"recommendation">>}
           E == {<<"graph">>}
           p == Promise("create", <<A, B, C, D, E>>)
<1>1. /\ DOMAIN p = {"does", "todo", "got", "job", "level", "output"}
      /\ p.does = "create" /\ p.todo = <<A, B, C, D, E>> /\ p.got = <<>> /\ p.job = view.job
  BY PromiseFields
<1>2. ~view.busy /\ view.job = 0 /\ Await(p)
  BY DEF createUploadAnalyse, Landing
<1>3. /\ \A c \in A : c[1] = "job"
      /\ \A c \in B : c[1] = "file"
      /\ \A c \in C : c[1] = "analysis"
      /\ \A c \in D : c[1] \in {"entities", "recommendation"}
      /\ \A c \in E : c[1] = "graph"
      /\ \E c \in A : c[1] = "job"
      /\ \E c \in B : c[1] = "file"
      /\ \E c \in C : c[1] = "analysis"
      /\ \E c \in D : c[1] = "entities"
      /\ \E c \in D : c[1] = "recommendation"
      /\ \E c \in E : c[1] = "graph"
  OBVIOUS
<1> HIDE DEF p, A, B, C, D, E
<1>4. /\ IsSequence(p.todo) /\ p.todo # <<>> /\ DOMAIN p.todo = {1, 2, 3, 4, 5}
      /\ p.todo[1] = A /\ p.todo[2] = B /\ p.todo[3] = C /\ p.todo[4] = D /\ p.todo[5] = E
  <2> DEFINE asked == <<A, B, C, D, E>>
  <2>1. asked \in Seq({A, B, C, D, E}) /\ asked # <<>> /\ DOMAIN asked = {1, 2, 3, 4, 5}
    OBVIOUS
  <2>2. asked[1] = A /\ asked[2] = B /\ asked[3] = C /\ asked[4] = D /\ asked[5] = E
    OBVIOUS
  <2>3. p.todo = asked
    BY <1>1
  <2> HIDE DEF asked
  <2> QED
    BY <2>1, <2>2, <2>3 DEF IsSequence
<1>5. \A i \in DOMAIN p.todo : \A c \in p.todo[i] :
        \/ i = 1 /\ c[1] = "job"
        \/ i = 2 /\ c[1] = "file"
        \/ i = 3 /\ c[1] = "analysis"
        \/ i = 4 /\ c[1] \in {"entities", "recommendation"}
        \/ i = 5 /\ c[1] = "graph"
  BY <1>3, <1>4
<1>6. Answers(p.does) = {"job", "file", "analysis", "entities", "recommendation", "graph"}
  BY <1>1 DEF Answers
<1>7. \A f \in Answers(p.does) : Asks(p, f)
  BY <1>3, <1>4, <1>6 DEF Asks
<1>8. DOMAIN p.got = {}
  BY <1>1, EmptySequence
<1>9. ASSUME aside = 0
      PROVE  PromiseHolds(p)
  <2>1. PageHolds /\ BackendHolds
    BY <1>9 DEF CInv
  <2>2. Formed(p)
    BY <1>1, <1>4, <1>5, <1>6, <1>7, <1>8, <2>1 DEF Formed, Kinds, PageHolds
  <2>3. \A d \in p.todo[1] : d[1] = "job"
    BY <1>3, <1>4
  <2>4. InOrder(p)
    BY <1>1, <1>2, <1>5, <1>6, <1>7, <1>8, <2>3 DEF InOrder, HasGot
  <2>5. Follows(p)
    BY <1>1, <1>2, <2>1 DEF Follows, PageHolds
  <2>6. ReviewsPending(p)
    BY <1>5 DEF ReviewsPending
  <2> QED
    BY <1>8, <2>2, <2>4, <2>5, <2>6 DEF PromiseHolds, AnswersHold, HasGot
<1> QED
  BY <1>2, <1>9, Awaited

(* The confirmation of all pending findings, one review after the other.     *)
LEMMA BulkBegins ==
  ASSUME CInv, protectHighConfidencePending
  PROVE  CInv'
<1> DEFINE pending == Undecided(view.entities)
           n == Cardinality(pending)
           reviews(order) == [k \in 1 .. n |-> {<<"review", order[k], "PROTECT">>}]
           order == CHOOSE o \in [1 .. n -> pending] :
                      \A i, j \in DOMAIN o : o[i] = o[j] => i = j
           G == {<<"graph">>}
           E == {<<"entities">>}
           todo == reviews(order) \o <<E, G>>
           p == Promise("bulk", todo)
<1>1. /\ aside' \in Nat /\ (aside # 0 => aside' # 0) /\ (aside' = 0 => ~view.busy)
      /\ view.job # 0
  BY DEF protectHighConfidencePending, Count, Workspace, CInv
<1>2. CASE pending = {}
  <2>1. view' = [view EXCEPT !.busy = FALSE] /\ SameBackend /\ UNCHANGED promises
    BY <1>2 DEF protectHighConfidencePending, SameBackend
  <2>2. CASE aside' = 0
    <3>1. aside = 0 /\ view.busy = FALSE /\ UNCHANGED aside
      BY <1>1, <2>2 DEF CInv
    <3>2. SamePage /\ view'.busy = view.busy
      BY <2>1, <3>1 DEF CInv, SamePage, PageHolds, NewPage
    <3> QED
      BY <2>1, <3>1, <3>2, DialogStep
  <2>3. CASE aside' # 0
    BY <1>1, <2>1, <2>3, BackendStays DEF CInv
  <2> QED
    BY <2>2, <2>3
<1>3. CASE pending # {}
  <2>1. execute(p)
    BY <1>3 DEF protectHighConfidencePending
  <2>2. ASSUME aside = 0
        PROVE  PromiseHolds(p)
    <3>0. PageHolds /\ BackendHolds
      BY <2>2 DEF CInv
    <3>1. IsFiniteSet(pending) /\ pending \subseteq Findings
      <4>1. pending \subseteq Findings
        BY <3>0 DEF PageHolds, Undecided
      <4> QED
        BY <4>1, ConsoleAssumption, FS_Subset
    <3>2. n \in Nat /\ \E o \in [1 .. n -> pending] : \A i, j \in DOMAIN o : o[i] = o[j] => i = j
      <4>1. n \in Nat /\ ExistsBijection(1 .. n, pending)
        BY <3>1, FS_CardinalityType
      <4> HIDE DEF n, pending
      <4>2. PICK o : o \in Bijection(1 .. n, pending)
        BY <4>1 DEF ExistsBijection
      <4> QED
        BY <4>1, <4>2 DEF Bijection, Injection, IsInjective
    <3> HIDE DEF n, pending
    <3>3. order \in [1 .. n -> pending]
      BY <3>2
    <3> HIDE DEF order
    <3>4. \A k \in 1 .. n : \A c \in reviews(order)[k] : c[1] = "review" /\ c[2] \in pending
      BY <3>3
    <3>5. \A c \in E : c[1] = "entities"
      OBVIOUS
    <3>6. \A c \in G : c[1] = "graph"
      OBVIOUS
    <3> DEFINE R == reviews(order)
    <3>7. DOMAIN R = 1 .. n /\ R = [k \in 1 .. n |-> R[k]]
      OBVIOUS
    <3> HIDE DEF E, G, R
    <3>8. /\ IsSequence(todo) /\ todo # <<>> /\ DOMAIN todo = 1 .. n + 2
          /\ \A k \in 1 .. n : todo[k] = R[k]
          /\ todo[n + 1] = E /\ todo[n + 2] = G
      <4> DEFINE S == {R[k] : k \in 1 .. n} \cup {E, G}
      <4>1. R \in [1 .. n -> S]
        BY <3>7
      <4>2. R \in Seq(S) /\ Len(R) = n
        BY <3>2, <3>7, <4>1
      <4>3. E \in S /\ G \in S
        OBVIOUS
      <4>4. todo = R \o <<E, G>>
        BY DEF R
      <4> HIDE DEF todo, S
      <4> QED
        BY <4>2, <4>3, <4>4, TwoMore
    <3> HIDE DEF todo
    <3>9. /\ DOMAIN p = {"does", "todo", "got", "job", "level", "output"}
          /\ p.does = "bulk" /\ p.todo = todo /\ p.got = <<>>
          /\ p.job = view.job /\ p.level = view.level
      BY PromiseFields
    <3> HIDE DEF p
    <3>10. \A i \in DOMAIN p.todo :
             \/ i \in 1 .. n /\ \A c \in p.todo[i] : c[1] = "review" /\ c[2] \in pending
             \/ i = n + 1 /\ \A c \in p.todo[i] : c[1] = "entities"
             \/ i = n + 2 /\ \A c \in p.todo[i] : c[1] = "graph"
      <4>1. \A i \in 1 .. n + 2 : i \in 1 .. n \/ i = n + 1 \/ i = n + 2
        BY <3>2
      <4>2. \A i \in 1 .. n : \A c \in R[i] : c[1] = "review" /\ c[2] \in pending
        BY <3>4 DEF R
      <4> QED
        BY <3>5, <3>6, <3>8, <3>9, <4>1, <4>2
    <3>11. Answers(p.does) = {"review", "entities", "graph"}
      BY <3>9 DEF Answers
    <3>12. \A i \in DOMAIN p.todo : \A c \in p.todo[i] :
             /\ c[1] \in Answers(p.does)
             /\ c[1] = "review" => c[2] \in Undecided(view.entities)
      BY <3>10, <3>11 DEF pending
    <3>13. \A i, j \in DOMAIN p.todo : \A c \in p.todo[i], d \in p.todo[j] :
             c[1] = "review" /\ d[1] = "entities" => i < j
      <4> SUFFICES ASSUME NEW i \in DOMAIN p.todo, NEW j \in DOMAIN p.todo,
                          NEW c \in p.todo[i], NEW d \in p.todo[j],
                          c[1] = "review", d[1] = "entities"
                   PROVE  i < j
        OBVIOUS
      <4>1. i \in 1 .. n /\ j = n + 1
        BY <3>10
      <4> QED
        BY <3>2, <4>1
    <3> QED
      BY <1>1, <1>3, <3>0, <3>8, <3>9, <3>12, <3>13, Deciding DEF pending
  <2> HIDE DEF p
  <2> QED
    BY <1>1, <2>1, <2>2, Begins
<1> QED
  BY <1>2, <1>3

-----------------------------------------------------------------------------
(* A handler gives up *)

(* A call fails: the page stays as it is and is idle again.                  *)
LEMMA Fails ==
  ASSUME CInv, NEW s \in Slots, Fail(s)
  PROVE  CInv'
<1>1. /\ promises[s] # NoPromise /\ promises' = [promises EXCEPT ![s] = NoPromise]
      /\ view' = [view EXCEPT !.busy = FALSE] /\ SameBackend /\ UNCHANGED aside
  BY DEF Fail, SameBackend
<1>2. BackendHolds' /\ (DecisionsHold => DecisionsHold') /\ DOMAIN promises' = Slots
  BY <1>1, BackendStays DEF CInv
<1>3. ASSUME aside = 0
      PROVE  /\ PageHolds' /\ view'.busy = FALSE
             /\ promises'[1] = NoPromise /\ promises'[2] = NoPromise
  <2>1. s = 1
    BY <1>1, <1>3 DEF CInv, Slots
  <2>2. SamePage /\ view'.busy = FALSE
    BY <1>1, <1>3 DEF CInv, SamePage, PageHolds, NewPage
  <2>3. promises'[1] = NoPromise /\ promises'[2] = NoPromise
    BY <1>1, <1>3, <2>1 DEF CInv, Slots
  <2> QED
    BY <1>1, <1>3, <2>2, <2>3, PageStays DEF CInv
<1>4. aside = 0 => (view.busy = (promises[1] # NoPromise))'
  BY <1>3
<1> QED
  BY <1>1, <1>2, <1>3, <1>4 DEF CInv

-----------------------------------------------------------------------------
(* A call is served *)

(* What the backend does for a call leaves the page right and the handler's  *)
(* answers so far as they are.                                               *)
LEMMA ReviewServed ==
  ASSUME BackendHolds, DecisionsHold, PageHolds, SamePage, artifacts' = artifacts,
         NEW p, PromiseHolds(p), NEW call \in p.todo[1], 1 \in DOMAIN p.todo,
         call[1] = "review", IsActive(p.job),
         workspaces' = [workspaces EXCEPT ![p.job].decided[call[2]] = call[3]]
  PROVE  PageHolds' /\ DecisionsHold' /\ PromiseHolds(p)'
<1>1. p.does \in {"review", "bulk"} /\ Asks(p, "review") /\ ~Asks(p, "job")
  BY DEF PromiseHolds, Formed, Kinds, Answers, Asks
<1>2. p.job \in DOMAIN workspaces
  BY <1>1, PlacesOf DEF PromiseHolds, Formed, InOrder, BackendHolds
<1> DEFINE w == workspaces[p.job]
<1>3. /\ DOMAIN workspaces' = DOMAIN workspaces
      /\ \A j \in DOMAIN workspaces : j # p.job => workspaces'[j] = workspaces[j]
      /\ workspaces'[p.job] = [w EXCEPT !.decided[call[2]] = call[3]]
      /\ workspaces' = [j \in DOMAIN workspaces |-> workspaces'[j]]
  BY <1>2
<1>4. Len(workspaces') = Len(workspaces)
  BY <1>3, MapSequence DEF BackendHolds
<1>5. /\ workspaces'[p.job].status = "ACTIVE"
      /\ DOMAIN workspaces'[p.job].decided = Findings
      /\ \A f \in Findings : f # call[2] => workspaces'[p.job].decided[f] = w.decided[f]
  <2>1. DOMAIN w = {"status", "decided"} /\ w.status = "ACTIVE" /\ DOMAIN w.decided = Findings
    BY <1>2 DEF BackendHolds, DecisionsHold, IsActive
  <2> HIDE DEF w
  <2> QED
    BY <1>3, <2>1
<1> HIDE DEF w
<1>6. DecisionsHold'
  BY <1>3, <1>5 DEF DecisionsHold, IsActive
<1>7. ~Current /\ ~Current'
  <2>1. ~Current
    BY <1>1 DEF Current, PromiseHolds, Follows
  <2> QED
    BY <2>1 DEF Current, SamePage
<1>8. PageHolds'
  <2>1. ASSUME view'.job # 0, workspaces'[view'.job].status = "ACTIVE"
        PROVE  /\ DOMAIN view'.entities = Findings
               /\ \A f \in Findings :
                    view'.entities[f] \in {"PENDING", workspaces'[view'.job].decided[f]}
    <3>1. view.job = p.job /\ view'.job = view.job /\ view'.entities = view.entities
      BY <2>1 DEF SamePage, PromiseHolds, Follows
    <3>2. view.entities[call[2]] = "PENDING"
      BY <2>1, <3>1 DEF PromiseHolds, ReviewsPending
    <3>3. /\ DOMAIN view.entities = Findings
          /\ \A f \in Findings : view.entities[f] \in {"PENDING", w.decided[f]}
      BY <2>1, <3>1 DEF PageHolds, w
    <3> QED
      BY <1>5, <3>1, <3>2, <3>3
  <2> QED
    BY <1>4, <1>7, <2>1 DEF PageHolds, SamePage, IsActive
<1>9. PromiseHolds(p)'
  <2>1. ~HasGot(p, "entities") /\ ~HasGot(p, "transformed")
    BY <1>1 DEF PromiseHolds, InOrder, HasGot, Formed, Answers
  <2>2. Formed(p)' /\ AnswersHold(p)' /\ ReviewsPending(p)' /\ Follows(p)'
    BY <1>4, <1>7, <2>1 DEF PromiseHolds, Formed, AnswersHold, ReviewsPending, Follows, SamePage
  <2> QED
    BY <2>2 DEF PromiseHolds, InOrder
<1> QED
  BY <1>6, <1>8, <1>9

(* A new output, or one whose status changes.                                *)
LEMMA ArtifactsServed ==
  ASSUME BackendHolds, DecisionsHold, PageHolds, SamePage, workspaces' = workspaces,
         NEW p, PromiseHolds(p),
         DOMAIN artifacts \subseteq DOMAIN artifacts', IsSequence(artifacts'),
         \A a \in DOMAIN artifacts :
           /\ artifacts'[a].job = artifacts[a].job /\ artifacts'[a].level = artifacts[a].level
           /\ artifacts'[a].decided = artifacts[a].decided
  PROVE  PageHolds' /\ DecisionsHold' /\ PromiseHolds(p)'
<1>1. view.transformed # 0 => view.transformed \in DOMAIN artifacts
  BY PlacesOf DEF PageHolds, BackendHolds
<1>2. view.transformed \in 0 .. Len(artifacts')
  <2>1. /\ Len(artifacts) \in Nat /\ DOMAIN artifacts = 1 .. Len(artifacts)
        /\ Len(artifacts') \in Nat /\ DOMAIN artifacts' = 1 .. Len(artifacts')
    BY PlacesOf DEF BackendHolds
  <2>2. view.transformed # 0 => view.transformed \in DOMAIN artifacts'
    BY <1>1
  <2>3. view.transformed = 0 \/ view.transformed \in 1 .. Len(artifacts')
    BY <2>1, <2>2
  <2> QED
    BY <2>1, <2>3
<1>3. Current' <=> Current
  BY <1>1 DEF Current, SamePage
<1>4. PageHolds'
  BY <1>1, <1>2, <1>3 DEF PageHolds, SamePage, IsActive, Current
<1>5. Formed(p)' /\ ReviewsPending(p)' /\ Follows(p)'
  BY <1>1, <1>3 DEF PromiseHolds, Formed, ReviewsPending, Follows, SamePage
<1>6. AnswersHold(p)'
  <2>1. HasGot(p, "verification") => p.output \in DOMAIN artifacts
    BY DEF PromiseHolds, Formed, Follows, HasGot, Answers, Kinds
  <2> QED
    BY <2>1 DEF PromiseHolds, AnswersHold, IsActive
<1> QED
  BY <1>4, <1>5, <1>6 DEF PromiseHolds, InOrder, DecisionsHold, IsActive

(* A new job is nobody's but the handler's that creates it.                  *)
NewJob == [status |-> "ACTIVE", decided |-> [f \in Findings |-> "PENDING"]]
HasJob(q, p, newest) ==
  /\ DOMAIN q = DOMAIN p /\ q.does = p.does /\ q.job = newest
  /\ q.todo = [p.todo EXCEPT ![1] = {}] /\ q.got = [job |-> newest]

LEMMA JobServed ==
  ASSUME BackendHolds, DecisionsHold, PageHolds, SamePage, artifacts' = artifacts,
         NEW p, PromiseHolds(p), NEW call, 1 \in DOMAIN p.todo, call \in p.todo[1],
         call[1] = "job",
         NEW newest, newest = Len(workspaces'), workspaces' = Append(workspaces, NewJob),
         NEW q, HasJob(q, p, newest)
  PROVE  BackendHolds' /\ PageHolds' /\ DecisionsHold' /\ PromiseHolds(q)'
<1> USE DEF HasJob, NewJob
<1>0. /\ DOMAIN p = {"does", "todo", "got", "job", "level", "output"} /\ IsSequence(p.todo)
      /\ \A i \in DOMAIN p.todo : \A c \in p.todo[i] : c[1] \in Answers(p.does)
  BY DEF PromiseHolds, Formed
<1>1. p.does = "create" /\ Asks(p, "job") /\ p.job = 0
  <2>1. Asks(p, "job") /\ "job" \in Answers(p.does)
    BY <1>0 DEF Asks
  <2> QED
    BY <2>1 DEF PromiseHolds, InOrder, Formed, Kinds, Answers
<1>2. view.job = 0 /\ p.got = <<>>
  BY <1>1 DEF PromiseHolds, Follows, InOrder
<1>3. Answers(p.does) = {"job", "file", "analysis", "entities", "recommendation", "graph"}
  BY <1>1 DEF Answers
<1>4. /\ DOMAIN q.got = {"job"} /\ q.got["job"] = newest
  OBVIOUS
<1>5. /\ IsSequence(workspaces') /\ Len(workspaces) \in Nat
      /\ Len(workspaces') = Len(workspaces) + 1 /\ DOMAIN workspaces' = 1 .. Len(workspaces) + 1
      /\ DOMAIN workspaces = 1 .. Len(workspaces)
      /\ \A k \in 1 .. Len(workspaces) : workspaces'[k] = workspaces[k]
      /\ workspaces'[Len(workspaces) + 1] = [status |-> "ACTIVE",
                                             decided |-> [f \in Findings |-> "PENDING"]]
  BY AppendSequence, PlacesOf DEF BackendHolds
<1>6. \A j \in 1 .. Len(workspaces) + 1 : j \in 1 .. Len(workspaces) \/ j = Len(workspaces) + 1
  BY <1>5
<1>7. BackendHolds' /\ DecisionsHold'
  <2>1. ASSUME NEW j \in DOMAIN workspaces'
        PROVE  /\ DOMAIN workspaces'[j] = {"status", "decided"}
               /\ workspaces'[j].status = "ACTIVE" => DOMAIN workspaces'[j].decided = Findings
               /\ workspaces'[j].status # "ACTIVE" => workspaces'[j].decided = <<>>
    <3>1. CASE j \in 1 .. Len(workspaces)
      BY <1>5, <3>1 DEF BackendHolds, DecisionsHold, IsActive
    <3>2. CASE j = Len(workspaces) + 1
      BY <1>5, <3>2
    <3> QED
      BY <1>5, <1>6, <3>1, <3>2
  <2> QED
    BY <1>5, <2>1 DEF BackendHolds, DecisionsHold, IsActive
<1>8. PageHolds'
  <2>1. view'.job = 0 /\ ~Current' /\ ~Current
    BY <1>2 DEF SamePage, Current
  <2>2. \A n : n \in 1 .. Len(workspaces) => n \in 1 .. Len(workspaces')
    BY <1>5
  <2>3. 0 \in 0 .. Len(workspaces')
    BY <1>5
  <2> QED
    BY <2>1, <2>2, <2>3 DEF PageHolds, SamePage
<1>9. /\ IsSequence(q.todo) /\ q.todo # <<>> /\ DOMAIN q.todo = DOMAIN p.todo
      /\ q.todo[1] = {} /\ \A i \in DOMAIN p.todo : i # 1 => q.todo[i] = p.todo[i]
  <2>1. /\ DOMAIN q.todo = DOMAIN p.todo /\ q.todo[1] = {}
        /\ \A i \in DOMAIN p.todo : i # 1 => q.todo[i] = p.todo[i]
        /\ q.todo = [i \in DOMAIN p.todo |-> q.todo[i]]
    OBVIOUS
  <2>2. IsSequence(q.todo)
    BY <1>0, <2>1, MapSequence
  <2> QED
    BY <2>1, <2>2, EmptySequence
<1>10. \A c \in p.todo[1] : c[1] = "job"
  BY DEF PromiseHolds, InOrder
<1>11. \A f : f # "job" /\ Asks(p, f) => Asks(q, f)
  BY <1>9, <1>10 DEF Asks
<1>12. \A f : Asks(q, f) => Asks(p, f) /\ f # "job"
  <2>1. \A i \in DOMAIN q.todo : \A c \in q.todo[i] : i # 1 /\ c \in p.todo[i]
    BY <1>9
  <2>2. \A i \in DOMAIN q.todo : \A c \in q.todo[i] : c[1] # "job"
    BY <1>9, <2>1 DEF PromiseHolds, InOrder
  <2> QED
    BY <1>9, <2>1, <2>2 DEF Asks
<1>13. Formed(q)'
  <2>1. \A f \in Answers(q.does) : Asks(q, f) \/ HasGot(q, f)
    <3>1. DOMAIN p.got = {}
      BY <1>2, EmptySequence
    <3>2. \A f \in Answers(p.does) : Asks(p, f)
      BY <1>1, <3>1 DEF PromiseHolds, Formed, HasGot
    <3> QED
      BY <1>4, <1>11, <3>2 DEF HasGot
  <2>2. \A i \in DOMAIN q.todo : \A c \in q.todo[i] : c[1] \in Answers(q.does)
    BY <1>0, <1>9
  <2>3. q.job \in 0 .. Len(workspaces')
    BY <1>5
  <2> QED
    BY <1>0, <1>1, <1>3, <1>4, <1>9, <2>1, <2>2, <2>3 DEF Formed, Kinds
<1>14. InOrder(q)
  <2>1. newest # 0
    BY <1>5
  <2>2. \A i \in DOMAIN q.todo : \A c \in q.todo[i] : i \in DOMAIN p.todo /\ i # 1 /\ c \in p.todo[i]
    BY <1>9
  <2>3. ~Asks(q, "job")
    BY <1>12
  <2>4. \A i \in DOMAIN q.todo : \A c \in q.todo[i] : c[1] \notin {"job", "verification"}
    BY <1>1, <2>2 DEF PromiseHolds, InOrder
  <2> QED
    BY <1>4, <1>9, <2>1, <2>2, <2>3, <2>4 DEF PromiseHolds, InOrder, HasGot
<1>15. Follows(q)'
  <2>1. view'.job = 0 /\ view'.transformed = view.transformed
    BY <1>2 DEF SamePage
  <2>2. \A n \in 1 .. Len(workspaces) : n # newest
    BY <1>5
  <2> QED
    BY <1>1, <2>1, <2>2 DEF Follows, PageHolds
<1>16. ReviewsPending(q)' /\ AnswersHold(q)'
  <2>1. \A i \in DOMAIN q.todo : \A c \in q.todo[i] : c[1] # "review"
    BY <1>0, <1>3, <1>9
  <2> QED
    BY <1>4, <2>1 DEF ReviewsPending, AnswersHold, HasGot
<1> QED
  BY <1>7, <1>8, <1>13, <1>14, <1>15, <1>16 DEF PromiseHolds, InOrder

(* A handler that has an answer more and a call less.                       *)
Answering(p, call, told) ==
  /\ call[1] = "graph" =>
       told = <<p.job, IF p.does = "create" THEN p.got["recommendation"] ELSE p.level>>
  /\ call[1] = "entities" =>
       /\ DOMAIN told \subseteq Findings
       /\ IsActive(p.job) => told = workspaces[p.job].decided
  /\ call[1] = "transformed" =>
       /\ told \in DOMAIN artifacts
       /\ artifacts[told].job = p.job /\ artifacts[told].level = p.level
       /\ artifacts[told].decided = workspaces[p.job].decided
  /\ call[1] = "verification" => told[1] = p.output /\ artifacts[p.output].job = p.job
  /\ call[1] = "certificate" => told = p.output
HasAnswer(q, p, call, told) ==
  /\ DOMAIN q = DOMAIN p /\ q.does = p.does /\ q.job = p.job /\ q.level = p.level
  /\ q.output = p.output /\ q.todo = [p.todo EXCEPT ![1] = p.todo[1] \ {call}]
  /\ q.got = [f \in DOMAIN p.got \cup {call[1]} |-> IF f = call[1] THEN told ELSE p.got[f]]

(* The handler with the answer is as right as the one without it.            *)
LEMMA AnswerArrives ==
  ASSUME NEW p, PromiseHolds(p)', NEW call, 1 \in DOMAIN p.todo, call \in p.todo[1],
         call[1] # "job", NEW told, NEW q, HasAnswer(q, p, call, told),
         Answering(p, call, told)'
  PROVE  PromiseHolds(q)' /\ p.job # 0
<1> USE DEF HasAnswer, Answering
<1>0. /\ DOMAIN p = {"does", "todo", "got", "job", "level", "output"} /\ IsSequence(p.todo)
      /\ \A i \in DOMAIN p.todo : \A c \in p.todo[i] : c[1] \in Answers(p.does)
      /\ DOMAIN p.got \subseteq Answers(p.does) /\ p.does \in Kinds
  BY DEF PromiseHolds, Formed
<1>1. Asks(p, call[1]) /\ ~Asks(p, "job") /\ p.job # 0
  <2>1. Asks(p, call[1])
    BY DEF Asks
  <2>2. ~Asks(p, "job")
    BY DEF Asks, PromiseHolds, InOrder
  <2> QED
    BY <2>1, <2>2 DEF PromiseHolds, InOrder
<1>2. /\ IsSequence(q.todo) /\ q.todo # <<>> /\ DOMAIN q.todo = DOMAIN p.todo
      /\ q.todo[1] = p.todo[1] \ {call} /\ \A i \in DOMAIN p.todo : i # 1 => q.todo[i] = p.todo[i]
  <2>1. /\ DOMAIN q.todo = DOMAIN p.todo /\ q.todo[1] = p.todo[1] \ {call}
        /\ \A i \in DOMAIN p.todo : i # 1 => q.todo[i] = p.todo[i]
        /\ q.todo = [i \in DOMAIN p.todo |-> q.todo[i]]
    OBVIOUS
  <2>2. IsSequence(q.todo)
    BY <1>0, <2>1, MapSequence
  <2> QED
    BY <2>1, <2>2, EmptySequence
<1>3. \A i \in DOMAIN q.todo : i \in DOMAIN p.todo /\ \A c \in q.todo[i] : c \in p.todo[i]
  BY <1>2
<1>4. \A f : Asks(q, f) => Asks(p, f)
  BY <1>3 DEF Asks
<1>5. \A f : Asks(p, f) => Asks(q, f) \/ f = call[1]
  <2> SUFFICES ASSUME NEW f, Asks(p, f), f # call[1]
               PROVE  Asks(q, f)
    OBVIOUS
  <2>1. PICK i \in DOMAIN p.todo : \E c \in p.todo[i] : c[1] = f
    BY DEF Asks
  <2>2. PICK c \in p.todo[i] : c[1] = f
    BY <2>1
  <2>3. c \in q.todo[i]
    BY <1>2, <2>2
  <2> QED
    BY <1>2, <2>2, <2>3 DEF Asks
<1>6. /\ DOMAIN q.got = DOMAIN p.got \cup {call[1]} /\ q.got[call[1]] = told
      /\ \A f \in DOMAIN p.got : f # call[1] => q.got[f] = p.got[f]
  OBVIOUS
<1>7. \A f : HasGot(q, f) => f = call[1] \/ (HasGot(p, f) /\ f # call[1] /\ q.got[f] = p.got[f])
  BY <1>6 DEF HasGot
<1>8. Formed(q)'
  <2>1. ASSUME q.does \notin {"review", "bulk"}, NEW f \in Answers(q.does)
        PROVE  Asks(q, f) \/ HasGot(q, f)
    <3>1. Asks(p, f) \/ HasGot(p, f)
      BY <2>1 DEF PromiseHolds, Formed
    <3> QED
      BY <1>5, <1>6, <3>1 DEF HasGot
  <2>2. \A i \in DOMAIN q.todo : \A c \in q.todo[i] : c[1] \in Answers(q.does)
    BY <1>0, <1>3
  <2>3. DOMAIN q.got \subseteq Answers(q.does)
    BY <1>0, <1>6
  <2> QED
    BY <1>0, <1>2, <2>1, <2>2, <2>3 DEF Formed, PromiseHolds
<1>9. InOrder(q)
  <2>1. \A i \in DOMAIN q.todo : \A c \in q.todo[i] :
          c[1] \in {"job", "verification"} => i = 1 /\ \A d \in q.todo[1] : d[1] = c[1]
    BY <1>2, <1>3 DEF PromiseHolds, InOrder
  <2>2. \A i, j \in DOMAIN q.todo : \A c \in q.todo[i], d \in q.todo[j] :
          \/ c[1] = "recommendation" /\ d[1] = "graph" /\ q.does = "create"
          \/ c[1] = "review" /\ d[1] = "entities"
          => i < j
    BY <1>3 DEF PromiseHolds, InOrder
  <2>3. \A i \in DOMAIN p.todo : ~(i < 1)
    BY <1>0, PlacesOf
  <2>4. HasGot(q, "graph") /\ q.does = "create" => ~Asks(q, "recommendation")
    <3>1. CASE HasGot(p, "graph")
      BY <1>4, <3>1 DEF PromiseHolds, InOrder
    <3>2. CASE call[1] = "graph" /\ p.does = "create"
      <4>1. \A i \in DOMAIN p.todo : \A c \in p.todo[i] : c[1] # "recommendation"
        BY <2>3, <3>2 DEF PromiseHolds, InOrder
      <4> QED
        BY <1>4, <4>1 DEF Asks
    <3> QED
      BY <1>7, <3>1, <3>2
  <2>5. HasGot(q, "entities") => ~Asks(q, "review")
    <3>1. CASE HasGot(p, "entities")
      BY <1>4, <3>1 DEF PromiseHolds, InOrder
    <3>2. CASE call[1] = "entities"
      <4>1. \A i \in DOMAIN p.todo : \A c \in p.todo[i] : c[1] # "review"
        BY <2>3, <3>2 DEF PromiseHolds, InOrder
      <4> QED
        BY <1>4, <4>1 DEF Asks
    <3> QED
      BY <1>7, <3>1, <3>2
  <2> QED
    BY <1>1, <1>4, <2>1, <2>2, <2>4, <2>5 DEF InOrder
<1>10. AnswersHold(q)'
  <2>1. HasGot(q, "job") => q.got["job"] = q.job
    BY <1>7 DEF PromiseHolds, AnswersHold
  <2>2. HasGot(q, "graph") =>
          q.got["graph"] = <<q.job, IF q.does = "create" THEN q.got["recommendation"] ELSE q.level>>
    <3>1. ASSUME p.does = "create", HasGot(q, "graph")
          PROVE  q.got["recommendation"] = p.got["recommendation"]
      <4>1. ~Asks(p, "recommendation")
        <5>1. CASE HasGot(p, "graph")
          BY <3>1, <5>1 DEF PromiseHolds, InOrder
        <5>2. CASE call[1] = "graph"
          <6>1. \A i \in DOMAIN p.todo : ~(i < 1)
            BY <1>0, PlacesOf
          <6> QED
            BY <3>1, <5>2, <6>1 DEF PromiseHolds, InOrder, Asks
        <5> QED
          BY <1>7, <3>1, <5>1, <5>2
      <4>2. call[1] # "recommendation" /\ "recommendation" \in DOMAIN p.got
        <5>1. "recommendation" \in Answers(p.does)
          BY <3>1 DEF Answers
        <5> QED
          BY <1>1, <3>1, <4>1, <5>1 DEF PromiseHolds, Formed, HasGot
      <4> QED
        BY <1>6, <4>2
    <3> QED
      BY <1>6, <1>7, <3>1 DEF PromiseHolds, AnswersHold
  <2>3. HasGot(q, "entities") =>
          /\ DOMAIN q.got["entities"] \subseteq Findings
          /\ IsActive(q.job)' => q.got["entities"] = workspaces'[q.job].decided
    BY <1>6, <1>7 DEF PromiseHolds, AnswersHold, IsActive
  <2>4. HasGot(q, "transformed") =>
          /\ q.got["transformed"] \in DOMAIN artifacts'
          /\ artifacts'[q.got["transformed"]].job = q.job
          /\ artifacts'[q.got["transformed"]].level = q.level
          /\ artifacts'[q.got["transformed"]].decided = workspaces'[q.job].decided
    BY <1>6, <1>7 DEF PromiseHolds, AnswersHold
  <2>5. HasGot(q, "verification") =>
          q.got["verification"][1] = q.output /\ artifacts'[q.output].job = q.job
    BY <1>6, <1>7 DEF PromiseHolds, AnswersHold
  <2>6. HasGot(q, "certificate") => q.got["certificate"] = q.output
    BY <1>6, <1>7 DEF PromiseHolds, AnswersHold
  <2> QED
    BY <2>1, <2>2, <2>3, <2>4, <2>5, <2>6 DEF AnswersHold, IsActive
<1>11. ReviewsPending(q)' /\ Follows(q)'
  <2>1. ReviewsPending(q)'
    BY <1>3 DEF PromiseHolds, ReviewsPending
  <2>2. Follows(q)'
    BY DEF PromiseHolds, Follows
  <2> QED
    BY <2>1, <2>2
<1> QED
  BY <1>1, <1>8, <1>9, <1>10, <1>11 DEF PromiseHolds, InOrder

(* What a served call does to the handler.                                   *)
LEMMA GotFields ==
  ASSUME DOMAIN promises = Slots, NEW p, p = promises[1],
         DOMAIN p = {"does", "todo", "got", "job", "level", "output"},
         1 \in DOMAIN p.todo, NEW call, NEW told, Got(1, call, told)
  PROVE  /\ DOMAIN promises' = Slots /\ promises'[2] = promises[2]
         /\ HasAnswer(promises'[1], p, call, told)
<1> DEFINE got == [f \in DOMAIN p.got \cup {call[1]} |-> IF f = call[1] THEN told ELSE p.got[f]]
           todo == [p.todo EXCEPT ![1] = p.todo[1] \ {call}]
           q == [[p EXCEPT !.todo = todo] EXCEPT !.got = got]
<1>1. promises' = [promises EXCEPT ![1] = q]
  BY DEF Got, Slots
<1>2. /\ DOMAIN q = DOMAIN p /\ q.does = p.does /\ q.job = p.job /\ q.level = p.level
      /\ q.output = p.output /\ q.todo = todo /\ q.got = got
  OBVIOUS
<1> HIDE DEF q, got, todo
<1>3. promises'[1] = q /\ promises'[2] = promises[2] /\ DOMAIN promises' = Slots
  BY <1>1 DEF Slots
<1> QED
  BY <1>2, <1>3 DEF HasAnswer, got, todo

(* Whatever is served, and for whomever, keeps the backend in its form.      *)
LEMMA ServedBackend ==
  ASSUME BackendHolds, NEW s, NEW call, Served(s, call), DOMAIN promises = Slots
  PROVE  BackendHolds' /\ DOMAIN promises' = Slots
<1>1. CASE SameBackend
  BY <1>1, BackendStays DEF Served, Got
<1>2. CASE /\ workspaces' = Append(workspaces, [status |-> "ACTIVE",
                                                decided |-> [f \in Findings |-> "PENDING"]])
           /\ artifacts' = artifacts
  <2> DEFINE new == [status |-> "ACTIVE", decided |-> [f \in Findings |-> "PENDING"]]
  <2>1. DOMAIN new = {"status", "decided"}
    OBVIOUS
  <2> HIDE DEF new
  <2>2. workspaces' = Append(workspaces, new)
    BY <1>2 DEF new
  <2>3. /\ IsSequence(workspaces') /\ DOMAIN workspaces = 1 .. Len(workspaces)
        /\ \A j \in DOMAIN workspaces' : j \in DOMAIN workspaces \/ j = Len(workspaces) + 1
    BY <2>2, AppendSequence, PlacesOf DEF BackendHolds
  <2>4. \A j \in DOMAIN workspaces' : DOMAIN workspaces'[j] = {"status", "decided"}
    BY <2>1, <2>2, <2>3, AppendSequence DEF BackendHolds
  <2> QED
    BY <1>2, <2>3, <2>4 DEF BackendHolds, Served, Got
<1>3. CASE \E j, f, action :
             /\ workspaces' = [workspaces EXCEPT ![j].decided[f] = action]
             /\ artifacts' = artifacts
  <2> PICK j, f, action : workspaces' = [workspaces EXCEPT ![j].decided[f] = action]
    BY <1>3
  <2>1. /\ DOMAIN workspaces' = DOMAIN workspaces
        /\ \A k \in DOMAIN workspaces : DOMAIN workspaces'[k] = DOMAIN workspaces[k]
        /\ workspaces' = [k \in DOMAIN workspaces |-> workspaces'[k]]
    OBVIOUS
  <2>2. IsSequence(workspaces')
    BY <2>1, MapSequence DEF BackendHolds
  <2> QED
    BY <1>3, <2>1, <2>2 DEF BackendHolds, Served, Got
<1>4. CASE \E newest, level, decided :
             /\ artifacts' = Append(artifacts, [job |-> newest, level |-> level, decided |-> decided,
                                                status |-> "CREATED"])
             /\ workspaces' = workspaces
  <2> PICK new :
        /\ DOMAIN new = {"job", "level", "decided", "status"}
        /\ artifacts' = Append(artifacts, new)
    BY <1>4
  <2>3. /\ IsSequence(artifacts') /\ DOMAIN artifacts = 1 .. Len(artifacts)
        /\ \A j \in DOMAIN artifacts' : j \in DOMAIN artifacts \/ j = Len(artifacts) + 1
    BY AppendSequence, PlacesOf DEF BackendHolds
  <2>4. \A j \in DOMAIN artifacts' : DOMAIN artifacts'[j] = {"job", "level", "decided", "status"}
    BY <2>3, AppendSequence DEF BackendHolds
  <2> QED
    BY <1>4, <2>3, <2>4 DEF BackendHolds, Served, Got
<1>5. CASE \E a, status :
             /\ artifacts' = [artifacts EXCEPT ![a].status = status] /\ workspaces' = workspaces
  <2> PICK a, status : artifacts' = [artifacts EXCEPT ![a].status = status]
    BY <1>5
  <2>1. /\ DOMAIN artifacts' = DOMAIN artifacts
        /\ \A k \in DOMAIN artifacts : DOMAIN artifacts'[k] = DOMAIN artifacts[k]
        /\ artifacts' = [k \in DOMAIN artifacts |-> artifacts'[k]]
    OBVIOUS
  <2>2. IsSequence(artifacts')
    BY <2>1, MapSequence DEF BackendHolds
  <2> QED
    BY <1>5, <2>1, <2>2 DEF BackendHolds, Served, Got
<1>6. CASE \E jobs : Erase(jobs)
  BY <1>6, Erasure DEF Served, Got
<1> QED
  <2>1. CASE call[1] = "job"
    <3>1. /\ workspaces' = Append(workspaces, [status |-> "ACTIVE",
                                                decided |-> [f \in Findings |-> "PENDING"]])
          /\ artifacts' = artifacts
      BY <2>1 DEF Served
    <3> QED
      BY <1>2, <3>1
  <2>2. CASE call[1] = "review"
    <3>1. /\ workspaces' = [workspaces EXCEPT ![promises[s].job].decided[call[2]] = call[3]]
          /\ artifacts' = artifacts
      BY <2>2 DEF Served
    <3> QED
      BY <1>3, <3>1
  <2>3. CASE call[1] = "transformed"
    <3>1. /\ artifacts' = Append(artifacts, [job |-> promises[s].job, level |-> promises[s].level,
                                              decided |-> workspaces[promises[s].job].decided,
                                              status |-> "CREATED"])
          /\ workspaces' = workspaces
      BY <2>3 DEF Served
    <3> QED
      BY <1>4, <3>1
  <2>4. CASE call[1] = "verification"
    <3>1. PICK status : /\ artifacts' = [artifacts EXCEPT ![promises[s].output].status = status]
                        /\ workspaces' = workspaces
      BY <2>4 DEF Served
    <3> QED
      BY <1>5, <3>1
  <2>5. CASE call[1] = "destruction"
    <3>1. Erase({promises[s].job})
      BY <2>5 DEF Served
    <3> QED
      BY <1>6, <3>1
  <2>6. CASE call[1] \in {"file", "analysis", "audit", "entities", "recommendation", "graph",
                          "certificate"}
    <3>1. SameBackend
      BY <2>6 DEF Served, SameBackend
    <3> QED
      BY <1>1, <3>1
  <2> QED
    BY <2>1, <2>2, <2>3, <2>4, <2>5, <2>6 DEF Served

(* An answer given to the only handler that waits.                           *)
LEMMA AnswerGiven ==
  ASSUME DOMAIN promises = Slots, promises[2] = NoPromise,
         NEW p, p = promises[1], PromiseHolds(p)', NEW call, 1 \in DOMAIN p.todo, call \in p.todo[1],
         call[1] # "job", NEW told, Got(1, call, told), Answering(p, call, told)'
  PROVE  /\ promises'[2] = NoPromise
         /\ \E q : q = promises'[1] /\ PromiseHolds(q)'
<1>1. DOMAIN p = {"does", "todo", "got", "job", "level", "output"}
  BY DEF PromiseHolds, Formed
<1>2. PICK q : q = promises'[1]
  OBVIOUS
<1>3. promises'[2] = NoPromise /\ HasAnswer(q, p, call, told)
  BY <1>1, <1>2, GotFields
<1>4. PromiseHolds(q)'
  BY <1>3, AnswerArrives
<1> QED
  BY <1>2, <1>3, <1>4

(* A call is served.                                                         *)
LEMMA Serves ==
  ASSUME CInv, NEW s \in Slots, Serve(s)
  PROVE  CInv'
<1>1. /\ promises[s] # NoPromise /\ view' = view /\ aside' = aside
      /\ \E call \in Head(promises[s].todo) : Served(s, call)
  BY DEF Serve
<1>2. BackendHolds' /\ DOMAIN promises' = Slots
  <2>1. PICK call : Served(s, call)
    BY <1>1
  <2> QED
    BY <2>1, ServedBackend DEF CInv
<1>3. CASE aside # 0
  BY <1>1, <1>2, <1>3 DEF CInv
<1>4. CASE aside = 0
  <2>1. /\ s = 1 /\ promises[2] = NoPromise /\ view.busy = TRUE
        /\ BackendHolds /\ DecisionsHold /\ PageHolds /\ DOMAIN promises = Slots
    <3>1. /\ promises[2] = NoPromise /\ view.busy = (promises[1] # NoPromise)
          /\ BackendHolds /\ DecisionsHold /\ PageHolds /\ DOMAIN promises = Slots
      BY <1>4 DEF CInv
    <3>2. s = 1
      BY <1>1, <3>1 DEF Slots
    <3> QED
      BY <1>1, <3>1, <3>2
  <2> PICK p : p = promises[1]
    OBVIOUS
  <2>2. PromiseHolds(p)
    BY <1>1, <1>4, <2>1 DEF CInv
  <2>3. /\ DOMAIN p = {"does", "todo", "got", "job", "level", "output"}
        /\ 1 \in DOMAIN p.todo /\ Head(p.todo) = p.todo[1]
        /\ \A c \in p.todo[1] : c[1] \in Answers(p.does)
    <3>1. IsSequence(p.todo) /\ p.todo # <<>>
      BY <2>2 DEF PromiseHolds, Formed
    <3> QED
      BY <2>2, <3>1, TailSequence DEF PromiseHolds, Formed
  <2>4. PICK call \in p.todo[1] : Served(1, call)
    BY <1>1, <2>1, <2>3
  <2>5. SamePage
    BY <1>1, <2>1 DEF SamePage, PageHolds, NewPage
  <2>6. /\ PageHolds' /\ DecisionsHold' /\ promises'[2] = NoPromise
        /\ \E q : q = promises'[1] /\ PromiseHolds(q)'
    <3>1. CASE call[1] = "job"
      <4> PICK q : q = promises'[1]
        OBVIOUS
      <4> DEFINE newest == Len(workspaces')
                 todo == [p.todo EXCEPT ![1] = {}]
                 got == [job |-> newest]
                 new == [[[p EXCEPT !.todo = todo] EXCEPT !.job = newest] EXCEPT !.got = got]
      <4>1. /\ workspaces' = Append(workspaces, NewJob) /\ artifacts' = artifacts
            /\ promises' = [promises EXCEPT ![1].todo[1] = {}, ![1].job = newest, ![1].got = got]
        BY <2>4, <3>1 DEF Served, NewJob
      <4>2. promises' = [promises EXCEPT ![1] = new]
        BY <2>1, <4>1 DEF Slots
      <4>3. /\ DOMAIN new = DOMAIN p /\ new.does = p.does /\ new.job = newest
            /\ new.todo = todo /\ new.got = got
        BY <2>3
      <4> HIDE DEF new, todo
      <4>4. q = new /\ promises'[2] = NoPromise
        BY <2>1, <4>2 DEF Slots
      <4> USE DEF todo
      <4>5. PageHolds' /\ DecisionsHold' /\ PromiseHolds(q)'
        <5>1. PICK n : n = newest
          OBVIOUS
        <5>2. n = Len(workspaces') /\ HasJob(q, p, n)
          BY <4>3, <4>4, <5>1 DEF HasJob
        <5> HIDE DEF newest
        <5> QED
          BY <2>1, <2>2, <2>3, <2>5, <3>1, <4>1, <5>2, JobServed
      <4> QED
        BY <4>4, <4>5
    <3>2. CASE call[1] \in {"file", "analysis", "audit", "entities", "recommendation", "graph",
                            "certificate"}
      <4>1. SameBackend
        BY <2>4, <3>2 DEF Served, SameBackend
      <4>2. PageHolds' /\ DecisionsHold' /\ PromiseHolds(p)'
        BY <2>1, <2>2, <2>5, <4>1, PageStays, PromiseStays, BackendStays
      <4>3. PICK told :
              /\ Got(1, call, told)
              /\ call[1] = "graph" =>
                   told = <<p.job, IF p.does = "create" THEN p.got["recommendation"] ELSE p.level>>
              /\ call[1] = "entities" => told = workspaces[p.job].decided
              /\ call[1] = "certificate" => told = p.output
              /\ IsActive(p.job)
        BY <2>4, <3>2 DEF Served, IsActive
      <4>4. call[1] = "entities" =>
              /\ DOMAIN told \subseteq Findings
              /\ IsActive(p.job)' => told = workspaces'[p.job].decided
        <5> SUFFICES ASSUME call[1] = "entities"
                     PROVE  DOMAIN told \subseteq Findings /\ told = workspaces'[p.job].decided
          OBVIOUS
        <5>1. p.job \in DOMAIN workspaces
          <6>1. Asks(p, "entities") /\ ~Asks(p, "job")
            BY <2>2, <2>3 DEF Asks, PromiseHolds, InOrder
          <6>2. p.job # 0 /\ p.job \in 0 .. Len(workspaces)
            BY <2>2, <6>1 DEF PromiseHolds, InOrder, Formed
          <6> QED
            BY <2>1, <6>2, PlacesOf DEF BackendHolds
        <5> QED
          BY <2>1, <4>1, <4>3, <5>1 DEF DecisionsHold, SameBackend
      <4>5. Answering(p, call, told)'
        BY <3>2, <4>3, <4>4 DEF Answering
      <4> QED
        BY <2>1, <2>3, <3>2, <4>2, <4>3, <4>5, AnswerGiven
    <3>3. CASE call[1] = "review"
      <4>1. /\ workspaces' = [workspaces EXCEPT ![p.job].decided[call[2]] = call[3]]
            /\ artifacts' = artifacts /\ IsActive(p.job) /\ Got(1, call, TRUE)
        BY <2>4, <3>3 DEF Served, IsActive
      <4>2. PageHolds' /\ DecisionsHold' /\ PromiseHolds(p)'
        BY <2>1, <2>2, <2>3, <2>5, <3>3, <4>1, ReviewServed
      <4>3. Answering(p, call, TRUE)'
        BY <3>3 DEF Answering
      <4> QED
        BY <2>1, <2>3, <3>3, <4>1, <4>2, <4>3, AnswerGiven
    <3>4. CASE call[1] = "transformed"
      <4> DEFINE new == [job |-> p.job, level |-> p.level, decided |-> workspaces[p.job].decided,
                         status |-> "CREATED"]
      <4>1. /\ artifacts' = Append(artifacts, new)
            /\ Got(1, call, Len(artifacts')) /\ workspaces' = workspaces
        BY <2>4, <3>4 DEF Served
      <4>2. new.job = p.job /\ new.level = p.level /\ new.decided = workspaces[p.job].decided
        OBVIOUS
      <4> HIDE DEF new
      <4>3. /\ IsSequence(artifacts') /\ DOMAIN artifacts \subseteq DOMAIN artifacts'
            /\ \A a \in DOMAIN artifacts : artifacts'[a] = artifacts[a]
            /\ Len(artifacts') \in DOMAIN artifacts' /\ artifacts'[Len(artifacts')] = new
        <5>1. IsSequence(artifacts) /\ DOMAIN artifacts = 1 .. Len(artifacts) /\ Len(artifacts) \in Nat
          BY <2>1, PlacesOf DEF BackendHolds
        <5>2. /\ IsSequence(artifacts') /\ Len(artifacts') = Len(artifacts) + 1
              /\ DOMAIN artifacts' = 1 .. Len(artifacts) + 1
              /\ \A k \in 1 .. Len(artifacts) : artifacts'[k] = artifacts[k]
              /\ artifacts'[Len(artifacts) + 1] = new
          BY <4>1, <5>1, AppendSequence
        <5> QED
          BY <5>1, <5>2
      <4>4. PageHolds' /\ DecisionsHold' /\ PromiseHolds(p)'
        BY <2>1, <2>2, <2>5, <4>1, <4>3, ArtifactsServed
      <4>5. \A n : n = Len(artifacts') => Answering(p, call, n)'
        BY <3>4, <4>1, <4>2, <4>3 DEF Answering
      <4> QED
        BY <2>1, <2>3, <3>4, <4>1, <4>4, <4>5, AnswerGiven
    <3>5. CASE call[1] = "verification"
      <4>1. PICK status :
              /\ artifacts' = [artifacts EXCEPT ![p.output].status = status]
              /\ Got(1, call, <<p.output, status>>) /\ workspaces' = workspaces
              /\ artifacts[p.output].job = p.job
        BY <2>4, <3>5 DEF Served
      <4>2. p.output \in DOMAIN artifacts
        BY <2>2, <2>3, <3>5 DEF PromiseHolds, Formed, Follows, Answers, Kinds
      <4>3. /\ DOMAIN artifacts' = DOMAIN artifacts
            /\ \A k \in DOMAIN artifacts :
                 /\ artifacts'[k].job = artifacts[k].job /\ artifacts'[k].level = artifacts[k].level
                 /\ artifacts'[k].decided = artifacts[k].decided
            /\ artifacts' = [k \in DOMAIN artifacts |-> artifacts'[k]]
        BY <2>1, <4>1 DEF BackendHolds
      <4>4. IsSequence(artifacts')
        BY <2>1, <4>3, MapSequence DEF BackendHolds
      <4>5. PageHolds' /\ DecisionsHold' /\ PromiseHolds(p)'
        BY <2>1, <2>2, <2>5, <4>1, <4>3, <4>4, ArtifactsServed
      <4> DEFINE told == <<p.output, status>>
      <4>6. told[1] = p.output /\ artifacts'[p.output].job = p.job /\ Got(1, call, told)
        BY <4>1, <4>2, <4>3
      <4> HIDE DEF told
      <4>7. Answering(p, call, told)'
        BY <3>5, <4>6 DEF Answering
      <4> QED
        BY <2>1, <2>3, <3>5, <4>5, <4>6, <4>7, AnswerGiven
    <3>6. CASE call[1] = "destruction"
      <4>1. Got(1, call, TRUE) /\ Erase({p.job})
        BY <2>4, <3>6 DEF Served
      <4>2. PageHolds' /\ DecisionsHold' /\ PromiseHolds(p)'
        BY <2>1, <2>2, <2>5, <4>1, ErasureKeepsPage, ErasureKeepsPromise
      <4>3. Answering(p, call, TRUE)'
        BY <3>6 DEF Answering
      <4> QED
        BY <2>1, <2>3, <3>6, <4>1, <4>2, <4>3, AnswerGiven
    <3> QED
      BY <2>4, <3>1, <3>2, <3>3, <3>4, <3>5, <3>6 DEF Served
  <2>7. PICK q : q = promises'[1] /\ PromiseHolds(q)'
    BY <2>6
  <2>8. promises'[1] # NoPromise
    <3>1. DOMAIN q # DOMAIN NoPromise
      BY <2>7 DEF PromiseHolds, Formed, NoPromise
    <3> QED
      BY <2>7, <3>1
  <2>9. (view.busy = (promises[1] # NoPromise))'
    BY <1>1, <2>1, <2>8
  <2> QED
    BY <1>1, <1>2, <1>4, <2>6, <2>7, <2>9 DEF CInv
<1> QED
  BY <1>3, <1>4

-----------------------------------------------------------------------------
(* The page goes on *)

(* A handler whose first set of calls has been answered goes on to the next. *)
GoesOn(q, p) ==
  /\ DOMAIN q = DOMAIN p /\ q.does = p.does /\ q.job = p.job /\ q.level = p.level
  /\ q.output = p.output /\ q.todo = Tail(p.todo)
  /\ \/ q.got = p.got
     \/ p.does \in {"review", "bulk"} /\ q.got = <<>>

(* The handler that goes on is as right as the one that has waited.          *)
LEMMA NextCalls ==
  ASSUME NEW p, PromiseHolds(p)', p.todo[1] = {}, Len(p.todo) # 1, NEW q, GoesOn(q, p)
  PROVE  PromiseHolds(q)'
<1>1. /\ DOMAIN p = {"does", "todo", "got", "job", "level", "output"} /\ p.does \in Kinds
      /\ IsSequence(p.todo) /\ p.todo # <<>> /\ Len(p.todo) \in Nat /\ Len(p.todo) # 0
      /\ DOMAIN p.todo = 1 .. Len(p.todo)
  BY PlacesOf DEF PromiseHolds, Formed
<1>2. /\ IsSequence(q.todo) /\ Len(q.todo) = Len(p.todo) - 1 /\ q.todo # <<>>
      /\ DOMAIN q.todo = 1 .. Len(p.todo) - 1
      /\ \A i \in DOMAIN q.todo : i + 1 \in DOMAIN p.todo /\ q.todo[i] = p.todo[i + 1]
  <2>1. /\ IsSequence(q.todo) /\ Len(q.todo) = Len(p.todo) - 1
        /\ DOMAIN q.todo = 1 .. Len(p.todo) - 1
        /\ \A i \in DOMAIN q.todo : i + 1 \in DOMAIN p.todo /\ q.todo[i] = p.todo[i + 1]
    BY <1>1, TailSequence DEF GoesOn
  <2>2. Len(q.todo) # 0
    BY <1>1, <2>1
  <2> QED
    BY <2>1, <2>2, PlacesOf
<1>3. \A f : Asks(q, f) <=> Asks(p, f)
  <2>1. \A f : Asks(q, f) => Asks(p, f)
    BY <1>2 DEF Asks
  <2>2. ASSUME NEW f, Asks(p, f)
        PROVE  Asks(q, f)
    <3>1. PICK i \in DOMAIN p.todo : \E c \in p.todo[i] : c[1] = f
      BY <2>2 DEF Asks
    <3>2. i # 1
      BY <3>1
    <3>3. PICK k \in 1 .. Len(p.todo) - 1 : k + 1 = i
      <4>1. i - 1 \in 1 .. Len(p.todo) - 1 /\ (i - 1) + 1 = i
        BY <1>1, <3>2
      <4> QED
        BY <4>1
    <3> QED
      BY <1>2, <3>1, <3>3 DEF Asks
  <2> QED
    BY <2>1, <2>2
<1>4. /\ DOMAIN q.got \subseteq DOMAIN p.got
      /\ \A f : HasGot(q, f) => HasGot(p, f) /\ q.got = p.got
  BY EmptySequence DEF GoesOn, HasGot
<1>5. Formed(q)'
  <2>1. \A i \in DOMAIN q.todo : \A c \in q.todo[i] : c[1] \in Answers(p.does)
    BY <1>2 DEF PromiseHolds, Formed
  <2>2. DOMAIN q.got \subseteq Answers(p.does)
    BY <1>4 DEF PromiseHolds, Formed
  <2>3. q.does \notin {"review", "bulk"} => \A f \in Answers(q.does) : Asks(q, f) \/ HasGot(q, f)
    BY <1>3 DEF PromiseHolds, Formed, GoesOn, HasGot
  <2>4. DOMAIN q = DOMAIN p /\ q.does = p.does /\ q.job = p.job
    BY DEF GoesOn
  <2> QED
    BY <1>1, <1>2, <2>1, <2>2, <2>3, <2>4 DEF PromiseHolds, Formed
<1>6. p.job # 0 /\ ~Asks(p, "job") /\ ~Asks(p, "verification")
  BY DEF PromiseHolds, InOrder, Asks
<1>7. InOrder(q)
  <2>1. \A i \in DOMAIN q.todo : \A c \in q.todo[i] : c[1] \notin {"job", "verification"}
    BY <1>3, <1>6 DEF Asks
  <2>2. ASSUME NEW i \in DOMAIN q.todo, NEW j \in DOMAIN q.todo, NEW c \in q.todo[i],
               NEW d \in q.todo[j],
               \/ c[1] = "recommendation" /\ d[1] = "graph" /\ q.does = "create"
               \/ c[1] = "review" /\ d[1] = "entities"
        PROVE  i < j
    <3>1. /\ i + 1 \in DOMAIN p.todo /\ j + 1 \in DOMAIN p.todo
          /\ c \in p.todo[i + 1] /\ d \in p.todo[j + 1]
      BY <1>2
    <3>2. i + 1 < j + 1
      BY <2>2, <3>1 DEF PromiseHolds, InOrder, GoesOn
    <3> QED
      BY <1>1, <1>2, <3>2
  <2>3. q.does = p.does /\ q.job = p.job
    BY DEF GoesOn
  <2> QED
    BY <1>3, <1>4, <1>6, <2>1, <2>2, <2>3 DEF PromiseHolds, InOrder
<1>8. AnswersHold(q)'
  BY <1>4 DEF PromiseHolds, AnswersHold, GoesOn
<1>9. ReviewsPending(q)' /\ Follows(q)'
  <2>1. ReviewsPending(q)'
    BY <1>2 DEF PromiseHolds, ReviewsPending
  <2> QED
    BY <2>1 DEF PromiseHolds, Follows, GoesOn
<1> QED
  BY <1>5, <1>7, <1>8, <1>9 DEF PromiseHolds, InOrder

(* What the answers replace on the page.                                     *)
LEMMA AppliedFields ==
  ASSUME NEW page, NEW got
  PROVE  /\ DOMAIN Applied(page, got) = DOMAIN page
         /\ \A f \in DOMAIN page :
              /\ f \in DOMAIN got => Applied(page, got)[f] = got[f]
              /\ f \notin DOMAIN got => Applied(page, got)[f] = page[f]
BY DEF Applied

(* Reviews show their answers as they come.                                  *)
LEMMA ReviewsShow ==
  ASSUME BackendHolds, DecisionsHold, PageHolds, SameBackend,
         NEW p, PromiseHolds(p), p.does \in {"review", "bulk"},
         DOMAIN view' = DOMAIN view,
         \A f \in DOMAIN view \ {"busy", "confirm"} :
           view'[f] = IF f \in DOMAIN p.got THEN p.got[f] ELSE view[f]
  PROVE  PageHolds' /\ PromiseHolds(p)'
<1>1. DOMAIN p.got \subseteq {"review", "entities", "graph", "recommendation"}
  BY DEF PromiseHolds, Formed, Answers
<1>2. DOMAIN view = DOMAIN NewPage
  BY DEF PageHolds
<1>3. /\ view'.job = view.job /\ view'.level = view.level /\ view'.transformed = view.transformed
      /\ view'.certificate = view.certificate /\ view'.verification = view.verification
      /\ view'.graph = IF HasGot(p, "graph") THEN p.got["graph"] ELSE view.graph
      /\ view'.entities = IF HasGot(p, "entities") THEN p.got["entities"] ELSE view.entities
  BY <1>1, <1>2 DEF NewPage, HasGot
<1>4. (~Current)' /\ ~Current
  <2>1. ~Current
    BY DEF PromiseHolds, Follows, Current
  <2> QED
    BY <1>3, <2>1 DEF Current, SameBackend
<1>5. view.job # 0 => p.job = view.job /\ p.level = view.level
  BY DEF PromiseHolds, Follows
<1>6. view.job # 0 => view'.graph = <<view.job, view.level>>
  BY <1>3, <1>5 DEF PageHolds, PromiseHolds, AnswersHold
<1>7. DOMAIN view'.entities \subseteq Findings
  BY <1>3 DEF PageHolds, PromiseHolds, AnswersHold
<1>8. ASSUME view.job # 0, IsActive(view.job)
      PROVE  /\ DOMAIN view'.entities = Findings
             /\ \A f \in Findings : view'.entities[f] \in {"PENDING", workspaces[view.job].decided[f]}
  <2>1. CASE HasGot(p, "entities")
    <3>1. view'.entities = workspaces[view.job].decided
      BY <1>3, <1>5, <1>8, <2>1 DEF PromiseHolds, AnswersHold
    <3>2. view.job \in DOMAIN workspaces
      BY <1>8, PlacesOf DEF PageHolds, BackendHolds
    <3> QED
      BY <1>8, <3>1, <3>2 DEF DecisionsHold
  <2>2. CASE ~HasGot(p, "entities")
    BY <1>3, <1>8, <2>2 DEF PageHolds
  <2> QED
    BY <2>1, <2>2
<1>9. PageHolds'
  BY <1>2, <1>3, <1>4, <1>6, <1>7, <1>8 DEF PageHolds, SameBackend, IsActive
<1>10. Formed(p)' /\ AnswersHold(p)' /\ Follows(p)'
  BY <1>3, <1>4 DEF PromiseHolds, Formed, AnswersHold, Follows, SameBackend, IsActive
<1>11. ReviewsPending(p)'
  <2>1. CASE HasGot(p, "entities")
    BY <2>1 DEF PromiseHolds, InOrder, ReviewsPending, Asks
  <2>2. CASE ~HasGot(p, "entities")
    BY <1>3, <2>2 DEF PromiseHolds, ReviewsPending
  <2> QED
    BY <2>1, <2>2
<1> QED
  BY <1>9, <1>10, <1>11 DEF PromiseHolds, InOrder

(* A handler that has come to its end leaves the page right.                    *)
LEMMA Ends ==
  ASSUME BackendHolds, DecisionsHold, PageHolds, SameBackend,
         NEW p, PromiseHolds(p), p.todo[1] = {},
         \/ Len(p.todo) = 1
         \/ p.does = "verify" /\ p.got["verification"][2] # "VERIFIED_SAFE",
         view' = [Settled(Applied(view, p.got), p) EXCEPT !.busy = FALSE]
  PROVE  PageHolds' /\ view'.busy = FALSE
<1>1. /\ DOMAIN p = {"does", "todo", "got", "job", "level", "output"} /\ p.does \in Kinds
      /\ DOMAIN p.got \subseteq Answers(p.does)
  BY DEF PromiseHolds, Formed
<1>2. PICK page : page = Applied(view, p.got)
  OBVIOUS
<1>3. /\ DOMAIN view = DOMAIN NewPage /\ DOMAIN page = DOMAIN NewPage
      /\ \A f \in DOMAIN NewPage :
           /\ f \in DOMAIN p.got => page[f] = p.got[f]
           /\ f \notin DOMAIN p.got => page[f] = view[f]
  <2>1. DOMAIN view = DOMAIN NewPage
    BY DEF PageHolds
  <2> QED
    BY <1>2, <2>1, AppliedFields
<1>4. PICK settled : settled = Settled(page, p)
  OBVIOUS
<1>5. view' = [settled EXCEPT !.busy = FALSE]
  BY <1>2, <1>4
<1>6. p.job # 0 /\ p.job \in DOMAIN workspaces
  <2>1. p.job # 0
    BY DEF PromiseHolds, InOrder, Asks
  <2> QED
    BY <2>1, PlacesOf DEF PromiseHolds, Formed, BackendHolds
<1>7. Len(p.todo) = 1 /\ p.does \notin {"review", "bulk"} => \A f \in Answers(p.does) : f \in DOMAIN p.got
  <2>1. Len(p.todo) = 1 => DOMAIN p.todo = {1}
    BY PlacesOf DEF PromiseHolds, Formed
  <2> QED
    BY <2>1 DEF PromiseHolds, Formed, Asks, HasGot
<1>8. view.job # 0 => /\ p.job = view.job /\ (p.does # "level" => p.level = view.level)
                      /\ p.does # "create"
  BY DEF PromiseHolds, Follows
<1>9. CASE p.does = "create"
  <2>1. DOMAIN p.got = {"job", "file", "analysis", "entities", "recommendation", "graph"}
    BY <1>1, <1>7, <1>9 DEF Answers
  <2>2. settled = [page EXCEPT !.level = p.got["recommendation"]]
    BY <1>4, <1>9 DEF Settled
  <2>3. /\ DOMAIN view' = DOMAIN NewPage /\ view'.busy = FALSE
        /\ view'.job = p.got["job"] /\ view'.entities = p.got["entities"]
        /\ view'.graph = p.got["graph"] /\ view'.level = p.got["recommendation"]
        /\ view'.transformed = view.transformed /\ view'.certificate = view.certificate
        /\ view'.verification = view.verification
    <3>1. /\ DOMAIN view' = DOMAIN NewPage /\ view'.busy = FALSE
          /\ view'.transformed = view.transformed /\ view'.certificate = view.certificate
          /\ view'.verification = view.verification
      BY <1>3, <1>5, <2>1, <2>2 DEF NewPage
    <3>2. /\ view'.job = p.got["job"] /\ view'.entities = p.got["entities"]
          /\ view'.graph = p.got["graph"] /\ view'.level = p.got["recommendation"]
      BY <1>3, <1>5, <2>1, <2>2 DEF NewPage
    <3> QED
      BY <3>1, <3>2
  <2>4. /\ p.got["job"] = p.job /\ p.got["graph"] = <<p.job, p.got["recommendation"]>>
        /\ DOMAIN p.got["entities"] \subseteq Findings
        /\ IsActive(p.job) => p.got["entities"] = workspaces[p.job].decided
    BY <1>9, <2>1 DEF PromiseHolds, AnswersHold, HasGot
  <2>5. view.job = 0 /\ ~Current
    BY <1>8, <1>9 DEF Current
  <2>6. ~Current'
    BY <1>9, <2>3, <2>4 DEF Current, PromiseHolds, Follows, SameBackend
  <2>7. IsActive(p.job) => DOMAIN workspaces[p.job].decided = Findings
    BY <1>6 DEF DecisionsHold
  <2>8. p.job \in 0 .. Len(workspaces)
    BY DEF PromiseHolds, Formed
  <2> QED
    BY <2>3, <2>4, <2>5, <2>6, <2>7, <2>8 DEF PageHolds, SameBackend, IsActive
<1>10. CASE p.does = "level"
  <2>1. DOMAIN p.got = {"graph"}
    BY <1>1, <1>7, <1>10 DEF Answers
  <2>2. settled = [page EXCEPT !.level = p.level, !.transformed = 0,
                           !.verification = Unverified, !.certificate = 0]
    BY <1>4, <1>10 DEF Settled
  <2>3. /\ DOMAIN view' = DOMAIN NewPage /\ view'.busy = FALSE
        /\ view'.job = view.job /\ view'.entities = view.entities
        /\ view'.graph = p.got["graph"] /\ view'.level = p.level
        /\ view'.transformed = 0
    <3>1. page.job = view.job /\ page.entities = view.entities /\ page.graph = p.got["graph"]
      BY <1>3, <2>1 DEF NewPage
    <3>2. /\ DOMAIN settled = DOMAIN NewPage
          /\ settled.job = page.job /\ settled.entities = page.entities
          /\ settled.graph = page.graph /\ settled.level = p.level /\ settled.transformed = 0
      BY <1>3, <2>2 DEF NewPage
    <3>3. /\ DOMAIN view' = DOMAIN settled /\ view'.busy = FALSE
          /\ view'.job = settled.job /\ view'.entities = settled.entities
          /\ view'.graph = settled.graph /\ view'.level = settled.level
          /\ view'.transformed = settled.transformed
      BY <1>5, <3>2 DEF NewPage
    <3> QED
      BY <3>1, <3>2, <3>3
  <2>4. p.got["graph"] = <<p.job, p.level>>
    BY <1>10, <2>1 DEF PromiseHolds, AnswersHold, HasGot
  <2>5. ~Current'
    BY <2>3 DEF Current
  <2>6. 0 \in 0 .. Len(artifacts)
    BY PlacesOf DEF BackendHolds
  <2> QED
    BY <1>8, <2>3, <2>4, <2>5, <2>6 DEF PageHolds, SameBackend, IsActive
<1>11. CASE p.does = "transform"
  <2>1. DOMAIN p.got = {"transformed"}
    BY <1>1, <1>7, <1>11 DEF Answers
  <2>2. settled = [page EXCEPT !.verification = Unverified, !.certificate = 0]
    BY <1>4, <1>11 DEF Settled
  <2>3. /\ DOMAIN view' = DOMAIN NewPage /\ view'.busy = FALSE
        /\ view'.job = view.job /\ view'.entities = view.entities
        /\ view'.graph = view.graph /\ view'.level = view.level
        /\ view'.transformed = p.got["transformed"] /\ view'.certificate = 0
    <3>1. /\ page.job = view.job /\ page.entities = view.entities
          /\ page.graph = view.graph /\ page.level = view.level
          /\ page.transformed = p.got["transformed"]
      BY <1>3, <2>1 DEF NewPage
    <3>2. /\ DOMAIN settled = DOMAIN NewPage
          /\ settled.job = page.job /\ settled.entities = page.entities
          /\ settled.graph = page.graph /\ settled.level = page.level
          /\ settled.transformed = page.transformed /\ settled.certificate = 0
      BY <1>3, <2>2 DEF NewPage
    <3>3. /\ DOMAIN view' = DOMAIN settled /\ view'.busy = FALSE
          /\ view'.job = settled.job /\ view'.entities = settled.entities
          /\ view'.graph = settled.graph /\ view'.level = settled.level
          /\ view'.transformed = settled.transformed /\ view'.certificate = settled.certificate
      BY <1>5, <3>2 DEF NewPage
    <3> QED
      BY <3>1, <3>2, <3>3
  <2>4. PICK t : t = p.got["transformed"]
    OBVIOUS
  <2>5. /\ t \in DOMAIN artifacts /\ artifacts[t].job = p.job /\ artifacts[t].level = p.level
        /\ artifacts[t].decided = workspaces[p.job].decided
    BY <2>1, <2>4 DEF PromiseHolds, AnswersHold, HasGot
  <2>6. t \in 0 .. Len(artifacts) /\ p.job \in 1 .. Len(workspaces)
    BY <1>6, <2>5, PlacesOf DEF BackendHolds
  <2>7. view.job # 0 => Undecided(view.entities) = {}
    BY <1>11 DEF PromiseHolds, Follows
  <2>8. Current' => view.job # 0
    BY <2>3 DEF Current
  <2> QED
    BY <1>8, <1>11, <2>3, <2>4, <2>5, <2>6, <2>7, <2>8 DEF PageHolds, SameBackend, IsActive
<1>12. CASE p.does = "verify"
  <2> DEFINE safe == p.got["verification"][2] = "VERIFIED_SAFE"
  <2>1. /\ DOMAIN p.got \subseteq {"verification", "certificate", "audit"}
        /\ "verification" \in DOMAIN p.got
    <3>1. ~Asks(p, "verification") /\ "verification" \in Answers(p.does)
      BY <1>12 DEF PromiseHolds, InOrder, Asks, Answers
    <3> QED
      BY <1>1, <1>12, <3>1 DEF PromiseHolds, Formed, Answers, HasGot
  <2>2. /\ safe => settled = page /\ "certificate" \in DOMAIN p.got
        /\ ~safe => settled = [page EXCEPT !.certificate = 0]
    <3>1. safe => settled = page
      BY <1>4, <1>12 DEF Settled
    <3>2. safe => "certificate" \in DOMAIN p.got
      BY <1>7, <1>12 DEF Answers
    <3>3. ~safe => settled = [page EXCEPT !.certificate = 0]
      BY <1>4, <1>12 DEF Settled
    <3> QED
      BY <3>1, <3>2, <3>3
  <2>3. /\ DOMAIN view' = DOMAIN NewPage /\ view'.busy = FALSE
        /\ view'.job = view.job /\ view'.entities = view.entities
        /\ view'.graph = view.graph /\ view'.level = view.level
        /\ view'.transformed = view.transformed
        /\ view'.verification = p.got["verification"]
        /\ safe => view'.certificate = p.got["certificate"]
        /\ ~safe => view'.certificate = 0
    <3>1. CASE safe
      BY <1>3, <1>5, <2>1, <2>2, <3>1 DEF NewPage
    <3>2. CASE ~safe
      BY <1>3, <1>5, <2>1, <2>2, <3>2 DEF NewPage
    <3> QED
      BY <3>1, <3>2
  <2>4. /\ p.got["verification"][1] = p.output /\ artifacts[p.output].job = p.job
        /\ safe => p.got["certificate"] = p.output
    BY <2>1, <2>2 DEF PromiseHolds, AnswersHold, HasGot
  <2>5. view.job # 0 => p.output = view.transformed
    BY <1>12 DEF PromiseHolds, Follows
  <2>6. view.job = 0 => view.transformed = 0
    BY <1>12 DEF PromiseHolds, Follows
  <2>7. Current' <=> Current
    BY <2>3 DEF Current, SameBackend
  <2>8. view.job # 0 /\ view.transformed # 0 => Current
    BY <1>8, <2>4, <2>5 DEF Current
  <2> QED
    BY <2>3, <2>4, <2>5, <2>6, <2>7, <2>8 DEF PageHolds, SameBackend, IsActive
<1>13. CASE p.does = "destroy"
  <2>1. DOMAIN p.got \subseteq {"destruction"}
    BY <1>1, <1>13 DEF Answers
  <2>2. settled = page
    BY <1>4, <1>13 DEF Settled
  <2>3. SamePage /\ view'.busy = FALSE
    BY <1>3, <1>5, <2>1, <2>2 DEF NewPage, SamePage
  <2> QED
    BY <2>3, PageStays
<1>14. CASE p.does \in {"review", "bulk"}
  <2>1. settled = [page EXCEPT !.confirm = FALSE]
    BY <1>4, <1>14 DEF Settled
  <2>2. /\ DOMAIN view' = DOMAIN view /\ view'.busy = FALSE
        /\ \A f \in DOMAIN view \ {"busy", "confirm"} :
             view'[f] = IF f \in DOMAIN p.got THEN p.got[f] ELSE view[f]
    <3>1. /\ DOMAIN settled = DOMAIN page /\ \A f \in DOMAIN page : f # "confirm" => settled[f] = page[f]
      BY <2>1
    <3>2. /\ DOMAIN view' = DOMAIN settled /\ \A f \in DOMAIN settled : f # "busy" => view'[f] = settled[f]
      BY <1>5
    <3>3. view'.busy = FALSE
      <4>1. "busy" \in DOMAIN settled
        BY <1>3, <3>1 DEF NewPage
      <4> QED
        BY <1>5, <4>1
    <3> QED
      BY <1>3, <3>1, <3>2, <3>3
  <2> QED
    BY <1>14, <2>2, ReviewsShow
<1> QED
  BY <1>1, <1>9, <1>10, <1>11, <1>12, <1>13, <1>14 DEF Kinds

(* A handler takes its answers and goes on, or comes to its end.             *)
LEMMA Resumes ==
  ASSUME CInv, NEW s \in Slots, Resume(s)
  PROVE  CInv'
<1>1. promises[s] # NoPromise /\ Head(promises[s].todo) = {} /\ SameBackend /\ aside' = aside
  BY DEF Resume, SameBackend
<1>2. BackendHolds' /\ (DecisionsHold => DecisionsHold')
  BY <1>1, BackendStays DEF CInv
<1>3. DOMAIN promises' = Slots
  BY DEF Resume, CInv
<1>4. CASE aside # 0
  BY <1>1, <1>2, <1>3, <1>4 DEF CInv
<1>5. CASE aside = 0
  <2>1. /\ s = 1 /\ promises[2] = NoPromise /\ view.busy = TRUE
        /\ BackendHolds /\ DecisionsHold /\ PageHolds /\ DOMAIN promises = Slots
    <3>1. /\ promises[2] = NoPromise /\ view.busy = (promises[1] # NoPromise)
          /\ BackendHolds /\ DecisionsHold /\ PageHolds /\ DOMAIN promises = Slots
      BY <1>5 DEF CInv
    <3>2. s = 1
      BY <1>1, <3>1 DEF Slots
    <3> QED
      BY <1>1, <3>1, <3>2
  <2> PICK p : p = promises[1]
    OBVIOUS
  <2>2. PromiseHolds(p)
    BY <1>1, <1>5, <2>1 DEF CInv
  <2>3. DOMAIN p = {"does", "todo", "got", "job", "level", "output"} /\ p.todo[1] = {}
    <3>1. IsSequence(p.todo) /\ p.todo # <<>>
      BY <2>2 DEF PromiseHolds, Formed
    <3> QED
      BY <1>1, <2>1, <2>2, <3>1, TailSequence DEF PromiseHolds, Formed
  <2> DEFINE last == \/ Len(p.todo) = 1
                     \/ p.does = "verify" /\ p.got["verification"][2] # "VERIFIED_SAFE"
             stepwise == p.does \in {"review", "bulk"}
             next == [[p EXCEPT !.todo = Tail(p.todo)]
                        EXCEPT !.got = IF stepwise THEN <<>> ELSE p.got]
  <2>4. CASE last
    <3>1. /\ promises' = [promises EXCEPT ![1] = NoPromise]
          /\ view' = [Settled(Applied(view, p.got), p) EXCEPT !.busy = FALSE]
      BY <2>1, <2>4 DEF Resume
    <3>2. PageHolds' /\ view'.busy = FALSE
      BY <1>1, <2>1, <2>2, <2>3, <2>4, <3>1, Ends
    <3>3. promises'[1] = NoPromise /\ promises'[2] = NoPromise
      BY <2>1, <3>1 DEF Slots
    <3>4. (view.busy = (promises[1] # NoPromise))'
      BY <3>2, <3>3
    <3> QED
      BY <1>1, <1>2, <1>3, <1>5, <2>1, <3>2, <3>3, <3>4 DEF CInv
  <2>5. CASE ~last
    <3>1. promises' = [promises EXCEPT ![1] = next]
      BY <2>1, <2>5 DEF Resume
    <3>2. GoesOn(next, p)
      BY <2>3 DEF GoesOn
    <3>3. Len(p.todo) # 1
      BY <2>5
    <3>4. /\ stepwise => view' = [Applied(view, p.got) EXCEPT !.busy = view.busy]
          /\ ~stepwise => view' = [view EXCEPT !.busy = TRUE]
      <4>1. CASE stepwise
        <5>1. p.does # "create"
          BY <4>1
        <5>2. PICK page : page = Applied(view, p.got)
          OBVIOUS
        <5>3. view' = [page EXCEPT !.busy = page.busy \/ FALSE]
          BY <2>1, <2>5, <4>1, <5>1, <5>2 DEF Resume
        <5>4. page.busy = TRUE
          <6>1. "busy" \in DOMAIN view /\ "busy" \notin DOMAIN p.got
            BY <2>1, <2>2, <4>1 DEF PageHolds, NewPage, PromiseHolds, Formed, Answers
          <6> QED
            BY <2>1, <5>2, <6>1, AppliedFields
        <5> QED
          BY <2>1, <4>1, <5>2, <5>3, <5>4
      <4>2. CASE ~stepwise
        BY <2>1, <2>5, <4>2 DEF Resume
      <4> QED
        BY <4>1, <4>2
    <3> HIDE DEF next
    <3>5. PageHolds' /\ PromiseHolds(p)' /\ view'.busy = TRUE
      <4>1. CASE stepwise
        <5>1. PICK page : page = Applied(view, p.got)
          OBVIOUS
        <5>2. /\ DOMAIN page = DOMAIN view /\ "busy" \in DOMAIN view
              /\ \A f \in DOMAIN view : page[f] = IF f \in DOMAIN p.got THEN p.got[f] ELSE view[f]
          <6>1. "busy" \in DOMAIN view
            BY <2>1 DEF PageHolds, NewPage
          <6> QED
            BY <5>1, <6>1, AppliedFields
        <5>3. view' = [page EXCEPT !.busy = view.busy]
          BY <3>4, <4>1, <5>1
        <5>4. /\ DOMAIN view' = DOMAIN view /\ view'.busy = TRUE
              /\ \A f \in DOMAIN view \ {"busy", "confirm"} :
                   view'[f] = IF f \in DOMAIN p.got THEN p.got[f] ELSE view[f]
          BY <2>1, <5>2, <5>3
        <5> QED
          BY <1>1, <2>1, <2>2, <4>1, <5>4, ReviewsShow
      <4>2. CASE ~stepwise
        <5>1. SamePage /\ view'.busy = TRUE
          BY <2>1, <3>4, <4>2 DEF SamePage, PageHolds, NewPage
        <5> QED
          BY <1>1, <2>1, <2>2, <5>1, PageStays, PromiseStays
      <4> QED
        BY <4>1, <4>2
    <3>6. PromiseHolds(next)'
      BY <2>3, <3>2, <3>3, <3>5, NextCalls
    <3>7. next # NoPromise
      <4>1. DOMAIN next # DOMAIN NoPromise
        BY <2>3, <3>2 DEF GoesOn, NoPromise
      <4> QED
        BY <4>1
    <3>8. promises'[1] = next /\ promises'[2] = NoPromise
      BY <2>1, <3>1 DEF Slots
    <3>9. (view.busy = (promises[1] # NoPromise))'
      BY <3>5, <3>7, <3>8
    <3>10. PICK q : q = promises'[1] /\ PromiseHolds(q)'
      BY <3>6, <3>8
    <3> QED
      BY <1>1, <1>2, <1>3, <1>5, <2>1, <3>5, <3>8, <3>9, <3>10 DEF CInv
  <2> QED
    BY <2>4, <2>5
<1> QED
  BY <1>4, <1>5

-----------------------------------------------------------------------------

(* The console opens right.                                                  *)
LEMMA ConsoleStarts == ConsoleInit => CInv
<1> SUFFICES ASSUME ConsoleInit
             PROVE  CInv
  OBVIOUS
<1>1. BackendHolds /\ DecisionsHold
  BY EmptySequence DEF ConsoleInit, BackendHolds, DecisionsHold
<1>2. PageHolds
  <2>1. 0 \in 0 .. Len(workspaces) /\ 0 \in 0 .. Len(artifacts)
    BY <1>1, PlacesOf DEF BackendHolds
  <2> QED
    BY <2>1, EmptySequence DEF ConsoleInit, PageHolds, NewPage, Current
<1> QED
  <2>1. /\ DOMAIN promises = Slots /\ promises[1] = NoPromise /\ promises[2] = NoPromise
        /\ view.busy = FALSE /\ aside = 0
    BY DEF ConsoleInit, NewPage, Slots
  <2>2. view.busy = (promises[1] # NoPromise)
    BY <2>1
  <2> QED
    BY <1>1, <1>2, <2>1, <2>2 DEF CInv

(* Every step of the console and its backend keeps it right.                 *)
LEMMA ConsoleStep == CInv /\ [ConsoleNext]_ConsoleVars => CInv'
<1> SUFFICES ASSUME CInv, [ConsoleNext]_ConsoleVars
             PROVE  CInv'
  OBVIOUS
<1>1. CASE createUploadAnalyse
  BY <1>1, CreateBegins
<1>2. CASE selectLevel \/ transform \/ destroy
  BY <1>2, SmallBeginnings
<1>3. CASE reviewMention
  BY <1>3, ReviewBegins
<1>4. CASE verify
  BY <1>4, VerifyBegins
<1>5. CASE protectHighConfidencePending
  BY <1>5, BulkBegins
<1>6. CASE askBulkProtect \/ cancelBulkProtect \/ pollLifecycle \/ startNewRelease \/ Leave
           \/ \E j \in DOMAIN workspaces : Expire(j)
  BY <1>6, OwnSteps
<1>7. CASE \E s \in Slots : Serve(s) \/ Fail(s) \/ Resume(s)
  BY <1>7, Serves, Fails, Resumes
<1>8. CASE UNCHANGED ConsoleVars
  <2>1. SameBackend /\ UNCHANGED <<view, promises, aside>>
    BY <1>8 DEF ConsoleVars, SameBackend
  <2>2. CASE aside = 0
    <3>1. SamePage /\ view'.busy = view.busy
      BY <2>1, <2>2 DEF SamePage, CInv, PageHolds
    <3> QED
      BY <2>1, <3>1, DialogStep
  <2>3. CASE aside # 0
    BY <2>1, <2>3, BackendStays DEF CInv
  <2> QED
    BY <2>2, <2>3
<1> QED
  BY <1>1, <1>2, <1>3, <1>4, <1>5, <1>6, <1>7, <1>8 DEF ConsoleNext

(* What is right of the page says that it tells the truth.                   *)
LEMMA ConsoleTells == CInv => ConsoleIsTruthful
<1> SUFFICES ASSUME CInv, aside = 0
             PROVE  ConsoleIsTruthful
  BY DEF ConsoleIsTruthful
<1>1. BackendHolds /\ DecisionsHold /\ PageHolds
  BY DEF CInv
<1>2. ReleaseStage =>
        LET made == artifacts[view.transformed]
        IN /\ view.certificate = view.transformed
           /\ view.verification[1] = view.transformed
           /\ made.job = view.job /\ made.level = view.level
           /\ made.decided = workspaces[view.job].decided
  BY <1>1 DEF ReleaseStage, PageHolds, Current
<1>3. Workspace => view.graph = <<view.job, view.level>>
  BY <1>1 DEF Workspace, PageHolds
<1>4. ASSUME Workspace, Undecided(view.entities) = {}
      PROVE  Undecided(workspaces[view.job].decided) = {}
  <2>1. view.job \in DOMAIN workspaces /\ view.job # 0
    BY <1>1, <1>4, PlacesOf DEF Workspace, PageHolds, BackendHolds
  <2>2. CASE IsActive(view.job)
    <3>1. /\ DOMAIN view.entities = Findings /\ DOMAIN workspaces[view.job].decided = Findings
          /\ \A f \in Findings : view.entities[f] \in {"PENDING", workspaces[view.job].decided[f]}
      BY <1>1, <2>1, <2>2 DEF PageHolds, DecisionsHold
    <3> QED
      BY <1>4, <3>1 DEF Undecided
  <2>3. CASE ~IsActive(view.job)
    BY <1>1, <2>1, <2>3, EmptySequence DEF DecisionsHold, Undecided
  <2> QED
    BY <2>2, <2>3
<1> QED
  BY <1>2, <1>3, <1>4 DEF ConsoleIsTruthful, CanApply

-----------------------------------------------------------------------------
(* What the page and its handlers hold, by type *)

PageLevels == LevelChoices \cup {NewPage.level}
Answerable == {"job", "file", "analysis", "entities", "recommendation", "graph", "review",
               "transformed", "verification", "certificate", "audit", "destruction"}

(* An answer the page can take, with that many jobs and outputs.             *)
AnswerTyped(f, told, jobs, outputs) ==
  /\ f = "job" => told \in 0 .. jobs
  /\ f = "transformed" => told \in 0 .. outputs
  /\ f = "recommendation" => told \in PageLevels
  /\ f = "entities" => DOMAIN told \subseteq Findings
PromiseTyped(p, jobs, outputs) ==
  /\ DOMAIN p = {"does", "todo", "got", "job", "level", "output"}
  /\ IsSequence(p.todo) /\ p.todo # <<>>
  /\ p.job \in 0 .. jobs /\ p.level \in PageLevels
  /\ \A i \in DOMAIN p.todo : \A c \in p.todo[i] :
        c[1] \in Answerable /\ (c[1] = "job" => i = 1 /\ p.job = 0)
  /\ p.job = 0 => p.todo[1] = {<<"job">>} /\ p.got = <<>>
  /\ DOMAIN p.got \subseteq Answerable
  /\ p.does = "create" => Asks(p, "recommendation") \/ HasGot(p, "recommendation")
  /\ \A f \in DOMAIN p.got : AnswerTyped(f, p.got[f], jobs, outputs)

PageTyped ==
  /\ DOMAIN view = DOMAIN NewPage
  /\ view.job \in 0 .. Len(workspaces) /\ view.transformed \in 0 .. Len(artifacts)
  /\ view.level \in PageLevels /\ DOMAIN view.entities \subseteq Findings
StoredTyped ==
  /\ \A j \in DOMAIN workspaces : DOMAIN workspaces[j].decided \subseteq Findings
  /\ \A a \in DOMAIN artifacts : artifacts[a].job \in DOMAIN workspaces
WaitingTyped ==
  \A s \in Slots : \/ promises[s] = NoPromise
                   \/ PromiseTyped(promises[s], Len(workspaces), Len(artifacts))

(* The types of the page and of what it waits for, whatever runs beside what. *)
TypesHold ==
  BackendHolds /\ DOMAIN promises = Slots /\ StoredTyped /\ PageTyped /\ WaitingTyped

(* What a handler has stays typed as jobs and outputs are added.             *)
LEMMA TypedStays ==
  ASSUME NEW n \in Nat, NEW m \in Nat, NEW k \in Nat, NEW l \in Nat, n <= k, m <= l,
         NEW p, PromiseTyped(p, n, m)
  PROVE  PromiseTyped(p, k, l)
<1>1. 0 .. n \subseteq 0 .. k /\ 0 .. m \subseteq 0 .. l
  OBVIOUS
<1>2. \A f \in DOMAIN p.got : AnswerTyped(f, p.got[f], k, l)
  BY <1>1 DEF PromiseTyped, AnswerTyped
<1> QED
  BY <1>1, <1>2 DEF PromiseTyped

(* An idle page and the form of a step that adds nothing to the backend.     *)
LEMMA Lengths ==
  ASSUME BackendHolds
  PROVE  Len(workspaces) \in Nat /\ Len(artifacts) \in Nat
         /\ DOMAIN workspaces = 1 .. Len(workspaces) /\ DOMAIN artifacts = 1 .. Len(artifacts)
BY PlacesOf DEF BackendHolds

(* A handler begins with a list of calls.                                    *)
LEMMA BeginsTyped ==
  ASSUME TypesHold, NEW p, execute(p), PromiseTyped(p, Len(workspaces), Len(artifacts))
  PROVE  TypesHold'
<1>1. SameBackend /\ view' = [view EXCEPT !.busy = TRUE]
  BY DEF execute, SameBackend
<1>2. PICK s \in Slots : promises' = [promises EXCEPT ![s] = p]
  BY DEF execute
<1>3. BackendHolds' /\ StoredTyped'
  BY <1>1, BackendStays DEF TypesHold, StoredTyped, SameBackend
<1>4. PageTyped'
  BY <1>1 DEF TypesHold, PageTyped, SameBackend, NewPage
<1>5. DOMAIN promises' = Slots
  BY <1>2 DEF TypesHold
<1>6. ASSUME NEW t \in Slots
      PROVE  \/ promises'[t] = NoPromise
             \/ PromiseTyped(promises'[t], Len(workspaces), Len(artifacts))
  <2>1. promises'[t] = IF t = s THEN p ELSE promises[t]
    BY <1>2 DEF TypesHold
  <2> QED
    BY <2>1 DEF TypesHold, WaitingTyped
<1>7. WaitingTyped'
  BY <1>1, <1>6 DEF WaitingTyped, SameBackend
<1> QED
  BY <1>3, <1>4, <1>5, <1>7 DEF TypesHold

(* One that asks for no job and has no level to set from an answer.          *)
LEMMA Ordinary ==
  ASSUME TypesHold, NEW p, DOMAIN p = {"does", "todo", "got", "job", "level", "output"},
         IsSequence(p.todo), p.todo # <<>>, p.got = <<>>, p.does # "create",
         p.job = view.job, view.job # 0, p.level \in PageLevels,
         \A i \in DOMAIN p.todo : \A c \in p.todo[i] : c[1] \in Answerable \ {"job"}
  PROVE  PromiseTyped(p, Len(workspaces), Len(artifacts))
<1>1. DOMAIN p.got = {}
  BY EmptySequence
<1> QED
  BY <1>1 DEF PromiseTyped, TypesHold, PageTyped

(* A handler that makes a single call.                                       *)
LEMMA OneCall ==
  ASSUME TypesHold, NEW p, NEW f \in Answerable \ {"job"},
         DOMAIN p = {"does", "todo", "got", "job", "level", "output"},
         p.todo = <<{<<f>>}>>, p.got = <<>>, p.does # "create",
         p.job = view.job, view.job # 0, p.level \in PageLevels
  PROVE  PromiseTyped(p, Len(workspaces), Len(artifacts))
<1>1. IsSequence(p.todo) /\ p.todo # <<>> /\ DOMAIN p.todo = {1}
  <2> DEFINE asked == {<<f>>}
  <2> HIDE DEF asked
  <2>1. <<asked>> \in Seq({asked}) /\ DOMAIN <<asked>> = {1} /\ <<asked>> # <<>>
    OBVIOUS
  <2> QED
    BY <2>1 DEF IsSequence, asked
<1>2. p.todo[1] = {<<f>>} /\ <<f>>[1] = f
  OBVIOUS
<1>3. \A i \in DOMAIN p.todo : \A c \in p.todo[i] : c[1] \in Answerable \ {"job"}
  BY <1>1, <1>2
<1> QED
  BY <1>1, <1>3, Ordinary

(* The handlers that make one.                                               *)
LEMMA SmallBeginningsTyped ==
  ASSUME TypesHold, selectLevel \/ transform \/ destroy
  PROVE  TypesHold'
<1>0. view.level \in PageLevels
  BY DEF TypesHold, PageTyped
<1>1. CASE selectLevel
  <2> PICK level \in LevelChoices :
        Await([Promise("level", <<{<<"graph">>}>>) EXCEPT !.level = level])
    BY <1>1 DEF selectLevel
  <2> DEFINE first == Promise("level", <<{<<"graph">>}>>)
             p == [first EXCEPT !.level = level]
  <2>1. /\ DOMAIN first = {"does", "todo", "got", "job", "level", "output"}
        /\ first.does = "level" /\ first.todo = <<{<<"graph">>}>> /\ first.got = <<>>
        /\ first.job = view.job
    BY PromiseFields
  <2> HIDE DEF first
  <2>2. /\ DOMAIN p = {"does", "todo", "got", "job", "level", "output"}
        /\ p.does = "level" /\ p.todo = <<{<<"graph">>}>> /\ p.got = <<>>
        /\ p.job = view.job /\ p.level = level
    BY <2>1
  <2>3. view.job # 0 /\ execute(p)
    BY <1>1 DEF selectLevel, Workspace, Await, first
  <2> HIDE DEF p
  <2>4. "graph" \in Answerable \ {"job"} /\ level \in PageLevels
    BY DEF Answerable, PageLevels
  <2>5. PromiseTyped(p, Len(workspaces), Len(artifacts))
    BY <2>2, <2>3, <2>4, OneCall
  <2> QED
    BY <2>3, <2>5, BeginsTyped
<1>2. CASE transform
  <2> DEFINE p == Promise("transform", <<{<<"transformed">>}>>)
  <2>1. /\ DOMAIN p = {"does", "todo", "got", "job", "level", "output"}
        /\ p.does = "transform" /\ p.todo = <<{<<"transformed">>}>> /\ p.got = <<>>
        /\ p.job = view.job /\ p.level = view.level
    BY PromiseFields
  <2>2. view.job # 0 /\ execute(p)
    BY <1>2 DEF transform, CanApply, Workspace, Await
  <2> HIDE DEF p
  <2>3. "transformed" \in Answerable \ {"job"}
    BY DEF Answerable
  <2>4. PromiseTyped(p, Len(workspaces), Len(artifacts))
    BY <1>0, <2>1, <2>2, <2>3, OneCall
  <2> QED
    BY <2>2, <2>4, BeginsTyped
<1>3. CASE destroy
  <2> DEFINE p == Promise("destroy", <<{<<"destruction">>}>>)
  <2>1. /\ DOMAIN p = {"does", "todo", "got", "job", "level", "output"}
        /\ p.does = "destroy" /\ p.todo = <<{<<"destruction">>}>> /\ p.got = <<>>
        /\ p.job = view.job /\ p.level = view.level
    BY PromiseFields
  <2>2. view.job # 0 /\ execute(p)
    BY <1>3 DEF destroy, Workspace, Await
  <2> HIDE DEF p
  <2>3. "destruction" \in Answerable \ {"job"}
    BY DEF Answerable
  <2>4. PromiseTyped(p, Len(workspaces), Len(artifacts))
    BY <1>0, <2>1, <2>2, <2>3, OneCall
  <2> QED
    BY <2>2, <2>4, BeginsTyped
<1> QED
  BY <1>1, <1>2, <1>3

(* A proof is asked for: the verdict first, then certificate and audit.      *)
LEMMA VerifyTyped ==
  ASSUME TypesHold, verify
  PROVE  TypesHold'
<1> DEFINE A == {<<"verification">>}
           B == {<<"certificate">>, <<"audit">>}
           p == Promise("verify", <<A, B>>)
<1>1. /\ DOMAIN p = {"does", "todo", "got", "job", "level", "output"}
      /\ p.does = "verify" /\ p.todo = <<A, B>> /\ p.got = <<>>
      /\ p.job = view.job /\ p.level = view.level
  BY PromiseFields
<1>2. view.job # 0 /\ execute(p)
  BY DEF verify, Workspace, Await
<1>3. \A c \in A \cup B : c[1] \in Answerable \ {"job"}
  BY DEF Answerable
<1> HIDE DEF p, A, B
<1>4. /\ IsSequence(p.todo) /\ p.todo # <<>> /\ DOMAIN p.todo = {1, 2}
      /\ p.todo[1] = A /\ p.todo[2] = B
  <2>1. <<A, B>> \in Seq({A, B}) /\ DOMAIN <<A, B>> = {1, 2} /\ <<A, B>> # <<>>
        /\ <<A, B>>[1] = A /\ <<A, B>>[2] = B
    OBVIOUS
  <2> QED
    BY <1>1, <2>1 DEF IsSequence
<1>5. \A i \in DOMAIN p.todo : \A c \in p.todo[i] : c[1] \in Answerable \ {"job"}
  BY <1>3, <1>4
<1>6. PromiseTyped(p, Len(workspaces), Len(artifacts))
  BY <1>1, <1>2, <1>4, <1>5, Ordinary DEF TypesHold, PageTyped
<1> QED
  BY <1>2, <1>6, BeginsTyped

(* A mention is reviewed.                                                    *)
LEMMA ReviewTyped ==
  ASSUME TypesHold, reviewMention
  PROVE  TypesHold'
<1> PICK f \in Undecided(view.entities), action \in {"PROTECT", "IGNORE"} :
       Await(Promise("review", <<{<<"review", f, action>>}, {<<"entities">>}, {<<"graph">>},
                                 {<<"recommendation">>}>>))
  BY DEF reviewMention
<1> DEFINE A == {<<"review", f, action>>}
           B == {<<"entities">>}
           C == {<<"graph">>}
           D == {<<"recommendation">>}
           p == Promise("review", <<A, B, C, D>>)
<1>1. /\ DOMAIN p = {"does", "todo", "got", "job", "level", "output"}
      /\ p.does = "review" /\ p.todo = <<A, B, C, D>> /\ p.got = <<>>
      /\ p.job = view.job /\ p.level = view.level
  BY PromiseFields
<1>2. view.job # 0 /\ execute(p)
  BY DEF reviewMention, Workspace, Await
<1>3. \A c \in A \cup B \cup C \cup D : c[1] \in Answerable \ {"job"}
  BY DEF Answerable
<1> HIDE DEF p, A, B, C, D
<1>4. /\ IsSequence(p.todo) /\ p.todo # <<>> /\ DOMAIN p.todo = {1, 2, 3, 4}
      /\ p.todo[1] = A /\ p.todo[2] = B /\ p.todo[3] = C /\ p.todo[4] = D
  <2>1. /\ <<A, B, C, D>> \in Seq({A, B, C, D}) /\ DOMAIN <<A, B, C, D>> = {1, 2, 3, 4}
        /\ <<A, B, C, D>> # <<>> /\ <<A, B, C, D>>[1] = A /\ <<A, B, C, D>>[2] = B
        /\ <<A, B, C, D>>[3] = C /\ <<A, B, C, D>>[4] = D
    OBVIOUS
  <2> QED
    BY <1>1, <2>1 DEF IsSequence
<1>5. \A i \in DOMAIN p.todo : \A c \in p.todo[i] : c[1] \in Answerable \ {"job"}
  BY <1>3, <1>4
<1>6. PromiseTyped(p, Len(workspaces), Len(artifacts))
  BY <1>1, <1>2, <1>4, <1>5, Ordinary DEF TypesHold, PageTyped
<1> QED
  BY <1>2, <1>6, BeginsTyped

(* A file is uploaded: the job comes before all that needs one.              *)
LEMMA CreateTyped ==
  ASSUME TypesHold, createUploadAnalyse
  PROVE  TypesHold'
<1> DEFINE A == {<<"job">>}
           B == {<<"file">>}
           C == {<<"analysis">>}
           D == {<<"entities">>, <<"recommendation">>}
           E == {<<"graph">>}
           p == Promise("create", <<A, B, C, D, E>>)
<1>1. /\ DOMAIN p = {"does", "todo", "got", "job", "level", "output"}
      /\ p.does = "create" /\ p.todo = <<A, B, C, D, E>> /\ p.got = <<>> /\ p.job = view.job
      /\ p.level = view.level
  BY PromiseFields
<1>2. view.job = 0 /\ execute(p)
  BY DEF createUploadAnalyse, Landing, Await
<1>3. /\ \A c \in A : c[1] = "job"
      /\ \A c \in B \cup C \cup D \cup E : c[1] \in Answerable \ {"job"}
      /\ \E c \in D : c[1] = "recommendation"
      /\ A = {<<"job">>} /\ "job" \in Answerable
  BY DEF Answerable
<1> HIDE DEF p, A, B, C, D, E
<1>4. /\ IsSequence(p.todo) /\ p.todo # <<>> /\ DOMAIN p.todo = {1, 2, 3, 4, 5}
      /\ p.todo[1] = A /\ p.todo[2] = B /\ p.todo[3] = C /\ p.todo[4] = D /\ p.todo[5] = E
  <2> DEFINE t == <<A, B, C, D, E>>
  <2>1. /\ t \in Seq({A, B, C, D, E}) /\ DOMAIN t = {1, 2, 3, 4, 5}
        /\ t # <<>> /\ t[1] = A /\ t[2] = B /\ t[3] = C /\ t[4] = D /\ t[5] = E
    OBVIOUS
  <2> QED
    BY <1>1, <2>1 DEF IsSequence
<1>5. \A i \in DOMAIN p.todo : \A c \in p.todo[i] :
         c[1] \in Answerable /\ (c[1] = "job" => i = 1)
  BY <1>3, <1>4
<1>6. Asks(p, "recommendation") /\ DOMAIN p.got = {}
  BY <1>1, <1>3, <1>4, EmptySequence DEF Asks
<1>7. PromiseTyped(p, Len(workspaces), Len(artifacts))
  BY <1>1, <1>2, <1>3, <1>4, <1>5, <1>6 DEF TypesHold, PageTyped, PromiseTyped
<1> QED
  BY <1>2, <1>7, BeginsTyped

(* All pending mentions are protected, one call after the other.             *)
LEMMA BulkTyped ==
  ASSUME TypesHold, protectHighConfidencePending
  PROVE  TypesHold'
<1> DEFINE pending == Undecided(view.entities)
           n == Cardinality(pending)
           reviews(order) == [k \in 1 .. n |-> {<<"review", order[k], "PROTECT">>}]
           order == CHOOSE o \in [1 .. n -> pending] :
                      \A i, j \in DOMAIN o : o[i] = o[j] => i = j
           G == {<<"graph">>}
           E == {<<"entities">>}
           todo == reviews(order) \o <<E, G>>
           p == Promise("bulk", todo)
<1>1. view.job # 0
  BY DEF protectHighConfidencePending, Workspace
<1>2. CASE pending = {}
  <2>1. view' = [view EXCEPT !.busy = FALSE] /\ SameBackend /\ UNCHANGED promises
    BY <1>2 DEF protectHighConfidencePending, SameBackend
  <2>2. PageTyped'
    BY <2>1 DEF TypesHold, PageTyped, SameBackend, NewPage
  <2> QED
    BY <2>1, <2>2, BackendStays DEF TypesHold, StoredTyped, WaitingTyped, SameBackend
<1>3. CASE pending # {}
  <2>1. execute(p)
    BY <1>3 DEF protectHighConfidencePending
  <2>2. IsFiniteSet(pending)
    <3>1. pending \subseteq Findings
      BY DEF TypesHold, PageTyped, Undecided
    <3> QED
      BY <3>1, ConsoleAssumption, FS_Subset
  <2>3. n \in Nat
    BY <2>2, FS_CardinalityType
  <2> DEFINE R == reviews(order)
  <2>4. \A k \in 1 .. n : \A c \in R[k] : c[1] \in Answerable \ {"job"}
    BY DEF Answerable
  <2>5. \A c \in E \cup G : c[1] \in Answerable \ {"job"}
    BY DEF Answerable
  <2>6. DOMAIN R = 1 .. n /\ R = [k \in 1 .. n |-> R[k]]
    OBVIOUS
  <2> HIDE DEF E, G, R, n
  <2>7. /\ IsSequence(todo) /\ todo # <<>> /\ DOMAIN todo = 1 .. n + 2
        /\ \A k \in 1 .. n : todo[k] = R[k]
        /\ todo[n + 1] = E /\ todo[n + 2] = G
    <3> DEFINE S == {R[k] : k \in 1 .. n} \cup {E, G}
    <3>1. R \in [1 .. n -> S]
      BY <2>6
    <3>2. R \in Seq(S) /\ Len(R) = n
      BY <2>3, <2>6, <3>1
    <3>3. E \in S /\ G \in S
      OBVIOUS
    <3>4. todo = R \o <<E, G>>
      BY DEF R
    <3> HIDE DEF todo, S
    <3> QED
      BY <3>2, <3>3, <3>4, TwoMore
  <2> HIDE DEF todo
  <2>8. /\ DOMAIN p = {"does", "todo", "got", "job", "level", "output"}
        /\ p.does = "bulk" /\ p.todo = todo /\ p.got = <<>>
        /\ p.job = view.job /\ p.level = view.level
    BY PromiseFields
  <2> HIDE DEF p
  <2>9. \A i \in DOMAIN p.todo : \A c \in p.todo[i] : c[1] \in Answerable \ {"job"}
    <3>1. \A i \in 1 .. n + 2 : i \in 1 .. n \/ i = n + 1 \/ i = n + 2
      BY <2>3
    <3> QED
      BY <2>4, <2>5, <2>7, <2>8, <3>1
  <2>10. PromiseTyped(p, Len(workspaces), Len(artifacts))
    BY <1>1, <2>7, <2>8, <2>9, Ordinary DEF TypesHold, PageTyped
  <2> QED
    BY <2>1, <2>10, BeginsTyped
<1> QED
  BY <1>2, <1>3

(* Erasure leaves no decisions and moves no output to another job.           *)
LEMMA ErasureTyped ==
  ASSUME TypesHold, NEW jobs, Erase(jobs)
  PROVE  /\ BackendHolds' /\ StoredTyped'
         /\ Len(workspaces') = Len(workspaces) /\ Len(artifacts') = Len(artifacts)
<1>1. /\ BackendHolds'
      /\ Len(workspaces') = Len(workspaces) /\ DOMAIN workspaces' = DOMAIN workspaces
      /\ Len(artifacts') = Len(artifacts) /\ DOMAIN artifacts' = DOMAIN artifacts
      /\ \A j \in DOMAIN workspaces : workspaces'[j].decided = <<>> \/ workspaces'[j] = workspaces[j]
      /\ \A a \in DOMAIN artifacts : artifacts'[a].job = artifacts[a].job
  BY Erasure DEF TypesHold
<1>2. DOMAIN <<>> = {}
  BY EmptySequence
<1> QED
  BY <1>1, <1>2 DEF TypesHold, StoredTyped

(* The page's own steps, a job that expires, and a call that fails.          *)
LEMMA OwnStepsTyped ==
  ASSUME TypesHold,
         \/ askBulkProtect \/ cancelBulkProtect
         \/ pollLifecycle \/ startNewRelease \/ Leave
         \/ \E j \in DOMAIN workspaces : Expire(j)
         \/ \E s \in Slots : Fail(s)
  PROVE  TypesHold'
<1>0. NewPage.level \in PageLevels /\ DOMAIN NewPage.entities = {} /\ view.level \in PageLevels
  BY EmptySequence DEF TypesHold, PageTyped, NewPage, PageLevels
<1>1. Len(workspaces) \in Nat /\ Len(artifacts) \in Nat
  BY Lengths DEF TypesHold
<1> DEFINE flagged == /\ \/ \E flag \in BOOLEAN : view' = [view EXCEPT !.confirm = flag]
                         \/ view' = [view EXCEPT !.destruction = TRUE]
                         \/ view' = [view EXCEPT !.busy = FALSE]
                      /\ SameBackend
                      /\ \/ promises' = promises
                         \/ \E s \in Slots : promises' = [promises EXCEPT ![s] = NoPromise]
<1>2. CASE flagged
  <2>1. PageTyped'
    BY <1>2 DEF TypesHold, PageTyped, SameBackend, NewPage
  <2>2. \A s \in Slots : promises'[s] = NoPromise \/ promises'[s] = promises[s]
    BY <1>2 DEF TypesHold
  <2>3. WaitingTyped' /\ DOMAIN promises' = Slots
    BY <1>2, <2>2 DEF TypesHold, WaitingTyped, SameBackend
  <2> QED
    BY <1>2, <2>1, <2>3, BackendStays DEF TypesHold, StoredTyped, SameBackend
<1>3. CASE startNewRelease
  <2>1. /\ view' = [NewPage EXCEPT !.busy = view.busy, !.confirm = view.confirm,
                                   !.level = view.level]
        /\ SameBackend /\ promises' = promises
    BY <1>3 DEF startNewRelease, SameBackend
  <2>2. /\ DOMAIN view' = DOMAIN NewPage /\ view'.job = 0 /\ view'.transformed = 0
        /\ view'.level = view.level /\ view'.entities = NewPage.entities
    BY <2>1 DEF NewPage
  <2>3. PageTyped'
    BY <1>0, <1>1, <2>1, <2>2 DEF PageTyped, SameBackend
  <2> QED
    BY <2>1, <2>3, BackendStays DEF TypesHold, StoredTyped, SameBackend, WaitingTyped
<1>4. CASE Leave
  <2>1. /\ view' = NewPage /\ promises' = [s \in Slots |-> NoPromise]
        /\ Erase(DOMAIN workspaces)
    BY <1>4 DEF Leave
  <2>2. /\ BackendHolds' /\ StoredTyped'
        /\ Len(workspaces') = Len(workspaces) /\ Len(artifacts') = Len(artifacts)
    BY <2>1, ErasureTyped
  <2>3. PageTyped'
    BY <1>0, <1>1, <2>1, <2>2 DEF PageTyped, NewPage
  <2> QED
    BY <2>1, <2>2, <2>3 DEF TypesHold, WaitingTyped
<1>5. CASE \E j \in DOMAIN workspaces : Expire(j)
  <2> PICK j \in DOMAIN workspaces : Expire(j)
    BY <1>5
  <2>1. Erase({j}) /\ UNCHANGED <<view, promises>>
    BY DEF Expire
  <2>2. /\ BackendHolds' /\ StoredTyped'
        /\ Len(workspaces') = Len(workspaces) /\ Len(artifacts') = Len(artifacts)
    BY <2>1, ErasureTyped
  <2> QED
    BY <2>1, <2>2 DEF TypesHold, PageTyped, WaitingTyped
<1>6. askBulkProtect \/ cancelBulkProtect \/ pollLifecycle => flagged
  BY DEF askBulkProtect, cancelBulkProtect, pollLifecycle, SameBackend
<1>7. (\E s \in Slots : Fail(s)) => flagged
  BY DEF Fail, SameBackend
<1> QED
  BY <1>2, <1>3, <1>4, <1>5, <1>6, <1>7

(* The page applies what is typed and stays typed.                           *)
LEMMA AppliedTyped ==
  ASSUME PageTyped, NEW p, PromiseTyped(p, Len(workspaces), Len(artifacts)),
         NEW page, page = Applied(view, p.got)
  PROVE  /\ DOMAIN page = DOMAIN NewPage
         /\ page.job \in 0 .. Len(workspaces) /\ page.transformed \in 0 .. Len(artifacts)
         /\ page.level \in PageLevels /\ DOMAIN page.entities \subseteq Findings
<1>1. /\ DOMAIN page = DOMAIN view
      /\ \A f \in DOMAIN view : page[f] = IF f \in DOMAIN p.got THEN p.got[f] ELSE view[f]
  BY AppliedFields
<1>2. /\ {"job", "transformed", "level", "entities"} \subseteq DOMAIN view
      /\ "level" \notin DOMAIN p.got
  BY DEF PageTyped, NewPage, PromiseTyped, Answerable
<1>3. \A f \in DOMAIN p.got : AnswerTyped(f, p.got[f], Len(workspaces), Len(artifacts))
  BY DEF PromiseTyped
<1>4. page.job \in 0 .. Len(workspaces)
  BY <1>1, <1>2, <1>3 DEF PageTyped, AnswerTyped
<1>5. page.transformed \in 0 .. Len(artifacts)
  BY <1>1, <1>2, <1>3 DEF PageTyped, AnswerTyped
<1>6. page.level \in PageLevels
  BY <1>1, <1>2 DEF PageTyped
<1>7. DOMAIN page.entities \subseteq Findings
  BY <1>1, <1>2, <1>3 DEF PageTyped, AnswerTyped
<1> QED
  BY <1>1, <1>4, <1>5, <1>6, <1>7 DEF PageTyped

(* What a handler resets at its end is of the right kind.                    *)
LEMMA SettledTyped ==
  ASSUME BackendHolds, NEW p, PromiseTyped(p, Len(workspaces), Len(artifacts)),
         p.does = "create" => p.got["recommendation"] \in PageLevels,
         NEW page, DOMAIN page = DOMAIN NewPage,
         page.job \in 0 .. Len(workspaces), page.transformed \in 0 .. Len(artifacts),
         page.level \in PageLevels, DOMAIN page.entities \subseteq Findings,
         NEW next, next = [Settled(page, p) EXCEPT !.busy = FALSE]
  PROVE  /\ DOMAIN next = DOMAIN NewPage
         /\ next.job \in 0 .. Len(workspaces) /\ next.transformed \in 0 .. Len(artifacts)
         /\ next.level \in PageLevels /\ DOMAIN next.entities \subseteq Findings
<1>1. 0 \in 0 .. Len(artifacts) /\ p.level \in PageLevels
  BY Lengths DEF PromiseTyped
<1>2. {"job", "transformed", "level", "entities", "confirm", "certificate", "verification", "busy"}
        \subseteq DOMAIN page
  BY DEF NewPage
<1>3. CASE p.does = "create"
  <2> DEFINE q == [page EXCEPT !.level = p.got["recommendation"]]
  <2>1. Settled(page, p) = q
    BY <1>3 DEF Settled
  <2> QED
    BY <1>2, <1>3, <2>1
<1>4. CASE p.does = "level"
  <2> DEFINE q == [page EXCEPT !.level = p.level, !.transformed = 0,
                               !.verification = Unverified, !.certificate = 0]
  <2>1. Settled(page, p) = q
    BY <1>4 DEF Settled
  <2> QED
    BY <1>1, <1>2, <2>1
<1>5. CASE p.does \notin {"create", "level"}
  <2> DEFINE q == Settled(page, p)
  <2>1. \/ q = page \/ q = [page EXCEPT !.verification = Unverified, !.certificate = 0]
        \/ q = [page EXCEPT !.certificate = 0] \/ q = [page EXCEPT !.confirm = FALSE]
    BY <1>5 DEF Settled
  <2> HIDE DEF q
  <2>2. /\ DOMAIN q = DOMAIN page /\ q.job = page.job /\ q.transformed = page.transformed
        /\ q.level = page.level /\ q.entities = page.entities
    BY <1>2, <2>1
  <2>3. next = [q EXCEPT !.busy = FALSE]
    BY DEF q
  <2> QED
    BY <1>2, <2>2, <2>3
<1> QED
  BY <1>3, <1>4, <1>5

(* The next calls of a handler that goes on.                                 *)
LEMMA NextTyped ==
  ASSUME NEW n \in Nat, NEW m \in Nat, NEW p, PromiseTyped(p, n, m),
         p.todo[1] = {}, Len(p.todo) # 1, NEW q, GoesOn(q, p)
  PROVE  PromiseTyped(q, n, m)
<1>1. /\ IsSequence(p.todo) /\ p.todo # <<>> /\ Len(p.todo) \in Nat /\ Len(p.todo) # 0
      /\ DOMAIN p.todo = 1 .. Len(p.todo)
  BY PlacesOf DEF PromiseTyped
<1>2. /\ IsSequence(q.todo) /\ Len(q.todo) = Len(p.todo) - 1
      /\ DOMAIN q.todo = 1 .. Len(p.todo) - 1
      /\ \A i \in DOMAIN q.todo : i + 1 \in DOMAIN p.todo /\ q.todo[i] = p.todo[i + 1]
  BY <1>1, TailSequence DEF GoesOn
<1>3. q.todo # <<>>
  <2>1. Len(q.todo) # 0
    BY <1>1, <1>2
  <2> QED
    BY <1>2, <2>1, PlacesOf
<1>4. q.job = p.job /\ p.job # 0
  BY DEF PromiseTyped, GoesOn
<1>5. ASSUME NEW i \in DOMAIN q.todo, NEW c \in q.todo[i]
      PROVE  c[1] \in Answerable /\ c[1] # "job"
  <2>1. i + 1 \in DOMAIN p.todo /\ c \in p.todo[i + 1]
    BY <1>2
  <2> QED
    BY <1>4, <2>1 DEF PromiseTyped
<1>6. /\ DOMAIN q.got \subseteq DOMAIN p.got
      /\ \A f \in DOMAIN q.got : q.got[f] = p.got[f]
  BY EmptySequence DEF GoesOn
<1>7. q.does = "create" => Asks(q, "recommendation") \/ HasGot(q, "recommendation")
  <2> SUFFICES ASSUME q.does = "create"
               PROVE  Asks(q, "recommendation") \/ HasGot(q, "recommendation")
    OBVIOUS
  <2>1. p.does = "create" /\ q.got = p.got
    BY DEF GoesOn
  <2>2. CASE HasGot(p, "recommendation")
    BY <2>1, <2>2 DEF HasGot
  <2>3. CASE Asks(p, "recommendation")
    <3>1. PICK i \in DOMAIN p.todo : \E c \in p.todo[i] : c[1] = "recommendation"
      BY <2>3 DEF Asks
    <3>2. i # 1
      BY <3>1
    <3>3. PICK k \in 1 .. Len(p.todo) - 1 : k + 1 = i
      <4>1. i - 1 \in 1 .. Len(p.todo) - 1 /\ (i - 1) + 1 = i
        BY <1>1, <3>2
      <4> QED
        BY <4>1
    <3> QED
      BY <1>2, <3>1, <3>3 DEF Asks
  <2> QED
    BY <2>1, <2>2, <2>3 DEF PromiseTyped
<1> QED
  BY <1>2, <1>3, <1>4, <1>5, <1>6, <1>7 DEF PromiseTyped, GoesOn

(* The page goes on with the answers.                                        *)
LEMMA ResumesTyped ==
  ASSUME TypesHold, NEW s \in Slots, Resume(s)
  PROVE  TypesHold'
<1>1. promises[s] # NoPromise /\ Head(promises[s].todo) = {} /\ SameBackend
  BY DEF Resume, SameBackend
<1> PICK p : p = promises[s]
  OBVIOUS
<1>2. PromiseTyped(p, Len(workspaces), Len(artifacts)) /\ BackendHolds /\ PageTyped
  BY <1>1 DEF TypesHold, WaitingTyped
<1>3. DOMAIN p = {"does", "todo", "got", "job", "level", "output"} /\ p.todo[1] = {}
  <2>1. IsSequence(p.todo) /\ p.todo # <<>>
    BY <1>2 DEF PromiseTyped
  <2> QED
    BY <1>1, <1>2, <2>1, TailSequence DEF PromiseTyped
<1>4. BackendHolds' /\ StoredTyped'
  BY <1>1, BackendStays DEF TypesHold, StoredTyped, SameBackend
<1>5. Len(workspaces) \in Nat /\ Len(artifacts) \in Nat
  BY <1>2, Lengths
<1> DEFINE last == \/ Len(p.todo) = 1
                   \/ p.does = "verify" /\ p.got["verification"][2] # "VERIFIED_SAFE"
           stepwise == p.does \in {"review", "bulk"}
           next == [[p EXCEPT !.todo = Tail(p.todo)]
                      EXCEPT !.got = IF stepwise THEN <<>> ELSE p.got]
<1>6. PICK page : page = Applied(view, p.got)
  OBVIOUS
<1>7. /\ DOMAIN page = DOMAIN NewPage
      /\ page.job \in 0 .. Len(workspaces) /\ page.transformed \in 0 .. Len(artifacts)
      /\ page.level \in PageLevels /\ DOMAIN page.entities \subseteq Findings
  BY <1>2, <1>6, AppliedTyped
<1>8. CASE last
  <2>1. /\ promises' = [promises EXCEPT ![s] = NoPromise]
        /\ view' = [Settled(page, p) EXCEPT !.busy = FALSE]
    BY <1>6, <1>8 DEF Resume
  <2>2. p.does = "create" => p.got["recommendation"] \in PageLevels
    <3> SUFFICES ASSUME p.does = "create"
                 PROVE  p.got["recommendation"] \in PageLevels
      OBVIOUS
    <3>1. Len(p.todo) = 1
      BY <1>8
    <3>2. DOMAIN p.todo = {1}
      BY <1>2, <3>1, PlacesOf DEF PromiseTyped
    <3>3. HasGot(p, "recommendation")
      BY <1>2, <1>3, <3>2 DEF PromiseTyped, Asks
    <3> QED
      BY <1>2, <3>3 DEF HasGot, PromiseTyped, AnswerTyped
  <2> PICK after : after = [Settled(page, p) EXCEPT !.busy = FALSE]
    OBVIOUS
  <2>3. /\ DOMAIN after = DOMAIN NewPage
        /\ after.job \in 0 .. Len(workspaces) /\ after.transformed \in 0 .. Len(artifacts)
        /\ after.level \in PageLevels /\ DOMAIN after.entities \subseteq Findings
    BY <1>2, <1>7, <2>2, SettledTyped
  <2>4. view' = after
    BY <2>1
  <2>5. PageTyped'
    BY <1>1, <2>3, <2>4 DEF PageTyped, SameBackend
  <2>6. DOMAIN promises' = Slots /\ \A t \in Slots : promises'[t] \in {NoPromise, promises[t]}
    BY <2>1 DEF TypesHold
  <2>7. WaitingTyped'
    BY <1>1, <2>6 DEF TypesHold, WaitingTyped, SameBackend
  <2> QED
    BY <1>4, <2>5, <2>6, <2>7 DEF TypesHold
<1>9. CASE ~last
  <2>1. promises' = [promises EXCEPT ![s] = next]
    BY <1>9 DEF Resume
  <2>2. GoesOn(next, p) /\ Len(p.todo) # 1
    BY <1>3, <1>9 DEF GoesOn
  <2>3. \E shown \in {page, view} : view' = [shown EXCEPT !.busy = shown.busy \/ p.does = "create"]
    BY <1>6, <1>9 DEF Resume
  <2> HIDE DEF next, last
  <2>4. PromiseTyped(next, Len(workspaces), Len(artifacts))
    <3> DEFINE n == Len(workspaces)
               m == Len(artifacts)
    <3>1. n \in Nat /\ m \in Nat /\ PromiseTyped(p, n, m)
      BY <1>2, <1>5
    <3> HIDE DEF n, m
    <3>2. PromiseTyped(next, n, m)
      BY <1>3, <2>2, <3>1, NextTyped
    <3> QED
      BY <3>2 DEF n, m
  <2>5. PageTyped'
    <3> PICK shown \in {page, view} :
              view' = [shown EXCEPT !.busy = shown.busy \/ p.does = "create"]
      BY <2>3
    <3>1. /\ DOMAIN shown = DOMAIN NewPage
          /\ shown.job \in 0 .. Len(workspaces) /\ shown.transformed \in 0 .. Len(artifacts)
          /\ shown.level \in PageLevels /\ DOMAIN shown.entities \subseteq Findings
      BY <1>2, <1>7 DEF PageTyped
    <3>2. /\ DOMAIN view' = DOMAIN shown /\ view'.job = shown.job
          /\ view'.transformed = shown.transformed /\ view'.level = shown.level
          /\ view'.entities = shown.entities
      BY <3>1 DEF NewPage
    <3> QED
      BY <1>1, <3>1, <3>2 DEF PageTyped, SameBackend
  <2>6. DOMAIN promises' = Slots /\ \A t \in Slots : promises'[t] \in {next, promises[t]}
    BY <2>1 DEF TypesHold
  <2>7. WaitingTyped'
    BY <1>1, <2>4, <2>6 DEF TypesHold, WaitingTyped, SameBackend
  <2> QED
    BY <1>4, <2>5, <2>6, <2>7 DEF TypesHold
<1> QED
  BY <1>8, <1>9

(* A handler with an answer more and a call less.                            *)
LEMMA AnswerComes ==
  ASSUME NEW n \in Nat, NEW m \in Nat, NEW p, PromiseTyped(p, n, m), NEW call,
         1 \in DOMAIN p.todo, call \in p.todo[1], call[1] # "job", NEW told,
         AnswerTyped(call[1], told, n, m), NEW q, HasAnswer(q, p, call, told)
  PROVE  PromiseTyped(q, n, m)
<1> USE DEF HasAnswer
<1>1. p.job # 0
  <2>1. \A c \in {<<"job">>} : c[1] = "job"
    OBVIOUS
  <2> QED
    BY <2>1 DEF PromiseTyped
<1>2. /\ DOMAIN q.todo = DOMAIN p.todo
      /\ q.todo[1] = p.todo[1] \ {call} /\ \A i \in DOMAIN p.todo : i # 1 => q.todo[i] = p.todo[i]
      /\ q.todo = [i \in DOMAIN p.todo |-> q.todo[i]]
  OBVIOUS
<1>3. IsSequence(q.todo) /\ q.todo # <<>>
  <2>1. IsSequence(p.todo)
    BY DEF PromiseTyped
  <2>2. IsSequence(q.todo)
    BY <1>2, <2>1, MapSequence
  <2> QED
    BY <1>2, <2>2, EmptySequence
<1>4. ASSUME NEW i \in DOMAIN q.todo, NEW c \in q.todo[i]
      PROVE  c[1] \in Answerable /\ c[1] # "job"
  <2>1. i \in DOMAIN p.todo /\ c \in p.todo[i]
    BY <1>2
  <2> QED
    BY <1>1, <2>1 DEF PromiseTyped
<1>5. call[1] \in Answerable
  BY DEF PromiseTyped
<1>6. /\ DOMAIN q.got = DOMAIN p.got \cup {call[1]}
      /\ \A f \in DOMAIN q.got : q.got[f] = IF f = call[1] THEN told ELSE p.got[f]
  OBVIOUS
<1>7. \A f \in DOMAIN q.got : AnswerTyped(f, q.got[f], n, m)
  BY <1>6 DEF PromiseTyped
<1>8. q.does = "create" => Asks(q, "recommendation") \/ HasGot(q, "recommendation")
  <2> SUFFICES ASSUME q.does = "create"
               PROVE  Asks(q, "recommendation") \/ HasGot(q, "recommendation")
    OBVIOUS
  <2>1. CASE HasGot(p, "recommendation")
    BY <1>6, <2>1 DEF HasGot
  <2>2. CASE Asks(p, "recommendation")
    <3>1. PICK i \in DOMAIN p.todo : \E c \in p.todo[i] : c[1] = "recommendation"
      BY <2>2 DEF Asks
    <3>2. PICK c \in p.todo[i] : c[1] = "recommendation"
      BY <3>1
    <3>3. CASE c = call
      BY <1>6, <3>2, <3>3 DEF HasGot
    <3>4. CASE c # call
      BY <1>2, <3>2, <3>4 DEF Asks
    <3> QED
      BY <3>3, <3>4
  <2> QED
    BY <2>1, <2>2 DEF PromiseTyped
<1> QED
  BY <1>1, <1>2, <1>3, <1>4, <1>5, <1>6, <1>7, <1>8 DEF PromiseTyped

(* A handler that has its job.                                               *)
LEMMA JobComes ==
  ASSUME NEW n \in Nat, NEW m \in Nat, NEW p, PromiseTyped(p, n, m), NEW call,
         1 \in DOMAIN p.todo, call \in p.todo[1], call[1] = "job",
         NEW q, HasJob(q, p, n), n # 0, q.level = p.level
  PROVE  PromiseTyped(q, n, m)
<1> USE DEF HasJob
<1>1. /\ p.job = 0 /\ p.todo[1] = {<<"job">>} /\ DOMAIN p.got = {}
      /\ IsSequence(p.todo)
  BY EmptySequence DEF PromiseTyped
<1>2. /\ DOMAIN q.todo = DOMAIN p.todo
      /\ q.todo[1] = {} /\ \A i \in DOMAIN p.todo : i # 1 => q.todo[i] = p.todo[i]
      /\ q.todo = [i \in DOMAIN p.todo |-> q.todo[i]]
  OBVIOUS
<1>3. IsSequence(q.todo) /\ q.todo # <<>>
  <2>1. IsSequence(q.todo)
    BY <1>1, <1>2, MapSequence
  <2> QED
    BY <1>2, <2>1, EmptySequence
<1>4. ASSUME NEW i \in DOMAIN q.todo, NEW c \in q.todo[i]
      PROVE  c[1] \in Answerable /\ c[1] # "job"
  <2>1. i \in DOMAIN p.todo /\ i # 1 /\ c \in p.todo[i]
    BY <1>2
  <2> QED
    BY <2>1 DEF PromiseTyped
<1>5. DOMAIN q.got = {"job"} /\ q.got["job"] = n /\ "job" \in Answerable
  BY DEF Answerable
<1>6. \A f \in DOMAIN q.got : AnswerTyped(f, q.got[f], n, m)
  BY <1>5 DEF AnswerTyped
<1>7. q.does = "create" => Asks(q, "recommendation")
  <2> SUFFICES ASSUME q.does = "create"
               PROVE  Asks(q, "recommendation")
    OBVIOUS
  <2>1. Asks(p, "recommendation")
    BY <1>1 DEF PromiseTyped, HasGot
  <2>2. PICK i \in DOMAIN p.todo : \E c \in p.todo[i] : c[1] = "recommendation"
    BY <2>1 DEF Asks
  <2>3. i # 1
    <3>1. \A c \in {<<"job">>} : c[1] = "job"
      OBVIOUS
    <3> QED
      BY <1>1, <2>2, <3>1
  <2> QED
    BY <1>2, <2>2, <2>3 DEF Asks
<1> QED
  BY <1>2, <1>3, <1>4, <1>5, <1>6, <1>7 DEF PromiseTyped

(* What an answer makes of a handler.                                        *)
LEMMA GotIs ==
  ASSUME DOMAIN promises = Slots, NEW s \in Slots, NEW p, p = promises[s],
         DOMAIN p = {"does", "todo", "got", "job", "level", "output"},
         1 \in DOMAIN p.todo, NEW call, NEW told, Got(s, call, told)
  PROVE  /\ \A t \in Slots : t # s => promises'[t] = promises[t]
         /\ HasAnswer(promises'[s], p, call, told)
<1> DEFINE got == [f \in DOMAIN p.got \cup {call[1]} |-> IF f = call[1] THEN told ELSE p.got[f]]
           todo == [p.todo EXCEPT ![1] = p.todo[1] \ {call}]
           q == [[p EXCEPT !.todo = todo] EXCEPT !.got = got]
<1>1. promises' = [promises EXCEPT ![s] = q]
  BY DEF Got
<1>2. /\ DOMAIN q = DOMAIN p /\ q.does = p.does /\ q.job = p.job /\ q.level = p.level
      /\ q.output = p.output /\ q.todo = todo /\ q.got = got
  OBVIOUS
<1> HIDE DEF q, got, todo
<1>3. promises'[s] = q /\ \A t \in Slots : t # s => promises'[t] = promises[t]
  BY <1>1
<1> QED
  BY <1>2, <1>3 DEF HasAnswer, got, todo

(* All that the backend answers is typed, and so is what it stores.          *)
LEMMA ServesTyped ==
  ASSUME TypesHold, NEW s \in Slots, Serve(s)
  PROVE  TypesHold'
<1> PICK p : p = promises[s]
  OBVIOUS
<1>1. /\ p # NoPromise /\ PromiseTyped(p, Len(workspaces), Len(artifacts))
      /\ BackendHolds /\ StoredTyped /\ DOMAIN promises = Slots /\ view' = view
  BY DEF Serve, TypesHold, WaitingTyped
<1> PICK call \in Head(p.todo) : Served(s, call)
  BY DEF Serve
<1>2. /\ DOMAIN p = {"does", "todo", "got", "job", "level", "output"}
      /\ 1 \in DOMAIN p.todo /\ call \in p.todo[1]
  BY <1>1, TailSequence DEF PromiseTyped
<1>3. BackendHolds' /\ DOMAIN promises' = Slots
  BY <1>1, ServedBackend
<1> DEFINE n == Len(workspaces)
           m == Len(artifacts)
           k == Len(workspaces')
           l == Len(artifacts')
<1>4. /\ n \in Nat /\ m \in Nat /\ k \in Nat /\ l \in Nat
      /\ DOMAIN workspaces = 1 .. n /\ DOMAIN artifacts = 1 .. m
      /\ DOMAIN workspaces' = 1 .. k /\ DOMAIN artifacts' = 1 .. l
  BY <1>1, <1>3, PlacesOf DEF BackendHolds
<1>5. PromiseTyped(p, n, m)
  BY <1>1
<1>6. call[1] = "job" => p.job = 0
  BY <1>2, <1>5 DEF PromiseTyped
<1>7. call[1] # "job" => p.job \in 1 .. n
  <2>1. \A c \in {<<"job">>} : c[1] = "job"
    OBVIOUS
  <2> QED
    BY <1>2, <1>4, <1>5, <2>1 DEF PromiseTyped
<1> HIDE DEF n, m, k, l
<1>8. SUFFICES /\ n <= k /\ m <= l /\ StoredTyped'
               /\ \A t \in Slots : t # s => promises'[t] = promises[t]
               /\ PromiseTyped(promises'[s], k, l)
  <2>1. ASSUME n <= k, m <= l, \A t \in Slots : t # s => promises'[t] = promises[t],
               PromiseTyped(promises'[s], k, l), NEW t \in Slots
        PROVE  promises'[t] = NoPromise \/ PromiseTyped(promises'[t], k, l)
    <3>1. CASE t # s
      <4> PICK r : r = promises[t]
        OBVIOUS
      <4>1. r = NoPromise \/ PromiseTyped(r, n, m)
        BY DEF TypesHold, WaitingTyped, n, m
      <4>2. PromiseTyped(r, n, m) => PromiseTyped(r, k, l)
        BY <1>4, <2>1, TypedStays
      <4> QED
        BY <2>1, <3>1, <4>1, <4>2
    <3> QED
      BY <2>1, <3>1
  <2>2. ASSUME n <= k, m <= l
        PROVE  PageTyped'
    <3>1. 0 .. n \subseteq 0 .. k /\ 0 .. m \subseteq 0 .. l
      BY <1>4, <2>2
    <3> QED
      BY <1>1, <3>1 DEF TypesHold, PageTyped, n, m, k, l
  <2> QED
    BY <1>3, <2>1, <2>2 DEF TypesHold, WaitingTyped, k, l
<1>9. ASSUME call[1] # "job", NEW told, Got(s, call, told), n <= k, m <= l,
             AnswerTyped(call[1], told, k, l)
      PROVE  /\ \A t \in Slots : t # s => promises'[t] = promises[t]
             /\ PromiseTyped(promises'[s], k, l)
  <2> PICK q : q = promises'[s]
    OBVIOUS
  <2>1. HasAnswer(q, p, call, told) /\ \A t \in Slots : t # s => promises'[t] = promises[t]
    BY <1>1, <1>2, <1>9, GotIs
  <2>2. PromiseTyped(p, k, l)
    BY <1>4, <1>5, <1>9, TypedStays
  <2>3. PromiseTyped(q, k, l)
    BY <1>2, <1>4, <1>9, <2>1, <2>2, AnswerComes
  <2> QED
    BY <2>1, <2>3
<1>10. CASE call[1] = "job"
  <2>1. /\ workspaces' = Append(workspaces, [status |-> "ACTIVE",
                                             decided |-> [f \in Findings |-> "PENDING"]])
        /\ promises' = [promises EXCEPT ![s].todo[1] = {}, ![s].job = k, ![s].got = [job |-> k]]
        /\ artifacts' = artifacts
    BY <1>10 DEF Served, k
  <2> DEFINE new == [status |-> "ACTIVE", decided |-> [f \in Findings |-> "PENDING"]]
  <2>2. DOMAIN new.decided = Findings /\ workspaces' = Append(workspaces, new)
    BY <2>1
  <2> HIDE DEF new
  <2>3. /\ k = n + 1 /\ l = m
        /\ \A j \in 1 .. k : \/ j \in 1 .. n /\ workspaces'[j] = workspaces[j]
                             \/ workspaces'[j] = new
    <3>1. /\ IsSequence(workspaces) /\ Len(workspaces') = Len(workspaces) + 1
          /\ \A j \in 1 .. Len(workspaces) : workspaces'[j] = workspaces[j]
          /\ workspaces'[Len(workspaces) + 1] = new
      BY <1>1, <2>2, AppendSequence DEF BackendHolds
    <3>2. \A j \in 1 .. n + 1 : j \in 1 .. n \/ j = n + 1
      BY <1>4
    <3> QED
      BY <2>1, <3>1, <3>2 DEF n, m, k, l
  <2>4. StoredTyped'
    <3>1. \A j \in DOMAIN workspaces' : DOMAIN workspaces'[j].decided \subseteq Findings
      BY <1>1, <1>4, <2>2, <2>3 DEF StoredTyped
    <3>2. \A a \in DOMAIN artifacts' : artifacts'[a].job \in DOMAIN workspaces'
      BY <1>1, <1>4, <2>1, <2>3 DEF StoredTyped
    <3> QED
      BY <3>1, <3>2 DEF StoredTyped
  <2> DEFINE q == [[[p EXCEPT !.todo = [p.todo EXCEPT ![1] = {}]] EXCEPT !.job = k]
                     EXCEPT !.got = [job |-> k]]
  <2>5. /\ promises'[s] = q
        /\ \A t \in Slots : t # s => promises'[t] = promises[t]
    BY <1>1, <2>1
  <2>6. HasJob(q, p, k) /\ q.level = p.level
    BY <1>2 DEF HasJob
  <2> HIDE DEF q
  <2>7. n <= k /\ m <= l /\ k # 0
    BY <1>4, <2>3
  <2>8. PromiseTyped(p, k, l)
    BY <1>4, <1>5, <2>7, TypedStays
  <2>9. PromiseTyped(q, k, l)
    BY <1>2, <1>4, <1>10, <2>6, <2>7, <2>8, JobComes
  <2> QED
    BY <2>4, <2>5, <2>7, <2>9
<1>11. CASE call[1] \in {"file", "analysis", "audit", "entities", "recommendation", "graph",
                         "certificate"}
  <2>1. SameBackend
    BY <1>11 DEF Served, SameBackend
  <2>2. StoredTyped' /\ k = n /\ l = m /\ n <= k /\ m <= l
    BY <1>1, <1>4, <2>1 DEF StoredTyped, SameBackend, n, m, k, l
  <2>3. DOMAIN workspaces[p.job].decided \subseteq Findings
    BY <1>1, <1>4, <1>7, <1>11 DEF StoredTyped
  <2> DEFINE open == Undismissed(workspaces[p.job].decided)
  <2>4. minimum_level[open] \in PageLevels
    <3>1. open \in SUBSET Findings
      BY <2>3 DEF Undismissed
    <3> HIDE DEF open
    <3> QED
      BY <3>1, ConsoleAssumption DEF PageLevels
  <2>5. \E told : Got(s, call, told) /\ AnswerTyped(call[1], told, k, l)
    <3>1. CASE call[1] \in {"file", "analysis", "audit"}
      BY <3>1 DEF Served, AnswerTyped
    <3>2. CASE call[1] = "entities"
      BY <2>3, <3>2 DEF Served, AnswerTyped
    <3>3. CASE call[1] = "recommendation"
      <4>1. Got(s, call, minimum_level[open])
        BY <3>3 DEF Served
      <4> HIDE DEF open
      <4>2. AnswerTyped(call[1], minimum_level[open], k, l)
        BY <2>4, <3>3 DEF AnswerTyped
      <4> QED
        BY <4>1, <4>2
    <3>4. CASE call[1] \in {"graph", "certificate"}
      <4>1. PICK told : Got(s, call, told)
        BY <3>4 DEF Served
      <4>2. AnswerTyped(call[1], told, k, l)
        BY <3>4 DEF AnswerTyped
      <4> QED
        BY <4>1, <4>2
    <3> QED
      BY <1>11, <3>1, <3>2, <3>3, <3>4
  <2> QED
    BY <1>9, <1>11, <2>2, <2>5
<1>12. CASE call[1] = "review"
  <2>1. /\ Got(s, call, TRUE) /\ artifacts' = artifacts
        /\ workspaces' = [workspaces EXCEPT ![p.job].decided[call[2]] = call[3]]
    BY <1>12 DEF Served
  <2>2. /\ DOMAIN workspaces' = DOMAIN workspaces
        /\ workspaces' = [j \in DOMAIN workspaces |-> workspaces'[j]]
        /\ \A j \in DOMAIN workspaces : DOMAIN workspaces'[j].decided = DOMAIN workspaces[j].decided
    BY <1>1, <2>1 DEF BackendHolds
  <2>3. k = n /\ l = m
    BY <1>1, <2>1, <2>2, MapSequence DEF BackendHolds, n, m, k, l
  <2>4. StoredTyped' /\ n <= k /\ m <= l
    BY <1>1, <1>4, <2>1, <2>2, <2>3 DEF StoredTyped
  <2>5. AnswerTyped(call[1], TRUE, k, l)
    BY <1>12 DEF AnswerTyped
  <2> QED
    BY <1>9, <1>12, <2>1, <2>4, <2>5
<1>13. CASE call[1] = "transformed"
  <2> DEFINE new == [job |-> p.job, level |-> p.level, decided |-> workspaces[p.job].decided,
                     status |-> "CREATED"]
  <2>1. Got(s, call, l) /\ artifacts' = Append(artifacts, new) /\ workspaces' = workspaces
    BY <1>13 DEF Served, l
  <2>2. new.job = p.job
    OBVIOUS
  <2> HIDE DEF new
  <2>3. /\ k = n /\ l = m + 1
        /\ \A j \in 1 .. l : \/ j \in 1 .. m /\ artifacts'[j] = artifacts[j]
                             \/ artifacts'[j] = new
    <3>1. /\ IsSequence(artifacts) /\ Len(artifacts') = Len(artifacts) + 1
          /\ \A j \in 1 .. Len(artifacts) : artifacts'[j] = artifacts[j]
          /\ artifacts'[Len(artifacts) + 1] = new
      BY <1>1, <2>1, AppendSequence DEF BackendHolds
    <3>2. \A j \in 1 .. m + 1 : j \in 1 .. m \/ j = m + 1
      BY <1>4
    <3> QED
      BY <2>1, <3>1, <3>2 DEF n, m, k, l
  <2>4. StoredTyped' /\ n <= k /\ m <= l
    BY <1>1, <1>4, <1>7, <1>13, <2>1, <2>2, <2>3 DEF StoredTyped
  <2>5. AnswerTyped(call[1], l, k, l)
    BY <1>4, <1>13 DEF AnswerTyped
  <2> QED
    BY <1>9, <1>13, <2>1, <2>4, <2>5
<1>14. CASE call[1] = "verification"
  <2> PICK status : /\ artifacts' = [artifacts EXCEPT ![p.output].status = status]
                    /\ Got(s, call, <<p.output, status>>)
                    /\ workspaces' = workspaces
    BY <1>14 DEF Served
  <2>1. /\ DOMAIN artifacts' = DOMAIN artifacts
        /\ artifacts' = [a \in DOMAIN artifacts |-> artifacts'[a]]
        /\ \A a \in DOMAIN artifacts : artifacts'[a].job = artifacts[a].job
    BY <1>1 DEF BackendHolds
  <2>2. k = n /\ l = m
    BY <1>1, <2>1, MapSequence DEF BackendHolds, n, m, k, l
  <2>3. StoredTyped' /\ n <= k /\ m <= l
    BY <1>1, <1>4, <2>1, <2>2 DEF StoredTyped
  <2>4. AnswerTyped(call[1], <<p.output, status>>, k, l)
    BY <1>14 DEF AnswerTyped
  <2> QED
    BY <1>9, <1>14, <2>3, <2>4
<1>15. CASE call[1] = "destruction"
  <2>1. Got(s, call, TRUE) /\ Erase({p.job})
    BY <1>15 DEF Served
  <2>2. StoredTyped' /\ k = n /\ l = m /\ n <= k /\ m <= l
    <3>1. /\ StoredTyped'
          /\ Len(workspaces') = Len(workspaces) /\ Len(artifacts') = Len(artifacts)
      BY <2>1, ErasureTyped
    <3> QED
      BY <1>4, <3>1 DEF n, m, k, l
  <2>3. AnswerTyped(call[1], TRUE, k, l)
    BY <1>15 DEF AnswerTyped
  <2> QED
    BY <1>9, <1>15, <2>1, <2>2, <2>3
<1> QED
  BY <1>10, <1>11, <1>12, <1>13, <1>14, <1>15 DEF Served

(* The page opens typed, and every step keeps it so.                         *)
LEMMA ConsoleOpensTyped == ConsoleInit => TypesHold
<1> SUFFICES ASSUME ConsoleInit
             PROVE  TypesHold
  OBVIOUS
<1>1. IsSequence(<<>>) /\ DOMAIN <<>> = {} /\ Len(<<>>) = 0
  BY EmptySequence
<1>2. BackendHolds /\ StoredTyped
  BY <1>1 DEF ConsoleInit, BackendHolds, StoredTyped
<1>3. PageTyped
  BY <1>1 DEF ConsoleInit, PageTyped, NewPage, PageLevels
<1> QED
  BY <1>2, <1>3 DEF ConsoleInit, TypesHold, WaitingTyped

LEMMA ConsoleStaysTyped == TypesHold /\ [ConsoleNext]_ConsoleVars => TypesHold'
<1> SUFFICES ASSUME TypesHold, [ConsoleNext]_ConsoleVars
             PROVE  TypesHold'
  OBVIOUS
<1>1. CASE createUploadAnalyse
  BY <1>1, CreateTyped
<1>2. CASE selectLevel \/ transform \/ destroy
  BY <1>2, SmallBeginningsTyped
<1>3. CASE reviewMention
  BY <1>3, ReviewTyped
<1>4. CASE verify
  BY <1>4, VerifyTyped
<1>5. CASE protectHighConfidencePending
  BY <1>5, BulkTyped
<1>6. CASE \/ askBulkProtect \/ cancelBulkProtect \/ pollLifecycle \/ startNewRelease \/ Leave
           \/ \E j \in DOMAIN workspaces : Expire(j)
           \/ \E s \in Slots : Fail(s)
  BY <1>6, OwnStepsTyped
<1>7. CASE \E s \in Slots : Serve(s) \/ Resume(s)
  BY <1>7, ServesTyped, ResumesTyped
<1>8. CASE UNCHANGED ConsoleVars
  BY <1>8, BackendStays DEF ConsoleVars, TypesHold, StoredTyped, PageTyped, WaitingTyped, SameBackend
<1> QED
  BY <1>1, <1>2, <1>3, <1>4, <1>5, <1>6, <1>7, <1>8 DEF ConsoleNext

LEMMA ConsoleIsTyped == TypesHold => ConsoleTypeOK
BY DEF TypesHold, PageTyped, StoredTyped, WaitingTyped, PromiseTyped, PageLevels, ConsoleTypeOK

-----------------------------------------------------------------------------
(* The archive of the source tree *)

IsFile(f) == f = [path |-> f.path, content |-> f.content, link |-> f.link] /\ f.link \in BOOLEAN

(* The files of a directory: one file to a path.                             *)
IsDirectory(files) ==
  /\ IsFiniteSet(files)
  /\ \A f \in files : IsFile(f)
  /\ \A f, g \in files : f.path = g.path => f = g

(* A manifest as the builder writes it, as far as its form goes.             *)
IsManifest(manifest) ==
  manifest = [entries |-> [p \in DOMAIN manifest.entries |-> manifest.entries[p]],
              entry_count |-> manifest.entry_count]

(* A document that carries a signature of the pinned key carries it for the  *)
(* manifest of an archive that a script has written, whatever else it says.  *)
DocumentHolds(signed) ==
  /\ signed = [manifest |-> signed.manifest, signer |-> signed.signer,
               signature |-> signed.signature]
  /\ IsManifest(signed.manifest)
  /\ signed.signature[1] = Pinned =>
       \E members \in written : signed.signature[2] = ManifestOf(members)

PackagingInv ==
  /\ IsDirectory(worktree) /\ device \in {Pinned, Other}
  /\ archive = [members |-> archive.members, document |-> archive.document]
  /\ IsDirectory(archive.members) /\ DocumentHolds(archive.document)
  /\ \A members \in written : IsDirectory(members) /\ \A f \in members : ~f.link

(* Taking files away and putting one in the place of those at its path       *)
(* leaves one file to a path.                                                *)
LEMMA FewerFiles ==
  ASSUME NEW files, IsDirectory(files), NEW few \in SUBSET files
  PROVE  IsDirectory(few)
<1>1. IsFiniteSet(few)
  BY FS_Subset DEF IsDirectory
<1> QED
  BY <1>1 DEF IsDirectory

LEMMA OneMoreFile ==
  ASSUME NEW files, IsDirectory(files), NEW f, IsFile(f)
  PROVE  IsDirectory({g \in files : g.path # f.path} \cup {f})
<1> DEFINE others == {g \in files : g.path # f.path}
<1>1. IsDirectory(others) /\ \A g \in others : g.path # f.path
  BY FewerFiles
<1> HIDE DEF others
<1>2. IsFiniteSet(others \cup {f})
  BY <1>1, FS_AddElement DEF IsDirectory
<1>3. IsDirectory(others \cup {f})
  BY <1>1, <1>2 DEF IsDirectory
<1> QED
  BY <1>3 DEF others

LEMMA BytesOfFile ==
  ASSUME NEW files, IsDirectory(files), NEW f \in files
  PROVE  Bytes(files, f.path) = f.content
<1>1. (CHOOSE g \in files : g.path = f.path) = f
  <2>1. \E g \in files : g.path = f.path
    OBVIOUS
  <2> QED
    BY <2>1 DEF IsDirectory
<1> QED
  BY <1>1 DEF Bytes

(* As many paths as files.                                                   *)
LEMMA PathsOfFiles ==
  ASSUME NEW files, IsDirectory(files)
  PROVE  /\ IsFiniteSet(PathsOf(files)) /\ Cardinality(files) \in Nat
         /\ Cardinality(PathsOf(files)) = Cardinality(files)
<1> DEFINE at == [f \in files |-> f.path]
<1>1. at \in Surjection(files, PathsOf(files))
  BY DEF PathsOf, Surjection
<1>2. at \in Injection(files, PathsOf(files))
  BY DEF IsDirectory, PathsOf, Injection, IsInjective
<1> QED
  BY <1>1, <1>2, FS_Surjection, FS_CardinalityType DEF IsDirectory

(* The manifest of a directory has the form of one.                          *)
LEMMA ManifestsAreManifests ==
  ASSUME NEW files
  PROVE  IsManifest(ManifestOf(files))
<1>1. /\ ManifestOf(files).entries = [p \in PathsOf(files) |-> Bytes(files, p)]
      /\ ManifestOf(files).entry_count = Cardinality(PathsOf(files))
  BY DEF ManifestOf
<1> QED
  BY <1>1 DEF IsManifest, ManifestOf

(* Two archives with one manifest are one.                                   *)
LEMMA ManifestTellsMembers ==
  ASSUME NEW files, NEW others, IsDirectory(files), IsDirectory(others),
         \A f \in files : ~f.link, \A g \in others : ~g.link,
         PathsOf(files) = PathsOf(others),
         \A p \in PathsOf(files) : Bytes(files, p) = Bytes(others, p)
  PROVE  files \subseteq others
<1> SUFFICES ASSUME NEW f \in files
             PROVE  f \in others
  OBVIOUS
<1>1. f.path \in PathsOf(files)
  BY DEF PathsOf
<1>2. PICK g \in others : g.path = f.path
  BY <1>1 DEF PathsOf
<1>3. f.content = g.content
  BY <1>1, <1>2, BytesOfFile
<1>4. IsFile(f) /\ IsFile(g) /\ f.link = FALSE /\ g.link = FALSE
  BY DEF IsDirectory, IsFile
<1> QED
  BY <1>2, <1>3, <1>4 DEF IsFile

-----------------------------------------------------------------------------
(* What a script builds, and what the verifier accepts.                      *)
LEMMA Built ==
  ASSUME NEW tree, IsDirectory(tree), NEW key
  PROVE  LET package == build_release_package(tree, key)
             files == iter_release_files(tree)
         IN /\ package = [members |-> files, document |-> package.document]
            /\ package.members = files /\ IsDirectory(files) /\ \A f \in files : ~f.link
            /\ package.document.manifest = ManifestOf(files)
            /\ package.document.signer = key
            /\ package.document.signature = <<key, ManifestOf(files)>>
            /\ package.document = [manifest |-> package.document.manifest,
                                   signer |-> package.document.signer,
                                   signature |-> package.document.signature]
<1>1. iter_release_files(tree) \in SUBSET tree /\ \A f \in iter_release_files(tree) : ~f.link
  BY DEF iter_release_files
<1>2. IsDirectory(iter_release_files(tree))
  BY <1>1, FewerFiles
<1> DEFINE signed == IF key = Nobody THEN Unsigned(ManifestOf(iter_release_files(tree)))
                       ELSE SignedBy(key, ManifestOf(iter_release_files(tree)))
<1>3. signed = [manifest |-> ManifestOf(iter_release_files(tree)), signer |-> key,
                signature |-> <<key, ManifestOf(iter_release_files(tree))>>]
  BY DEF Unsigned, SignedBy, Nobody
<1>4. build_release_package(tree, key) = [members |-> iter_release_files(tree), document |-> signed]
  BY DEF build_release_package
<1> HIDE DEF signed
<1> QED
  BY <1>1, <1>2, <1>3, <1>4

(* The parts of verify_release_package_bytes, member by member.              *)
LEMMA Accepted ==
  ASSUME NEW package, NEW expected, verify_release_package_bytes(package, expected)
  PROVE  /\ \A f \in package.members : ~should_exclude(f.path) /\ ~f.link
         /\ SignerIsExpected(package.document, expected)
         /\ PathsOf(package.members) = DOMAIN package.document.manifest.entries
         /\ ManifestPath \notin PathsOf(package.members)
         /\ package.document.manifest.entry_count = Cardinality(PathsOf(package.members))
         /\ \A p \in PathsOf(package.members) :
              package.document.manifest.entries[p] = Bytes(package.members, p)
BY DEF verify_release_package_bytes, MembersAreAllowed, MembersMatch

(* Whoever expects the pinned key gets the members of an archive that it has *)
(* signed: the signature is on its manifest, and the manifest tells them.    *)
LEMMA PinnedIsWritten ==
  ASSUME PackagingInv, verify_release_package_bytes(archive, Pinned)
  PROVE  archive.members \in written
<1> DEFINE signed == archive.document
           manifest == archive.document.manifest
<1>1. signed.signer = Pinned /\ signed.signature = <<Pinned, manifest>>
  <2>1. SignerIsExpected(signed, Pinned)
    BY Accepted
  <2> QED
    BY <2>1 DEF SignerIsExpected, Pinned, Nobody, Anyone
<1>2. PICK members \in written : manifest = ManifestOf(members)
  BY <1>1 DEF PackagingInv, DocumentHolds
<1>3. manifest.entries = [p \in PathsOf(members) |-> Bytes(members, p)]
  BY <1>2 DEF ManifestOf
<1>4. /\ PathsOf(archive.members) = PathsOf(members)
      /\ \A p \in PathsOf(members) : Bytes(archive.members, p) = Bytes(members, p)
  BY <1>3, Accepted
<1>5. /\ IsDirectory(archive.members) /\ IsDirectory(members)
      /\ (\A f \in archive.members : ~f.link) /\ \A f \in members : ~f.link
  BY Accepted DEF PackagingInv
<1>6. archive.members \subseteq members /\ members \subseteq archive.members
  BY <1>4, <1>5, ManifestTellsMembers
<1> QED
  BY <1>6

(* Whoever expects no key still gets what a builder would put in an archive, *)
(* under a manifest of just that.                                            *)
LEMMA AcceptedIsComplete ==
  ASSUME PackagingInv, verify_release_package_bytes(archive, Anyone)
  PROVE  /\ archive.members = iter_release_files(archive.members)
         /\ archive.document.manifest = ManifestOf(archive.members)
<1> DEFINE manifest == archive.document.manifest
<1>1. archive.members = iter_release_files(archive.members)
  BY Accepted DEF iter_release_files
<1>2. manifest = [entries |-> [p \in DOMAIN manifest.entries |-> manifest.entries[p]],
                  entry_count |-> manifest.entry_count]
  BY DEF PackagingInv, DocumentHolds, IsManifest
<1> DEFINE entries == manifest.entries
<1> HIDE DEF manifest
<1>3. /\ DOMAIN entries = PathsOf(archive.members)
      /\ \A p \in PathsOf(archive.members) : entries[p] = Bytes(archive.members, p)
      /\ manifest.entry_count = Cardinality(PathsOf(archive.members))
  BY Accepted DEF manifest
<1>4. [p \in DOMAIN entries |-> entries[p]]
        = [p \in PathsOf(archive.members) |-> Bytes(archive.members, p)]
  BY <1>3
<1>5. manifest = ManifestOf(archive.members)
  BY <1>2, <1>3, <1>4 DEF ManifestOf
<1> QED
  BY <1>1, <1>5 DEF manifest

(* A builder's own verification refuses what it has built in three cases.    *)
LEMMA BuildersRefuse ==
  ASSUME PackagingInv, _scan_bytes(iter_release_files(worktree)), NEW key \in {device, Nobody}
  PROVE  verify_release_package_bytes(build_release_package(worktree, key),
                                      IF key = Nobody THEN Anyone ELSE Pinned)
         <=> /\ ManifestPath \notin PathsOf(iter_release_files(worktree))
             /\ \A f \in iter_release_files(worktree) : f.path.stem \notin ClimbingStems
             /\ key # Other
<1> DEFINE files == iter_release_files(worktree)
           package == build_release_package(worktree, key)
           expected == IF key = Nobody THEN Anyone ELSE Pinned
<1>1. /\ package = [members |-> files, document |-> package.document]
      /\ package.members = files /\ IsDirectory(files) /\ \A f \in files : ~f.link
      /\ package.document.manifest = ManifestOf(files)
      /\ package.document.signer = key
      /\ package.document.signature = <<key, ManifestOf(files)>>
      /\ package.document = [manifest |-> package.document.manifest,
                             signer |-> package.document.signer,
                             signature |-> package.document.signature]
  <2>1. IsDirectory(worktree)
    BY DEF PackagingInv
  <2> QED
    BY <2>1, Built
<1>2. \A f \in files : ~should_exclude(f.path)
  BY DEF iter_release_files
<1> HIDE DEF files, package
<1>3. /\ ManifestOf(files).entries = [p \in PathsOf(files) |-> Bytes(files, p)]
      /\ ManifestOf(files).entry_count = Cardinality(PathsOf(files))
  BY DEF ManifestOf
<1>4. MembersMatch(package.document.manifest, package.members)
        <=> ManifestPath \notin PathsOf(files)
  BY <1>1, <1>3 DEF MembersMatch
<1>5. SignerIsExpected(package.document, expected) <=> key # Other
  <2>1. key \in {Pinned, Other, Nobody}
    BY DEF PackagingInv
  <2> QED
    BY <1>1, <2>1 DEF SignerIsExpected, Pinned, Other, Nobody, Anyone
<1>6. Cardinality(PathsOf(files) \cup {ManifestPath}) = Cardinality(files) + 1
        <=> ManifestPath \notin PathsOf(files)
  <2>1. /\ IsFiniteSet(PathsOf(files)) /\ Cardinality(files) \in Nat
        /\ Cardinality(PathsOf(files)) = Cardinality(files)
    BY <1>1, PathsOfFiles
  <2>2. Cardinality(PathsOf(files) \cup {ManifestPath})
          = IF ManifestPath \in PathsOf(files) THEN Cardinality(PathsOf(files))
            ELSE Cardinality(PathsOf(files)) + 1
    BY <2>1, FS_AddElement
  <2> QED
    BY <2>1, <2>2
<1>7. MembersAreAllowed(package.members)
        <=> /\ ManifestPath \notin PathsOf(files)
            /\ \A f \in files : f.path.stem \notin ClimbingStems
  BY <1>1, <1>2, <1>6 DEF MembersAreAllowed, files
<1> QED
  BY <1>4, <1>5, <1>7 DEF verify_release_package_bytes, files, package

-----------------------------------------------------------------------------
(* The steps *)

(* Editing, building, damaging and unpacking keep the trees and the archive  *)
(* in form, and every signature of the pinned key on what it has signed.     *)
LEMMA PackagingStarts == PackagingInit => PackagingInv
<1> SUFFICES ASSUME PackagingInit
             PROVE  PackagingInv
  OBVIOUS
<1> DEFINE first == CHOOSE f \in Sources : ~f.link /\ ~should_exclude(f.path)
<1>1. IsFile(first)
  BY PackagingAssumption DEF IsFile
<1>2. worktree = {first} /\ device = Pinned /\ archive = NoArchive /\ written = {}
  BY DEF PackagingInit
<1> HIDE DEF first
<1>3. IsDirectory(worktree)
  BY <1>1, <1>2, FS_Singleton DEF IsDirectory
<1>4. IsDirectory({})
  BY FS_EmptySet DEF IsDirectory
<1>5. /\ NoArchive = [members |-> {}, document |-> NoArchive.document]
      /\ NoArchive.members = {}
      /\ NoArchive.document = [manifest |-> ManifestOf({}), signer |-> Nobody,
                               signature |-> <<Nobody, ManifestOf({})>>]
  BY DEF NoArchive, Unsigned
<1>6. DocumentHolds(NoArchive.document)
  <2>1. /\ NoArchive.document.manifest = ManifestOf({})
        /\ NoArchive.document.signer = Nobody
        /\ NoArchive.document.signature = <<Nobody, ManifestOf({})>>
    BY <1>5
  <2> QED
    BY <1>5, <2>1, ManifestsAreManifests DEF DocumentHolds, Nobody, Pinned
<1> QED
  BY <1>2, <1>3, <1>4, <1>5, <1>6 DEF PackagingInv

(* The working tree changes: a file is edited, or an archive is unpacked.    *)
LEMMA TreeSteps ==
  ASSUME PackagingInv, EditTree \/ OtherDirectory \/ Unpack
  PROVE  PackagingInv'
<1>1. archive' = archive /\ written' = written /\ device' \in {Pinned, Other}
  BY DEF EditTree, OtherDirectory, Unpack, PackagingInv
<1>2. IsDirectory(worktree')
  <2>1. CASE EditTree
    <3>1. PICK f \in Sources :
            worktree' \in {worktree \ {f}, {g \in worktree : g.path # f.path} \cup {f}}
      BY <2>1 DEF EditTree
    <3>2. IsFile(f) /\ worktree \ {f} \in SUBSET worktree
      BY PackagingAssumption DEF IsFile
    <3>3. IsDirectory(worktree \ {f}) /\ IsDirectory({g \in worktree : g.path # f.path} \cup {f})
      BY <3>2, FewerFiles, OneMoreFile DEF PackagingInv
    <3> QED
      BY <3>1, <3>3
  <2>2. CASE OtherDirectory
    BY <2>2 DEF OtherDirectory, PackagingInv
  <2>3. CASE Unpack
    <3> DEFINE f == [path |-> ManifestPath, content |-> <<"manifest", archive.document>>, link |-> FALSE]
    <3>1. IsFile(f) /\ f.path = ManifestPath
      BY DEF IsFile
    <3>2. worktree' = archive.members \cup {f}
      BY <2>3 DEF Unpack
    <3> HIDE DEF f
    <3>3. ManifestPath \notin PathsOf(archive.members)
      <4>1. verify_release_package_bytes(archive, Anyone)
        BY <2>3 DEF Unpack
      <4> QED
        BY <4>1, Accepted
    <3>4. {g \in archive.members : g.path # f.path} = archive.members
      BY <3>1, <3>3 DEF PathsOf
    <3>5. IsDirectory({g \in archive.members : g.path # f.path} \cup {f})
      BY <3>1, OneMoreFile DEF PackagingInv
    <3> QED
      BY <3>2, <3>4, <3>5
  <2> QED
    BY <2>1, <2>2, <2>3
<1> QED
  BY <1>1, <1>2 DEF PackagingInv, DocumentHolds

(* A script writes what it has built; what its key signs, it has written.    *)
LEMMA BuildStep ==
  ASSUME PackagingInv, NEW key, NEW expected, Build(key, expected)
  PROVE  PackagingInv'
<1> DEFINE package == build_release_package(worktree, key)
           files == iter_release_files(worktree)
<1>1. /\ package = [members |-> files, document |-> package.document]
      /\ package.members = files /\ IsDirectory(files) /\ \A f \in files : ~f.link
      /\ package.document.manifest = ManifestOf(files)
      /\ package.document.signature = <<key, ManifestOf(files)>>
      /\ package.document = [manifest |-> package.document.manifest,
                             signer |-> package.document.signer,
                             signature |-> package.document.signature]
  <2>1. IsDirectory(worktree)
    BY DEF PackagingInv
  <2> QED
    BY <2>1, Built
<1>2. /\ archive' = package
      /\ written' = IF key = Pinned THEN written \cup {files} ELSE written
      /\ worktree' = worktree /\ device' = device
  BY <1>1 DEF Build
<1> HIDE DEF package, files
<1>3. \A members \in written' : IsDirectory(members) /\ \A f \in members : ~f.link
  BY <1>1, <1>2 DEF PackagingInv
<1>4. archive'.members = files /\ archive'.document = package.document
  BY <1>1, <1>2
<1>5. IsManifest(package.document.manifest)
  BY <1>1, ManifestsAreManifests
<1>6. package.document.signature[1] = Pinned =>
        \E members \in written' : package.document.signature[2] = ManifestOf(members)
  BY <1>1, <1>2
<1>7. DocumentHolds(archive.document)'
  BY <1>1, <1>4, <1>5, <1>6 DEF DocumentHolds
<1> QED
  BY <1>1, <1>2, <1>3, <1>4, <1>7 DEF PackagingInv

(* Whoever damages an archive cannot sign for the pinned key.                *)
LEMMA AlterSteps ==
  ASSUME PackagingInv, AlterMembers \/ AlterManifest
  PROVE  PackagingInv'
<1>1. worktree' = worktree /\ written' = written /\ device' = device
  BY DEF AlterMembers, AlterManifest
<1>2. archive = [members |-> archive.members, document |-> archive.document]
  BY DEF PackagingInv
<1>3. CASE AlterMembers
  <2>1. PICK f \in Sources :
          archive' = [archive EXCEPT !.members =
            CASE f \in @ -> @ \ {f} [] OTHER -> {g \in @ : g.path # f.path} \cup {f}]
    BY <1>3 DEF AlterMembers
  <2> DEFINE members == CASE f \in archive.members -> archive.members \ {f}
                          [] OTHER -> {g \in archive.members : g.path # f.path} \cup {f}
  <2>2. IsFile(f) /\ archive.members \ {f} \in SUBSET archive.members
    BY PackagingAssumption DEF IsFile
  <2>3. /\ IsDirectory(archive.members \ {f})
        /\ IsDirectory({g \in archive.members : g.path # f.path} \cup {f})
    BY <2>2, FewerFiles, OneMoreFile DEF PackagingInv
  <2>4. IsDirectory(members)
    BY <2>3
  <2>5. archive' = [archive EXCEPT !.members = members]
    BY <2>1
  <2> HIDE DEF members
  <2>6. archive' = [members |-> members, document |-> archive.document]
    BY <1>2, <2>5
  <2> QED
    BY <1>1, <2>4, <2>6 DEF PackagingInv, DocumentHolds
<1>4. CASE AlterManifest
  <2> DEFINE manifest == ManifestOf(archive.members)
             old == archive.document
  <2>1. PICK signed \in {Unsigned(manifest), SignedBy(Other, manifest),
                           [old EXCEPT !.manifest = manifest],
                           [old EXCEPT !.manifest.entry_count = @ + 1],
                           [old EXCEPT !.signer = Pinned]} :
               archive' = [archive EXCEPT !.document = signed]
    BY <1>4 DEF AlterManifest
  <2>2. archive' = [members |-> archive.members, document |-> signed]
    BY <1>2, <2>1
  <2>3. IsManifest(manifest)
    BY ManifestsAreManifests
  <2>4. /\ old = [manifest |-> old.manifest, signer |-> old.signer, signature |-> old.signature]
        /\ IsManifest(old.manifest)
        /\ old.signature[1] = Pinned =>
             \E members \in written : old.signature[2] = ManifestOf(members)
    BY DEF PackagingInv, DocumentHolds
  <2> HIDE DEF manifest, old
  <2>5. DocumentHolds(signed)
    <3>1. CASE signed = Unsigned(manifest)
      BY <2>3, <3>1 DEF Unsigned, DocumentHolds, Nobody, Pinned
    <3>2. CASE signed = SignedBy(Other, manifest)
      BY <2>3, <3>2 DEF SignedBy, DocumentHolds, Other, Pinned
    <3>3. CASE signed = [old EXCEPT !.manifest = manifest]
      BY <2>3, <2>4, <3>3 DEF DocumentHolds
    <3>4. CASE signed = [old EXCEPT !.manifest.entry_count = @ + 1]
      <4> DEFINE counted == [old.manifest EXCEPT !.entry_count = @ + 1]
      <4>1. IsManifest(counted)
        BY <2>4 DEF IsManifest
      <4>2. signed = [manifest |-> counted, signer |-> old.signer, signature |-> old.signature]
        BY <2>4, <3>4
      <4> HIDE DEF counted
      <4> QED
        BY <2>4, <4>1, <4>2 DEF DocumentHolds
    <3>5. CASE signed = [old EXCEPT !.signer = Pinned]
      BY <2>4, <3>5 DEF DocumentHolds
    <3> QED
      BY <2>1, <3>1, <3>2, <3>3, <3>4, <3>5
  <2> QED
    BY <1>1, <2>2, <2>5 DEF PackagingInv, DocumentHolds
<1> QED
  BY <1>3, <1>4

LEMMA PackagingStep == PackagingInv /\ [PackagingNext]_PackagingVars => PackagingInv'
<1>1. CASE UNCHANGED PackagingVars
  BY <1>1 DEF PackagingVars, PackagingInv, DocumentHolds
<1>2. CASE PackagingNext
  BY <1>2, TreeSteps, BuildStep, AlterSteps
     DEF PackagingNext, build_rightsgate_release, build_competition_release
<1> QED
  BY <1>1, <1>2

(* What is right of trees and archives makes a release what was built.       *)
LEMMA ReleasesAreBuilt == PackagingInv => ReleaseIsWhatWasBuilt
BY PinnedIsWritten, AcceptedIsComplete, BuildersRefuse DEF ReleaseIsWhatWasBuilt

-----------------------------------------------------------------------------
(* The boundary *)

(* The service runs only under settings that validation accepted, with the   *)
(* guard on when they are offline ones; the last answer is the judgement of  *)
(* somebody under them, and a connection went as the guard lets it.          *)
AnswerIsJudged ==
  \E r \in Requesters : answer = [status |-> authorize_request(settings, r), by |-> r]
DialIsGuarded ==
  \E call \in DOMAIN Raised, host \in {"loopback", "elsewhere", "a name", "a path"} :
     dial = [to |-> host, call |-> call, left |-> guarded => ~Blocks(call, host)]

BoundaryInv ==
  /\ settings \in Settings
  /\ serving => validate_online_configuration(settings) /\ guarded = settings.offline
  /\ ~serving => answer = NoAnswer /\ dial = NoDial
  /\ answer = NoAnswer \/ AnswerIsJudged
  /\ dial = NoDial \/ DialIsGuarded

LEMMA BoundaryStart == BoundaryInit => BoundaryInv
BY DEF BoundaryInit, BoundaryInv

LEMMA BoundaryStep == BoundaryInv /\ [BoundaryNext]_BoundaryVars => BoundaryInv'
<1> SUFFICES ASSUME BoundaryInv, [BoundaryNext]_BoundaryVars
             PROVE  BoundaryInv'
  OBVIOUS
<1> USE DEF BoundaryInv, AnswerIsJudged, DialIsGuarded
<1>1. CASE Configure
  BY <1>1 DEF Configure
<1>2. CASE Startup
  BY <1>2 DEF Startup
<1>3. CASE Exit
  BY <1>3 DEF Exit
<1>4. CASE Judged
  BY <1>4 DEF Judged
<1>5. CASE Dial
  BY <1>5 DEF Dial
<1>6. CASE UNCHANGED BoundaryVars
  BY <1>6 DEF BoundaryVars
<1> QED
  BY <1>1, <1>2, <1>3, <1>4, <1>5, <1>6 DEF BoundaryNext

(* Under settings a start has accepted, who is let in has the standing, and  *)
(* who has it is let in or carries the token that no comparison takes.       *)
LEMMA StandingIsAnswered ==
  ASSUME NEW s \in Settings, validate_online_configuration(s), NEW r \in Requesters
  PROVE  LET encrypted == \/ r.scheme = "https"
                          \/ s.trust /\ r.host \in s.networks /\ r.forwarded = "https"
             standing == IF s.offline THEN r.host = "loopback"
                         ELSE r.bearer = strip(s.token) /\ encrypted
         IN /\ authorize_request(s, r) = 200 => standing
            /\ standing => \/ authorize_request(s, r) = 200
                           \/ authorize_request(s, r) = 500 /\ s.token = "accented"
<1> USE DEF authorize_request, judge
<1>1. CASE s.offline
  BY <1>1 DEF is_loopback_host
<1>2. CASE ~s.offline
  <2>1. s.https /\ strip(s.token) \in {"long", "accented"}
    BY <1>2 DEF validate_online_configuration, LongEnough
  <2>2. s.token \in Tokens
    BY BoundaryAssumption
  <2>3. Encrypted(s, r) <=> \/ r.scheme = "https"
                            \/ s.trust /\ r.host \in s.networks /\ r.forwarded = "https"
    BY <1>2 DEF Encrypted, is_trusted_proxy_host, validate_online_configuration,
                _parse_proxy_networks, Requesters
  <2>4. ~Encrypted(s, r) => authorize_request(s, r) = 426
    BY <1>2, <2>1
  <2>5. Encrypted(s, r) => authorize_request(s, r) = bearer_status(strip(s.token), r.bearer)
    BY <1>2, <2>1
  <2>6. /\ bearer_status(strip(s.token), r.bearer) = 200 => r.bearer = strip(s.token)
        /\ r.bearer = strip(s.token) =>
             \/ bearer_status(strip(s.token), r.bearer) = 200
             \/ bearer_status(strip(s.token), r.bearer) = 500 /\ s.token = "accented"
    <3>1. strip(s.token) = "accented" => s.token = "accented"
      BY DEF strip
    <3>2. strip(s.token) # ""
      BY <2>1
    <3> HIDE DEF authorize_request, judge
    <3> DEFINE e == strip(s.token)
               b == r.bearer
    <3>3. e # "" /\ (e = "long" \/ e = "accented") /\ (e = "accented" => s.token = "accented")
      BY <2>1, <3>1, <3>2
    <3> HIDE DEF e, b
    <3>4. CASE b = "" \/ ~(Ascii(e) /\ Ascii(b))
      <4>1. bearer_status(e, b) \in {401, 500} /\ (b = e => bearer_status(e, b) = 500)
        <5>1. bearer_status(e, b) = IF b = "" THEN 401 ELSE 500
          BY <3>3, <3>4 DEF bearer_status
        <5> QED
          BY <5>1, <3>3, Zenon
      <4>2. b = e => s.token = "accented"
        <5>1. b = e => e = "accented"
          BY <3>3, <3>4, Zenon DEF Ascii
        <5> QED
          BY <5>1, <3>3
      <4>3. bearer_status(e, b) # 200
        BY <4>1, SMT
      <4> QED
        BY <4>1, <4>2, <4>3 DEF e, b
    <3>5. CASE b # "" /\ Ascii(e) /\ Ascii(b)
      <4>1. bearer_status(e, b) = IF b = e THEN 200 ELSE 401
        BY <3>3, <3>5 DEF bearer_status
      <4> QED
        BY <4>1 DEF e, b
    <3> QED
      BY <3>4, <3>5
  <2> QED
    BY <1>2, <2>3, <2>4, <2>5, <2>6
<1> QED
  BY <1>1, <1>2

(* The hook, with the replaced create_connection, lets out what goes to this *)
(* machine and what raises another event than the two it looks at.           *)
LEMMA WhatIsBlocked ==
  ASSUME NEW call \in DOMAIN Raised, NEW host
  PROVE  ~Blocks(call, host) <=> host = "loopback" \/ call \in Loose
<1>1. /\ Raised[call] \cap {"getaddrinfo", "connect"} # {} \/ call \in Loose
      /\ call \in Loose => Raised[call] \cap {"getaddrinfo", "connect"} = {}
      /\ call = "create_connection" => call \notin Loose
  BY DEF Raised, Loose
<1> QED
  BY <1>1 DEF Blocks, _audit_hook, guarded_create_connection, _is_loopback_literal

LEMMA BoundaryKept == BoundaryInv => BoundaryHolds
<1> SUFFICES ASSUME BoundaryInv
             PROVE  BoundaryHolds
  OBVIOUS
<1>1. ASSUME serving, answer # NoAnswer
      PROVE  LET r == answer.by
                 encrypted == \/ r.scheme = "https"
                              \/ /\ settings.trust /\ r.host \in settings.networks
                                 /\ r.forwarded = "https"
                 standing == IF settings.offline THEN r.host = "loopback"
                             ELSE r.bearer = strip(settings.token) /\ encrypted
             IN /\ answer.status = 200 => standing
                /\ standing => \/ answer.status = 200
                               \/ answer.status = 500 /\ settings.token = "accented"
  <2>1. PICK r \in Requesters :
          answer = [status |-> authorize_request(settings, r), by |-> r]
    BY <1>1 DEF BoundaryInv, AnswerIsJudged
  <2>2. answer.by = r /\ answer.status = authorize_request(settings, r)
    BY <2>1
  <2>3. settings \in Settings /\ validate_online_configuration(settings)
    BY <1>1 DEF BoundaryInv
  <2> QED
    BY <2>2, <2>3, StandingIsAnswered
<1>2. ASSUME settings.offline, dial # NoDial
      PROVE  dial.left <=> dial.to = "loopback" \/ dial.call \in Loose
  <2>1. PICK call \in DOMAIN Raised, host \in {"loopback", "elsewhere", "a name", "a path"} :
          dial = [to |-> host, call |-> call, left |-> guarded => ~Blocks(call, host)]
    BY <1>2 DEF BoundaryInv, DialIsGuarded
  <2>2. guarded = settings.offline
    BY <1>2 DEF BoundaryInv
  <2>3. dial.to = host /\ dial.call = call /\ dial.left = (guarded => ~Blocks(call, host))
    BY <2>1
  <2>4. ~Blocks(call, host) <=> host = "loopback" \/ call \in Loose
    BY WhatIsBlocked
  <2> QED
    BY <1>2, <2>2, <2>3, <2>4
<1> QED
  BY <1>1, <1>2 DEF BoundaryHolds

-----------------------------------------------------------------------------
(* What is added up and what is sorted *)

(* Counting.  What holds of nothing, and of one more whenever it holds, is   *)
(* true of every number.                                                     *)
LEMMA CountingUp ==
  ASSUME NEW G, 0 \in G, \A n \in Nat : n \in G => n + 1 \in G
  PROVE  Nat \subseteq G
<1>1. SUFFICES ASSUME Nat \ G # {}
               PROVE  FALSE
  OBVIOUS
<1>2. PICK m \in Nat \ G : \A k \in Nat \ G : m <= k
  BY <1>1, LeastOf
<1>3. m # 0 /\ m \in Nat /\ m - 1 \in Nat /\ (m - 1) + 1 = m
  BY <1>2
<1>4. m - 1 \in G
  BY <1>2, <1>3
<1> QED
  BY <1>2, <1>3, <1>4

(* Sums of what has been counted: nothing, and one more somewhere.           *)
LEMMA SumOfNothing ==
  ASSUME NEW S, IsFiniteSet(S)
  PROVE  SumOf([s \in S |-> 0]) = 0
<1> DEFINE f == [s \in S |-> 0]
<1>0. f \in [S -> Nat] /\ \A s \in S : f[s] = 0
  OBVIOUS
<1> HIDE DEF f
<1>1. PICK sum : Sums(sum, f, S)
  BY <1>0, SumUnfolds
<1> USE DEF Sums
<1> DEFINE G == {s \in SUBSET S : sum[s] = 0}
<1>2. ASSUME NEW T \in SUBSET S, \A U \in SUBSET T : U # T => U \in G
      PROVE  T \in G
  <2>1. CASE T = {}
    BY <1>1, <2>1
  <2>2. CASE T # {}
    <3>1. AnyOf(T) \in T
      BY <2>2 DEF AnyOf
    <3>2. T \ {AnyOf(T)} \in SUBSET T /\ T \ {AnyOf(T)} # T
      BY <3>1
    <3>3. sum[T \ {AnyOf(T)}] = 0 /\ f[AnyOf(T)] = 0
      BY <1>0, <1>2, <3>1, <3>2
    <3> QED
      BY <1>1, <2>2, <3>3
  <2> QED
    BY <2>1, <2>2
<1>3. SUBSET S \subseteq G
  <2> HIDE DEF G
  <2> QED
    BY <1>2, BySubsets
<1> QED
  BY <1>1, <1>3 DEF f

LEMMA SumAfterOneMore ==
  ASSUME NEW S, IsFiniteSet(S), NEW f \in [S -> Nat], NEW l \in S
  PROVE  SumOf([f EXCEPT ![l] = @ + 1]) = SumOf(f) + 1
<1> DEFINE g == [f EXCEPT ![l] = @ + 1]
<1>0. g \in [S -> Nat] /\ \A s \in S : g[s] = IF s = l THEN f[s] + 1 ELSE f[s]
  OBVIOUS
<1> HIDE DEF g
<1>1. PICK sf : Sums(sf, f, S)
  BY SumUnfolds
<1>2. PICK sg : Sums(sg, g, S)
  BY <1>0, SumUnfolds
<1> USE DEF Sums
<1> DEFINE G == {s \in SUBSET S : sg[s] = IF l \in s THEN sf[s] + 1 ELSE sf[s]}
<1>3. ASSUME NEW T \in SUBSET S, \A U \in SUBSET T : U # T => U \in G
      PROVE  T \in G
  <2>1. CASE T = {}
    BY <1>1, <1>2, <2>1
  <2>2. CASE T # {}
    <3> DEFINE a == AnyOf(T)
               r == T \ {a}
    <3>1. a \in T
      BY <2>2 DEF AnyOf
    <3>2. r \in SUBSET T /\ r # T
      BY <3>1
    <3>3. sg[r] = IF l \in r THEN sf[r] + 1 ELSE sf[r]
      BY <1>3, <3>2
    <3>4. sf[T] = f[a] + sf[r] /\ sg[T] = g[a] + sg[r]
      BY <1>1, <1>2, <2>2
    <3>5. sf[r] \in Nat /\ sg[r] \in Nat /\ f[a] \in Nat
      <4>1. r \in SUBSET S /\ a \in S
        BY <3>1, <3>2
      <4> HIDE DEF a, r
      <4> QED
        BY <1>1, <1>2, <4>1
    <3>6. g[a] = IF a = l THEN f[a] + 1 ELSE f[a]
      BY <1>0, <3>1
    <3>7. l \in T <=> l = a \/ l \in r
      BY <3>1
    <3>8. ~(l = a /\ l \in r)
      OBVIOUS
    <3> HIDE DEF a, r
    <3>9. sg[T] = IF l \in T THEN sf[T] + 1 ELSE sf[T]
      BY <3>3, <3>4, <3>5, <3>6, <3>7, <3>8
    <3> QED
      BY <3>9
  <2> QED
    BY <2>1, <2>2
<1>4. SUBSET S \subseteq G
  <2> HIDE DEF G
  <2> QED
    BY <1>3, BySubsets
<1>5. sg[S] = sf[S] + 1
  BY <1>4
<1> QED
  BY <1>1, <1>2, <1>5 DEF g

-----------------------------------------------------------------------------
(* Sorted values.  A sorting of n values of a set of numbers: an order in    *)
(* which to take each of them once, so that none is smaller than the last.   *)
SortsBy(p, v, n) ==
  /\ p \in [1..n -> 1..n]
  /\ \A i, j \in 1..n : p[i] = p[j] => i = j
  /\ \A i, j \in 1..n : i < j => v[p[i]] <= v[p[j]]

(* The next value goes before the first one that is greater.                 *)
LEMMA SortingExists ==
  ASSUME NEW D \in SUBSET Nat, NEW n \in Nat, NEW v \in [1..n -> D]
  PROVE  \E p : SortsBy(p, v, n)
<1> DEFINE G == {k \in 0..n : \E p : SortsBy(p, v, k)}
<1>1. 0 \in G
  <2> DEFINE p == [i \in 1..0 |-> i]
  <2>1. 1..0 = {}
    OBVIOUS
  <2>2. p \in [1..0 -> 1..0]
    BY <2>1
  <2> HIDE DEF p
  <2>3. SortsBy(p, v, 0)
    BY <2>1, <2>2, Zenon DEF SortsBy
  <2> QED
    BY <2>3
<1>2. ASSUME NEW k \in 0..(n - 1), k \in G
      PROVE  k + 1 \in G
  <2>1. PICK p : SortsBy(p, v, k)
    BY <1>2
  <2>0. /\ k \in Nat /\ k + 1 \in 0..n
        /\ p \in [1..k -> 1..k] /\ \A i, j \in 1..k : p[i] = p[j] => i = j
        /\ \A i, j \in 1..k : i < j => v[p[i]] <= v[p[j]]
        /\ \A i \in 1..(k + 1) : v[i] \in Nat
    <3>1. /\ p \in [1..k -> 1..k] /\ \A i, j \in 1..k : p[i] = p[j] => i = j
          /\ \A i, j \in 1..k : i < j => v[p[i]] <= v[p[j]]
      BY <2>1, Zenon DEF SortsBy
    <3>2. k \in Nat /\ k + 1 \in 0..n /\ \A i \in 1..(k + 1) : i \in 1..n
      OBVIOUS
    <3>3. \A i \in 1..n : v[i] \in Nat
      OBVIOUS
    <3> QED
      BY <3>1, <3>2, <3>3
  <2> DEFINE x == v[k + 1]
             greater == {i \in 1..(k + 1) : i \in 1..k => v[p[i]] > x}
  <2>2. PICK q \in greater : \A i \in greater : q <= i
    <3>1. k + 1 \in greater /\ greater \in SUBSET Nat
      BY <2>0
    <3> HIDE DEF greater
    <3> QED
      BY <3>1, LeastOf
  <2>3. /\ q \in 1..(k + 1)
        /\ \A i \in 1..k : i < q => v[p[i]] <= x
        /\ \A i \in 1..k : q <= i => x <= v[p[i]]
    <3>1. q \in 1..(k + 1) /\ (q \in 1..k => v[p[q]] > x)
      BY <2>2
    <3>2. ASSUME NEW i \in 1..k, i < q
          PROVE  v[p[i]] <= x
      <4>1. i \notin greater /\ i \in 1..(k + 1)
        BY <2>2, <3>1, <3>2, <2>0
      <4>2. ~(v[p[i]] > x)
        BY <4>1
      <4>3. v[p[i]] \in Nat /\ x \in Nat
        BY <2>0
      <4> HIDE DEF x
      <4> QED
        BY <4>2, <4>3
    <3>3. ASSUME NEW i \in 1..k, q <= i
          PROVE  x <= v[p[i]]
      <4>1. q \in 1..k /\ v[p[q]] > x
        BY <2>0, <3>1, <3>3
      <4>2. v[p[q]] \in Nat /\ v[p[i]] \in Nat /\ x \in Nat /\ v[p[q]] <= v[p[i]]
        BY <2>0, <3>3, <4>1
      <4> HIDE DEF x
      <4> QED
        BY <4>1, <4>2
    <3> QED
      BY <3>1, <3>2, <3>3
  <2> DEFINE at(i) == IF i < q THEN p[i] ELSE IF i = q THEN k + 1 ELSE p[i - 1]
             r == [i \in 1..(k + 1) |-> at(i)]
  <2>4. \A i \in 1..(k + 1) : /\ i < q => i \in 1..k /\ r[i] = p[i]
                              /\ i = q => r[i] = k + 1
                              /\ i > q => i - 1 \in 1..k /\ r[i] = p[i - 1]
    BY <2>0, <2>3
  <2>5. r \in [1..(k + 1) -> 1..(k + 1)]
    <3>1. \A i \in 1..(k + 1) : at(i) \in 1..(k + 1)
      BY <2>0, <2>3
    <3> HIDE DEF at
    <3> QED
      BY <3>1
  <2> HIDE DEF r, greater, x
  <2>6. ASSUME NEW i \in 1..(k + 1), NEW j \in 1..(k + 1), r[i] = r[j]
        PROVE  i = j
    <3>1. \A h \in 1..k : p[h] \in 1..k /\ p[h] # k + 1
      BY <2>0
    <3>2. CASE i = q \/ j = q
      BY <2>0, <2>3, <2>4, <2>6, <3>1, <3>2
    <3>3. CASE i < q /\ j < q
      BY <2>0, <2>3, <2>4, <2>6, <3>3
    <3>4. CASE i > q /\ j > q
      <4>1. i - 1 \in 1..k /\ j - 1 \in 1..k /\ p[i - 1] = p[j - 1]
        BY <2>4, <2>6, <3>4
      <4>2. i - 1 = j - 1
        BY <2>0, <4>1
      <4> QED
        BY <4>2
    <3>5. CASE i < q /\ j > q
      <4>1. i \in 1..k /\ j - 1 \in 1..k /\ p[i] = p[j - 1]
        BY <2>4, <2>6, <3>5
      <4>2. i = j - 1
        BY <2>0, <4>1
      <4> QED
        BY <2>3, <3>5, <4>2
    <3>6. CASE i > q /\ j < q
      <4>1. j \in 1..k /\ i - 1 \in 1..k /\ p[j] = p[i - 1]
        BY <2>4, <2>6, <3>6
      <4>2. j = i - 1
        BY <2>0, <4>1
      <4> QED
        BY <2>3, <3>6, <4>2
    <3> QED
      BY <2>3, <3>2, <3>3, <3>4, <3>5, <3>6
  <2>7. ASSUME NEW i \in 1..(k + 1), NEW j \in 1..(k + 1), i < j
        PROVE  v[r[i]] <= v[r[j]]
    <3>1. CASE j < q
      <4>1. i < q
        BY <2>3, <2>7, <3>1
      <4>2. i \in 1..k /\ j \in 1..k /\ r[i] = p[i] /\ r[j] = p[j]
        BY <2>4, <3>1, <4>1
      <4> QED
        BY <2>0, <2>7, <4>2
    <3>2. CASE j = q
      BY <2>0, <2>3, <2>4, <2>7, <3>2 DEF x
    <3>3. CASE i > q
      <4>1. i - 1 \in 1..k /\ j - 1 \in 1..k /\ i - 1 < j - 1 /\ r[i] = p[i - 1] /\ r[j] = p[j - 1]
        BY <2>3, <2>4, <2>7, <3>3
      <4> QED
        BY <2>0, <4>1
    <3>4. CASE i = q
      <4>1. j - 1 \in 1..k /\ q <= j - 1 /\ r[j] = p[j - 1] /\ r[i] = k + 1
        BY <2>3, <2>4, <2>7, <3>4
      <4> QED
        BY <2>3, <4>1 DEF x
    <3>5. CASE i < q /\ q < j
      <4>1. i \in 1..k /\ j - 1 \in 1..k /\ i < j /\ i <= j - 1 /\ r[i] = p[i] /\ r[j] = p[j - 1]
        BY <2>3, <2>4, <2>7, <3>5
      <4>2. CASE i = j - 1
        <5>1. v[p[i]] \in Nat
          BY <2>0, <4>1
        <5> QED
          BY <4>1, <4>2, <5>1
      <4>3. CASE i < j - 1
        BY <2>0, <4>1, <4>3
      <4> QED
        BY <4>1, <4>2, <4>3
    <3> QED
      BY <2>3, <3>1, <3>2, <3>3, <3>4, <3>5
  <2>8. SortsBy(r, v, k + 1)
    BY <2>5, <2>6, <2>7 DEF SortsBy
  <2> QED
    BY <2>0, <2>8
<1>3. Nat \subseteq {k \in Nat : k <= n => k \in G}
  <2> DEFINE H == {k \in Nat : k <= n => k \in G}
  <2>1. 0 \in H
    BY <1>1
  <2>2. \A k \in Nat : k \in H => k + 1 \in H
    <3> SUFFICES ASSUME NEW k \in Nat, k \in H, k + 1 <= n
                 PROVE  k + 1 \in G
      OBVIOUS
    <3>1. k \in 0..(n - 1) /\ k \in G
      BY DEF H
    <3> HIDE DEF G
    <3> QED
      BY <1>2, <3>1
  <2> HIDE DEF H
  <2>3. Nat \subseteq H
    BY <2>1, <2>2, CountingUp
  <2> QED
    BY <2>3 DEF H
<1>4. n \in G
  <2> HIDE DEF G
  <2> QED
    BY <1>3
<1> QED
  BY <1>4

(* An order that takes each of finitely many places once takes them all.     *)
LEMMA SortingTakesAll ==
  ASSUME NEW n \in Nat, NEW v, NEW p, SortsBy(p, v, n)
  PROVE  \A j \in 1..n : \E i \in 1..n : p[i] = j
<1>1. IsFiniteSet(1..n)
  BY FS_Interval
<1>2. p \in Injection(1..n, 1..n)
  BY DEF SortsBy, Injection, IsInjective
<1>3. p \in Surjection(1..n, 1..n)
  BY <1>1, <1>2, FS_Injection
<1> QED
  BY <1>3 DEF Surjection

TimesIn(w, d) == {k \in DOMAIN w : w[k] = d}
Rises(s, n) == \A k \in 2..n : s[k - 1] <= s[k]
SameCounts(s, v) == \A d : Cardinality(TimesIn(s, d)) = Cardinality(TimesIn(v, d))

LEMMA SortedKeepsCounts ==
  ASSUME NEW D \in SUBSET Nat, NEW n \in Nat, NEW v \in [1..n -> D]
  PROVE  \E s \in [1..n -> D] : Rises(s, n) /\ SameCounts(s, v)
<1>1. PICK p : SortsBy(p, v, n)
  BY SortingExists
<1>2. /\ p \in [1..n -> 1..n] /\ \A i, j \in 1..n : p[i] = p[j] => i = j
      /\ \A i, j \in 1..n : i < j => v[p[i]] <= v[p[j]]
  BY <1>1 DEF SortsBy
<1> DEFINE s == [i \in 1..n |-> v[p[i]]]
<1>3. s \in [1..n -> D] /\ \A i \in 1..n : s[i] = v[p[i]]
  BY <1>2
<1> HIDE DEF s
<1>4. ASSUME NEW d
      PROVE  Cardinality(TimesIn(s, d)) = Cardinality(TimesIn(v, d))
  <2> DEFINE A == TimesIn(s, d)
             B == TimesIn(v, d)
             f == [i \in A |-> p[i]]
  <2>1. /\ A \in SUBSET (1..n) /\ B \in SUBSET (1..n)
        /\ \A i \in 1..n : (i \in A <=> s[i] = d) /\ (i \in B <=> v[i] = d)
    BY <1>3 DEF TimesIn
  <2> HIDE DEF A, B
  <2>2. f \in [A -> B]
    BY <1>2, <1>3, <2>1
  <2>3. \A i, j \in A : f[i] = f[j] => i = j
    BY <1>2, <2>1
  <2>4. \A j \in B : \E i \in A : f[i] = j
    <3> SUFFICES ASSUME NEW j \in B
                 PROVE  \E i \in A : f[i] = j
      OBVIOUS
    <3>1. PICK i \in 1..n : p[i] = j
      BY <1>1, <2>1, SortingTakesAll
    <3>2. i \in A
      BY <1>3, <2>1, <3>1
    <3> QED
      BY <3>1, <3>2
  <2> HIDE DEF f
  <2>5. f \in Bijection(A, B)
    BY <2>2, <2>3, <2>4 DEF Bijection, Injection, Surjection, IsInjective
  <2>6. IsFiniteSet(A)
    <3>1. IsFiniteSet(1..n)
      BY FS_Interval
    <3> QED
      BY <2>1, <3>1, FS_Subset
  <2>7. ExistsBijection(A, B)
    BY <2>5 DEF ExistsBijection
  <2>8. Cardinality(B) = Cardinality(A)
    BY <2>6, <2>7, FS_Bijection
  <2> QED
    BY <2>8 DEF A, B
<1>5. \A i, j \in 1..n : i < j => s[i] <= s[j]
  BY <1>2, <1>3
<1>6. Rises(s, n)
  <2> SUFFICES ASSUME NEW k \in 2..n
               PROVE  s[k - 1] <= s[k]
    BY DEF Rises
  <2>1. k - 1 \in 1..n /\ k \in 1..n /\ k - 1 < k
    OBVIOUS
  <2> QED
    BY <1>5, <2>1
<1>7. SameCounts(s, v)
  BY <1>4 DEF SameCounts
<1> QED
  BY <1>3, <1>6, <1>7

-----------------------------------------------------------------------------
(* Percentiles.  Of the values as many as the fraction says are no greater   *)
(* than the percentile, and not as many than anything below it.              *)
Exceeded(values, p, percent) ==
  /\ 100 * AtMost(values, p) >= percent * Len(values)
  /\ \A d \in Durations : d < p => 100 * AtMost(values, d) < percent * Len(values)

(* n values: an operator of its own, for the provers take a function with a  *)
(* length for a sequence.                                                    *)
Long(v, n) == v \in [1..n -> Durations] /\ Len(v) = n

LEMMA SortedIs ==
  ASSUME \A d \in Durations : d \in Nat, NEW n \in Nat, NEW v, Long(v, n)
  PROVE  Sorted(v) \in [1..n -> Durations] /\ Rises(Sorted(v), n) /\ SameCounts(Sorted(v), v)
<1> DEFINE Ordered(s) ==
             /\ \A k \in 2..n : s[k - 1] <= s[k]
             /\ \A d \in Durations : Cardinality({k \in DOMAIN s : s[k] = d}) =
                                     Cardinality({k \in DOMAIN v : v[k] = d})
<1>1. v \in [1..n -> Durations] /\ DOMAIN v = 1..n /\ Len(v) = n
  BY DEF Long
<1>2. Sorted(v) = CHOOSE s \in [1..n -> Durations] : Ordered(s)
  BY <1>1 DEF Sorted
<1>3. \E s \in [1..n -> Durations] : Ordered(s)
  <2>1. PICK s \in [1..n -> Durations] : Rises(s, n) /\ SameCounts(s, v)
    <3>1. Durations \in SUBSET Nat
      OBVIOUS
    <3> QED
      BY <1>1, <3>1, SortedKeepsCounts
  <2>2. Ordered(s)
    BY <2>1 DEF Rises, SameCounts, TimesIn
  <2> QED
    BY <2>2
<1>4. Sorted(v) \in [1..n -> Durations] /\ Ordered(Sorted(v))
  <2> HIDE DEF Ordered
  <2> QED
    BY <1>2, <1>3
<1>5. SameCounts(Sorted(v), v)
  <2> SUFFICES ASSUME NEW d
               PROVE  Cardinality(TimesIn(Sorted(v), d)) = Cardinality(TimesIn(v, d))
    BY DEF SameCounts
  <2>1. CASE d \in Durations
    BY <1>4, <2>1 DEF TimesIn
  <2>2. CASE d \notin Durations
    <3>1. TimesIn(Sorted(v), d) = {} /\ TimesIn(v, d) = {}
      BY <1>1, <1>4, <2>2 DEF TimesIn
    <3> QED
      BY <3>1
  <2> QED
    BY <2>1, <2>2
<1> QED
  BY <1>4, <1>5 DEF Rises

LEMMA SortedRises ==
  ASSUME NEW n \in Nat, NEW s \in [1..n -> Nat], Rises(s, n)
  PROVE  \A i, j \in 1..n : i <= j => s[i] <= s[j]
<1> USE DEF Rises
<1> DEFINE G == {m \in Nat : \A i \in 1..n : i + m <= n => s[i] <= s[i + m]}
<1>1. 0 \in G
  OBVIOUS
<1>2. ASSUME NEW m \in Nat, m \in G
      PROVE  m + 1 \in G
  <2> SUFFICES ASSUME NEW i \in 1..n, i + (m + 1) <= n
               PROVE  s[i] <= s[i + (m + 1)]
    OBVIOUS
  <2> DEFINE k == i + (m + 1)
  <2>1. k \in 2..n /\ k - 1 = i + m /\ i + m \in 1..n /\ k \in 1..n
    OBVIOUS
  <2>2. s[i] <= s[i + m] /\ s[k - 1] <= s[k]
    BY <1>2, <2>1
  <2>3. s[i] \in Nat /\ s[i + m] \in Nat /\ s[k] \in Nat
    BY <2>1
  <2> QED
    BY <2>1, <2>2, <2>3
<1>3. Nat \subseteq G
  <2> HIDE DEF G
  <2> QED
    BY <1>1, <1>2, CountingUp
<1> SUFFICES ASSUME NEW i \in 1..n, NEW j \in 1..n, i <= j
             PROVE  s[i] <= s[j]
  OBVIOUS
<1>4. j - i \in Nat /\ i + (j - i) = j /\ i + (j - i) <= n
  OBVIOUS
<1>5. j - i \in G
  <2> HIDE DEF G
  <2> QED
    BY <1>3, <1>4
<1>6. s[i] <= s[i + (j - i)]
  BY <1>4, <1>5
<1> QED
  BY <1>4, <1>6

LEMMA CountedAlike ==
  ASSUME \A d \in Durations : d \in Nat, NEW n \in Nat,
         NEW v \in [1..n -> Durations], NEW s \in [1..n -> Durations],
         SameCounts(s, v)
  PROVE  \A d \in Nat : AtMost(s, d) = AtMost(v, d)
<1> DEFINE Low(w, d) == {k \in 1..n : w[k] <= d}
           G == {d \in Nat : Cardinality(Low(s, d)) = Cardinality(Low(v, d))}
<1>1. \A d \in Nat : Cardinality(TimesIn(s, d)) = Cardinality(TimesIn(v, d))
  BY DEF SameCounts
<1>2. ASSUME NEW w \in [1..n -> Durations]
      PROVE  /\ Low(w, 0) = TimesIn(w, 0)
             /\ \A d \in Nat :
                  /\ IsFiniteSet(Low(w, d)) /\ IsFiniteSet(TimesIn(w, d + 1))
                  /\ Low(w, d + 1) = Low(w, d) \cup TimesIn(w, d + 1)
                  /\ Low(w, d) \cap TimesIn(w, d + 1) = {}
  <2>1. \A k \in 1..n : w[k] \in Nat
    OBVIOUS
  <2>2. Low(w, 0) = TimesIn(w, 0)
    BY <2>1 DEF TimesIn
  <2>3. ASSUME NEW d \in Nat
        PROVE  /\ Low(w, d + 1) = Low(w, d) \cup TimesIn(w, d + 1)
               /\ Low(w, d) \cap TimesIn(w, d + 1) = {}
    BY <2>1 DEF TimesIn
  <2>4. ASSUME NEW d \in Nat
        PROVE  IsFiniteSet(Low(w, d)) /\ IsFiniteSet(TimesIn(w, d + 1))
    <3>1. Low(w, d) \in SUBSET (1..n) /\ TimesIn(w, d + 1) \in SUBSET (1..n)
      BY DEF TimesIn
    <3> HIDE DEF Low
    <3> QED
      BY <3>1, FS_Interval, FS_Subset
  <2> QED
    BY <2>2, <2>3, <2>4
<1> HIDE DEF Low
<1>3. ASSUME NEW w \in [1..n -> Durations], NEW d \in Nat
      PROVE  Cardinality(Low(w, d + 1)) = Cardinality(Low(w, d)) + Cardinality(TimesIn(w, d + 1))
  <2>1. /\ IsFiniteSet(Low(w, d)) /\ IsFiniteSet(TimesIn(w, d + 1))
        /\ Low(w, d + 1) = Low(w, d) \cup TimesIn(w, d + 1)
        /\ Low(w, d) \cap TimesIn(w, d + 1) = {}
    BY <1>2
  <2>2. Cardinality(Low(w, d) \cup TimesIn(w, d + 1))
          = Cardinality(Low(w, d)) + Cardinality(TimesIn(w, d + 1))
            - Cardinality(Low(w, d) \cap TimesIn(w, d + 1))
    BY <2>1, FS_Union
  <2>3. Cardinality(Low(w, d) \cap TimesIn(w, d + 1)) = Cardinality({})
    BY <2>1
  <2>4. Cardinality({}) = 0 /\ Cardinality(Low(w, d)) \in Nat /\ Cardinality(TimesIn(w, d + 1)) \in Nat
    BY <2>1, FS_EmptySet, FS_CardinalityType
  <2> DEFINE a == Cardinality(Low(w, d))
             b == Cardinality(TimesIn(w, d + 1))
  <2>5. a \in Nat /\ b \in Nat /\ Cardinality(Low(w, d + 1)) = a + b - 0
    BY <2>1, <2>2, <2>3, <2>4
  <2> HIDE DEF a, b
  <2>6. a + b - 0 = a + b
    BY <2>5
  <2> QED
    BY <2>5, <2>6 DEF a, b
<1>4. 0 \in G
  BY <1>1, <1>2
<1>5. \A d \in Nat : d \in G => d + 1 \in G
  <2> SUFFICES ASSUME NEW d \in Nat, d \in G
               PROVE  d + 1 \in G
    OBVIOUS
  <2>1. Cardinality(TimesIn(s, d + 1)) = Cardinality(TimesIn(v, d + 1))
    BY <1>1
  <2>2. Cardinality(Low(s, d + 1)) = Cardinality(Low(v, d + 1))
    BY <1>3, <2>1
  <2> QED
    BY <2>2
<1>6. Nat \subseteq G
  <2> HIDE DEF G
  <2> QED
    BY <1>4, <1>5, CountingUp
<1>7. \A d \in Nat : AtMost(s, d) = Cardinality(Low(s, d)) /\ AtMost(v, d) = Cardinality(Low(v, d))
  BY DEF AtMost, Low
<1> QED
  BY <1>6, <1>7

LEMMA PercentileIs ==
  ASSUME \A d \in Durations : d \in Nat, NEW n \in Nat, n # 0, NEW v, Long(v, n),
         NEW q \in {50, 95}
  PROVE  Exceeded(v, percentile(v, q, 100), q)
<1> DEFINE s == Sorted(v)
           rank == (q * n + 100 - 1) \div 100
<1>0. v \in [1..n -> Durations] /\ \A d \in Durations : d \in Nat
  BY DEF Long
<1>1. s \in [1..n -> Durations] /\ Rises(s, n) /\ SameCounts(s, v)
  BY SortedIs
<1> HIDE DEF s
<1>2. \A i, j \in 1..n : i <= j => s[i] <= s[j]
  <2>1. s \in [1..n -> Nat]
    BY <1>0, <1>1
  <2> QED
    BY <1>1, <2>1, SortedRises
<1>3. \A d \in Nat : AtMost(s, d) = AtMost(v, d)
  BY <1>0, <1>1, CountedAlike
<1>4. rank \in 1..n /\ q * n <= 100 * rank /\ 100 * (rank - 1) < q * n
  <2>1. CASE q = 50
    BY <2>1
  <2>2. CASE q = 95
    BY <2>2
  <2> QED
    BY <2>1, <2>2
<1>5. percentile(v, q, 100) = s[rank]
  <2>1. percentile(v, q, 100) = Sorted(v)[Max({1, Min({n, rank})})]
    BY DEF percentile, Long
  <2> HIDE DEF rank
  <2>2. Min({n, rank}) = rank /\ Max({1, rank}) = rank
    BY <1>4 DEF Min, Max
  <2> QED
    BY <2>1, <2>2 DEF s
<1> HIDE DEF rank
<1> DEFINE p == s[rank]
<1>6. p \in Durations /\ p \in Nat
  BY <1>0, <1>1, <1>4
<1>7. AtMost(s, p) \in Nat /\ AtMost(s, p) >= rank
  <2> DEFINE A == {k \in DOMAIN s : s[k] <= p}
  <2>1. A \in SUBSET (1..n) /\ 1..rank \in SUBSET A
    BY <1>1, <1>2, <1>4
  <2>2. IsFiniteSet(A) /\ IsFiniteSet(1..rank) /\ Cardinality(1..rank) = rank
    <3> HIDE DEF A
    <3>1. IsFiniteSet(1..n) /\ IsFiniteSet(1..rank)
      BY <1>4, FS_Interval
    <3>2. Cardinality(1..rank) = rank
      <4>1. Cardinality(1..rank) = IF 1 > rank THEN 0 ELSE rank - 1 + 1
        BY <1>4, FS_Interval
      <4> QED
        BY <1>4, <4>1
    <3> QED
      BY <2>1, <3>1, <3>2, FS_Subset
  <2> HIDE DEF A
  <2>3. Cardinality(1..rank) <= Cardinality(A) /\ Cardinality(A) \in Nat
    BY <2>1, <2>2, FS_Subset, FS_CardinalityType
  <2> QED
    BY <1>4, <2>2, <2>3 DEF AtMost, A
<1>8. ASSUME NEW d \in Durations, d < p
      PROVE  AtMost(s, d) \in Nat /\ AtMost(s, d) <= rank - 1
  <2> DEFINE A == {k \in DOMAIN s : s[k] <= d}
  <2>1. A \in SUBSET (1..(rank - 1))
    <3> SUFFICES ASSUME NEW k \in 1..n, s[k] <= d, ~(k <= rank - 1)
                 PROVE  FALSE
      BY <1>1, <1>4
    <3>1. s[rank] <= s[k]
      BY <1>2, <1>4
    <3>2. s[rank] \in Nat /\ s[k] \in Nat /\ d \in Nat
      BY <1>0, <1>1, <1>4
    <3> QED
      BY <1>8, <3>1, <3>2
  <2>2. IsFiniteSet(1..(rank - 1)) /\ Cardinality(1..(rank - 1)) = rank - 1
    <3>1. rank - 1 \in Int /\ 1 \in Int
      BY <1>4
    <3>2. Cardinality(1..(rank - 1)) = IF 1 > rank - 1 THEN 0 ELSE rank - 1 - 1 + 1
      BY <3>1, FS_Interval
    <3> QED
      BY <1>4, <3>1, <3>2, FS_Interval
  <2> HIDE DEF A
  <2>3. IsFiniteSet(A) /\ Cardinality(A) <= Cardinality(1..(rank - 1))
    BY <2>1, <2>2, FS_Subset
  <2> QED
    BY <2>2, <2>3, FS_CardinalityType DEF AtMost, A
<1>9. 100 * AtMost(s, p) >= q * n
  BY <1>4, <1>7
<1>10. \A d \in Durations : d < p => 100 * AtMost(s, d) < q * n
  <2> SUFFICES ASSUME NEW d \in Durations, d < p
               PROVE  100 * AtMost(s, d) < q * n
    OBVIOUS
  <2>1. AtMost(s, d) \in Nat /\ AtMost(s, d) <= rank - 1
    BY <1>8
  <2>2. 100 * AtMost(s, d) <= 100 * (rank - 1) /\ q * n \in Nat
    BY <1>4, <2>1
  <2> QED
    BY <1>4, <2>1, <2>2
<1>11. \A d \in Durations : AtMost(s, d) = AtMost(v, d)
  BY <1>3
<1> HIDE DEF p
<1> QED
  BY <1>0, <1>5, <1>6, <1>9, <1>10, <1>11 DEF Exceeded, Long, p

-----------------------------------------------------------------------------
(* The counters *)

(* A measurement under way, with what it has read of the counters.           *)
IsCall(call) ==
  /\ call = [route |-> call.route, label |-> call.label, refused |-> call.refused,
             snapshot |-> call.snapshot]
  /\ call.label \in Labels /\ call.refused \in BOOLEAN
SnapshotTells(s, total) ==
  /\ s.active \in Nat /\ s.requests \in Nat /\ s.active > 0 /\ s.requests + s.active <= total
  /\ s.samples # <<>> => Exceeded(s.samples, s.p50, 50) /\ Exceeded(s.samples, s.p95, 95)

Counters ==
  [active : Nat, max_active : Nat, requests : Nat, errors : Nat, rejections : Nat,
   routes : [Labels -> Nat], statuses : [Classes -> Nat], durations : Seq(Durations)]
RefusedCalls == {c \in UnderWay : calls[c].refused}

MetricsInv ==
  /\ calls = [c \in Callers |-> calls[c]]
  /\ \A c \in UnderWay : IsCall(calls[c])
  /\ \A c \in UnderWay : calls[c].snapshot # <<>> => SnapshotTells(calls[c].snapshot[1], begun)
  /\ metrics \in Counters /\ begun \in Nat
  /\ IsFiniteSet(UnderWay) /\ metrics.active = Cardinality(UnderWay)
  /\ metrics.active <= metrics.max_active
  /\ metrics.requests + metrics.active = begun
  /\ SumOf(metrics.routes) = metrics.requests /\ SumOf(metrics.statuses) = metrics.requests
  /\ metrics.errors = metrics.statuses["5xx"]
  /\ metrics.rejections <= metrics.errors + Cardinality(RefusedCalls)

LEMMA FiniteLabels == IsFiniteSet(Labels) /\ IsFiniteSet(Classes)
<1>1. IsFiniteSet(Labels)
  <2> DEFINE f == [r \in Routes |-> normalize_metric_path(r)]
  <2>1. f \in Surjection(Routes, Labels)
    <3>1. f \in [Routes -> Labels]
      BY DEF Labels
    <3>2. \A l \in Labels : \E r \in Routes : f[r] = l
      BY DEF Labels
    <3> HIDE DEF f
    <3> QED
      BY <3>1, <3>2 DEF Surjection
  <2> HIDE DEF f
  <2> QED
    BY <2>1, MetricsAssumption, FS_Surjection
<1>2. IsFiniteSet({}) /\ {} \cup {"2xx"} \cup {"4xx"} \cup {"5xx"} = Classes
  BY FS_EmptySet DEF Classes
<1> QED
  BY <1>1, <1>2, FS_AddElement

LEMMA CallsAreCalls == \A call : IsCall(call) => call # NoCall
<1> SUFFICES ASSUME NEW call, IsCall(call), call = NoCall
             PROVE  FALSE
  OBVIOUS
<1>1. DOMAIN call = {"route", "label", "refused", "snapshot"}
  BY DEF IsCall
<1>2. DOMAIN call = {"route"}
  BY DEF NoCall
<1> QED
  BY <1>1, <1>2

LEMMA MetricsStart == MetricsInit => MetricsInv
<1> SUFFICES ASSUME MetricsInit
             PROVE  MetricsInv
  OBVIOUS
<1>1. UnderWay = {} /\ RefusedCalls = {}
  BY DEF MetricsInit, UnderWay, RefusedCalls
<1>2. /\ metrics.active = 0 /\ metrics.requests = 0 /\ metrics.errors = 0 /\ metrics.max_active = 0
      /\ metrics.rejections = 0 /\ metrics.routes = [l \in Labels |-> 0]
      /\ metrics.statuses = [c \in Classes |-> 0]
  BY DEF MetricsInit
<1>3. metrics \in Counters
  BY DEF MetricsInit, Counters
<1>4. SumOf(metrics.routes) = 0 /\ SumOf(metrics.statuses) = 0
  BY <1>2, FiniteLabels, SumOfNothing
<1>5. IsFiniteSet({}) /\ Cardinality({}) = 0
  BY FS_EmptySet
<1>6. metrics.statuses["5xx"] = 0
  BY <1>2 DEF Classes
<1>7. calls = [c \in Callers |-> calls[c]] /\ begun = 0
  BY DEF MetricsInit
<1> QED
  BY <1>1, <1>2, <1>3, <1>4, <1>5, <1>6, <1>7 DEF MetricsInv

LEMMA BeginStep ==
  ASSUME MetricsInv, NEW c \in Callers, begin(c)
  PROVE  MetricsInv'
<1>1. PICK r \in Routes :
        calls' = [calls EXCEPT ![c] = [route |-> r, label |-> normalize_metric_path(r),
                                       refused |-> FALSE, snapshot |-> <<>>]]
  BY DEF begin
<1>2. /\ calls[c] = NoCall /\ c \notin UnderWay /\ begun' = begun + 1
      /\ metrics' = [metrics EXCEPT !.active = @ + 1, !.max_active = Max({@, metrics.active + 1})]
  BY DEF begin, UnderWay
<1> DEFINE new == [route |-> r, label |-> normalize_metric_path(r), refused |-> FALSE,
                   snapshot |-> <<>>]
<1>3. IsCall(new) /\ new # NoCall /\ new.snapshot = <<>> /\ new.refused = FALSE
  <2>1. normalize_metric_path(r) \in Labels
    BY DEF Labels
  <2>2. IsCall(new)
    BY <2>1 DEF IsCall
  <2> QED
    BY <2>2, CallsAreCalls
<1> HIDE DEF new
<1>4. /\ calls' = [x \in Callers |-> calls'[x]]
      /\ \A x \in Callers : calls'[x] = IF x = c THEN new ELSE calls[x]
  <2>1. calls' = [calls EXCEPT ![c] = new] /\ calls = [x \in Callers |-> calls[x]]
    BY <1>1 DEF new, MetricsInv
  <2> QED
    BY <2>1
<1>5. UnderWay' = UnderWay \cup {c} /\ RefusedCalls' = RefusedCalls
  BY <1>2, <1>3, <1>4 DEF UnderWay, RefusedCalls
<1>6. IsFiniteSet(UnderWay') /\ Cardinality(UnderWay') = Cardinality(UnderWay) + 1
  BY <1>2, <1>5, FS_AddElement DEF MetricsInv
<1> DEFINE top == Max({metrics.max_active, metrics.active + 1})
<1>7. top \in Nat /\ top >= metrics.active + 1
  <2>1. metrics.max_active \in Nat /\ metrics.active + 1 \in Nat
    BY DEF MetricsInv, Counters
  <2> DEFINE a == metrics.max_active
             b == metrics.active + 1
  <2> HIDE DEF a, b
  <2>2. a \in Nat /\ b \in Nat => Max({a, b}) \in Nat /\ Max({a, b}) >= b
    <3> SUFFICES ASSUME a \in Nat, b \in Nat
                 PROVE  Max({a, b}) \in Nat /\ Max({a, b}) >= b
      OBVIOUS
    <3>1. \E x \in {a, b} : \A y \in {a, b} : x >= y
      OBVIOUS
    <3>2. Max({a, b}) \in {a, b} /\ \A y \in {a, b} : Max({a, b}) >= y
      BY <3>1 DEF Max
    <3> QED
      BY <3>2
  <2> QED
    BY <2>1, <2>2 DEF a, b
<1>8. /\ metrics' \in Counters /\ metrics'.active = metrics.active + 1 /\ metrics'.max_active = top
      /\ metrics'.requests = metrics.requests /\ metrics'.errors = metrics.errors
      /\ metrics'.routes = metrics.routes /\ metrics'.statuses = metrics.statuses
      /\ metrics'.rejections = metrics.rejections
  <2>1. metrics' = [metrics EXCEPT !.active = @ + 1, !.max_active = top] /\ metrics \in Counters
    BY <1>2 DEF MetricsInv
  <2> HIDE DEF top
  <2>2. /\ metrics'.active = metrics.active + 1 /\ metrics'.max_active = top
        /\ metrics'.requests = metrics.requests /\ metrics'.errors = metrics.errors
        /\ metrics'.routes = metrics.routes /\ metrics'.statuses = metrics.statuses
        /\ metrics'.rejections = metrics.rejections /\ metrics'.durations = metrics.durations
    BY <2>1 DEF Counters
  <2>3. metrics' = [active |-> metrics'.active, max_active |-> metrics'.max_active,
                    requests |-> metrics'.requests, errors |-> metrics'.errors,
                    rejections |-> metrics'.rejections, routes |-> metrics'.routes,
                    statuses |-> metrics'.statuses, durations |-> metrics'.durations]
    BY <2>1 DEF Counters
  <2>4. metrics'.active \in Nat /\ metrics'.max_active \in Nat
    BY <1>7, <2>1, <2>2 DEF Counters
  <2>5. /\ metrics.requests \in Nat /\ metrics.errors \in Nat /\ metrics.rejections \in Nat
        /\ metrics.routes \in [Labels -> Nat] /\ metrics.statuses \in [Classes -> Nat]
        /\ metrics.durations \in Seq(Durations)
    BY <2>1 DEF Counters
  <2> QED
    BY <2>2, <2>3, <2>4, <2>5 DEF Counters
<1>9. \A x \in UnderWay' : IsCall(calls'[x])
  BY <1>3, <1>4, <1>5 DEF MetricsInv, UnderWay
<1>10. \A x \in UnderWay' : calls'[x].snapshot # <<>> => SnapshotTells(calls'[x].snapshot[1], begun')
  <2> SUFFICES ASSUME NEW x \in UnderWay', calls'[x].snapshot # <<>>
               PROVE  SnapshotTells(calls'[x].snapshot[1], begun')
    OBVIOUS
  <2>1. x \in UnderWay /\ calls'[x] = calls[x]
    BY <1>3, <1>4, <1>5 DEF UnderWay
  <2>2. SnapshotTells(calls[x].snapshot[1], begun) /\ begun \in Nat
    BY <2>1 DEF MetricsInv
  <2> QED
    BY <1>2, <2>1, <2>2 DEF SnapshotTells
<1>11. /\ metrics.active \in Nat /\ metrics.requests \in Nat /\ begun \in Nat
       /\ metrics.requests + metrics.active = begun /\ metrics.active = Cardinality(UnderWay)
  BY DEF MetricsInv, Counters
<1> HIDE DEF top
<1>12. /\ metrics'.active = Cardinality(UnderWay') /\ metrics'.active <= metrics'.max_active
       /\ metrics'.requests + metrics'.active = begun' /\ begun' \in Nat
  BY <1>2, <1>6, <1>7, <1>8, <1>11
<1>13. /\ SumOf(metrics.routes) = metrics.requests /\ SumOf(metrics.statuses) = metrics.requests
       /\ metrics.errors = metrics.statuses["5xx"]
       /\ metrics.rejections <= metrics.errors + Cardinality(RefusedCalls)
  BY DEF MetricsInv
<1>14. /\ SumOf(metrics'.routes) = metrics'.requests /\ SumOf(metrics'.statuses) = metrics'.requests
       /\ metrics'.errors = metrics'.statuses["5xx"]
       /\ metrics'.rejections <= metrics'.errors + Cardinality(RefusedCalls')
  BY <1>5, <1>8, <1>13
<1> QED
  BY <1>4, <1>6, <1>8, <1>9, <1>10, <1>12, <1>14 DEF MetricsInv

LEMMA FinishStep ==
  ASSUME MetricsInv, NEW c \in Callers, Finish(c)
  PROVE  MetricsInv'
<1>1. PICK class \in IF calls[c].refused THEN {"5xx"} ELSE Classes, d \in Durations :
        end(c, class, d)
  BY DEF Finish
<1>2. /\ c \in UnderWay /\ begun' = begun /\ class \in Classes /\ (calls[c].refused => class = "5xx")
  BY <1>1 DEF Finish, UnderWay, Classes
<1>3. /\ calls' = [x \in Callers |-> calls'[x]]
      /\ \A x \in Callers : calls'[x] = IF x = c THEN NoCall ELSE calls[x]
  <2>1. calls' = [calls EXCEPT ![c] = NoCall] /\ calls = [x \in Callers |-> calls[x]]
    BY <1>1 DEF end, MetricsInv
  <2> QED
    BY <2>1
<1>4. UnderWay' = UnderWay \ {c} /\ RefusedCalls' = RefusedCalls \ {c}
  BY <1>3 DEF UnderWay, RefusedCalls
<1>5. /\ IsFiniteSet(UnderWay) /\ IsFiniteSet(RefusedCalls)
      /\ Cardinality(UnderWay) \in Nat /\ Cardinality(RefusedCalls) \in Nat
  <2>1. RefusedCalls \in SUBSET UnderWay
    BY DEF RefusedCalls
  <2> QED
    BY <2>1, FS_Subset, FS_CardinalityType DEF MetricsInv
<1>6. IsFiniteSet(UnderWay') /\ Cardinality(UnderWay') = Cardinality(UnderWay) - 1
  BY <1>2, <1>4, <1>5, FS_RemoveElement
<1>7. Cardinality(RefusedCalls') = IF calls[c].refused THEN Cardinality(RefusedCalls) - 1
                                   ELSE Cardinality(RefusedCalls)
  <2>1. c \in RefusedCalls <=> calls[c].refused
    BY <1>2 DEF RefusedCalls
  <2> QED
    BY <1>4, <1>5, <2>1, FS_RemoveElement
<1>8. metrics.active \in Nat /\ metrics.active # 0
  <2>1. UnderWay # {}
    BY <1>2
  <2>2. Cardinality(UnderWay) # 0
    BY <1>5, <2>1, FS_EmptySet
  <2> QED
    BY <1>5, <2>2 DEF MetricsInv
<1> DEFINE l == calls[c].label
           kept == Append(metrics.durations, d)
           window == IF Len(kept) > Window THEN Tail(kept) ELSE kept
<1>9. l \in Labels
  BY <1>2 DEF MetricsInv, IsCall
<1>10. window \in Seq(Durations)
  <2>1. kept \in Seq(Durations) /\ kept # <<>>
    BY DEF MetricsInv, Counters
  <2> HIDE DEF kept
  <2> QED
    BY <2>1
<1>11. metrics' = [metrics EXCEPT
         !.active = IF @ = 0 THEN 0 ELSE @ - 1, !.requests = @ + 1,
         !.errors = IF class = "5xx" THEN @ + 1 ELSE @,
         !.routes[l] = @ + 1, !.statuses[class] = @ + 1, !.durations = window]
  BY <1>1 DEF end
<1> HIDE DEF l, window
<1>12. metrics \in Counters
  BY DEF MetricsInv
<1>13. /\ metrics'.active = metrics.active - 1 /\ metrics'.max_active = metrics.max_active
       /\ metrics'.requests = metrics.requests + 1 /\ metrics'.rejections = metrics.rejections
       /\ metrics'.errors = (IF class = "5xx" THEN metrics.errors + 1 ELSE metrics.errors)
       /\ metrics'.routes = [metrics.routes EXCEPT ![l] = @ + 1]
       /\ metrics'.statuses = [metrics.statuses EXCEPT ![class] = @ + 1]
       /\ metrics'.durations = window
  BY <1>8, <1>11, <1>12 DEF Counters
<1>14. metrics' \in Counters
  <2>1. metrics' = [active |-> metrics'.active, max_active |-> metrics'.max_active,
                    requests |-> metrics'.requests, errors |-> metrics'.errors,
                    rejections |-> metrics'.rejections, routes |-> metrics'.routes,
                    statuses |-> metrics'.statuses, durations |-> metrics'.durations]
    BY <1>11, <1>12 DEF Counters
  <2>2. /\ metrics'.active \in Nat /\ metrics'.max_active \in Nat /\ metrics'.requests \in Nat
        /\ metrics'.errors \in Nat /\ metrics'.rejections \in Nat
    BY <1>8, <1>12, <1>13 DEF Counters
  <2>3. metrics.routes \in [Labels -> Nat] /\ metrics.statuses \in [Classes -> Nat]
    BY <1>12 DEF Counters
  <2>4. metrics'.routes \in [Labels -> Nat] /\ metrics'.statuses \in [Classes -> Nat]
    BY <1>2, <1>9, <1>13, <2>3
  <2> HIDE DEF MetricsInv
  <2> QED
    BY <1>10, <1>13, <2>1, <2>2, <2>4 DEF Counters
<1>15. /\ SumOf(metrics'.routes) = metrics'.requests /\ SumOf(metrics'.statuses) = metrics'.requests
  <2>1. metrics.routes \in [Labels -> Nat] /\ metrics.statuses \in [Classes -> Nat]
    BY <1>12 DEF Counters
  <2>2. SumOf(metrics'.routes) = SumOf(metrics.routes) + 1
    BY <1>9, <1>13, <2>1, FiniteLabels, SumAfterOneMore
  <2>3. SumOf(metrics'.statuses) = SumOf(metrics.statuses) + 1
    BY <1>2, <1>13, <2>1, FiniteLabels, SumAfterOneMore
  <2> QED
    BY <1>13, <2>2, <2>3 DEF MetricsInv
<1>16. /\ metrics.errors = metrics.statuses["5xx"]
       /\ metrics.rejections <= metrics.errors + Cardinality(RefusedCalls)
       /\ metrics.requests + metrics.active = begun
       /\ metrics.active = Cardinality(UnderWay) /\ metrics.active <= metrics.max_active
       /\ begun \in Nat
  BY DEF MetricsInv
<1>17. metrics'.errors = metrics'.statuses["5xx"]
  <2>1. metrics.statuses \in [Classes -> Nat] /\ "5xx" \in Classes
    BY <1>12 DEF Counters, Classes
  <2>2. metrics'.statuses["5xx"] = IF class = "5xx" THEN metrics.statuses["5xx"] + 1
                                   ELSE metrics.statuses["5xx"]
    BY <1>13, <2>1
  <2> QED
    BY <1>13, <1>16, <2>2
<1>18. /\ metrics.errors \in Nat /\ metrics.rejections \in Nat /\ metrics.requests \in Nat
       /\ metrics.max_active \in Nat
  BY <1>12 DEF Counters
<1>19. metrics'.rejections <= metrics'.errors + Cardinality(RefusedCalls')
  BY <1>2, <1>5, <1>7, <1>13, <1>16, <1>18
<1>20. /\ metrics'.active = Cardinality(UnderWay') /\ metrics'.active <= metrics'.max_active
       /\ metrics'.requests + metrics'.active = begun'
  BY <1>2, <1>6, <1>8, <1>13, <1>16, <1>18
<1>21. /\ \A x \in UnderWay' : IsCall(calls'[x])
       /\ \A x \in UnderWay' :
             calls'[x].snapshot # <<>> => SnapshotTells(calls'[x].snapshot[1], begun')
  <2>1. \A x \in UnderWay' : x \in UnderWay /\ calls'[x] = calls[x]
    BY <1>3, <1>4 DEF UnderWay
  <2>2. /\ \A x \in UnderWay : IsCall(calls[x])
        /\ \A x \in UnderWay : calls[x].snapshot # <<>> => SnapshotTells(calls[x].snapshot[1], begun)
    BY DEF MetricsInv
  <2> QED
    BY <1>2, <2>1, <2>2
<1> QED
  BY <1>2, <1>3, <1>6, <1>14, <1>15, <1>16, <1>17, <1>19, <1>20, <1>21 DEF MetricsInv

(* What is marked stays a measurement.                                       *)
LEMMA MarkedCall ==
  ASSUME NEW call, IsCall(call), NEW t \in BOOLEAN
  PROVE  LET new == [call EXCEPT !.refused = t]
         IN /\ new.label = call.label /\ new.snapshot = call.snapshot /\ new.refused = t
            /\ IsCall(new)
<1> DEFINE new == [call EXCEPT !.refused = t]
<1>1. /\ call = [route |-> call.route, label |-> call.label, refused |-> call.refused,
                 snapshot |-> call.snapshot]
      /\ call.label \in Labels
  BY DEF IsCall
<1>2. /\ new = [route |-> call.route, label |-> call.label, refused |-> t,
                snapshot |-> call.snapshot]
  BY <1>1
<1> HIDE DEF new
<1>3. new.route = call.route /\ new.label = call.label /\ new.snapshot = call.snapshot /\ new.refused = t
  BY <1>2
<1>4. IsCall(new)
  BY <1>1, <1>2, <1>3 DEF IsCall
<1> QED
  BY <1>3, <1>4 DEF new

LEMMA RejectedStep ==
  ASSUME MetricsInv, NEW c \in Callers, admission_rejected(c)
  PROVE  MetricsInv'
<1>1. /\ c \in UnderWay /\ ~calls[c].refused /\ calls[c].snapshot = <<>> /\ begun' = begun
      /\ calls' = [calls EXCEPT ![c].refused = TRUE]
      /\ metrics' = [metrics EXCEPT !.rejections = @ + 1]
  BY DEF admission_rejected, UnderWay
<1> DEFINE new == [calls[c] EXCEPT !.refused = TRUE]
<1>2. /\ new.label = calls[c].label /\ new.snapshot = calls[c].snapshot /\ new.refused = TRUE
      /\ IsCall(new) /\ new # NoCall
  <2>1. IsCall(calls[c])
    BY <1>1 DEF MetricsInv
  <2>2. /\ new.label = calls[c].label /\ new.snapshot = calls[c].snapshot /\ new.refused = TRUE
        /\ IsCall(new)
    BY <2>1, MarkedCall
  <2> HIDE DEF new
  <2> QED
    BY <2>2, CallsAreCalls
<1>3. /\ calls' = [x \in Callers |-> calls'[x]]
      /\ \A x \in Callers : calls'[x] = IF x = c THEN new ELSE calls[x]
  <2>1. calls' = [calls EXCEPT ![c] = new] /\ calls = [x \in Callers |-> calls[x]]
    BY <1>1 DEF MetricsInv
  <2> HIDE DEF new
  <2> QED
    BY <2>1
<1> HIDE DEF new
<1>4. UnderWay' = UnderWay /\ RefusedCalls' = RefusedCalls \cup {c} /\ c \notin RefusedCalls
  BY <1>1, <1>2, <1>3 DEF UnderWay, RefusedCalls
<1>5. IsFiniteSet(UnderWay) /\ IsFiniteSet(RefusedCalls) /\ Cardinality(RefusedCalls) \in Nat
  <2>1. RefusedCalls \in SUBSET UnderWay
    BY DEF RefusedCalls
  <2> QED
    BY <2>1, FS_Subset, FS_CardinalityType DEF MetricsInv
<1>6. Cardinality(RefusedCalls') = Cardinality(RefusedCalls) + 1
  BY <1>4, <1>5, FS_AddElement
<1>7. metrics \in Counters
  BY DEF MetricsInv
<1>8. /\ metrics'.active = metrics.active /\ metrics'.max_active = metrics.max_active
      /\ metrics'.requests = metrics.requests /\ metrics'.errors = metrics.errors
      /\ metrics'.routes = metrics.routes /\ metrics'.statuses = metrics.statuses
      /\ metrics'.rejections = metrics.rejections + 1 /\ metrics'.durations = metrics.durations
  BY <1>1, <1>7 DEF Counters
<1>9. metrics' \in Counters
  <2>1. metrics' = [active |-> metrics'.active, max_active |-> metrics'.max_active,
                    requests |-> metrics'.requests, errors |-> metrics'.errors,
                    rejections |-> metrics'.rejections, routes |-> metrics'.routes,
                    statuses |-> metrics'.statuses, durations |-> metrics'.durations]
    BY <1>1, <1>7 DEF Counters
  <2>2. /\ metrics.requests \in Nat /\ metrics.errors \in Nat /\ metrics.rejections + 1 \in Nat
        /\ metrics.active \in Nat /\ metrics.max_active \in Nat
        /\ metrics.routes \in [Labels -> Nat] /\ metrics.statuses \in [Classes -> Nat]
        /\ metrics.durations \in Seq(Durations)
    BY <1>7 DEF Counters
  <2> QED
    BY <1>8, <2>1, <2>2 DEF Counters
<1>10. /\ metrics'.rejections <= metrics'.errors + Cardinality(RefusedCalls')
  <2>1. metrics.errors \in Nat /\ metrics.rejections \in Nat
    BY <1>7 DEF Counters
  <2>2. metrics.rejections <= metrics.errors + Cardinality(RefusedCalls)
    BY DEF MetricsInv
  <2> QED
    BY <1>5, <1>6, <1>8, <2>1, <2>2
<1>11. /\ \A x \in UnderWay' : IsCall(calls'[x])
       /\ \A x \in UnderWay' :
             calls'[x].snapshot # <<>> => SnapshotTells(calls'[x].snapshot[1], begun')
  <2>1. /\ \A x \in UnderWay : IsCall(calls[x])
        /\ \A x \in UnderWay : calls[x].snapshot # <<>> => SnapshotTells(calls[x].snapshot[1], begun)
    BY DEF MetricsInv
  <2>2. \A x \in UnderWay' : x \in UnderWay /\ x \in Callers
    BY <1>4 DEF UnderWay
  <2> QED
    BY <1>1, <1>2, <1>3, <2>1, <2>2
<1>12. /\ metrics'.active = Cardinality(UnderWay') /\ metrics'.active <= metrics'.max_active
       /\ metrics'.requests + metrics'.active = begun' /\ begun' \in Nat
       /\ SumOf(metrics'.routes) = metrics'.requests /\ SumOf(metrics'.statuses) = metrics'.requests
       /\ metrics'.errors = metrics'.statuses["5xx"] /\ IsFiniteSet(UnderWay')
  BY <1>1, <1>4, <1>8 DEF MetricsInv
<1> QED
  BY <1>3, <1>9, <1>10, <1>11, <1>12 DEF MetricsInv

LEMMA SnapshotStep ==
  ASSUME MetricsInv, NEW c \in Callers, read_snapshot(c)
  PROVE  MetricsInv'
<1> DEFINE v == metrics.durations
           read == [active |-> metrics.active, requests |-> metrics.requests,
                    p50 |-> percentile(v, 50, 100), p95 |-> percentile(v, 95, 100),
                    samples |-> v]
           new == [calls[c] EXCEPT !.snapshot = <<read>>]
<1>1. /\ c \in UnderWay /\ begun' = begun /\ metrics' = metrics /\ calls' = [calls EXCEPT ![c] = new]
  BY DEF read_snapshot, UnderWay
<1>2. /\ metrics.active \in Nat /\ metrics.requests \in Nat /\ v \in Seq(Durations)
      /\ metrics.requests + metrics.active = begun
  BY DEF MetricsInv, Counters
<1>3. metrics.active > 0
  <2>1. UnderWay # {} /\ IsFiniteSet(UnderWay) /\ metrics.active = Cardinality(UnderWay)
    BY <1>1 DEF MetricsInv
  <2>2. Cardinality(UnderWay) # 0
    BY <2>1, FS_EmptySet
  <2> QED
    BY <1>2, <2>1, <2>2
<1>4. v # <<>> => /\ Exceeded(v, percentile(v, 50, 100), 50)
                  /\ Exceeded(v, percentile(v, 95, 100), 95)
  <2> SUFFICES ASSUME v # <<>>
               PROVE  /\ Exceeded(v, percentile(v, 50, 100), 50)
                      /\ Exceeded(v, percentile(v, 95, 100), 95)
    OBVIOUS
  <2>1. \A d \in Durations : d \in Nat
    BY MetricsAssumption
  <2> DEFINE n == Len(v)
  <2>2. n \in Nat /\ n # 0 /\ v \in [1..n -> Durations]
    <3> HIDE DEF v
    <3> QED
      BY <1>2
  <2>3. Long(v, n)
    BY <2>2 DEF Long
  <2> HIDE DEF v, n
  <2> QED
    BY <2>1, <2>2, <2>3, PercentileIs
<1>5. SnapshotTells(read, begun)
  <2>1. /\ read.active = metrics.active /\ read.requests = metrics.requests /\ read.samples = v
        /\ read.p50 = percentile(v, 50, 100) /\ read.p95 = percentile(v, 95, 100)
    OBVIOUS
  <2> HIDE DEF read, v
  <2> QED
    BY <1>2, <1>3, <1>4, <2>1 DEF SnapshotTells
<1> HIDE DEF read, v
<1>6. /\ IsCall(new) /\ new # NoCall /\ new.refused = calls[c].refused
      /\ new.snapshot[1] = read
  <2>1. IsCall(calls[c])
    BY <1>1 DEF MetricsInv
  <2>3. calls[c] = [route |-> calls[c].route, label |-> calls[c].label,
                    refused |-> calls[c].refused, snapshot |-> calls[c].snapshot]
        /\ calls[c].label \in Labels /\ calls[c].refused \in BOOLEAN
    BY <2>1 DEF IsCall
  <2>4. /\ new.refused = calls[c].refused /\ new.snapshot = <<read>>
        /\ new.label = calls[c].label /\ new.route = calls[c].route
        /\ new = [route |-> new.route, label |-> new.label, refused |-> new.refused,
                  snapshot |-> new.snapshot]
    BY <2>3
  <2>2. IsCall(new) /\ new.refused = calls[c].refused /\ new.snapshot = <<read>>
    <3> HIDE DEF new
    <3> QED
      BY <2>3, <2>4 DEF IsCall
  <2> HIDE DEF new
  <2> QED
    BY <2>2, CallsAreCalls
<1> HIDE DEF new
<1>7. /\ calls' = [x \in Callers |-> calls'[x]]
      /\ \A x \in Callers : calls'[x] = IF x = c THEN new ELSE calls[x]
  <2>1. calls = [x \in Callers |-> calls[x]]
    BY DEF MetricsInv
  <2> QED
    BY <1>1, <2>1
<1>8. UnderWay' = UnderWay /\ RefusedCalls' = RefusedCalls
  BY <1>1, <1>6, <1>7 DEF UnderWay, RefusedCalls
<1>9. /\ \A x \in UnderWay' : IsCall(calls'[x])
      /\ \A x \in UnderWay' :
            calls'[x].snapshot # <<>> => SnapshotTells(calls'[x].snapshot[1], begun')
  <2>1. /\ \A x \in UnderWay : IsCall(calls[x])
        /\ \A x \in UnderWay : calls[x].snapshot # <<>> => SnapshotTells(calls[x].snapshot[1], begun)
    BY DEF MetricsInv
  <2>2. \A x \in UnderWay' : x \in UnderWay /\ x \in Callers
    BY <1>8 DEF UnderWay
  <2> QED
    BY <1>1, <1>5, <1>6, <1>7, <2>1, <2>2
<1> QED
  BY <1>1, <1>7, <1>8, <1>9 DEF MetricsInv

LEMMA MetricsStep ==
  ASSUME MetricsInv, [MetricsNext]_MetricsVars
  PROVE  MetricsInv'
<1>1. CASE UNCHANGED MetricsVars
  BY <1>1 DEF MetricsVars, MetricsInv, UnderWay, RefusedCalls
<1>2. ASSUME NEW c \in Callers, begin(c)
      PROVE  MetricsInv'
  BY <1>2, BeginStep
<1>3. ASSUME NEW c \in Callers, Finish(c)
      PROVE  MetricsInv'
  BY <1>3, FinishStep
<1>4. ASSUME NEW c \in Callers, admission_rejected(c)
      PROVE  MetricsInv'
  BY <1>4, RejectedStep
<1>5. ASSUME NEW c \in Callers, read_snapshot(c)
      PROVE  MetricsInv'
  BY <1>5, SnapshotStep
<1> QED
  BY <1>1, <1>2, <1>3, <1>4, <1>5 DEF MetricsNext

LEMMA NoJobInLabels == \A l \in Labels : \A k \in DOMAIN l : l[k] \notin JobIds
<1> SUFFICES ASSUME NEW r \in Routes, NEW k \in DOMAIN r
             PROVE  normalize_metric_path(r)[k] \notin JobIds
  BY DEF Labels, normalize_metric_path
<1>1. normalize_metric_path(r)[k] = IF r[k] \in JobIds THEN "{id}" ELSE r[k]
  BY DEF normalize_metric_path
<1> QED
  BY <1>1, MetricsAssumption

LEMMA CountedRight == MetricsInv => MetricsAddUp
<1> SUFFICES ASSUME MetricsInv
             PROVE  MetricsAddUp
  OBVIOUS
<1>1. /\ metrics.active = Cardinality(UnderWay) /\ metrics.active <= metrics.max_active
      /\ metrics.requests + metrics.active = begun
      /\ SumOf(metrics.routes) = metrics.requests /\ SumOf(metrics.statuses) = metrics.requests
      /\ metrics.errors = metrics.statuses["5xx"]
      /\ metrics.rejections <= metrics.errors + Cardinality(RefusedCalls)
      /\ \A c \in UnderWay : calls[c].snapshot # <<>> => SnapshotTells(calls[c].snapshot[1], begun)
  BY DEF MetricsInv
<1> QED
  BY <1>1, NoJobInLabels DEF MetricsAddUp, SumOf, SnapshotTells, Exceeded, RefusedCalls

-----------------------------------------------------------------------------
(* What the page of RightsGate shows has been stored.                        *)
IntakeTyped ==
  /\ IntakeInv /\ IntakeTypeOK
  /\ assessing # NotAssessing => assessing.of \in 0 .. Len(assessed)

LEMMA IntakeOpensTyped == IntakeInit => IntakeTyped
<1> SUFFICES ASSUME IntakeInit
             PROVE  IntakeTyped
  OBVIOUS
<1>1. Len(<<>>) = 0
  BY EmptySequence, PlacesOf
<1>2. result \in 0 .. Len(assessed) /\ cmsReceipt \in 0 .. Len(assessed)
  BY <1>1 DEF IntakeInit
<1>3. busy = (assessing # NotAssessing)
  BY DEF IntakeInit
<1>4. form \in [asset : Assets \cup {NoFileYet}, reference : ReferenceImages \cup {NoFileYet}]
  BY DEF IntakeInit, EmptyForm
<1> QED
  BY <1>2, <1>3, <1>4, IntakeStarts DEF IntakeInit, IntakeTyped, IntakeTypeOK

LEMMA IntakeStaysTyped == IntakeTyped /\ [IntakeNext]_IntakeVars => IntakeTyped'
<1> SUFFICES ASSUME IntakeTyped, [IntakeNext]_IntakeVars
             PROVE  IntakeTyped'
  OBVIOUS
<1>1. IntakeInv'
  BY IntakeStep DEF IntakeTyped
<1> DEFINE n == Len(assessed)
           k == Len(assessed')
<1>2. n \in Nat /\ k \in Nat
  BY <1>1, PlacesOf DEF IntakeTyped, IntakeInv
<1>3. n <= k
  <2>1. CASE executeRightsGate
    <3>1. PICK new : assessed' = Append(assessed, new)
      BY <2>1 DEF executeRightsGate
    <3>2. k = n + 1
      BY <3>1, AppendSequence DEF IntakeTyped, IntakeInv
    <3> QED
      BY <1>2, <3>2
  <2>2. CASE UNCHANGED assessed
    BY <1>2, <2>2
  <2> QED
    BY <2>1, <2>2 DEF IntakeNext, IntakeVars, choose, assess, deriveReference, createCmsDecision,
                      failAssessing, reset, openPrivacy
<1>4. \A x \in 0 .. n : x \in 0 .. k
  BY <1>2, <1>3
<1>5. 0 \in 0 .. k /\ k \in 0 .. k
  BY <1>2
<1>6. result' \in {result, 0, k}
  BY DEF IntakeNext, IntakeVars, choose, assess, deriveReference, executeRightsGate,
         createCmsDecision, failAssessing, reset, openPrivacy
<1>7. cmsReceipt' \in {cmsReceipt, 0} \/ createCmsDecision
  BY DEF IntakeNext, IntakeVars, choose, assess, deriveReference, executeRightsGate,
         failAssessing, reset, openPrivacy
<1>8. createCmsDecision => cmsReceipt' \in 0 .. k
  <2> SUFFICES ASSUME createCmsDecision
               PROVE  cmsReceipt' \in 0 .. k
    OBVIOUS
  <2>1. assessing # NotAssessing /\ cmsReceipt' = assessing.of
    BY DEF createCmsDecision, NotAssessing
  <2> QED
    BY <1>4, <2>1 DEF IntakeTyped
<1>9. assessing' # NotAssessing => assessing'.of \in 0 .. k
  <2>1. CASE assess
    BY <1>5, <2>1 DEF assess
  <2>2. CASE deriveReference
    <3> DEFINE next == [assessing EXCEPT !.awaits = "execution", !.references = {assessing.reference}]
    <3>1. assessing # NotAssessing /\ assessing' = next
      BY <2>2 DEF deriveReference, NotAssessing
    <3>2. next.of = assessing.of
      BY <3>1 DEF IntakeTyped, IntakeInv
    <3> QED
      BY <1>4, <3>1, <3>2 DEF IntakeTyped
  <2>3. CASE executeRightsGate
    <3> DEFINE next == [assessing EXCEPT !.awaits = "receipt", !.of = k]
    <3>1. assessing # NotAssessing /\ assessing' = next
      BY <2>3 DEF executeRightsGate, NotAssessing
    <3>2. next.of = k
      BY <3>1 DEF IntakeTyped, IntakeInv
    <3> QED
      BY <1>5, <3>1, <3>2
  <2>4. CASE assessing' = assessing \/ assessing' = NotAssessing
    BY <1>4, <2>4 DEF IntakeTyped
  <2> QED
    BY <2>1, <2>2, <2>3, <2>4 DEF IntakeNext, IntakeVars, choose, createCmsDecision,
                                  failAssessing, reset, openPrivacy
<1>10. form' \in [asset : Assets \cup {NoFileYet}, reference : ReferenceImages \cup {NoFileYet}]
  BY DEF IntakeTyped, IntakeTypeOK, EmptyForm, IntakeNext, IntakeVars, choose, assess,
         deriveReference, executeRightsGate, createCmsDecision, failAssessing, reset, openPrivacy
<1> HIDE DEF k
<1>11. result' \in 0 .. k /\ cmsReceipt' \in 0 .. k
  BY <1>4, <1>5, <1>6, <1>7, <1>8 DEF IntakeTyped, IntakeTypeOK
<1> QED
  BY <1>1, <1>9, <1>10, <1>11 DEF IntakeTyped, IntakeTypeOK, IntakeInv, k

-----------------------------------------------------------------------------
(* Judgements are statuses of HTTP.                                          *)
LEMMA JudgementsAreStatuses ==
  ASSUME NEW s, NEW r, s.offline \in BOOLEAN
  PROVE  authorize_request(s, r) \in {200, 401, 403, 426, 500}
<1>1. bearer_status(strip(s.token), r.bearer) \in {200, 401, 500}
  BY DEF bearer_status
<1> QED
  BY <1>1 DEF authorize_request, judge

(* The boundary stays typed.                                                 *)
LEMMA BoundaryOpensTyped == BoundaryInit => BoundaryTypeOK
BY DEF BoundaryInit, BoundaryTypeOK

LEMMA BoundaryStaysTyped == BoundaryTypeOK /\ [BoundaryNext]_BoundaryVars => BoundaryTypeOK'
<1> SUFFICES ASSUME BoundaryTypeOK, [BoundaryNext]_BoundaryVars
             PROVE  BoundaryTypeOK'
  OBVIOUS
<1> USE DEF BoundaryTypeOK
<1>1. CASE Configure \/ Startup \/ Exit \/ UNCHANGED BoundaryVars
  <2>1. CASE Configure
    BY <2>1 DEF Configure
  <2>2. CASE Startup
    BY <2>2 DEF Startup
  <2>3. CASE Exit
    BY <2>3 DEF Exit
  <2>4. CASE UNCHANGED BoundaryVars
    BY <2>4 DEF BoundaryVars
  <2> QED
    BY <1>1, <2>1, <2>2, <2>3, <2>4
<1>2. CASE Judged
  <2> PICK r \in Requesters : answer' = [status |-> authorize_request(settings, r), by |-> r]
    BY <1>2 DEF Judged
  <2>1. settings.offline \in BOOLEAN
    BY BoundaryAssumption
  <2> DEFINE status == authorize_request(settings, r)
  <2>2. status \in {200, 401, 403, 426, 500}
    BY <2>1, JudgementsAreStatuses
  <2> HIDE DEF status
  <2>3. answer' = [status |-> status, by |-> r]
    BY DEF status
  <2> QED
    BY <1>2, <2>2, <2>3 DEF Judged
<1>3. CASE Dial
  <2> PICK call \in DOMAIN Raised, host \in {"loopback", "elsewhere", "a name", "a path"} :
          dial' = [to |-> host, call |-> call, left |-> guarded => ~Blocks(call, host)]
    BY <1>3 DEF Dial
  <2> DEFINE left == guarded => ~Blocks(call, host)
  <2>1. left \in BOOLEAN
    OBVIOUS
  <2>2. dial' = [to |-> host, call |-> call, left |-> left]
    OBVIOUS
  <2> HIDE DEF left
  <2>3. [to |-> host, call |-> call, left |-> left].left \in BOOLEAN
    BY <2>1, Zenon
  <2>4. dial'.left \in BOOLEAN
    BY <2>2, <2>3, Zenon
  <2> QED
    BY <1>3, <2>4 DEF Dial
<1> QED
  BY <1>1, <1>2, <1>3 DEF BoundaryNext

-----------------------------------------------------------------------------
(* The window never grows beyond its size.                                   *)
WindowHolds == MetricsInv /\ Len(metrics.durations) <= Window

LEMMA WindowOpens == MetricsInit => WindowHolds
<1> SUFFICES ASSUME MetricsInit
             PROVE  WindowHolds
  OBVIOUS
<1>1. metrics.durations = <<>>
  BY DEF MetricsInit
<1>2. Len(<<>>) = 0
  BY EmptySequence, PlacesOf
<1>3. Window \in Nat
  BY MetricsAssumption
<1>4. Len(metrics.durations) <= Window
  BY <1>1, <1>2, <1>3
<1> QED
  BY <1>4, MetricsStart DEF WindowHolds

LEMMA WindowStays == WindowHolds /\ [MetricsNext]_MetricsVars => WindowHolds'
<1> SUFFICES ASSUME WindowHolds, [MetricsNext]_MetricsVars
             PROVE  WindowHolds'
  OBVIOUS
<1>1. MetricsInv'
  BY MetricsStep DEF WindowHolds
<1>2. /\ metrics \in Counters /\ metrics.durations \in Seq(Durations)
      /\ Len(metrics.durations) <= Window /\ Window \in Nat \ {0}
  BY MetricsAssumption DEF WindowHolds, MetricsInv, Counters
<1>3. CASE metrics'.durations = metrics.durations
  BY <1>1, <1>2, <1>3 DEF WindowHolds
<1>4. CASE \E c \in Callers : Finish(c)
  <2> PICK c \in Callers, class \in Classes, d \in Durations : end(c, class, d)
    BY <1>4 DEF Finish, Classes
  <2> DEFINE kept == Append(metrics.durations, d)
             now == IF Len(kept) > Window THEN Tail(kept) ELSE kept
  <2>1. metrics'.durations = now
    BY <1>2 DEF end, Counters
  <2>2. kept \in Seq(Durations) /\ Len(kept) = Len(metrics.durations) + 1 /\ kept # <<>>
    BY <1>2
  <2> HIDE DEF kept
  <2>3. Len(Tail(kept)) = Len(kept) - 1
    BY <2>2
  <2>4. Len(now) <= Window
    BY <1>2, <2>2, <2>3
  <2> QED
    BY <1>1, <2>1, <2>4 DEF WindowHolds
<1> QED
  <2>1. ASSUME NEW c \in Callers, begin(c) \/ admission_rejected(c) \/ read_snapshot(c)
        PROVE  metrics'.durations = metrics.durations
    BY <1>2, <2>1 DEF begin, admission_rejected, read_snapshot, Counters
  <2> QED
    BY <1>3, <1>4, <2>1 DEF MetricsNext, MetricsVars

LEMMA MetricsAreTyped == WindowHolds => MetricsTypeOK
<1> SUFFICES ASSUME WindowHolds
             PROVE  MetricsTypeOK
  OBVIOUS
<1> DEFINE n == Len(metrics.durations)
<1>1. metrics.durations \in Seq(Durations) /\ n <= Window /\ Window \in Nat
  BY MetricsAssumption DEF WindowHolds, MetricsInv, Counters
<1>2. metrics.durations \in [1 .. n -> Durations] /\ n \in 0 .. Window
  BY <1>1
<1> HIDE DEF n
<1>3. metrics.durations \in UNION {[1 .. k -> Durations] : k \in 0 .. Window}
  BY <1>2
<1>4. \A c \in Callers : calls[c] = NoCall \/ calls[c].label \in Labels
  BY DEF WindowHolds, MetricsInv, UnderWay, IsCall
<1> QED
  BY <1>3, <1>4 DEF MetricsTypeOK

-----------------------------------------------------------------------------
(* Where the files of trees and archives come from, and who signs.           *)
FromSources(files) == \A f \in files : f.path = ManifestPath \/ f \in Sources
TreeTyped ==
  /\ PackagingInv
  /\ FromSources(worktree) /\ FromSources(archive.members)
  /\ archive.document.signer \in {Nobody, Pinned, Other}
  /\ changes \in 0 .. MaxChanges

LEMMA TreeOpensTyped == PackagingInit => TreeTyped
<1> SUFFICES ASSUME PackagingInit
             PROVE  TreeTyped
  OBVIOUS
<1>1. PackagingInv
  BY PackagingStarts
<1>2. FromSources(worktree)
  BY PackagingAssumption DEF PackagingInit, FromSources
<1>3. archive = NoArchive /\ NoArchive.members = {} /\ NoArchive.document.signer = Nobody
  BY DEF PackagingInit, NoArchive, Unsigned
<1>4. changes \in 0 .. MaxChanges
  BY PackagingAssumption DEF PackagingInit
<1> QED
  BY <1>1, <1>2, <1>3, <1>4 DEF TreeTyped, FromSources

LEMMA TreeStaysTyped == TreeTyped /\ [PackagingNext]_PackagingVars => TreeTyped'
<1> SUFFICES ASSUME TreeTyped, [PackagingNext]_PackagingVars
             PROVE  TreeTyped'
  OBVIOUS
<1>1. PackagingInv'
  BY PackagingStep DEF TreeTyped
<1>2. archive = [members |-> archive.members, document |-> archive.document]
  BY DEF TreeTyped, PackagingInv
<1>3. changes' \in 0 .. MaxChanges
  BY PackagingAssumption
     DEF TreeTyped, PackagingNext, PackagingVars, EditTree, OtherDirectory, AlterMembers, AlterManifest,
         Unpack, build_rightsgate_release, build_competition_release, Build, Change
<1>4. CASE EditTree
  <2>1. PICK f \in Sources :
          worktree' \in {worktree \ {f}, {g \in worktree : g.path # f.path} \cup {f}}
    BY <1>4 DEF EditTree
  <2>2. FromSources(worktree')
    BY <2>1 DEF TreeTyped, FromSources
  <2> QED
    BY <1>1, <1>3, <1>4, <2>2 DEF EditTree, TreeTyped, FromSources
<1>5. CASE OtherDirectory \/ UNCHANGED PackagingVars
  BY <1>1, <1>3, <1>5 DEF OtherDirectory, PackagingVars, TreeTyped, FromSources
<1>6. CASE AlterMembers
  <2>1. PICK f \in Sources :
          archive' = [archive EXCEPT !.members =
            CASE f \in @ -> @ \ {f} [] OTHER -> {g \in @ : g.path # f.path} \cup {f}]
    BY <1>6 DEF AlterMembers
  <2> DEFINE members == CASE f \in archive.members -> archive.members \ {f}
                          [] OTHER -> {g \in archive.members : g.path # f.path} \cup {f}
  <2>2. FromSources(members)
    BY DEF TreeTyped, FromSources
  <2>3. archive' = [archive EXCEPT !.members = members]
    BY <2>1
  <2> HIDE DEF members
  <2>4. archive'.members = members /\ archive'.document = archive.document
    BY <1>2, <2>3
  <2> QED
    BY <1>1, <1>3, <1>6, <2>2, <2>4 DEF AlterMembers, TreeTyped, FromSources
<1>7. CASE AlterManifest
  <2> DEFINE manifest == ManifestOf(archive.members)
             old == archive.document
  <2>1. PICK signed \in {Unsigned(manifest), SignedBy(Other, manifest),
                           [old EXCEPT !.manifest = manifest],
                           [old EXCEPT !.manifest.entry_count = @ + 1],
                           [old EXCEPT !.signer = Pinned]} :
               archive' = [archive EXCEPT !.document = signed]
    BY <1>7 DEF AlterManifest
  <2>2. archive'.members = archive.members /\ archive'.document = signed
    BY <1>2, <2>1
  <2>3. /\ old = [manifest |-> old.manifest, signer |-> old.signer, signature |-> old.signature]
        /\ old.signer \in {Nobody, Pinned, Other}
    BY DEF TreeTyped, PackagingInv, DocumentHolds
  <2> HIDE DEF manifest, old
  <2>4. signed.signer \in {Nobody, Pinned, Other}
    BY <2>3 DEF Unsigned, SignedBy
  <2> QED
    BY <1>1, <1>3, <1>7, <2>2, <2>4 DEF AlterManifest, TreeTyped, FromSources
<1>8. CASE Unpack
  <2> DEFINE f == [path |-> ManifestPath, content |-> <<"manifest", archive.document>>, link |-> FALSE]
  <2>1. f.path = ManifestPath /\ worktree' = archive.members \cup {f}
    BY <1>8 DEF Unpack
  <2> HIDE DEF f
  <2>2. FromSources(worktree')
    BY <2>1 DEF TreeTyped, FromSources
  <2> QED
    BY <1>1, <1>3, <1>8, <2>2 DEF Unpack, TreeTyped
<1>9. ASSUME NEW key \in {device, Nobody}, NEW expected, Build(key, expected)
      PROVE  TreeTyped'
  <2> DEFINE package == build_release_package(worktree, key)
  <2>1. archive' = package /\ worktree' = worktree
    BY <1>9 DEF Build
  <2>2. package.members = iter_release_files(worktree) /\ package.document.signer = key
    BY DEF build_release_package, Unsigned, SignedBy
  <2> HIDE DEF package
  <2>3. FromSources(package.members)
    BY <2>2 DEF TreeTyped, FromSources, iter_release_files
  <2>4. key \in {Nobody, Pinned, Other}
    BY DEF TreeTyped, PackagingInv
  <2> QED
    BY <1>1, <1>3, <2>1, <2>2, <2>3, <2>4 DEF TreeTyped, FromSources
<1> QED
  BY <1>4, <1>5, <1>6, <1>7, <1>8, <1>9
     DEF PackagingNext, build_rightsgate_release, build_competition_release

LEMMA TreesAreTyped == TreeTyped => PackagingTypeOK
BY DEF TreeTyped, PackagingTypeOK, PackagingInv, FromSources

-----------------------------------------------------------------------------
(* The pipelines *)

PagesHold == CInv /\ IntakeInv

(* Both pages open right, whichever pipeline moves.                          *)
LEMMA PagesStart == PipelinesInit => PagesHold
BY ConsoleStarts, IntakeStarts DEF PipelinesInit, PagesHold

(* A step of one pipeline leaves the pages of the others as they are.        *)
LEMMA PagesStep == PagesHold /\ [PipelinesNext]_PipelinesVars => PagesHold'
<1> SUFFICES ASSUME PagesHold, [PipelinesNext]_PipelinesVars
             PROVE  PagesHold'
  OBVIOUS
<1>1. [ConsoleNext]_ConsoleVars
  BY DEF PipelinesNext, PipelinesVars, PageVars
<1>2. [IntakeNext]_IntakeVars
  BY DEF PipelinesNext, PipelinesVars, PageVars
<1> QED
  BY <1>1, <1>2, ConsoleStep, IntakeStep DEF PagesHold

(* Neither page ever shows a release, a level or a receipt that the service  *)
(* does not stand behind: a release on offer is one output of the job,       *)
(* verified, certified and made with the decisions that are stored, and a    *)
(* receipt beside a result is for it (App.tsx, RightsGateApp.tsx), whatever  *)
(* is pressed, fails, expires or is left in between.                         *)
THEOREM PagesTellTheTruth == PipelinesSpec => []ConsolesAreTruthful
<1>1. PagesHold => ConsolesAreTruthful
  BY ConsoleTells, ReceiptFits DEF PagesHold, ConsolesAreTruthful
<1> QED
  BY <1>1, PagesStart, PagesStep, PTL DEF PipelinesSpec

(* What has been exported and what has been archived is right.               *)
BuiltHolds == PackagesInv /\ PackagingInv

LEMMA BuiltStarts == PipelinesInit => BuiltHolds
BY ExportsStart, PackagingStarts DEF PipelinesInit, BuiltHolds

(* A step of another pipeline leaves exports, trees and archives alone.      *)
LEMMA BuiltStep == BuiltHolds /\ [PipelinesNext]_PipelinesVars => BuiltHolds'
<1> SUFFICES ASSUME BuiltHolds, [PipelinesNext]_PipelinesVars
             PROVE  BuiltHolds'
  OBVIOUS
<1>1. [ExportNext]_ExportVars
  BY DEF PipelinesNext, PipelinesVars
<1>2. [PackagingNext]_PackagingVars
  BY DEF PipelinesNext, PipelinesVars, OuterVars
<1> QED
  BY <1>1, <1>2, ExportsKept, PackagingStep DEF BuiltHolds

(* The verifiers that anyone can run (verify_proof_package_bytes,            *)
(* verify_release_package_bytes) accept every proof package handed out and   *)
(* nothing mixed from two, and what left the service has its event in the    *)
(* chain they follow; the pinned fingerprint vouches only for members   *)
(* that a script has written, and no archive that is accepted holds what the *)
(* tree must keep, however often it was edited, damaged or put together anew. *)
THEOREM VerifiersTellWhatWasBuilt == PipelinesSpec => []VerifiersAcceptWhatWasBuilt
<1>1. BuiltHolds => VerifiersAcceptWhatWasBuilt
  BY PackagesPass, WhatLeftIsOnTheLedger, ReleasesAreBuilt
     DEF BuiltHolds, PackagesInv, VerifiersAcceptWhatWasBuilt
<1> QED
  BY <1>1, BuiltStarts, BuiltStep, PTL DEF PipelinesSpec

(* What is refused and what is handed out for documents is right.            *)
DocumentsHold == AInv /\ ControlsInv

LEMMA DocumentsStart == PipelinesInit => DocumentsHold
BY AInvInitially, ControlsStart DEF PipelinesInit, DocumentsHold

(* A step of another pipeline leaves the execution and the row of the key    *)
(* alone.                                                                    *)
LEMMA DocumentsStep == DocumentsHold /\ [PipelinesNext]_PipelinesVars => DocumentsHold'
<1> SUFFICES ASSUME DocumentsHold, [PipelinesNext]_PipelinesVars
             PROVE  DocumentsHold'
  OBVIOUS
<1>1. [Next]_vars
  BY DEF PipelinesNext, PipelinesVars
<1>2. [ControlNext]_ControlVars
  BY DEF PipelinesNext, PipelinesVars, OuterVars
<1> QED
  BY <1>1, <1>2, AInvStep, ControlsStep DEF DocumentsHold

(* The documents of an assessment are taken at their word: the contract      *)
(* refuses nothing but what they bring on themselves; the row of a key       *)
(* answers exactly those that say what the row was made for, in whatever     *)
(* order and hand; what was enrolled is recognised, and what was derived     *)
(* from an upload is accepted in a registry (execution.py, api.py).          *)
THEOREM DocumentsAreTakenAtTheirWord == PipelinesSpec => []DocumentsMeanWhatTheySay
<1>1. DocumentsHold => DocumentsMeanWhatTheySay
  BY ControlsBind DEF DocumentsHold, DocumentsMeanWhatTheySay, AInv, RefusalsAreForeseen
<1> QED
  BY <1>1, DocumentsStart, DocumentsStep, PTL DEF PipelinesSpec

LEMMA BoundaryPipelineStep == BoundaryInv /\ [PipelinesNext]_PipelinesVars => BoundaryInv'
<1> SUFFICES ASSUME BoundaryInv, [PipelinesNext]_PipelinesVars
             PROVE  BoundaryInv'
  OBVIOUS
<1>1. [BoundaryNext]_BoundaryVars
  BY DEF PipelinesNext, PipelinesVars, OuterVars
<1> QED
  BY <1>1, BoundaryStep

LEMMA MetricsPipelineStep == MetricsInv /\ [PipelinesNext]_PipelinesVars => MetricsInv'
<1> SUFFICES ASSUME MetricsInv, [PipelinesNext]_PipelinesVars
             PROVE  MetricsInv'
  OBVIOUS
<1>1. [MetricsNext]_MetricsVars
  BY DEF PipelinesNext, PipelinesVars, OuterVars
<1> QED
  BY <1>1, MetricsStep

(* Whatever settings a start accepts, a handler sees exactly those with the  *)
(* standing they ask for, but for a token beyond ASCII, which fails; offline *)
(* no stream is opened to another machine and getaddrinfo resolves no name   *)
(* but this machine's.  Datagrams and the older lookups leave, and nothing   *)
(* is claimed of them (deployment.py, network_guard.py, main.py).            *)
THEOREM BoundaryIsEnforced == PipelinesSpec => []BoundaryIsKept
<1>1. PipelinesInit => BoundaryInv
  BY BoundaryStart DEF PipelinesInit
<1>2. BoundaryInv => BoundaryIsKept
  BY BoundaryKept DEF BoundaryIsKept
<1> QED
  BY <1>1, <1>2, BoundaryPipelineStep, PTL DEF PipelinesSpec

(* What comes in is counted once in each total, whatever becomes of it, and  *)
(* a snapshot's percentiles are those of its samples (metrics.py, main.py).  *)
THEOREM RequestsAddUp == PipelinesSpec => []RequestsAreCounted
<1>1. PipelinesInit => MetricsInv
  BY MetricsStart DEF PipelinesInit
<1>2. MetricsInv => RequestsAreCounted
  BY CountedRight DEF RequestsAreCounted
<1> QED
  BY <1>1, <1>2, MetricsPipelineStep, PTL DEF PipelinesSpec

(* What is moved beside it leaves a file alone: the pipelines do to a file   *)
(* what its own handlers do, so all that is proved of it holds of them       *)
(* (routes.py, pipeline.py).                                                 *)
THEOREM PipelinesProtectFiles == PipelinesSpec => FileSpec
<1>1. PipelinesInit => FileInit
  BY DEF PipelinesInit
<1>2. [PipelinesNext]_PipelinesVars => [FileNext]_FileVars
  BY DEF PipelinesNext, PipelinesVars
<1> QED
  BY <1>1, <1>2, PTL DEF PipelinesSpec, FileSpec

(* All variables of the pipelines have the types their handlers expect.      *)
AllTyped ==
  /\ AInv /\ FileInv
  /\ EInv /\ ExportTypeOK
  /\ TypesHold /\ IntakeTyped
  /\ BoundaryTypeOK /\ WindowHolds /\ TreeTyped
  /\ ControlsInv /\ ControlTypeOK

LEMMA AllOpenTyped == PipelinesInit => AllTyped
<1> SUFFICES ASSUME PipelinesInit
             PROVE  AllTyped
  OBVIOUS
<1>1. /\ Init /\ FileInit /\ ExportInit /\ ConsoleInit /\ IntakeInit
      /\ BoundaryInit /\ MetricsInit /\ PackagingInit /\ ControlInit
  BY DEF PipelinesInit
<1>2. AInv /\ FileInv /\ EInv /\ ExportTypeOK
  BY <1>1, AInvInitially, FileStart, ExportStarts, ExportOpensTyped
<1>3. TypesHold /\ IntakeTyped /\ BoundaryTypeOK
  BY <1>1, ConsoleOpensTyped, IntakeOpensTyped, BoundaryOpensTyped
<1>4. WindowHolds /\ TreeTyped /\ ControlsInv /\ ControlTypeOK
  BY <1>1, WindowOpens, TreeOpensTyped, ControlsStart, ControlsAreTyped
<1> QED
  BY <1>2, <1>3, <1>4 DEF AllTyped

LEMMA AllStayTyped == AllTyped /\ [PipelinesNext]_PipelinesVars => AllTyped'
<1> SUFFICES ASSUME AllTyped, [PipelinesNext]_PipelinesVars
             PROVE  AllTyped'
  OBVIOUS
<1>1. AInv' /\ FileInv'
  <2>1. [Next]_vars /\ [FileNext]_FileVars
    BY DEF PipelinesNext, PipelinesVars
  <2> QED
    BY <2>1, AInvStep, FileStep DEF AllTyped
<1>2. EInv' /\ ExportTypeOK'
  <2>1. [ExportNext]_ExportVars
    BY DEF PipelinesNext, PipelinesVars
  <2> QED
    BY <2>1, ExportStepKeeps, ExportKeepsTypes DEF AllTyped
<1>3. TypesHold' /\ IntakeTyped'
  <2>1. [ConsoleNext]_ConsoleVars /\ [IntakeNext]_IntakeVars
    BY DEF PipelinesNext, PipelinesVars, PageVars
  <2> QED
    BY <2>1, ConsoleStaysTyped, IntakeStaysTyped DEF AllTyped
<1>4. BoundaryTypeOK' /\ WindowHolds'
  <2>1. [BoundaryNext]_BoundaryVars /\ [MetricsNext]_MetricsVars
    BY DEF PipelinesNext, PipelinesVars, OuterVars
  <2> QED
    BY <2>1, BoundaryStaysTyped, WindowStays DEF AllTyped
<1>5. TreeTyped' /\ ControlsInv' /\ ControlTypeOK'
  <2>1. [PackagingNext]_PackagingVars /\ [ControlNext]_ControlVars
    BY DEF PipelinesNext, PipelinesVars, OuterVars
  <2> QED
    BY <2>1, TreeStaysTyped, ControlsStep, ControlsKeepTypes DEF AllTyped
<1> QED
  BY <1>1, <1>2, <1>3, <1>4, <1>5 DEF AllTyped

(* Every variable of every pipeline keeps its type: the record of an         *)
(* assessment, the mentions and the output of a file, the steps of requests, *)
(* what a page shows and waits for, whichever handlers run beside each other, *)
(* the answers of the boundary, the window of durations, the files of an     *)
(* archive and the row of a key (execution.py, routes.py, App.tsx,           *)
(* RightsGateApp.tsx, deployment.py, metrics.py, release_package.py).        *)
THEOREM PipelinesKeepTypes == PipelinesSpec => []PipelinesTypeOK
<1>1. AllTyped => PipelinesTypeOK
  <2> SUFFICES ASSUME AllTyped
               PROVE  PipelinesTypeOK
    OBVIOUS
  <2>1. TypeOK /\ FileTypeOK /\ ExportTypeOK
    BY FileIsTyped DEF AllTyped, AInv
  <2>2. ConsoleTypeOK /\ IntakeTypeOK
    BY ConsoleIsTyped DEF AllTyped, IntakeTyped
  <2>3. BoundaryTypeOK /\ MetricsTypeOK /\ PackagingTypeOK /\ ControlTypeOK
    BY MetricsAreTyped, TreesAreTyped DEF AllTyped
  <2> QED
    BY <2>1, <2>2, <2>3 DEF PipelinesTypeOK
<1> QED
  BY <1>1, AllOpenTyped, AllStayTyped, PTL DEF PipelinesSpec
=============================================================================
