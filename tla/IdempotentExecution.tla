------------------------- MODULE IdempotentExecution -------------------------
(***************************************************************************)
(* What the assessment store promises its callers, with no attempts, no    *)
(* leases and no clock: an idempotency key is bound to one execution       *)
(* input, its outcome is decided once, and every caller who is given an    *)
(* assessment for the key is given the decided one, for the input it asked *)
(* about.  AssessmentStore implements this specification.                  *)
(***************************************************************************)
CONSTANTS
  Key,             \* idempotency keys
  Input,           \* execution inputs (one per execution_sha256)
  Assessments,     \* what an execution may return
  None             \* no input bound, no assessment stored

VARIABLES
  binding,         \* binding[k]: the input key k is bound to, or None
  outcome,         \* outcome[k]: "OPEN", "COMPLETE" or "FAILED"
  assessment,      \* assessment[k]: the decided assessment, or None
  delivered        \* delivered[k]: the <<input, assessment>> pairs handed out

promise == <<binding, outcome, assessment, delivered>>

Init ==
  /\ binding = [k \in Key |-> None]
  /\ outcome = [k \in Key |-> "OPEN"]
  /\ assessment = [k \in Key |-> None]
  /\ delivered = [k \in Key |-> {}]

\* The first request for a key binds it.
Bind(k, i) ==
  /\ binding[k] = None
  /\ binding' = [binding EXCEPT ![k] = i]
  /\ UNCHANGED <<outcome, assessment, delivered>>

\* A bound key is decided at most once: with an assessment of its input ...
Succeed(k, v) ==
  /\ outcome[k] = "OPEN"
  /\ v.input = binding[k]
  /\ outcome' = [outcome EXCEPT ![k] = "COMPLETE"]
  /\ assessment' = [assessment EXCEPT ![k] = v]
  /\ UNCHANGED <<binding, delivered>>

\* ... or with a failure.
GiveUp(k) ==
  /\ binding[k] # None
  /\ outcome[k] = "OPEN"
  /\ outcome' = [outcome EXCEPT ![k] = "FAILED"]
  /\ UNCHANGED <<binding, assessment, delivered>>

\* Any number of callers may be given the decided assessment.
Deliver(k) ==
  /\ outcome[k] = "COMPLETE"
  /\ delivered' = [delivered EXCEPT ![k] = @ \cup {<<binding[k], assessment[k]>>}]
  /\ UNCHANGED <<binding, outcome, assessment>>

Next ==
  \E k \in Key :
    \/ \E i \in Input : Bind(k, i)
    \/ \E v \in Assessments : Succeed(k, v)
    \/ GiveUp(k)
    \/ Deliver(k)

Spec == Init /\ [][Next]_promise
==============================================================================
