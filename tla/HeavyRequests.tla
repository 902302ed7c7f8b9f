----------------------------- MODULE HeavyRequests -----------------------------
(* The request boundary (main.py) over the review and release handlers:     *)
(* analyse, transform and verify are heavy and run inside a slot of the     *)
(* admission controller; reviews and downloads are not.  A restart loses    *)
(* the requests, the semaphore and, with the keys in RAM, the job's rows;   *)
(* what was handed out and the signing key's file remain.                   *)
EXTENDS Admission, ReviewRelease

CONSTANT MaxRestarts

VARIABLE restarts

vars == <<admission, review, keyFile, restarts>>

ASSUME HeavyAssumption == Handler = Request /\ MaxRestarts \in Nat

Init == AdmissionInit /\ ReviewInit /\ restarts = 0

Ops == {"analyse", "transform", "verify"}

(* Its handler starts when it is in the slot; until then it only waits.     *)
Arrive(r) ==
  \E op \in Ops, o \in DOMAIN outputs \cup {0} :
    /\ handler[r].pc = "idle"
    /\ op = "verify" <=> o # 0
    /\ EnterSlot(r) \/ JoinQueue(r)
    /\ handler' = [handler EXCEPT ![r].pc = op, ![r].output = o]
    /\ UNCHANGED <<rows, documents, dismissed, keyFile, restarts>>

(* A request that did not get its permit is answered 503.                   *)
Wake(r) ==
  /\ Resume(r)
  /\ IF slot[r] = "granted" THEN UNCHANGED handler ELSE Become(r, Ended("done"))
  /\ UNCHANGED <<rows, documents, dismissed, keyFile, restarts>>

TimeOut(r) == GiveUp(r) /\ UNCHANGED <<review, keyFile, restarts>>

Handle(r) == slot[r] = "holding" /\ Work(r) /\ UNCHANGED <<admission, restarts>>

Answer(r) ==
  /\ handler[r].pc = "leaving"
  /\ Vacate(r)
  /\ Become(r, Ended("done"))
  /\ UNCHANGED <<rows, documents, dismissed, keyFile, restarts>>

(* Requests that need no permit.                                            *)
LightRequest ==
  /\ \/ \E m \in mentions, decision \in {"PROTECT", "IGNORE"} : Review(m, decision)
     \/ \E o \in DOMAIN outputs : Download(o)
  /\ UNCHANGED <<admission, restarts>>

(* The next requests are about the document in a job of its own.            *)
Restart ==
  /\ restarts < MaxRestarts
  /\ restarts' = restarts + 1
  /\ value' = Limit /\ queue' = <<>> /\ active' = 0
  /\ slot' = [r \in Request |-> "out"]
  /\ entities' = {} /\ mentions' = {} /\ outputs' = <<>> /\ dismissed' = {}
  /\ handler' = [r \in Request |->
                   Ended(IF handler[r].pc = "idle" THEN "idle" ELSE "done")]
  /\ UNCHANGED <<documents, keyFile>>

Next ==
  \/ \E r \in Request : Arrive(r) \/ Wake(r) \/ TimeOut(r) \/ Handle(r) \/ Answer(r)
  \/ LightRequest
  \/ Restart

Spec == Init /\ [][Next]_vars

-----------------------------------------------------------------------------
(* Properties *)

(* The types of the semaphore, the rows, the local variables of the         *)
(* handlers, the documents and the key file.                                *)
TypeOK == AdmissionTypeOK /\ ReviewTypeOK /\ restarts \in 0 .. MaxRestarts
=============================================================================
