------------------------------- MODULE Admission -------------------------------
(* The admission controller of heavy requests (ops/admission.py) and the    *)
(* semaphore of asyncio it is built on.  A request that must wait has a     *)
(* future in the semaphore's queue.  All steps run on one event loop:       *)
(* between an acquired permit and the handler nothing else can run.         *)
EXTENDS Integers, FiniteSets, Sequences

CONSTANTS Request, Limit

ASSUME AdmissionAssumption == IsFiniteSet(Request) /\ Limit \in Nat \ {0}

VARIABLES
  value,    \* free permits of the semaphore
  queue,    \* requests with a future in the semaphore, in order of arrival
  slot,     \* per request: where it is between arrival and the end of its slot
  active    \* the controller's own counter

admission == <<value, queue, slot, active>>

(* "waiting": the future is pending; "granted": it has its result, the task *)
(* has not run yet; "revoked": cancelled or timed out after that;           *)
(* "cancelled": cancelled or timed out before; "holding": inside the slot.  *)
Places == {"out", "waiting", "granted", "revoked", "cancelled", "holding"}

At(place) == {r \in Request : slot[r] = place}

AdmissionInit ==
  /\ value = Limit /\ queue = <<>> /\ active = 0
  /\ slot = [r \in Request |-> "out"]

(* Slip: only the queue is looked at.                                       *)
LockedByQueue == \E r \in Request : slot[r] \in {"waiting", "granted", "revoked"}

(* asyncio.Semaphore.locked                                                 *)
Locked == value = 0 \/ \E r \in Request : slot[r] \in {"waiting", "granted", "revoked"}

Before(r, s) ==
  \E i, j \in DOMAIN queue : i < j /\ queue[i] = r /\ queue[j] = s

(* Slip: a released permit wakes nobody.                                    *)
NobodyChosen(chosen, permits) == chosen = {}

(* The first waiters, as many as there are permits.                         *)
FirstWaiting(chosen, permits) ==
  /\ chosen \subseteq At("waiting")
  /\ \A r \in chosen, s \in At("waiting") \ chosen : Before(r, s)
  /\ \/ Cardinality(chosen) = permits
     \/ Cardinality(chosen) < permits /\ chosen = At("waiting")

Woken(r, place, chosen) ==
  [x \in Request |-> IF x = r THEN place ELSE IF x \in chosen THEN "granted" ELSE slot[x]]

EnterSlot(r) ==
  /\ slot[r] = "out" /\ ~Locked
  /\ value' = value - 1
  /\ slot' = [slot EXCEPT ![r] = "holding"]
  /\ active' = active + 1
  /\ UNCHANGED queue

JoinQueue(r) ==
  /\ slot[r] = "out" /\ Locked
  /\ queue' = Append(queue, r)
  /\ slot' = [slot EXCEPT ![r] = "waiting"]
  /\ UNCHANGED <<value, active>>

(* The timeout of the queue, or the cancellation of the request's task,     *)
(* before the task runs again.                                              *)
GiveUp(r) ==
  /\ slot[r] \in {"waiting", "granted"}
  /\ slot' = [slot EXCEPT ![r] = IF @ = "waiting" THEN "cancelled" ELSE "revoked"]
  /\ UNCHANGED <<value, queue, active>>

Dequeue(r) ==
  \E i \in DOMAIN queue :
    /\ queue[i] = r
    /\ queue' = SubSeq(queue, 1, i - 1) \o SubSeq(queue, i + 1, Len(queue))

(* The task of a queued request runs again: with its permit into the slot,  *)
(* else out, giving back a permit that came too late.  Either way it wakes  *)
(* the waiters for whom there are permits.                                  *)
Resume(r) ==
  \E chosen \in SUBSET At("waiting") :
    LET free == value + (IF slot[r] = "revoked" THEN 1 ELSE 0) IN
    /\ slot[r] \in {"granted", "revoked", "cancelled"}
    /\ FirstWaiting(chosen, free)
    /\ value' = free - Cardinality(chosen)
    /\ slot' = Woken(r, IF slot[r] = "granted" THEN "holding" ELSE "out", chosen)
    /\ active' = active + (IF slot[r] = "granted" THEN 1 ELSE 0)
    /\ Dequeue(r)

(* Slip: a handler that raises does not reach the release.                  *)
VacateWithoutRelease(r) ==
  /\ slot[r] = "holding"
  /\ slot' = [slot EXCEPT ![r] = "out"]
  /\ active' = active - 1
  /\ UNCHANGED <<value, queue>>

(* The end of the slot, however the handler ended: one waiter is woken.     *)
Vacate(r) ==
  \E chosen \in SUBSET At("waiting") :
    /\ slot[r] = "holding"
    /\ FirstWaiting(chosen, 1)
    /\ value' = value + 1 - Cardinality(chosen)
    /\ slot' = Woken(r, "out", chosen)
    /\ active' = IF active = 0 THEN 0 ELSE active - 1
    /\ UNCHANGED queue

-----------------------------------------------------------------------------
(* Properties *)

AdmissionTypeOK ==
  /\ value \in Nat /\ active \in Nat
  /\ slot \in [Request -> Places]
  /\ queue \in Seq(Request)

Owning == At("holding") \cup At("granted") \cup At("revoked")

(* Every permit is free, in use or on its way to a task; none is lost or    *)
(* duplicated by time-outs, cancellations and failing handlers.             *)
PermitsConserved ==
  /\ value \in Nat
  /\ value + Cardinality(Owning) = Limit
  /\ active = Cardinality(At("holding"))

(* A request waits beside a free permit only while a task that will wake    *)
(* it is about to run.                                                      *)
NoLostWakeup ==
  value > 0 /\ At("waiting") # {} =>
    At("granted") \cup At("revoked") # {}

(* Time-outs, cancellations and failing handlers neither lose a permit nor   *)
(* the wake-up of the one who waits for it.                                  *)
PermitsAreHandedOn == PermitsConserved /\ NoLostWakeup
=============================================================================
