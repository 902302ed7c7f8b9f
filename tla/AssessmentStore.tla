--------------------------- MODULE AssessmentStore ---------------------------
(***************************************************************************)
(* The durable idempotency of RightsGate assessments: the SQLite rows of   *)
(* rightsgate/store.py and the POST /assessments handler of                *)
(* rightsgate/api.py that reserves a key, executes and then completes or   *)
(* fails the attempt.                                                      *)
(*                                                                         *)
(* A request is a process with a program counter.  Every store call is one *)
(* SQLite transaction and therefore one action; between two of them other  *)
(* requests, other worker processes, the clock and crashes may step.       *)
(***************************************************************************)
EXTENDS Naturals

CONSTANTS
  Key,             \* idempotency keys
  Input,           \* execution inputs, one per execution_sha256
  Request,         \* in-flight request slots, over all worker processes
  None,            \* SQL NULL, and an unset local variable
  LeaseSeconds,    \* store.lease_seconds, in ticks
  MaxClock,        \* bound: the last tick
  MaxCrashes       \* bound: requests lost to crashes and cancellations

ASSUME StoreAssumption ==
  /\ None \notin Input
  /\ LeaseSeconds \in Nat \ {0}
  /\ MaxClock \in Nat
  /\ MaxCrashes \in Nat

VARIABLES
  row,             \* row[k]: the rightsgate_assessments row of key k
  clock,           \* the wall clock the workers read
  req,             \* req[r]: the local variables of request slot r
  delivered,       \* history: the <<input, assessment>> pairs returned for k
  crashes          \* how many requests have been lost so far

vars == <<row, clock, req, delivered, crashes>>

-----------------------------------------------------------------------------
\* An assessment is a function of the inputs and of created_at: two attempts
\* on the same inputs yield two different commitments.
Assessment == [input : Input, createdAt : 0..MaxClock]

Statuses == {"ABSENT", "PENDING", "COMPLETE", "FAILED"}

Row == [status : Statuses, input : Input \cup {None}, attempt : Nat,
        lease : Nat, result : Assessment \cup {None}]

AbsentRow == [status |-> "ABSENT", input |-> None, attempt |-> 0,
              lease |-> 0, result |-> None]

Terminal == {"COMPLETE", "FAILED"}

Local == [pc : {"idle", "reserving", "executing", "completing", "failing",
                "responding"},
          key : Key \cup {None}, input : Input \cup {None}, now : Nat,
          attempt : Nat, result : Assessment \cup {None}]

IdleSlot == [pc |-> "idle", key |-> None, input |-> None, now |-> 0,
             attempt |-> 0, result |-> None]

TypeOK ==
  /\ row \in [Key -> Row]
  /\ clock \in 0..MaxClock
  /\ req \in [Request -> Local]
  /\ delivered \in [Key -> SUBSET (Input \X Assessment)]
  /\ crashes \in Nat

Init ==
  /\ row = [k \in Key |-> AbsentRow]
  /\ clock = 0
  /\ req = [r \in Request |-> IdleSlot]
  /\ delivered = [k \in Key |-> {}]
  /\ crashes = 0

-----------------------------------------------------------------------------
(* reserve() *)

\* The handler has validated the governed inputs and the asset, and reserve()
\* reads the clock before it opens its transaction.
Submit(r, k, i) ==
  /\ req[r].pc = "idle"
  /\ req' = [req EXCEPT ![r] =
               [pc |-> "reserving", key |-> k, input |-> i, now |-> clock,
                attempt |-> 0, result |-> None]]
  /\ UNCHANGED <<row, clock, delivered, crashes>>

\* Attempt n of the key now belongs to r, until LeaseSeconds after the time r
\* read, which may already be in the past.
Acquire(r, n) ==
  /\ row' = [row EXCEPT ![req[r].key] =
               [status |-> "PENDING", input |-> req[r].input, attempt |-> n,
                lease |-> req[r].now + LeaseSeconds, result |-> None]]
  /\ req' = [req EXCEPT ![r].pc = "executing", ![r].attempt = n]
  /\ UNCHANGED <<clock, delivered, crashes>>

ReserveNew(r) ==
  /\ req[r].pc = "reserving"
  /\ row[req[r].key].status = "ABSENT"
  /\ Acquire(r, 1)

\* Deviations of the lease test: it lapses a tick early; a PENDING row is never
\* recovered.
ExpiredATickEarly(r) == row[req[r].key].lease <= req[r].now + 1
ExpiredNever(r) == FALSE

\* The stored lease has run out by the time the request read.
Expired(r) == row[req[r].key].lease <= req[r].now

\* Deviation: the stored commitments are not compared.
SameInputUnchecked(r) == TRUE

SameInput(r) == row[req[r].key].input = req[r].input

TakeOver(r) ==
  /\ req[r].pc = "reserving"
  /\ row[req[r].key].status = "PENDING"
  /\ SameInput(r)
  /\ Expired(r)
  /\ Acquire(r, row[req[r].key].attempt + 1)

\* COMPLETE: the stored assessment is the answer.
Replay(r) ==
  /\ req[r].pc = "reserving"
  /\ row[req[r].key].status = "COMPLETE"
  /\ SameInput(r)
  /\ req' = [req EXCEPT ![r].pc = "responding",
                        ![r].result = row[req[r].key].result]
  /\ UNCHANGED <<row, clock, delivered, crashes>>

\* 409: other inputs, a live lease, or a key that has already failed.
Refuse(r) ==
  /\ req[r].pc = "reserving"
  /\ row[req[r].key].status # "ABSENT"
  /\ \/ ~SameInput(r)
     \/ row[req[r].key].status = "PENDING" /\ ~Expired(r)
     \/ row[req[r].key].status = "FAILED"
  /\ req' = [req EXCEPT ![r] = IdleSlot]
  /\ UNCHANGED <<row, clock, delivered, crashes>>

-----------------------------------------------------------------------------
(* execution, complete() and fail() *)

\* created_at is read when the execution starts; the lanes then run for as long
\* as they take.
Execute(r) ==
  /\ req[r].pc = "executing"
  /\ req' = [req EXCEPT ![r].pc = "completing",
               ![r].result = [input |-> req[r].input, createdAt |-> clock]]
  /\ UNCHANGED <<row, clock, delivered, crashes>>

ExecuteRaises(r) ==
  /\ req[r].pc = "executing"
  /\ req' = [req EXCEPT ![r].pc = "failing"]
  /\ UNCHANGED <<row, clock, delivered, crashes>>

\* Deviations: the WHERE clause forgets the attempt; it forgets the status too.
ActiveAnyAttempt(r) == row[req[r].key].status = "PENDING" /\ SameInput(r)
ActiveAnyRow(r) == SameInput(r)

\* The WHERE clause of both updates: the row is still PENDING in the attempt,
\* and for the inputs, that r reserved.
Active(r) ==
  /\ row[req[r].key].status = "PENDING"
  /\ row[req[r].key].attempt = req[r].attempt
  /\ SameInput(r)

Complete(r) ==
  /\ req[r].pc = "completing"
  /\ Active(r)
  /\ row' = [row EXCEPT ![req[r].key].status = "COMPLETE",
                        ![req[r].key].result = req[r].result]
  /\ req' = [req EXCEPT ![r].pc = "responding"]
  /\ UNCHANGED <<clock, delivered, crashes>>

\* complete() raises, because the UPDATE matched no row or because the
\* database itself failed; `except Exception` goes on to fail().
CompleteRaises(r) ==
  /\ req[r].pc = "completing"
  /\ req' = [req EXCEPT ![r].pc = "failing"]
  /\ UNCHANGED <<row, clock, delivered, crashes>>

\* Deviation: a status the schema does not know.
FailAsCancelled(r) ==
  /\ req[r].pc = "failing"
  /\ row' = IF Active(r)
              THEN [row EXCEPT ![req[r].key].status = "CANCELLED"]
              ELSE row
  /\ req' = [req EXCEPT ![r] = IdleSlot]
  /\ UNCHANGED <<clock, delivered, crashes>>

\* fail(), whose result the handler ignores, and then status 500.
Fail(r) ==
  /\ req[r].pc = "failing"
  /\ row' = IF Active(r)
              THEN [row EXCEPT ![req[r].key].status = "FAILED"]
              ELSE row
  /\ req' = [req EXCEPT ![r] = IdleSlot]
  /\ UNCHANGED <<clock, delivered, crashes>>

\* Status 200 with the assessment in the request's hands.
Respond(r) ==
  /\ req[r].pc = "responding"
  /\ delivered' = [delivered EXCEPT ![req[r].key] =
                     @ \cup {<<req[r].input, req[r].result>>}]
  /\ req' = [req EXCEPT ![r] = IdleSlot]
  /\ UNCHANGED <<row, clock, crashes>>

\* GET /assessments/{key}: get() returns the assessment of a COMPLETE row, and
\* only the status of any other.
Lookup(k) ==
  /\ row[k].status = "COMPLETE"
  /\ delivered' = [delivered EXCEPT ![k] = @ \cup {<<row[k].input, row[k].result>>}]
  /\ UNCHANGED <<row, clock, req, crashes>>

-----------------------------------------------------------------------------
(* environment *)

\* The worker dies, the task is cancelled at an await (CancelledError is not
\* an Exception), or fail() itself raises: the row is left as it is.
Abandon(r) ==
  /\ req[r].pc # "idle"
  /\ crashes < MaxCrashes
  /\ crashes' = crashes + 1
  /\ req' = [req EXCEPT ![r] = IdleSlot]
  /\ UNCHANGED <<row, clock, delivered>>

Tick ==
  /\ clock < MaxClock
  /\ clock' = clock + 1
  /\ UNCHANGED <<row, req, delivered, crashes>>

\* Everything request r does once it has been submitted.
Step(r) ==
  \/ ReserveNew(r) \/ TakeOver(r) \/ Replay(r) \/ Refuse(r)
  \/ Execute(r) \/ ExecuteRaises(r)
  \/ Complete(r) \/ CompleteRaises(r) \/ Fail(r) \/ Respond(r)

Next ==
  \/ \E r \in Request :
       \/ \E k \in Key, i \in Input : Submit(r, k, i)
       \/ Step(r)
       \/ Abandon(r)
  \/ \E k \in Key : Lookup(k)
  \/ Tick

Spec == Init /\ [][Next]_vars

-----------------------------------------------------------------------------
(* safety *)

Holding(r) == req[r].pc \in {"executing", "completing", "failing"}

\* r holds an attempt of its key and its lease has not run out yet.
LiveHolder(r) == Holding(r) /\ clock < req[r].now + LeaseSeconds

\* A live lease excludes every other attempt: reserve() never lets two requests
\* hold unexpired leases on one key, although each compares the deadline with a
\* time it read before its transaction began.
SingleLiveHolder ==
  \A r, s \in Request :
    LiveHolder(r) /\ LiveHolder(s) /\ req[r].key = req[s].key => r = s

\* Superseded attempts are fenced.  The request holding the newest attempt of a
\* key still decides it: no slower one has completed the row or poisoned it with
\* a failure; and a stored assessment was created by the last attempt that was
\* reserved: its created_at is not before the time that attempt was reserved.
NewestAttemptDecides ==
  /\ \A r \in Request :
        Holding(r) /\ req[r].attempt = row[req[r].key].attempt
          => row[req[r].key].status = "PENDING"
  /\ \A k \in Key : row[k].status = "COMPLETE" =>
        row[k].result.createdAt + LeaseSeconds >= row[k].lease

\* Every 200 response for a key, replayed or not, carried the assessment the
\* row still stores, for the inputs the caller asked about; so all callers of
\* a key agree, whichever attempts were superseded in between.
DeliveredIsStored ==
  \A k \in Key : \A d \in delivered[k] :
    /\ row[k].status = "COMPLETE"
    /\ d = <<row[k].input, row[k].result>>
    /\ row[k].result.input = row[k].input

\* "Completed results are immutable": a COMPLETE or FAILED row never changes
\* again, whatever attempts are still running.
TerminalImmutable ==
  [][\A k \in Key : row[k].status \in Terminal => row'[k] = row[k]]_vars

-----------------------------------------------------------------------------
(* refinement *)

Promise == INSTANCE IdempotentExecution WITH
  Assessments <- Assessment,
  binding <- [k \in Key |-> row[k].input],
  outcome <- [k \in Key |->
                IF row[k].status \in Terminal THEN row[k].status ELSE "OPEN"],
  assessment <- [k \in Key |-> row[k].result]

\* The store with its leases and attempts implements the write-once promise.
KeepsPromise == Promise!Spec

-----------------------------------------------------------------------------
(* liveness *)

\* Time passes while some lease runs, and no faster than the requests: whoever
\* is not cut off finishes within LeaseSeconds of reading the clock.  The
\* execution is only bounded by the lease, so this is what recovery needs.
PromptTick ==
  /\ Tick
  /\ \E k \in Key : row[k].status = "PENDING" /\ clock < row[k].lease
  /\ \A r \in Request : req[r].pc # "idle" => clock + 1 < req[r].now + LeaseSeconds

\* A client repeats the request of a key that has no outcome yet.
Retry(r, k) == row[k].status = "PENDING" /\ Submit(r, k, row[k].input)

PromptNext ==
  \/ \E r \in Request :
       \/ \E k \in Key, i \in Input : Submit(r, k, i)
       \/ Step(r)
       \/ Abandon(r)
  \/ \E k \in Key : Lookup(k)
  \/ PromptTick

LiveSpec ==
  /\ Init /\ [][PromptNext]_vars
  /\ SF_vars(PromptTick)
  /\ \A r \in Request : WF_vars(Step(r))
  /\ \A k \in Key : SF_vars(\E r \in Request : Retry(r, k))

\* "A bounded lease permits recovery after a process crash": a key whose holder
\* is lost is decided after all, as long as some client retries it.
PendingIsDecided ==
  \A k \in Key : row[k].status = "PENDING" ~> row[k].status \in Terminal
==============================================================================
