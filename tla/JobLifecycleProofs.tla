-------------------------- MODULE JobLifecycleProofs --------------------------
(***************************************************************************)
(* Proofs about JobLifecycle, for any number of request threads, requests  *)
(* and faults: the erasure takes the key and the ciphertext before the     *)
(* rows, nothing brings them back, and a serving process has the key of    *)
(* all ciphertext on disk.                                                 *)
(*                                                                         *)
(* Only create_workspace could bring a key back and only write_encrypted   *)
(* ciphertext.  The first is the first call of the one request that        *)
(* creates the job, which runs alone; the second tests _destroyed.  The    *)
(* inductive invariant KInv says so.                                       *)
(*                                                                         *)
(* Then types; every row of a live job has its blob; the audit chain has   *)
(* neither gap nor fork and every certificate its event; and what          *)
(* identified persons does not come back after the erasure.  A handler's   *)
(* order of calls is what these rest on, so the inductive invariant RInv   *)
(* says of each thread which calls it still has to make and what is true   *)
(* when some of them are behind it.                                        *)
(***************************************************************************)
EXTENDS JobLifecycle, FiniteSetTheorems, TLAPS

Todo(r) == thread[r].todo

Shaped ==
  /\ DOMAIN thread = Request
  /\ \A r \in Request : DOMAIN thread[r] = DOMAIN Idle /\ Todo(r) \in Seq(Op)
  /\ DOMAIN eraser = DOMAIN NoErasure
  /\ status \in {"ABSENT", "ACTIVE", "DESTROYED"}
  /\ key \in {"none", "live", "popped"}
  /\ started \in Nat

\* create_workspace is the first call of a handler or none.
WorkspaceComesFirst ==
  \A r \in Request : \A i \in 2..Len(Todo(r)) : Todo(r)[i] # "workspace"

\* The request that creates the job runs alone.
CreatesAlone ==
  \A r \in Request : At(r, "workspace") =>
    /\ status = "ABSENT"
    /\ \A s \in Request \ {r} : Todo(s) = <<>>

\* Before the first request there is nothing.
Unstarted ==
  started = 0 => status = "ABSENT" /\ \A r \in Request : Todo(r) = <<>>

\* Before the job has its row nothing is stored, nor about to be, nor erased.
Unborn ==
  status = "ABSENT" =>
    /\ ~erased /\ receipt = None /\ EraserAt("idle") /\ blobs = {}
    /\ \A r \in Request : \A i \in 1..Len(Todo(r)) : Todo(r)[i] # "blob"

Beyond == erased \/ receipt # None \/ EraserAt("rows") \/ EraserAt("receipt")

KInv ==
  /\ Shaped /\ WorkspaceComesFirst /\ CreatesAlone /\ Unstarted /\ Unborn
  /\ Beyond => key = "none" /\ blobs = {}
  /\ status = "DESTROYED" => erased
  /\ NoOrphanCiphertext

-----------------------------------------------------------------------------
(* threads *)

\* t can be the new value of thread r: its calls are some that r had left.
Fits(r, t) ==
  /\ DOMAIN t = DOMAIN Idle /\ t.todo \in Seq(Op)
  /\ Todo(r) = <<>> => t.todo = <<>>
  /\ \A i \in 1..Len(t.todo) :
       /\ t.todo[i] # "workspace"
       /\ t.todo[i] = "blob" =>
            \E j \in 1..Len(Todo(r)) : Todo(r)[j] = "blob"

Shorter(r) == \E t : Fits(r, t) /\ thread' = [thread EXCEPT ![r] = t]

\* What the tail of a handler's sequence of calls contains.
LEMMA TailFacts ==
  ASSUME NEW s \in Seq(Op), s # <<>>
  PROVE  /\ Tail(s) \in Seq(Op) /\ Head(s) = s[1] /\ Len(s) \in Nat
         /\ \A i \in 1..Len(Tail(s)) : i + 1 \in 2..Len(s) /\ Tail(s)[i] = s[i + 1]
  OBVIOUS

\* An idle thread has no calls left.
LEMMA IdleFits ==
  ASSUME NEW r
  PROVE  Fits(r, Idle)
<1>1. Idle.todo \in Seq(Op) /\ Idle.todo = <<>> /\ 1..Len(Idle.todo) = {}
  BY DEF Idle
<1> QED
  BY <1>1 DEF Fits

\* Going on with the next call, with other locals or not.
LEMMA ProceedIsShorter ==
  ASSUME Shaped, WorkspaceComesFirst, NEW r \in Request, Todo(r) # <<>>,
         NEW t, DOMAIN t = DOMAIN Idle, t.todo = Todo(r), Proceed(r, t)
  PROVE  Shorter(r)
<1>1. Todo(r) \in Seq(Op)
  BY DEF Shaped
<1>2. CASE Tail(t.todo) = <<>>
  <2>1. thread' = [thread EXCEPT ![r] = Idle]
    BY <1>2 DEF Proceed
  <2> QED
    BY <2>1, IdleFits DEF Shorter
<1>3. CASE Tail(t.todo) # <<>>
  <2> DEFINE u == [t EXCEPT !.todo = Tail(t.todo)]
  <2>1. thread' = [thread EXCEPT ![r] = u]
    BY <1>3 DEF Proceed
  <2>2. DOMAIN u = DOMAIN Idle /\ u.todo = Tail(Todo(r))
    BY DEF Idle
  <2>3. u.todo \in Seq(Op)
    BY <1>1, <2>2, TailFacts
  <2>4. ASSUME NEW i \in 1..Len(u.todo)
        PROVE  /\ u.todo[i] # "workspace"
               /\ u.todo[i] = "blob" =>
                    \E j \in 1..Len(Todo(r)) : Todo(r)[j] = "blob"
    <3>1. i + 1 \in 2..Len(Todo(r)) /\ u.todo[i] = Todo(r)[i + 1]
      BY <1>1, <2>2, TailFacts
    <3>2. i + 1 \in 1..Len(Todo(r))
      BY <1>1, <3>1
    <3> QED
      BY <3>1, <3>2 DEF WorkspaceComesFirst
  <2> HIDE DEF u
  <2>5. Fits(r, u)
    BY <2>2, <2>3, <2>4 DEF Fits
  <2> QED
    BY <2>1, <2>5 DEF Shorter
<1> QED
  BY <1>2, <1>3

\* The other ways a handler's step changes its thread.
LEMMA GoOnIsShorter ==
  ASSUME Shaped, WorkspaceComesFirst, NEW r \in Request, Todo(r) # <<>>, GoOn(r)
  PROVE  Shorter(r)
  BY ProceedIsShorter DEF GoOn, Shaped, Todo

\* A handler that stops has no calls left.
LEMMA StopIsShorter ==
  ASSUME Shaped, NEW r \in Request, Stop(r)
  PROVE  Shorter(r)
BY IdleFits DEF Shorter, Stop

\* The calls of the error paths create neither a workspace nor a blob.
LEMMA JumpFacts ==
  ASSUME NEW s \in {<<"failed">>, <<"status", "tail", "event">>}
  PROVE  s \in Seq(Op) /\ \A i \in 1..Len(s) : s[i] # "workspace" /\ s[i] # "blob"
<1>1. CASE s = <<"failed">>
  <2>1. s \in Seq(Op) /\ Len(s) = 1 /\ s[1] = "failed"
    BY <1>1 DEF Op
  <2>2. 1..Len(s) = {1}
    BY <2>1
  <2> QED
    BY <2>1, <2>2
<1>2. CASE s = <<"status", "tail", "event">>
  <2>1. /\ s \in Seq(Op) /\ Len(s) = 3
        /\ s[1] = "status" /\ s[2] = "tail" /\ s[3] = "event"
    BY <1>2 DEF Op
  <2>2. 1..Len(s) = {1, 2, 3}
    BY <2>1
  <2> QED
    BY <2>1, <2>2
<1> QED
  BY <1>1, <1>2

\* A handler that jumps to an error path only loses calls.
LEMMA JumpIsShorter ==
  ASSUME Shaped, NEW r \in Request,
         Todo(r) # <<>>, NEW s \in {<<"failed">>, <<"status", "tail", "event">>},
         thread' = [thread EXCEPT ![r].todo = s]
  PROVE  Shorter(r)
<1> DEFINE u == [thread[r] EXCEPT !.todo = s]
<1>1. thread' = [thread EXCEPT ![r] = u]
  BY DEF Shaped
<1>2. DOMAIN u = DOMAIN Idle /\ u.todo = s
  BY DEF Shaped, Idle
<1>3. s \in Seq(Op) /\ \A i \in 1..Len(s) : s[i] # "workspace" /\ s[i] # "blob"
  BY JumpFacts
<1> HIDE DEF u
<1>4. Fits(r, u)
  BY <1>2, <1>3 DEF Fits
<1> QED
  BY <1>1, <1>4 DEF Shorter

\* What a step of any thread keeps of every thread.
Kept ==
  /\ DOMAIN thread' = Request
  /\ \A s \in Request :
       /\ DOMAIN thread'[s] = DOMAIN Idle /\ Todo(s)' \in Seq(Op)
       /\ \A i \in 2..Len(Todo(s)') : Todo(s)'[i] # "workspace"
       /\ At(s, "workspace")' => At(s, "workspace")
       /\ Todo(s) = <<>> => Todo(s)' = <<>>
       /\ \A i \in 1..Len(Todo(s)') : Todo(s)'[i] = "blob" =>
            \E j \in 1..Len(Todo(s)) : Todo(s)[j] = "blob"

\* A thread that loses calls cannot come to create the workspace.
LEMMA ShorterIsKept ==
  ASSUME Shaped, WorkspaceComesFirst, NEW r \in Request, Shorter(r)
  PROVE  Kept /\ ~At(r, "workspace")'
<1>1. PICK t : Fits(r, t) /\ thread' = [thread EXCEPT ![r] = t]
  BY DEF Shorter
<1>2. DOMAIN thread' = Request /\ thread'[r] = t
  BY <1>1 DEF Shaped
<1>3. \A s \in Request \ {r} : thread'[s] = thread[s]
  BY <1>1 DEF Shaped
<1>4. Todo(r)' = t.todo
  BY <1>2 DEF Todo
<1>5. ~At(r, "workspace")'
  <2>1. t.todo # <<>> => Head(t.todo) = t.todo[1] /\ 1 \in 1..Len(t.todo)
    BY <1>1 DEF Fits
  <2> QED
    BY <1>1, <1>2, <2>1 DEF At, Fits
<1>6. \A s \in Request \ {r} : Todo(s)' = Todo(s) /\ At(s, "workspace")' = At(s, "workspace")
  BY <1>3 DEF Todo, At
<1>7. \A i \in 2..Len(t.todo) : i \in 1..Len(t.todo)
  BY <1>1 DEF Fits
<1> SUFFICES ASSUME NEW s \in Request
             PROVE  /\ DOMAIN thread'[s] = DOMAIN Idle /\ Todo(s)' \in Seq(Op)
                    /\ \A i \in 2..Len(Todo(s)') : Todo(s)'[i] # "workspace"
                    /\ At(s, "workspace")' => At(s, "workspace")
                    /\ Todo(s) = <<>> => Todo(s)' = <<>>
                    /\ \A i \in 1..Len(Todo(s)') : Todo(s)'[i] = "blob" =>
                         \E j \in 1..Len(Todo(s)) : Todo(s)[j] = "blob"
  BY <1>2, <1>5 DEF Kept
<1>8. CASE s = r
  BY <1>1, <1>2, <1>4, <1>5, <1>7, <1>8 DEF Fits
<1>9. CASE s # r
  BY <1>3, <1>6, <1>9 DEF Shaped, WorkspaceComesFirst
<1> QED
  BY <1>8, <1>9

\* Nor can one that does nothing.
LEMMA UnchangedIsKept ==
  ASSUME Shaped, WorkspaceComesFirst, UNCHANGED thread
  PROVE  Kept
<1>1. \A s \in Request : Todo(s)' = Todo(s) /\ At(s, "workspace")' = At(s, "workspace")
  BY DEF Todo, At
<1> QED
  BY <1>1 DEF Kept, Shaped, WorkspaceComesFirst

\* A handler's step runs one of its calls.
LEMMA HandlerIsShorter ==
  ASSUME Shaped, WorkspaceComesFirst, NEW r \in Request, Handler(r)
  PROVE  Shorter(r) /\ Todo(r) # <<>>
<1>1. Todo(r) # <<>>
  BY DEF Handler, At, Todo, CreateWorkspace, InsertJob, GetWorkspace, ReadBlob,
    UseWorkspace, WriteBlob, InsertFile, InsertEntity, InsertMention, InsertOutput,
    RecordVerdict, UpdateStatus, ReadTail, InsertEvent, IssueCertificate
<1>2. CASE GoOn(r)
  BY <1>1, <1>2, GoOnIsShorter
<1>3. CASE Stop(r)
  BY <1>1, <1>3, StopIsShorter
<1>4. CASE FailOrStop(r)
  BY <1>1, <1>3, <1>4, JumpIsShorter DEF FailOrStop
<1>5. CASE RecordVerdict(r)
  BY <1>1, <1>2, <1>5, JumpIsShorter DEF RecordVerdict
<1>6. CASE ReadTail(r)
  <2> DEFINE t == [thread[r] EXCEPT !.tail = LastHash]
  <2>1. DOMAIN t = DOMAIN Idle /\ t.todo = Todo(r)
    BY DEF Shaped, Idle, Todo
  <2>2. Proceed(r, t)
    BY <1>6 DEF ReadTail
  <2> HIDE DEF t
  <2> QED
    BY <1>1, <2>1, <2>2, ProceedIsShorter
<1>7. CASE IssueCertificate(r)
  <2> DEFINE t == [thread[r] EXCEPT !.type = "certificate"]
  <2>1. DOMAIN t = DOMAIN Idle /\ t.todo = Todo(r)
    BY DEF Shaped, Idle, Todo
  <2>2. Proceed(r, t) \/ Stop(r)
    BY <1>7 DEF IssueCertificate
  <2> HIDE DEF t
  <2> QED
    BY <1>1, <1>3, <2>1, <2>2, ProceedIsShorter
<1>8. CASE CreateWorkspace(r) \/ InsertJob(r) \/ InsertFile(r) \/ UpdateStatus(r)
  BY <1>1, <1>2, <1>8 DEF CreateWorkspace, InsertJob, InsertFile, UpdateStatus
<1>9. CASE GetWorkspace(r) \/ UseWorkspace(r) \/ InsertEntity(r) \/ InsertMention(r)
  BY <1>1, <1>2, <1>3, <1>9
    DEF GetWorkspace, UseWorkspace, InsertEntity, InsertMention
<1>10. CASE WriteBlob(r) \/ InsertOutput(r) \/ InsertEvent(r)
  BY <1>1, <1>2, <1>3, <1>10 DEF WriteBlob, InsertOutput, InsertEvent
<1>11. CASE ReadBlob(r)
  BY <1>1, <1>2, <1>4, <1>11 DEF ReadBlob
<1> QED
  BY <1>5, <1>6, <1>7, <1>8, <1>9, <1>10, <1>11 DEF Handler

-----------------------------------------------------------------------------
(* the steps of the system *)

\* What the handlers do: only the creation of a job creates a workspace, as its
\* first call, and it stores no blob.
LEMMA StepsFacts ==
  ASSUME NEW k \in DOMAIN Steps
  PROVE  /\ Steps[k] \in Seq(Op) /\ Steps[k] # <<>>
         /\ \A i \in 1..Len(Steps[k]) :
              /\ Steps[k][i] = "workspace" => i = 1 /\ k = "create"
              /\ Steps[k][i] = "blob" => k # "create"
<1> DEFINE w == Steps[k]
<1> SUFFICES /\ w \in Seq(Op) /\ w # <<>>
             /\ \A i \in 1..Len(w) : /\ w[i] = "workspace" => i = 1 /\ k = "create"
                                     /\ w[i] = "blob" => k # "create"
  OBVIOUS
<1>1. CASE k = "create"
  <2>1. /\ w \in Seq(Op) /\ Len(w) = 4 /\ w # <<>>
        /\ w[1] = "workspace" /\ w[2] = "job_row" /\ w[3] = "tail" /\ w[4] = "event"
    BY <1>1 DEF Steps, Op
  <2>2. 1..Len(w) = {1, 2, 3, 4}
    BY <2>1
  <2> HIDE DEF w
  <2> QED
    BY <1>1, <2>1, <2>2
<1>2. CASE k = "upload"
  <2>1. /\ w \in Seq(Op) /\ Len(w) = 6 /\ w # <<>>
        /\ w[1] = "key" /\ w[2] = "blob" /\ w[3] = "file_row" /\ w[4] = "status"
        /\ w[5] = "tail" /\ w[6] = "event"
    BY <1>2 DEF Steps, Op, UploadSteps
  <2>2. 1..Len(w) = {1, 2, 3, 4, 5, 6}
    BY <2>1
  <2> HIDE DEF w
  <2> QED
    BY <1>2, <2>1, <2>2
<1>3. CASE k = "analyse"
  <2>1. /\ w \in Seq(Op) /\ Len(w) = 8 /\ w # <<>>
        /\ w[1] = "read" /\ w[2] = "active" /\ w[3] = "entity_row" /\ w[4] = "active"
        /\ w[5] = "mention_row" /\ w[6] = "status" /\ w[7] = "tail" /\ w[8] = "event"
    BY <1>3 DEF Steps, Op, AnalyseSteps
  <2>2. 1..Len(w) = {1, 2, 3, 4, 5, 6, 7, 8}
    BY <2>1
  <2> HIDE DEF w
  <2> QED
    BY <1>3, <2>1, <2>2
<1>4. CASE k = "review"
  <2>1. /\ w \in Seq(Op) /\ Len(w) = 3 /\ w # <<>>
        /\ w[1] = "status" /\ w[2] = "tail" /\ w[3] = "event"
    BY <1>4 DEF Steps, Op
  <2>2. 1..Len(w) = {1, 2, 3}
    BY <2>1
  <2> HIDE DEF w
  <2> QED
    BY <1>4, <2>1, <2>2
<1>5. CASE k = "transform"
  <2>1. /\ w \in Seq(Op) /\ Len(w) = 6 /\ w # <<>>
        /\ w[1] = "read" /\ w[2] = "blob" /\ w[3] = "output_row" /\ w[4] = "status"
        /\ w[5] = "tail" /\ w[6] = "event"
    BY <1>5 DEF Steps, Op, TransformSteps
  <2>2. 1..Len(w) = {1, 2, 3, 4, 5, 6}
    BY <2>1
  <2> HIDE DEF w
  <2> QED
    BY <1>5, <2>1, <2>2
<1>6. CASE k = "verify"
  <2>1. /\ w \in Seq(Op) /\ Len(w) = 8 /\ w # <<>>
        /\ w[1] = "read" /\ w[2] = "verdict" /\ w[3] = "status" /\ w[4] = "tail"
        /\ w[5] = "event" /\ w[6] = "certificate" /\ w[7] = "tail" /\ w[8] = "event"
    BY <1>6 DEF Steps, Op, VerifySteps
  <2>2. 1..Len(w) = {1, 2, 3, 4, 5, 6, 7, 8}
    BY <2>1
  <2> HIDE DEF w
  <2> QED
    BY <1>6, <2>1, <2>2
<1>7. CASE k = "export"
  <2>1. /\ w \in Seq(Op) /\ Len(w) = 3 /\ w # <<>>
        /\ w[1] = "read" /\ w[2] = "tail" /\ w[3] = "event"
    BY <1>7 DEF Steps, Op
  <2>2. 1..Len(w) = {1, 2, 3}
    BY <2>1
  <2> HIDE DEF w
  <2> QED
    BY <1>7, <2>1, <2>2
<1> QED
  BY <1>1, <1>2, <1>3, <1>4, <1>5, <1>6, <1>7 DEF Steps

\* Initially there is no job, key, row or ciphertext.
LEMMA InitKInv == Init => KInv
<1> SUFFICES ASSUME Init PROVE KInv
  OBVIOUS
<1>1. Idle.todo \in Seq(Op) /\ Idle.todo = <<>> /\ Len(Idle.todo) = 0
  BY DEF Idle
<1>2. \A r \in Request : thread[r] = Idle /\ Todo(r) = <<>>
  BY <1>1 DEF Init, Todo
<1>3. Shaped
  BY <1>1, <1>2 DEF Init, Shaped, Todo
<1>4. WorkspaceComesFirst /\ CreatesAlone /\ Unstarted
  BY <1>1, <1>2 DEF Init, WorkspaceComesFirst, CreatesAlone, Unstarted, At, Todo
<1>5. EraserAt("idle")
  BY DEF Init, EraserAt, NoErasure
<1>6. Unborn
  BY <1>1, <1>2, <1>5 DEF Init, Unborn, Todo
<1>7. ~Beyond
  BY <1>5 DEF Init, Beyond, EraserAt
<1> QED
  BY <1>3, <1>4, <1>6, <1>7 DEF KInv, Init, NoOrphanCiphertext

\* A request begins.
LEMMA BeginKInv ==
  ASSUME KInv, NEW r \in Request, BeginRequest(r)
  PROVE  KInv'
<1>1. PICK k, target :
        /\ k \in DOMAIN Steps
        /\ Begin(r, k, target)
        /\ IF k = "create" THEN started = 0 ELSE JobIsOpen
  BY DEF BeginRequest, BeginCreate, BeginUpload, BeginAnalyse, BeginReview,
    BeginTransform, BeginVerify, BeginExport, Steps
<1>2. /\ Steps[k] \in Seq(Op) /\ Steps[k] # <<>>
      /\ \A i \in 1..Len(Steps[k]) :
           /\ Steps[k][i] = "workspace" => i = 1 /\ k = "create"
           /\ Steps[k][i] = "blob" => k # "create"
  BY <1>1, StepsFacts
<1> DEFINE t == [type |-> k, id |-> started + 1, target |-> target,
                 todo |-> Steps[k], tail |-> Genesis]
<1>3. /\ thread' = [thread EXCEPT ![r] = t]
      /\ started' = started + 1
      /\ UNCHANGED <<status, receipt, key, blobs, eraser, phase, erased>>
  BY <1>1 DEF Begin, store, rows, workspace
<1>4. DOMAIN t = DOMAIN Idle /\ t.todo = Steps[k]
  BY DEF Idle
<1>5. thread'[r] = t /\ Todo(r)' = Steps[k] /\ DOMAIN thread' = Request
  BY <1>3, <1>4 DEF KInv, Shaped, Todo
<1>6. \A s \in Request \ {r} : thread'[s] = thread[s] /\ Todo(s)' = Todo(s)
  BY <1>3 DEF KInv, Shaped, Todo
<1> HIDE DEF t
<1>7. Shaped'
  <2>1. started' \in Nat
    BY <1>3 DEF KInv, Shaped
  <2> QED
    BY <1>3, <1>4, <1>5, <1>6, <2>1, <1>2 DEF KInv, Shaped
<1>8. WorkspaceComesFirst'
  <2>1. \A i \in 2..Len(Steps[k]) : i \in 1..Len(Steps[k]) /\ i # 1
    BY <1>2
  <2> QED
    BY <1>5, <1>6, <2>1, <1>2 DEF KInv, WorkspaceComesFirst
<1>9. \A s \in Request \ {r} : At(s, "workspace")' => At(s, "workspace")
  BY <1>6 DEF At, Todo
<1>10. At(r, "workspace")' => k = "create"
  <2>1. Head(Steps[k]) = Steps[k][1] /\ 1 \in 1..Len(Steps[k])
    BY <1>2
  <2> QED
    BY <1>5, <2>1, <1>2 DEF At, Todo
<1>11. CreatesAlone'
  <2>1. CASE k = "create"
    <3>1. status = "ABSENT" /\ \A s \in Request : Todo(s) = <<>>
      BY <1>1, <2>1 DEF KInv, Unstarted
    <3>2. \A s \in Request \ {r} : ~At(s, "workspace")
      BY <3>1 DEF At, Todo
    <3> QED
      BY <1>3, <1>6, <1>9, <3>1, <3>2 DEF CreatesAlone
  <2>2. CASE k # "create"
    <3>1. status = "ACTIVE"
      BY <1>1, <2>2 DEF JobIsOpen
    <3>2. \A s \in Request : ~At(s, "workspace")
      BY <3>1 DEF KInv, CreatesAlone
    <3> QED
      BY <1>9, <1>10, <2>2, <3>2 DEF CreatesAlone
  <2> QED
    BY <2>1, <2>2
<1>12. Unstarted'
  BY <1>3 DEF KInv, Shaped, Unstarted
<1>13. Unborn'
  <2>1. status = "ABSENT" => k = "create"
    BY <1>1 DEF JobIsOpen
  <2> QED
    BY <1>3, <1>5, <1>6, <2>1, <1>2 DEF KInv, Unborn, EraserAt
<1> QED
  BY <1>3, <1>7, <1>8, <1>11, <1>12, <1>13
    DEF KInv, Beyond, EraserAt, NoOrphanCiphertext, Usable

\* The parts of KInv about threads and the job's birth, for every other step.
LEMMA ThreadsKInv ==
  ASSUME KInv, Kept, UNCHANGED started, status' # "ABSENT" \/ UNCHANGED status,
         status' # status =>
           started # 0 /\ \A s \in Request : ~At(s, "workspace")',
         status' = "ABSENT" =>
           ~erased' /\ receipt' = None /\ EraserAt("idle")' /\ blobs' = {}
  PROVE  WorkspaceComesFirst' /\ CreatesAlone' /\ Unstarted' /\ Unborn'
<1>1. WorkspaceComesFirst'
  BY DEF Kept, WorkspaceComesFirst
<1>2. CreatesAlone'
  <2> SUFFICES ASSUME NEW r \in Request, At(r, "workspace")'
               PROVE  /\ status' = "ABSENT"
                      /\ \A s \in Request \ {r} : Todo(s)' = <<>>
    BY DEF CreatesAlone
  <2>1. At(r, "workspace") /\ status' = status
    BY DEF Kept
  <2> QED
    BY <2>1 DEF KInv, CreatesAlone, Kept
<1>3. Unstarted'
  BY DEF KInv, Unstarted, Kept
<1>4. Unborn'
  BY DEF KInv, Unborn, Kept
<1> QED
  BY <1>1, <1>2, <1>3, <1>4

\* A handler takes its next step.
LEMMA HandlerKInv ==
  ASSUME KInv, NEW r \in Request, Handler(r)
  PROVE  KInv'
<1>1. Shorter(r) /\ Todo(r) # <<>>
  BY HandlerIsShorter DEF KInv
<1>2. Kept /\ ~At(r, "workspace")'
  BY <1>1, ShorterIsKept DEF KInv
<1>3. UNCHANGED <<receipt, eraser, phase, started, erased>>
  BY DEF Handler, CreateWorkspace, InsertJob, GetWorkspace, ReadBlob, UseWorkspace,
    WriteBlob, InsertFile, InsertEntity, InsertMention, InsertOutput, RecordVerdict,
    UpdateStatus, ReadTail, InsertEvent, IssueCertificate, store, process
<1>4. EraserAt("idle")' = EraserAt("idle") /\ Beyond' = Beyond
  BY <1>3 DEF EraserAt, Beyond
<1>5. started # 0 /\ \A s \in Request : ~At(s, "workspace")'
  <2>1. started # 0
    BY <1>1 DEF KInv, Unstarted
  <2>2. ASSUME NEW s \in Request, At(s, "workspace")'
        PROVE  FALSE
    <3>1. s # r /\ At(s, "workspace")
      BY <1>2, <2>2 DEF Kept
    <3> QED
      BY <1>1, <3>1 DEF KInv, CreatesAlone
  <2> QED
    BY <2>1, <2>2
<1>6. /\ status' = status \/ status' = "ACTIVE"
      /\ key' = key \/ (At(r, "workspace") /\ key' = "live")
      /\ blobs' = blobs \/ (At(r, "blob") /\ Usable /\ key' = key)
  BY DEF Handler, CreateWorkspace, InsertJob, GetWorkspace, ReadBlob, UseWorkspace,
    WriteBlob, InsertFile, InsertEntity, InsertMention, InsertOutput, RecordVerdict,
    UpdateStatus, ReadTail, InsertEvent, IssueCertificate, store, rows, workspace
<1>7. At(r, "blob") => status # "ABSENT"
  <2>1. At(r, "blob") => 1 \in 1..Len(Todo(r)) /\ Todo(r)[1] = "blob"
    BY <1>1 DEF At, Todo, KInv, Shaped
  <2> QED
    BY <2>1 DEF KInv, Unborn
<1>8. Shaped'
  BY <1>2, <1>3, <1>6 DEF KInv, Shaped, Kept
<1>9. WorkspaceComesFirst' /\ CreatesAlone' /\ Unstarted' /\ Unborn'
  <2>1. status' = "ABSENT" => status = "ABSENT" /\ blobs' = blobs
    BY <1>6, <1>7
  <2>2. status' = "ABSENT" =>
          ~erased' /\ receipt' = None /\ EraserAt("idle")' /\ blobs' = {}
    BY <1>3, <1>4, <2>1 DEF KInv, Unborn
  <2>3. status' # "ABSENT" \/ UNCHANGED status
    BY <1>6
  <2> QED
    BY <1>2, <1>3, <1>5, <2>2, <2>3, ThreadsKInv
<1>10. (Beyond => key = "none" /\ blobs = {})'
  <2>1. At(r, "workspace") => ~Beyond
    BY DEF KInv, CreatesAlone, Unborn, Beyond, EraserAt
  <2> QED
    BY <1>4, <1>6, <2>1 DEF KInv, Usable
<1>11. (status = "DESTROYED" => erased)'
  BY <1>3, <1>6 DEF KInv
<1>12. NoOrphanCiphertext'
  BY <1>3, <1>6 DEF KInv, NoOrphanCiphertext, Usable
<1> QED
  BY <1>8, <1>9, <1>10, <1>11, <1>12 DEF KInv

\* The steps of the erasure and of the environment: no thread calls anything.
LEMMA OtherThreads ==
  ASSUME KInv, \/ UNCHANGED thread \/ thread' = [r \in Request |-> Idle]
               \/ \E r \in Request : Stop(r)
  PROVE  Kept
<1>1. CASE UNCHANGED thread
  BY <1>1, UnchangedIsKept DEF KInv
<1>2. CASE \E r \in Request : Stop(r)
  BY <1>2, StopIsShorter, ShorterIsKept DEF KInv
<1>3. CASE thread' = [r \in Request |-> Idle]
  <2>1. /\ Idle.todo \in Seq(Op) /\ Idle.todo = <<>>
        /\ 1..Len(Idle.todo) = {} /\ 2..Len(Idle.todo) = {}
    BY DEF Idle
  <2>2. \A s \in Request : /\ thread'[s] = Idle /\ Todo(s)' = <<>>
                            /\ 1..Len(Todo(s)') = {} /\ 2..Len(Todo(s)') = {}
    BY <1>3, <2>1 DEF Todo
  <2>3. \A s \in Request : ~At(s, "workspace")'
    BY <2>2 DEF At, Todo
  <2>4. <<>> \in Seq(Op)
    BY <2>1
  <2> QED
    BY <1>3, <2>2, <2>3, <2>4 DEF Kept
<1> QED
  BY <1>1, <1>2, <1>3

\* The erasure begins, or takes a step that leaves rows and receipt alone.
LEMMA EraserKInv ==
  ASSUME KInv,
         \/ \E trigger : BeginErasure(trigger)
         \/ EraserReadTail \/ EraserAppend \/ EraserVerify \/ Unregister
         \/ WipeWorkspace
  PROVE  KInv'
<1>1. /\ UNCHANGED <<status, receipt, erased, thread, started, phase>>
      /\ status # "ABSENT"
      /\ DOMAIN eraser' = DOMAIN NoErasure
      /\ key' \in {"none", "live", "popped"}
  <2>1. UNCHANGED <<status, receipt, erased, thread, started, phase>>
    BY DEF BeginErasure, EraserReadTail, EraserAppend, EraserVerify, Unregister,
      WipeWorkspace, store, rows, workspace, process
  <2>2. status # "ABSENT"
    BY DEF KInv, Unborn, EraserAt, BeginErasure, EraserReadTail, EraserAppend,
      EraserVerify, Unregister, WipeWorkspace
  <2>3. DOMAIN eraser' = DOMAIN NoErasure /\ key' \in {"none", "live", "popped"}
    BY DEF KInv, Shaped, NoErasure, BeginErasure, EraserReadTail, EraserAppend,
      EraserVerify, Unregister, WipeWorkspace, store, rows, workspace, process
  <2> QED
    BY <2>1, <2>2, <2>3
<1>2. Kept
  BY <1>1, OtherThreads
<1>3. Shaped'
  BY <1>1, <1>2 DEF KInv, Shaped, Kept
<1>4. WorkspaceComesFirst' /\ CreatesAlone' /\ Unstarted' /\ Unborn'
  BY <1>1, <1>2, ThreadsKInv
<1>5. /\ Beyond' => key' = "none" /\ blobs' = {}
      /\ blobs' # {} => blobs' = blobs /\ (Usable => Usable')
  <2>1. CASE \/ \E trigger : BeginErasure(trigger)
             \/ EraserReadTail \/ EraserAppend \/ EraserVerify
    <3>1. /\ UNCHANGED <<key, blobs>>
          /\ eraser'.pc \in {"tail", "append", "verify", "unregister"}
      BY <2>1 DEF KInv, Shaped, NoErasure, BeginErasure, EraserReadTail,
        EraserAppend, EraserVerify, workspace
    <3> QED
      BY <1>1, <3>1 DEF KInv, Beyond, EraserAt, Usable
  <2>2. CASE Unregister
    <3>1. \/ /\ key = "live" /\ key' = "popped" /\ blobs' = blobs
             /\ eraser'.pc = "wipe"
          \/ key = "none" /\ key' = "none" /\ blobs' = {}
      BY <2>2 DEF KInv, Shaped, NoErasure, Unregister
    <3> QED
      BY <1>1, <3>1 DEF KInv, Beyond, EraserAt, Usable
  <2>3. CASE WipeWorkspace
    BY <2>3 DEF WipeWorkspace
  <2> QED
    BY <2>1, <2>2, <2>3
<1>6. NoOrphanCiphertext'
  BY <1>1, <1>5 DEF KInv, NoOrphanCiphertext
<1> QED
  BY <1>1, <1>3, <1>4, <1>5, <1>6 DEF KInv

\* The erasure deletes the rows and stores the receipt.
LEMMA RowsKInv ==
  ASSUME KInv, DestroyRows \/ StoreReceipt
  PROVE  KInv'
<1>1. /\ UNCHANGED <<key, blobs, thread, started, phase>>
      /\ DOMAIN eraser' = DOMAIN NoErasure
      /\ \/ status' = "DESTROYED" /\ erased'
         \/ UNCHANGED <<status, erased>>
  BY DEF DestroyRows, StoreReceipt, NoErasure, KInv, Shaped, rows, workspace, process
<1>2. Beyond /\ status # "ABSENT"
  BY DEF DestroyRows, StoreReceipt, EraserAt, Beyond, KInv, Unborn
<1>3. \A s \in Request : ~At(s, "workspace")
  BY <1>2 DEF KInv, CreatesAlone
<1>4. Kept
  BY <1>1, OtherThreads
<1>5. Shaped'
  BY <1>1, <1>4 DEF KInv, Shaped, Kept
<1>6. WorkspaceComesFirst' /\ CreatesAlone' /\ Unstarted' /\ Unborn'
  <2>1. started # 0 /\ \A s \in Request : ~At(s, "workspace")'
    BY <1>2, <1>3, <1>4 DEF KInv, Unstarted, Kept
  <2>2. status' # "ABSENT"
    BY <1>1, <1>2
  <2> QED
    BY <1>1, <1>4, <2>1, <2>2, ThreadsKInv
<1> QED
  BY <1>1, <1>2, <1>5, <1>6 DEF KInv, NoOrphanCiphertext, Usable

\* Exceptions, time, crashes and restarts.
LEMMA EnvironmentKInv ==
  ASSUME KInv, \/ \E r \in Request : HandlerRaises(r)
               \/ EraserRaises \/ Expire \/ Crash \/ Serve
  PROVE  KInv'
<1>1. /\ UNCHANGED <<status, receipt, erased, started, blobs>>
      /\ \/ UNCHANGED <<key, eraser, phase>>
         \/ EraserRaises /\ UNCHANGED <<key, phase>> /\ status # "ABSENT"
         \/ Serve /\ UNCHANGED <<key, eraser>>
         \/ phase' = "starting" /\ key' = "none" /\ eraser' = NoErasure
  BY DEF HandlerRaises, EraserRaises, Expire, Crash, Serve, store, rows, workspace,
    KInv, Unborn, EraserAt
<1>2. Kept
  <2>1. \/ UNCHANGED thread \/ thread' = [r \in Request |-> Idle]
        \/ \E r \in Request : Stop(r)
    BY DEF HandlerRaises, EraserRaises, Expire, Crash, Serve
  <2> QED
    BY <2>1, OtherThreads
<1>3. /\ DOMAIN eraser' = DOMAIN NoErasure
      /\ eraser' = eraser \/ eraser'.pc \in {"unregister", "idle"}
      /\ status = "ABSENT" => EraserAt("idle")'
  BY <1>1 DEF KInv, Shaped, EraserRaises, NoErasure, EraserAt, Unborn
<1>4. Beyond' => Beyond
  BY <1>1, <1>3 DEF Beyond, EraserAt
<1>5. key' = key \/ key' = "none"
  BY <1>1
<1>6. Shaped'
  BY <1>1, <1>2, <1>3, <1>5 DEF KInv, Shaped, Kept
<1>7. WorkspaceComesFirst' /\ CreatesAlone' /\ Unstarted' /\ Unborn'
  <2>1. status' = "ABSENT" =>
          ~erased' /\ receipt' = None /\ EraserAt("idle")' /\ blobs' = {}
    BY <1>1, <1>3 DEF KInv, Unborn
  <2> QED
    BY <1>1, <1>2, <2>1, ThreadsKInv
<1>8. (Beyond => key = "none" /\ blobs = {})'
  BY <1>1, <1>4, <1>5 DEF KInv
<1>9. NoOrphanCiphertext'
  <2>1. CASE Serve
    <3>1. blobs = {}
      BY <2>1 DEF Serve, KInv, Shaped, Unborn, Beyond
    <3> QED
      BY <1>1, <3>1 DEF NoOrphanCiphertext
  <2>2. CASE ~Serve
    BY <1>1, <2>2 DEF KInv, NoOrphanCiphertext, Usable
  <2> QED
    BY <2>1, <2>2
<1> QED
  BY <1>1, <1>6, <1>7, <1>8, <1>9 DEF KInv

\* Every step keeps the invariant.
LEMMA NextKInv == KInv /\ [Next]_vars => KInv'
<1> SUFFICES ASSUME KInv, [Next]_vars PROVE KInv'
  OBVIOUS
<1>1. ASSUME NEW r \in Request, BeginRequest(r)
      PROVE  KInv'
  BY <1>1, BeginKInv
<1>2. ASSUME NEW r \in Request, Handler(r)
      PROVE  KInv'
  BY <1>2, HandlerKInv
<1>3. CASE DestroyJob \/ SweepExpired \/ SweepAfterRestart
  BY <1>3, EraserKInv DEF DestroyJob, SweepExpired, SweepAfterRestart
<1>4. CASE Erase
  BY <1>4, EraserKInv, RowsKInv DEF Erase
<1>5. CASE (\E r \in Request : HandlerRaises(r)) \/ EraserRaises \/ Expire \/ Crash \/ Serve
  BY <1>5, EnvironmentKInv
<1>6. CASE UNCHANGED vars
  <2>1. UNCHANGED <<status, receipt, key, blobs, thread, eraser, phase, started, erased>>
    BY <1>6 DEF vars, store, rows, workspace, process
  <2>2. \A r \in Request : Todo(r)' = Todo(r) /\ At(r, "workspace")' = At(r, "workspace")
    BY <2>1 DEF Todo, At
  <2> QED
    BY <2>1, <2>2 DEF KInv, Shaped, WorkspaceComesFirst, CreatesAlone, Unstarted,
      Unborn, Beyond, EraserAt, NoOrphanCiphertext, Usable
<1> QED
  BY <1>1, <1>2, <1>3, <1>4, <1>5, <1>6 DEF Next

-----------------------------------------------------------------------------
(* the theorems *)

\* destroy_job_with_receipt takes the key and the ciphertext before the rows, and
\* no handler that is still running (write_encrypted) brings either back,
\* however many requests, crashes and exceptions there are.
THEOREM ErasureKeysDieFirst == Spec => []KeysDieFirst
<1>1. KInv => KeysDieFirst
  BY DEF KInv, Beyond, KeysDieFirst
<1> QED
  BY <1>1, InitKInv, NextKInv, PTL DEF Spec

\* A serving process can decrypt what is on disk: the startup sweep of app.py
\* has erased the directories whose RAM-only key died with a process.
THEOREM NoCiphertextWithoutKey == Spec => []NoOrphanCiphertext
<1>1. KInv => NoOrphanCiphertext
  BY DEF KInv
<1> QED
  BY <1>1, InitKInv, NextKInv, PTL DEF Spec

-----------------------------------------------------------------------------
(* The rows, the ledger and what identifies persons *)

Has(s, op) == \E i \in 1..Len(s) : s[i] = op

\* The calls RInv speaks of.
RowOp == {"read", "blob", "file_row", "entity_row", "output_row", "certificate"}

\* In a handler's sequence of calls: blobs before rows, reading before rows, one
\* files row, one certificate.
InOrder(s) ==
  \A i, j \in 1..Len(s) : i < j =>
    /\ s[i] \in {"file_row", "output_row"} => s[j] \notin {"file_row", "blob"}
    /\ s[i] \in {"entity_row", "output_row"} => s[j] # "read"
    /\ s[i] = "certificate" => s[j] # "certificate"

EventFirst(s) ==
  \E i, j \in 1..Len(s) : i < j /\ s[i] = "event" /\ s[j] = "certificate"

Active(r) == Todo(r) # <<>>
WritesRow(r) == Has(Todo(r), "entity_row") \/ Has(Todo(r), "output_row")

Sequenced ==
  \A r \in Request :
    /\ InOrder(Todo(r))
    /\ Active(r) => thread[r].type # "idle"
    /\ Has(Todo(r), "certificate") => thread[r].type = "verify"

\* Requests are numbered in the order in which they begin.
Numbered ==
  /\ files \subseteq 1..started
  /\ \A r \in Request :
       /\ Active(r) => thread[r].id \in 1..started
       /\ WritesRow(r) => thread[r].target \in 1..started
       /\ \A s \in Request : Active(r) /\ Active(s) /\ r # s => thread[r].id # thread[s].id

\* Before its files row is there nobody works on a file.
FreshFiles ==
  \A s \in Request : Has(Todo(s), "file_row") =>
    /\ thread[s].id \notin files
    /\ \A r \in Request : WritesRow(r) => thread[r].target # thread[s].id

BlobsFirst ==
  /\ status = "ABSENT" =>
       /\ files = {} /\ outputs = {}
       /\ \A r \in Request : ~Has(Todo(r), "file_row") /\ ~Has(Todo(r), "output_row")
  /\ key = "live" =>
       \A r \in Request : Has(Todo(r), "file_row") \/ Has(Todo(r), "output_row") =>
         Has(Todo(r), "blob") \/ thread[r].id \in blobs

\* After the erasure a handler about to write a row has a file that is gone, or has
\* yet to read a blob that is gone.
RowsStayErased ==
  erased => \A r \in Request : WritesRow(r) =>
              Has(Todo(r), "read") \/ thread[r].target \notin files

LedgerShape ==
  /\ IsFiniteSet(ledger)
  /\ ledger # {} => \E e \in ledger : \A f \in ledger : f.hash.seq <= e.hash.seq

Hashes == {e.hash : e \in ledger} \cup {Genesis}
Logged(id) == \E e \in ledger : e.hash.type = "verify" /\ e.hash.by = id

Chained ==
  ~erased =>
    /\ eraser.tail \in Hashes
    /\ \A r \in Request :
         /\ thread[r].tail \in Hashes
         /\ Has(Todo(r), "certificate") => EventFirst(Todo(r)) \/ Logged(thread[r].id)

Triggered == eraser.pc # "idle" => eraser.trigger \in Trigger

RInv ==
  /\ TypeOK /\ Triggered /\ LedgerShape
  /\ Sequenced /\ Numbered /\ FreshFiles
  /\ BlobsFirst /\ RowsHaveBlobs
  /\ RowsStayErased /\ IdentityRowsStayErased
  /\ Chained /\ LedgerIntact

-----------------------------------------------------------------------------
(* sequences of calls *)

\* The calls that are left when the first of them is made.
LEMMA TailHas ==
  ASSUME NEW s \in Seq(Op), s # <<>>
  PROVE  /\ Tail(s) \in Seq(Op)
         /\ \A op : Has(s, op) <=> Head(s) = op \/ Has(Tail(s), op)
<1>1. /\ Tail(s) \in Seq(Op) /\ Head(s) = s[1] /\ Len(s) \in Nat \ {0}
      /\ Len(Tail(s)) = Len(s) - 1
      /\ \A i \in 1..Len(Tail(s)) : Tail(s)[i] = s[i + 1]
  OBVIOUS
<1> SUFFICES ASSUME NEW op PROVE Has(s, op) <=> Head(s) = op \/ Has(Tail(s), op)
  BY <1>1
<1>2. ASSUME NEW i \in 1..Len(s), s[i] = op
      PROVE  Head(s) = op \/ Has(Tail(s), op)
  <2>1. CASE i = 1
    BY <1>1, <1>2, <2>1
  <2>2. CASE i # 1
    <3>1. i - 1 \in 1..Len(Tail(s)) /\ (i - 1) + 1 = i
      BY <1>1, <2>2
    <3>2. Tail(s)[i - 1] = op
      BY <1>1, <1>2, <3>1
    <3> QED
      BY <3>1, <3>2 DEF Has
  <2> QED
    BY <2>1, <2>2
<1>3. Head(s) = op => Has(s, op)
  <2>1. 1 \in 1..Len(s)
    BY <1>1
  <2> QED
    BY <1>1, <2>1 DEF Has
<1>4. ASSUME NEW i \in 1..Len(Tail(s)), Tail(s)[i] = op
      PROVE  Has(s, op)
  <2>1. i + 1 \in 1..Len(s) /\ s[i + 1] = op
    BY <1>1, <1>4
  <2> QED
    BY <2>1 DEF Has
<1> QED
  BY <1>2, <1>3, <1>4 DEF Has

\* The order of calls holds of what is left, and says what is behind.
LEMMA TailInOrder ==
  ASSUME NEW s \in Seq(Op), s # <<>>, InOrder(s)
  PROVE  /\ InOrder(Tail(s))
         /\ Head(s) \in {"file_row", "output_row"} => ~Has(s, "blob") /\ ~Has(Tail(s), "file_row")
         /\ Head(s) \in {"entity_row", "output_row"} => ~Has(s, "read")
         /\ Head(s) = "certificate" => ~Has(Tail(s), "certificate") /\ ~EventFirst(s)
         /\ Head(s) # "event" /\ EventFirst(s) => EventFirst(Tail(s))
<1>1. /\ Tail(s) \in Seq(Op) /\ Head(s) = s[1] /\ Len(s) \in Nat \ {0}
      /\ Len(Tail(s)) = Len(s) - 1
      /\ \A i \in 1..Len(Tail(s)) : i + 1 \in 1..Len(s) /\ 1 < i + 1 /\ Tail(s)[i] = s[i + 1]
  OBVIOUS
<1>2. InOrder(Tail(s))
  <2> SUFFICES ASSUME NEW i \in 1..Len(Tail(s)), NEW j \in 1..Len(Tail(s)), i < j
               PROVE  /\ Tail(s)[i] \in {"file_row", "output_row"} =>
                           Tail(s)[j] \notin {"file_row", "blob"}
                      /\ Tail(s)[i] \in {"entity_row", "output_row"} => Tail(s)[j] # "read"
                      /\ Tail(s)[i] = "certificate" => Tail(s)[j] # "certificate"
    BY DEF InOrder
  <2>1. /\ i + 1 \in 1..Len(s) /\ j + 1 \in 1..Len(s) /\ i + 1 < j + 1
        /\ Tail(s)[i] = s[i + 1] /\ Tail(s)[j] = s[j + 1]
    BY <1>1
  <2> QED
    BY <2>1 DEF InOrder
<1>3. \A op : Has(Tail(s), op) => \E j \in 1..Len(s) : 1 < j /\ s[j] = op
  BY <1>1 DEF Has
<1>4. \A op : Has(s, op) => Head(s) = op \/ \E j \in 1..Len(s) : 1 < j /\ s[j] = op
  BY <1>3, TailHas
<1>5. 1 \in 1..Len(s)
  BY <1>1
<1>6. Head(s) \in {"file_row", "output_row"} => ~Has(s, "blob") /\ ~Has(Tail(s), "file_row")
  BY <1>1, <1>3, <1>4, <1>5 DEF InOrder
<1>7. Head(s) \in {"entity_row", "output_row"} => ~Has(s, "read")
  BY <1>1, <1>4, <1>5 DEF InOrder
<1>8. Head(s) = "certificate" => ~Has(Tail(s), "certificate") /\ ~EventFirst(s)
  <2>1. Head(s) = "certificate" => ~Has(Tail(s), "certificate")
    BY <1>1, <1>3, <1>5 DEF InOrder
  <2>2. ASSUME Head(s) = "certificate",
               NEW i \in 1..Len(s), NEW j \in 1..Len(s), i < j, s[j] = "certificate"
        PROVE  FALSE
    <3>1. 1 < j
      BY <1>1, <2>2
    <3> QED
      BY <1>1, <1>5, <2>2, <3>1 DEF InOrder
  <2> QED
    BY <2>1, <2>2 DEF EventFirst
<1>9. ASSUME Head(s) # "event", EventFirst(s) PROVE EventFirst(Tail(s))
  <2>1. PICK i \in 1..Len(s), j \in 1..Len(s) : i < j /\ s[i] = "event" /\ s[j] = "certificate"
    BY <1>9 DEF EventFirst
  <2>2. i # 1
    BY <1>1, <1>9, <2>1
  <2>3. /\ i - 1 \in 1..Len(Tail(s)) /\ j - 1 \in 1..Len(Tail(s)) /\ i - 1 < j - 1
        /\ (i - 1) + 1 = i /\ (j - 1) + 1 = j
    BY <1>1, <2>1, <2>2
  <2>4. Tail(s)[i - 1] = "event" /\ Tail(s)[j - 1] = "certificate"
    BY <1>1, <2>1, <2>3
  <2> QED
    BY <2>3, <2>4 DEF EventFirst
<1> QED
  BY <1>2, <1>6, <1>7, <1>8, <1>9

\* An ended handler and the error paths make none of these calls.
Quiet(s) == s \in Seq(Op) /\ InOrder(s) /\ \A op \in RowOp : ~Has(s, op)

\* The three sequences a handler that stops or fails is left with are quiet.
LEMMA QuietFacts ==
  ASSUME NEW s \in {<<>>, <<"failed">>, <<"status", "tail", "event">>}
  PROVE  Quiet(s)
<1>1. CASE s = <<>>
  <2>1. s \in Seq(Op) /\ 1..Len(s) = {}
    BY <1>1
  <2> QED
    BY <2>1 DEF Quiet, InOrder, Has
<1>2. CASE s = <<"failed">>
  <2>1. s \in Seq(Op) /\ 1..Len(s) = {1} /\ s[1] = "failed"
    BY <1>2 DEF Op
  <2> QED
    BY <2>1 DEF Quiet, InOrder, Has, RowOp
<1>3. CASE s = <<"status", "tail", "event">>
  <2>1. /\ s \in Seq(Op) /\ 1..Len(s) = {1, 2, 3}
        /\ s[1] = "status" /\ s[2] = "tail" /\ s[3] = "event"
    BY <1>3 DEF Op
  <2> QED
    BY <2>1 DEF Quiet, InOrder, Has, RowOp
<1> QED
  BY <1>1, <1>2, <1>3

\* The handlers make their calls in this order.
LEMMA StepsInOrder ==
  ASSUME NEW k \in DOMAIN Steps
  PROVE  /\ InOrder(Steps[k])
         /\ Has(Steps[k], "certificate") => k = "verify" /\ EventFirst(Steps[k])
         /\ Has(Steps[k], "file_row") \/ Has(Steps[k], "output_row") => Has(Steps[k], "blob")
         /\ Has(Steps[k], "entity_row") \/ Has(Steps[k], "output_row") =>
              Has(Steps[k], "read") /\ k \in {"analyse", "transform"}
         /\ k = "create" => ~Has(Steps[k], "file_row") /\ ~Has(Steps[k], "output_row")
<1> DEFINE w == Steps[k]
<1> SUFFICES /\ InOrder(w)
             /\ Has(w, "certificate") => k = "verify" /\ EventFirst(w)
             /\ Has(w, "file_row") \/ Has(w, "output_row") => Has(w, "blob")
             /\ Has(w, "entity_row") \/ Has(w, "output_row") =>
                  Has(w, "read") /\ k \in {"analyse", "transform"}
             /\ k = "create" => ~Has(w, "file_row") /\ ~Has(w, "output_row")
  OBVIOUS
<1>1. CASE k = "create"
  <2>1. /\ w \in Seq(Op) /\ Len(w) = 4
        /\ w[1] = "workspace" /\ w[2] = "job_row" /\ w[3] = "tail" /\ w[4] = "event"
    BY <1>1 DEF Steps, Op
  <2>2. 1..Len(w) = {1, 2, 3, 4}
    BY <2>1
  <2> HIDE DEF w
  <2> QED
    BY <1>1, <2>1, <2>2 DEF InOrder, Has
<1>2. CASE k = "upload"
  <2>1. /\ w \in Seq(Op) /\ Len(w) = 6
        /\ w[1] = "key" /\ w[2] = "blob" /\ w[3] = "file_row" /\ w[4] = "status"
        /\ w[5] = "tail" /\ w[6] = "event"
    BY <1>2 DEF Steps, Op, UploadSteps
  <2>2. 1..Len(w) = {1, 2, 3, 4, 5, 6}
    BY <2>1
  <2> HIDE DEF w
  <2>3. InOrder(w)
    BY <2>1, <2>2 DEF InOrder
  <2> QED
    BY <1>2, <2>1, <2>2, <2>3 DEF Has
<1>3. CASE k = "analyse"
  <2>1. /\ w \in Seq(Op) /\ Len(w) = 8
        /\ w[1] = "read" /\ w[2] = "active" /\ w[3] = "entity_row" /\ w[4] = "active"
        /\ w[5] = "mention_row" /\ w[6] = "status" /\ w[7] = "tail" /\ w[8] = "event"
    BY <1>3 DEF Steps, Op, AnalyseSteps
  <2>2. 1..Len(w) = {1, 2, 3, 4, 5, 6, 7, 8}
    BY <2>1
  <2> HIDE DEF w
  <2>3. InOrder(w)
    BY <2>1, <2>2 DEF InOrder
  <2> QED
    BY <1>3, <2>1, <2>2, <2>3 DEF Has
<1>4. CASE k = "review"
  <2>1. /\ w \in Seq(Op) /\ Len(w) = 3
        /\ w[1] = "status" /\ w[2] = "tail" /\ w[3] = "event"
    BY <1>4 DEF Steps, Op
  <2>2. 1..Len(w) = {1, 2, 3}
    BY <2>1
  <2> HIDE DEF w
  <2> QED
    BY <1>4, <2>1, <2>2 DEF InOrder, Has
<1>5. CASE k = "transform"
  <2>1. /\ w \in Seq(Op) /\ Len(w) = 6
        /\ w[1] = "read" /\ w[2] = "blob" /\ w[3] = "output_row" /\ w[4] = "status"
        /\ w[5] = "tail" /\ w[6] = "event"
    BY <1>5 DEF Steps, Op, TransformSteps
  <2>2. 1..Len(w) = {1, 2, 3, 4, 5, 6}
    BY <2>1
  <2> HIDE DEF w
  <2>3. InOrder(w)
    BY <2>1, <2>2 DEF InOrder
  <2> QED
    BY <1>5, <2>1, <2>2, <2>3 DEF Has
<1>6. CASE k = "verify"
  <2>1. /\ w \in Seq(Op) /\ Len(w) = 8
        /\ w[1] = "read" /\ w[2] = "verdict" /\ w[3] = "status" /\ w[4] = "tail"
        /\ w[5] = "event" /\ w[6] = "certificate" /\ w[7] = "tail" /\ w[8] = "event"
    BY <1>6 DEF Steps, Op, VerifySteps
  <2>2. 1..Len(w) = {1, 2, 3, 4, 5, 6, 7, 8}
    BY <2>1
  <2> HIDE DEF w
  <2>3. InOrder(w)
    BY <2>1, <2>2 DEF InOrder
  <2>4. EventFirst(w)
    BY <2>1, <2>2 DEF EventFirst
  <2> QED
    BY <1>6, <2>1, <2>2, <2>3, <2>4 DEF Has
<1>7. CASE k = "export"
  <2>1. /\ w \in Seq(Op) /\ Len(w) = 3
        /\ w[1] = "read" /\ w[2] = "tail" /\ w[3] = "event"
    BY <1>7 DEF Steps, Op
  <2>2. 1..Len(w) = {1, 2, 3}
    BY <2>1
  <2> HIDE DEF w
  <2> QED
    BY <1>7, <2>1, <2>2 DEF InOrder, Has
<1> QED
  BY <1>1, <1>2, <1>3, <1>4, <1>5, <1>6, <1>7 DEF Steps

-----------------------------------------------------------------------------
(* threads *)

\* An event that is read or linked to is one of the chain, or its origin.
LEMMA LastHashFacts ==
  ASSUME TypeOK, LedgerShape
  PROVE  LastHash \in Hashes /\ Hashes \subseteq Hash
<1>1. Genesis \in Hash
  BY LifecycleAssumption DEF LifecycleAssumption, Genesis, Hash
<1>2. Hashes \subseteq Hash
  BY <1>1 DEF Hashes, TypeOK, Event
<1>3. CASE ledger = {}
  BY <1>2, <1>3 DEF LastHash, Hashes
<1>4. CASE ledger # {}
  <2> DEFINE hs == {e.hash : e \in ledger}
  <2>1. PICK e \in ledger : \A f \in ledger : f.hash.seq <= e.hash.seq
    BY <1>4 DEF LedgerShape
  <2>2. e.hash \in hs /\ \A f \in ledger : f.hash.seq <= e.hash.seq
    BY <2>1
  <2>3. LastHash = CHOOSE h \in hs : \A f \in ledger : f.hash.seq <= h.seq
    BY <1>4 DEF LastHash
  <2>4. LastHash \in hs
    BY <2>2, <2>3
  <2> QED
    BY <1>2, <2>4 DEF Hashes
<1> QED
  BY <1>2, <1>3, <1>4

\* What a step of the system, but the beginning of a request, does to thread s.
Moved(s) ==
  /\ thread'[s] \in Thread
  /\ InOrder(Todo(s)')
  /\ \/ Todo(s)' = Todo(s)
     \/ Todo(s) # <<>> /\ Todo(s)' = Tail(Todo(s))
     \/ Quiet(Todo(s)')
  /\ Active(s)' => /\ Active(s)
                   /\ thread'[s].id = thread[s].id
                   /\ thread'[s].target = thread[s].target
                   /\ thread'[s].type \in {thread[s].type, "certificate"}
  /\ Has(Todo(s)', "certificate") => thread'[s].type = thread[s].type
  /\ thread'[s].tail \in {Genesis, thread[s].tail, LastHash}

\* No thread comes to make a call that it had not yet to make.
LEMMA MovedHas ==
  ASSUME NEW s \in Request, Todo(s) \in Seq(Op), Moved(s)
  PROVE  \A op \in RowOp : Has(Todo(s)', op) => Has(Todo(s), op)
BY TailHas DEF Moved, Quiet

\* An idle thread is a thread.
LEMMA IdleIsThread ==
  Idle \in Thread /\ Idle.todo = <<>> /\ Idle.tail = Genesis
<1>1. Genesis \in Hash
  BY LifecycleAssumption DEF LifecycleAssumption, Genesis, Hash
<1>2. <<>> \in Seq(Op)
  OBVIOUS
<1> QED
  BY <1>1, <1>2, LifecycleAssumption DEF Idle, Thread

\* A thread that becomes idle has moved.
LEMMA IdleMoves ==
  ASSUME NEW s \in Request, thread'[s] = Idle
  PROVE  Moved(s)
<1>1. Todo(s)' = <<>> /\ Quiet(Todo(s)')
  BY IdleIsThread, QuietFacts DEF Todo
<1>2. ~Has(Todo(s)', "certificate")
  BY <1>1 DEF Quiet, RowOp
<1> QED
  BY <1>1, IdleIsThread, <1>2 DEF Moved, Quiet, Active

\* A thread that does nothing has moved as well.
LEMMA RestMoves ==
  ASSUME TypeOK, Sequenced, NEW s \in Request, thread'[s] = thread[s]
  PROVE  Moved(s)
<1>1. Todo(s)' = Todo(s)
  BY DEF Todo
<1> QED
  BY <1>1 DEF Moved, TypeOK, Sequenced, Active

\* What TypeOK says of one thread.
LEMMA ThreadType ==
  ASSUME TypeOK, NEW r \in Request
  PROVE  /\ DOMAIN thread = Request /\ thread[r] \in Thread /\ Todo(r) \in Seq(Op)
         /\ thread[r].id \in Nat
BY LifecycleAssumption DEF LifecycleAssumption, TypeOK, Thread, Todo

Others(r) == \A s \in Request \ {r} : thread'[s] = thread[s]

\* A handler goes on to its next call.
LEMMA ProceedMoves ==
  ASSUME TypeOK, Sequenced, NEW r \in Request, Todo(r) # <<>>,
         NEW t \in Thread, t.todo = Todo(r),
         t.id = thread[r].id, t.target = thread[r].target,
         t.tail \in {thread[r].tail, LastHash},
         t.type \in {thread[r].type, "certificate"},
         Has(Tail(Todo(r)), "certificate") => t.type = thread[r].type,
         Proceed(r, t)
  PROVE  Moved(r) /\ Todo(r)' = Tail(Todo(r)) /\ Others(r)
<1>1. /\ DOMAIN thread = Request /\ Todo(r) \in Seq(Op)
      /\ Tail(Todo(r)) \in Seq(Op) /\ InOrder(Tail(Todo(r)))
  BY ThreadType, TailHas, TailInOrder DEF Sequenced
<1>2. Others(r)
  BY <1>1 DEF Proceed, Others
<1>3. CASE Tail(t.todo) = <<>>
  <2>1. thread'[r] = Idle
    BY <1>1, <1>3 DEF Proceed
  <2> QED
    BY <1>2, <1>3, <2>1, IdleMoves, IdleIsThread DEF Todo
<1>4. CASE Tail(t.todo) # <<>>
  <2>1. thread'[r] = [t EXCEPT !.todo = Tail(Todo(r))]
    BY <1>1, <1>4 DEF Proceed
  <2>2. /\ thread'[r] \in Thread
        /\ Todo(r)' = Tail(Todo(r))
        /\ thread'[r].id = t.id /\ thread'[r].target = t.target
        /\ thread'[r].type = t.type /\ thread'[r].tail = t.tail
    BY <1>1, <2>1 DEF Thread, Todo
  <2> QED
    BY <1>1, <1>2, <2>2 DEF Moved, Active
<1> QED
  BY <1>3, <1>4

\* The same when the handler's locals do not change.
LEMMA GoOnMoves ==
  ASSUME TypeOK, Sequenced, NEW r \in Request, Todo(r) # <<>>, GoOn(r)
  PROVE  Moved(r) /\ Todo(r)' = Tail(Todo(r)) /\ Others(r)
BY ThreadType, ProceedMoves DEF GoOn, Todo

\* It ends, by an answer or an exception.
LEMMA StopMoves ==
  ASSUME TypeOK, NEW r \in Request, Stop(r)
  PROVE  Moved(r) /\ Todo(r)' = <<>> /\ Others(r)
<1>1. thread'[r] = Idle /\ Others(r)
  BY ThreadType DEF Stop, Others
<1> QED
  BY <1>1, IdleMoves, IdleIsThread DEF Todo

\* It goes on to an error path.
LEMMA JumpMoves ==
  ASSUME TypeOK, NEW r \in Request, Todo(r) # <<>>,
         NEW q \in {<<"failed">>, <<"status", "tail", "event">>},
         thread' = [thread EXCEPT ![r].todo = q]
  PROVE  Moved(r) /\ Todo(r)' = q /\ Others(r)
<1>1. Quiet(q) /\ q \in Seq(Op)
  BY QuietFacts DEF Quiet
<1>2. DOMAIN thread = Request /\ thread[r] \in Thread
  BY ThreadType
<1>3. thread'[r] = [thread[r] EXCEPT !.todo = q] /\ Others(r)
  BY <1>2 DEF Others
<1>4. /\ thread'[r] \in Thread /\ Todo(r)' = q
      /\ thread'[r].id = thread[r].id /\ thread'[r].target = thread[r].target
      /\ thread'[r].type = thread[r].type /\ thread'[r].tail = thread[r].tail
  BY <1>1, <1>2, <1>3 DEF Thread, Todo
<1> QED
  BY <1>1, <1>3, <1>4 DEF Moved, Quiet, Active

\* A handler's call that succeeds is behind it; one that fails ends it or leads to
\* an error path.
LEMMA HandlerMoves ==
  ASSUME TypeOK, Sequenced, LedgerShape, NEW r \in Request, Handler(r)
  PROVE  /\ Todo(r) # <<>> /\ Moved(r) /\ Others(r)
         /\ Todo(r)' = Tail(Todo(r)) \/ Quiet(Todo(r)')
<1>1. Todo(r) # <<>>
  BY DEF Handler, At, Todo, CreateWorkspace, InsertJob, GetWorkspace, ReadBlob,
    UseWorkspace, WriteBlob, InsertFile, InsertEntity, InsertMention, InsertOutput,
    RecordVerdict, UpdateStatus, ReadTail, InsertEvent, IssueCertificate
<1> DEFINE Goal == Moved(r) /\ Others(r) /\ (Todo(r)' = Tail(Todo(r)) \/ Quiet(Todo(r)'))
<1>2. CASE GoOn(r)
  BY <1>1, <1>2, GoOnMoves
<1>3. CASE Stop(r)
  BY <1>1, <1>3, StopMoves, QuietFacts
<1>4. CASE FailOrStop(r)
  BY <1>1, <1>3, <1>4, JumpMoves, QuietFacts DEF FailOrStop
<1>5. CASE RecordVerdict(r)
  BY <1>1, <1>2, <1>5, JumpMoves, QuietFacts DEF RecordVerdict
<1>6. CASE ReadTail(r)
  <2> DEFINE t == [thread[r] EXCEPT !.tail = LastHash]
  <2>1. LastHash \in Hash
    BY LastHashFacts
  <2>2. /\ t \in Thread /\ t.todo = Todo(r) /\ t.tail = LastHash
        /\ t.id = thread[r].id /\ t.target = thread[r].target /\ t.type = thread[r].type
    BY <2>1, ThreadType DEF Thread, Todo
  <2>3. Proceed(r, t)
    BY <1>6 DEF ReadTail
  <2> HIDE DEF t
  <2> QED
    BY <1>1, <2>2, <2>3, ProceedMoves
<1>7. CASE IssueCertificate(r)
  <2> DEFINE t == [thread[r] EXCEPT !.type = "certificate"]
  <2>1. /\ t \in Thread /\ t.todo = Todo(r) /\ t.tail = thread[r].tail
        /\ t.id = thread[r].id /\ t.target = thread[r].target /\ t.type = "certificate"
    BY ThreadType DEF Thread, Todo
  <2>2. Proceed(r, t) \/ Stop(r)
    BY <1>7 DEF IssueCertificate
  <2>3. ~Has(Tail(Todo(r)), "certificate")
    BY <1>1, <1>7, ThreadType, TailInOrder DEF IssueCertificate, At, Todo, Sequenced
  <2> HIDE DEF t
  <2> QED
    BY <1>1, <1>3, <2>1, <2>2, <2>3, ProceedMoves
<1>8. CASE CreateWorkspace(r) \/ InsertJob(r) \/ InsertFile(r) \/ UpdateStatus(r)
  BY <1>2, <1>8 DEF CreateWorkspace, InsertJob, InsertFile, UpdateStatus
<1>9. CASE GetWorkspace(r) \/ UseWorkspace(r) \/ InsertEntity(r) \/ InsertMention(r)
  BY <1>2, <1>3, <1>9
    DEF GetWorkspace, UseWorkspace, InsertEntity, InsertMention
<1>10. CASE WriteBlob(r) \/ InsertOutput(r) \/ InsertEvent(r)
  BY <1>2, <1>3, <1>10 DEF WriteBlob, InsertOutput, InsertEvent
<1>11. CASE ReadBlob(r)
  BY <1>2, <1>4, <1>11 DEF ReadBlob
<1> QED
  BY <1>1, <1>5, <1>6, <1>7, <1>8, <1>9, <1>10, <1>11 DEF Handler

\* In every step but the beginning of a request all threads move.
LEMMA AllMove ==
  ASSUME TypeOK, Sequenced, LedgerShape,
         \/ \E r \in Request : Handler(r)
         \/ \E r \in Request : Stop(r)
         \/ thread' = [r \in Request |-> Idle]
         \/ UNCHANGED thread
  PROVE  \A s \in Request : Moved(s)
<1> SUFFICES ASSUME NEW s \in Request PROVE Moved(s)
  OBVIOUS
<1>1. ASSUME NEW r \in Request, Moved(r) /\ Others(r)
      PROVE  Moved(s)
  BY <1>1, RestMoves DEF Others
<1>2. CASE (\E r \in Request : Handler(r)) \/ (\E r \in Request : Stop(r))
  BY <1>1, <1>2, HandlerMoves, StopMoves
<1>3. CASE thread' = [r \in Request |-> Idle]
  BY <1>3, IdleMoves
<1>4. CASE UNCHANGED thread
  BY <1>4, RestMoves
<1> QED
  BY <1>2, <1>3, <1>4

-----------------------------------------------------------------------------
(* what a step of a handler changes *)

\* Each record is written by one call.
LEMMA HandlerWrites ==
  ASSUME NEW r \in Request, Handler(r)
  PROVE  /\ UNCHANGED <<receipt, eraser, phase, expired, started, faults, erased>>
         /\ files' = files \/ InsertFile(r)
         /\ entities' = entities \/ InsertEntity(r)
         /\ outputs' = outputs \/ InsertOutput(r)
         /\ safe' = safe \/ RecordVerdict(r)
         /\ certificates' = certificates \/ IssueCertificate(r)
         /\ ledger' = ledger \/ InsertEvent(r)
         /\ key' = key \/ CreateWorkspace(r)
         /\ blobs' = blobs \/ WriteBlob(r)
         /\ status' = status \/ status' = "ACTIVE"
BY DEF Handler, CreateWorkspace, InsertJob, GetWorkspace, ReadBlob, UseWorkspace,
  WriteBlob, InsertFile, InsertEntity, InsertMention, InsertOutput, RecordVerdict,
  UpdateStatus, ReadTail, InsertEvent, IssueCertificate, store, rows, workspace, process

\* The next call decides the action.
LEMMA CallDecides ==
  ASSUME NEW r \in Request, Handler(r)
  PROVE  /\ At(r, "read") => ReadBlob(r)
         /\ At(r, "blob") => WriteBlob(r)
         /\ At(r, "file_row") => InsertFile(r)
         /\ At(r, "entity_row") => InsertEntity(r)
         /\ At(r, "output_row") => InsertOutput(r)
         /\ At(r, "event") => InsertEvent(r)
         /\ At(r, "certificate") => IssueCertificate(r)
BY DEF Handler, At, CreateWorkspace, InsertJob, GetWorkspace, ReadBlob, UseWorkspace,
  WriteBlob, InsertFile, InsertEntity, InsertMention, InsertOutput, RecordVerdict,
  UpdateStatus, ReadTail, InsertEvent, IssueCertificate

\* An event that is linked to the chain.
LEMMA LinkFacts ==
  ASSUME TypeOK, NEW tail \in Hash, NEW by \in 0..MaxRequests,
         NEW type \in DOMAIN Steps \cup Trigger \cup {"certificate"}
  PROVE  /\ Link(tail, by, type) \in Event
         /\ Link(tail, by, type).hash.seq = tail.seq + 1
         /\ Link(tail, by, type).hash.by = by /\ Link(tail, by, type).hash.type = type
         /\ Link(tail, by, type).prev = tail
BY LifecycleAssumption DEF LifecycleAssumption, Link, Event, Hash

\* The ledger stays finite, with a last event.
LEMMA LedgerGrows ==
  ASSUME TypeOK, LedgerShape, NEW e \in Event, ledger' = ledger \cup {e}
  PROVE  LedgerShape'
<1>1. IsFiniteSet(ledger')
  BY FS_AddElement DEF LedgerShape
<1>2. \A f \in ledger' : f.hash.seq \in Nat
  BY DEF TypeOK, Event, Hash
<1>3. \E x \in ledger' : \A f \in ledger' : f.hash.seq <= x.hash.seq
  <2>1. CASE ledger = {}
    BY <1>2, <2>1
  <2>2. CASE ledger # {}
    <3>1. PICK l \in ledger : \A f \in ledger : f.hash.seq <= l.hash.seq
      BY <2>2 DEF LedgerShape
    <3>2. CASE l.hash.seq <= e.hash.seq
      BY <1>2, <3>1, <3>2
    <3>3. CASE ~(l.hash.seq <= e.hash.seq)
      BY <1>2, <3>1, <3>3
    <3> QED
      BY <3>2, <3>3
  <2> QED
    BY <2>1, <2>2
<1> QED
  BY <1>1, <1>3 DEF LedgerShape

\* A thread's number is that of a request.
LEMMA NumberIsId ==
  ASSUME TypeOK, Numbered, NEW r \in Request, Active(r)
  PROVE  thread[r].id \in Id
BY LifecycleAssumption DEF LifecycleAssumption, TypeOK, Numbered, Id

\* The event a handler links, by its request, and what it is.
LEMMA HandlerEvent ==
  ASSUME TypeOK, Sequenced, Numbered, NEW r \in Request, InsertEvent(r)
  PROVE  LET e == Link(thread[r].tail, thread[r].id, thread[r].type)
         IN  /\ ledger' = ledger \/ (ledger' = ledger \cup {e} /\ ~SequenceTaken(thread[r].tail))
             /\ e \in Event /\ e.hash.seq = thread[r].tail.seq + 1 /\ e.prev = thread[r].tail
             /\ e.hash.by = thread[r].id /\ e.hash.type = thread[r].type
<1>1. Active(r)
  BY DEF InsertEvent, At, Active, Todo
<1>2. thread[r].tail \in Hash /\ thread[r].type \in DOMAIN Steps \cup {"certificate"}
  BY <1>1, ThreadType DEF Thread, Sequenced
<1>3. thread[r].id \in 0..MaxRequests
  BY ThreadType DEF Thread
<1> QED
  BY <1>2, <1>3, LinkFacts DEF InsertEvent

\* The threads stay a function of the requests.
LEMMA ThreadsType ==
  ASSUME TypeOK, Sequenced, LedgerShape,
         \/ \E r \in Request : Handler(r)
         \/ \E r \in Request : Stop(r)
         \/ thread' = [r \in Request |-> Idle]
         \/ UNCHANGED thread
  PROVE  thread' \in [Request -> Thread]
<1>1. \A s \in Request : thread'[s] \in Thread
  BY AllMove DEF Moved
<1>2. \/ \E r \in Request : \E t : thread' = [thread EXCEPT ![r] = t]
      \/ thread' = [r \in Request |-> Idle]
      \/ UNCHANGED thread
  BY DEF Handler, Stop, GoOn, Proceed, FailOrStop, CreateWorkspace, InsertJob,
    GetWorkspace, ReadBlob, UseWorkspace, WriteBlob, InsertFile, InsertEntity,
    InsertMention, InsertOutput, RecordVerdict, UpdateStatus, ReadTail, InsertEvent,
    IssueCertificate
<1> QED
  BY <1>1, <1>2 DEF TypeOK

\* The types of the records, and the shape of the ledger.
LEMMA HandlerTypes ==
  ASSUME TypeOK, Triggered, LedgerShape, Sequenced, Numbered,
         NEW r \in Request, Handler(r)
  PROVE  TypeOK' /\ Triggered' /\ LedgerShape'
<1>1. \A s \in Request : Moved(s)
  BY AllMove
<1>2. Active(r) /\ thread[r].id \in Id
  BY HandlerMoves, NumberIsId DEF Active
<1>3. UNCHANGED <<receipt, eraser, phase, expired, started, faults, erased>>
  BY HandlerWrites
<1>4. thread' \in [Request -> Thread]
  BY ThreadsType
<1>5. files' \subseteq Id /\ files \subseteq files'
  BY <1>2, HandlerWrites DEF TypeOK, InsertFile
<1>6. outputs' \subseteq Id /\ outputs \subseteq outputs'
  BY <1>2, HandlerWrites DEF TypeOK, InsertOutput
<1>7. blobs' \subseteq Id /\ key' \in {"none", "live", "popped"}
  BY <1>2, HandlerWrites DEF TypeOK, WriteBlob, CreateWorkspace
<1>8. entities' \subseteq files'
  BY <1>5, HandlerWrites DEF TypeOK, InsertEntity
<1>9. safe' \subseteq outputs'
  BY <1>6, HandlerWrites DEF TypeOK, RecordVerdict
<1>10. certificates' \subseteq [output : outputs', by : Id]
  <2>1. certificates \subseteq [output : outputs', by : Id]
    BY <1>6 DEF TypeOK
  <2>2. CASE IssueCertificate(r) /\ thread[r].target \in outputs
    <3>1. [output |-> thread[r].target, by |-> thread[r].id] \in [output : outputs', by : Id]
      BY <1>2, <1>6, <2>2
    <3> QED
      BY <2>1, <2>2, <3>1 DEF IssueCertificate
  <2>3. CASE IssueCertificate(r) /\ thread[r].target \notin outputs
    BY <2>1, <2>3 DEF IssueCertificate
  <2> QED
    BY <2>1, <2>2, <2>3, HandlerWrites
<1>11. ledger' \subseteq Event /\ LedgerShape'
  <2>1. CASE ledger' = ledger
    BY <2>1 DEF TypeOK, LedgerShape
  <2>2. CASE InsertEvent(r)
    BY <2>1, <2>2, HandlerEvent, LedgerGrows DEF TypeOK
  <2> QED
    BY <2>1, <2>2, HandlerWrites
<1>12. status' \in {"ABSENT", "ACTIVE", "DESTROYED"}
  BY HandlerWrites DEF TypeOK
<1> QED
  BY <1>3, <1>4, <1>5, <1>6, <1>7, <1>8, <1>9, <1>10, <1>11, <1>12 DEF TypeOK, Triggered

\* A thread that has a call left is active; the next call is one that is left.
LEMMA HasFacts ==
  ASSUME NEW s \in Seq(Op)
  PROVE  /\ \A op : Has(s, op) => s # <<>>
         /\ \A op : s # <<>> /\ Head(s) = op => Has(s, op)
<1>1. s = <<>> => 1..Len(s) = {}
  OBVIOUS
<1> QED
  BY <1>1, TailHas DEF Has

\* What all threads keep when they move.
LEMMA MovedKeeps ==
  ASSUME TypeOK, Sequenced, Numbered, FreshFiles, UNCHANGED started,
         \A s \in Request : Moved(s)
  PROVE  /\ Sequenced'
         /\ \A s \in Request : WritesRow(s)' =>
              WritesRow(s) /\ thread'[s].target = thread[s].target
         /\ files' \subseteq 1..started => Numbered'
         /\ files' \subseteq files => FreshFiles'
<1>1. \A s \in Request : /\ Todo(s) \in Seq(Op) /\ Todo(s)' \in Seq(Op)
                         /\ \A op \in RowOp : Has(Todo(s)', op) => Has(Todo(s), op)
                         /\ \A op : Has(Todo(s)', op) => Active(s)'
  BY ThreadType, MovedHas, HasFacts DEF Moved, Thread, Todo, Active
<1>2. Sequenced'
  BY <1>1 DEF Sequenced, Moved, RowOp
<1>3. \A s \in Request : WritesRow(s)' =>
        WritesRow(s) /\ thread'[s].target = thread[s].target
  BY <1>1 DEF WritesRow, RowOp, Moved
<1>4. ASSUME files' \subseteq 1..started PROVE Numbered'
  BY <1>3, <1>4 DEF Numbered, Moved
<1>5. ASSUME files' \subseteq files PROVE FreshFiles'
  <2> SUFFICES ASSUME NEW s \in Request, Has(Todo(s)', "file_row")
               PROVE  /\ thread'[s].id \notin files'
                      /\ \A r \in Request : WritesRow(r)' => thread'[r].target # thread'[s].id
    BY DEF FreshFiles
  <2>1. Has(Todo(s), "file_row") /\ thread'[s].id = thread[s].id
    BY <1>1 DEF Moved, RowOp
  <2> QED
    BY <1>3, <1>5, <2>1 DEF FreshFiles
<1> QED
  BY <1>2, <1>3, <1>4, <1>5

\* The order of a handler's calls and the numbers of requests and files.
LEMMA HandlerNumbers ==
  ASSUME TypeOK, LedgerShape, Sequenced, Numbered, FreshFiles,
         NEW r \in Request, Handler(r)
  PROVE  Sequenced' /\ Numbered' /\ FreshFiles'
<1>1. /\ \A s \in Request : Moved(s)
      /\ UNCHANGED started /\ Todo(r) \in Seq(Op) /\ Active(r)
  BY AllMove, HandlerWrites, HandlerMoves, ThreadType DEF Active
<1>2. CASE files' = files
  BY <1>1, <1>2, MovedKeeps DEF Numbered
<1>3. CASE InsertFile(r)
  <2>1. files' = files \cup {thread[r].id} /\ GoOn(r) /\ At(r, "file_row")
    BY <1>3 DEF InsertFile
  <2>2. files' \subseteq 1..started
    BY <1>1, <2>1 DEF Numbered
  <2>3. ~Has(Todo(r)', "file_row") /\ Has(Todo(r), "file_row")
    BY <1>1, <2>1, GoOnMoves, TailInOrder, HasFacts DEF At, Todo, Active, Sequenced
  <2>4. FreshFiles'
    <3> SUFFICES ASSUME NEW s \in Request, Has(Todo(s)', "file_row")
                 PROVE  /\ thread'[s].id \notin files'
                        /\ \A q \in Request : WritesRow(q)' => thread'[q].target # thread'[s].id
      BY DEF FreshFiles
    <3>1. s # r
      BY <2>3
    <3>2. Has(Todo(s), "file_row") /\ Active(s) /\ thread'[s].id = thread[s].id
      BY <1>1, <3>1, ThreadType, MovedHas, HandlerMoves, HasFacts
        DEF RowOp, Others, Active, Todo
    <3>3. thread[s].id # thread[r].id
      BY <1>1, <3>1, <3>2 DEF Numbered
    <3> QED
      BY <1>1, <2>1, <3>2, <3>3, MovedKeeps DEF FreshFiles
  <2> QED
    BY <1>1, <2>2, <2>4, MovedKeeps
<1> QED
  BY <1>2, <1>3, HandlerWrites

\* Every row has its blob as long as the key is live.
LEMMA HandlerBlobs ==
  ASSUME KInv, TypeOK, LedgerShape, Sequenced, BlobsFirst, RowsHaveBlobs,
         NEW r \in Request, Handler(r)
  PROVE  BlobsFirst' /\ RowsHaveBlobs'
<1>1. /\ \A s \in Request : Moved(s)
      /\ Others(r) /\ Todo(r) \in Seq(Op) /\ Todo(r) # <<>>
      /\ Todo(r)' = Tail(Todo(r)) \/ Quiet(Todo(r)')
  BY AllMove, HandlerMoves, ThreadType
<1>2. \A s \in Request : \A op \in RowOp : Has(Todo(s)', op) => Has(Todo(s), op)
  BY <1>1, ThreadType, MovedHas
<1>3. /\ InsertFile(r) => At(r, "file_row") /\ Has(Todo(r), "file_row") /\ ~Has(Todo(r), "blob")
      /\ InsertOutput(r) => At(r, "output_row") /\ Has(Todo(r), "output_row") /\ ~Has(Todo(r), "blob")
  BY <1>1, HasFacts, TailInOrder DEF InsertFile, InsertOutput, At, Todo, Sequenced
<1>4. ASSUME status' = "ABSENT"
      PROVE  /\ files' = {} /\ outputs' = {}
             /\ \A s \in Request : ~Has(Todo(s)', "file_row") /\ ~Has(Todo(s)', "output_row")
  <2>1. status = "ABSENT"
    BY <1>4, HandlerWrites
  <2> QED
    BY <1>2, <1>3, <2>1, HandlerWrites DEF BlobsFirst, RowOp
<1>5. CASE CreateWorkspace(r)
  <2>1. status = "ABSENT" /\ status' = "ABSENT"
    BY <1>5 DEF CreateWorkspace, KInv, CreatesAlone, store, rows
  <2> QED
    BY <1>4, <2>1 DEF BlobsFirst, RowsHaveBlobs
<1>6. CASE key' = key
  <2>1. blobs \subseteq blobs'
    BY HandlerWrites DEF WriteBlob
  <2>2. ASSUME key = "live", NEW s \in Request,
               Has(Todo(s)', "file_row") \/ Has(Todo(s)', "output_row")
        PROVE  Has(Todo(s)', "blob") \/ thread'[s].id \in blobs'
    <3>1. Has(Todo(s), "blob") \/ thread[s].id \in blobs
      BY <1>2, <2>2 DEF BlobsFirst, RowOp
    <3>2. thread'[s].id = thread[s].id
      <4>1. Todo(s)' \in Seq(Op)
        BY <1>1 DEF Moved, Thread, Todo
      <4> QED
        BY <1>1, <2>2, <4>1, HasFacts DEF Moved, Active
    <3>3. CASE s # r
      BY <1>1, <2>1, <3>1, <3>2, <3>3 DEF Others, Todo
    <3>4. CASE s = r /\ Has(Todo(r), "blob") /\ ~Has(Todo(r)', "blob")
      <4>1. At(r, "blob")
        BY <1>1, <2>2, <3>4, TailHas DEF Quiet, RowOp, At, Todo
      <4>2. WriteBlob(r)
        BY <4>1, CallDecides
      <4> QED
        BY <2>2, <3>2, <3>4, <4>2 DEF WriteBlob, Usable
    <3> QED
      BY <2>1, <3>1, <3>2, <3>3, <3>4
  <2>3. key = "live" => files' \cup outputs' \subseteq blobs'
    <3>1. key = "live" /\ InsertFile(r) => thread[r].id \in blobs
      BY <1>3 DEF BlobsFirst
    <3>2. key = "live" /\ InsertOutput(r) => thread[r].id \in blobs
      BY <1>3 DEF BlobsFirst
    <3>3. key = "live" => files' \subseteq blobs
      BY <3>1, HandlerWrites DEF RowsHaveBlobs, InsertFile
    <3>4. key = "live" => outputs' \subseteq blobs
      BY <3>2, HandlerWrites DEF RowsHaveBlobs, InsertOutput
    <3> QED
      BY <2>1, <3>3, <3>4
  <2> QED
    BY <1>4, <1>6, <2>2, <2>3 DEF BlobsFirst, RowsHaveBlobs
<1> QED
  BY <1>5, <1>6, HandlerWrites

\* After the erasure no handler writes a row about persons.
LEMMA HandlerErased ==
  ASSUME KInv, TypeOK, LedgerShape, Sequenced, Numbered, FreshFiles,
         RowsStayErased, IdentityRowsStayErased, NEW r \in Request, Handler(r)
  PROVE  RowsStayErased' /\ IdentityRowsStayErased'
<1> SUFFICES ASSUME erased
             PROVE  /\ \A s \in Request : WritesRow(s)' =>
                         Has(Todo(s)', "read") \/ thread'[s].target \notin files'
                    /\ entities' = {} /\ outputs' = {} /\ certificates' = {}
  BY HandlerWrites DEF RowsStayErased, IdentityRowsStayErased
<1>1. /\ \A s \in Request : Moved(s)
      /\ Others(r) /\ Todo(r) \in Seq(Op) /\ Todo(r) # <<>>
      /\ Todo(r)' = Tail(Todo(r)) \/ Quiet(Todo(r)')
  BY AllMove, HandlerMoves, ThreadType
<1>2. entities = {} /\ outputs = {} /\ certificates = {} /\ key # "live"
  BY DEF IdentityRowsStayErased, KInv, Beyond
<1>3. \A s \in Request : WritesRow(s) => Has(Todo(s), "read") \/ thread[s].target \notin files
  BY DEF RowsStayErased
<1>4. ASSUME NEW s \in Request, WritesRow(s)'
      PROVE  Has(Todo(s)', "read") \/ thread'[s].target \notin files'
  <2>1. WritesRow(s) /\ thread'[s].target = thread[s].target
    BY <1>1, <1>4, MovedKeeps, HandlerWrites
  <2>2. CASE thread[s].target \notin files
    <3>1. InsertFile(r) => Has(Todo(r), "file_row")
      BY <1>1, HasFacts DEF InsertFile, At, Todo
    <3>2. InsertFile(r) => thread[s].target # thread[r].id
      BY <2>1, <3>1 DEF FreshFiles
    <3>3. files' = files \/ (InsertFile(r) /\ files' = files \cup {thread[r].id})
      BY HandlerWrites DEF InsertFile
    <3>4. thread[s].target \notin files'
      BY <2>2, <3>2, <3>3
    <3> QED
      BY <2>1, <3>4
  <2>3. CASE s # r /\ Has(Todo(s), "read")
    BY <1>1, <2>3 DEF Others, Todo
  <2>4. CASE s = r /\ Has(Todo(r), "read") /\ ~Has(Todo(r)', "read")
    <3>1. At(r, "read")
      BY <1>1, <1>4, <2>4, TailHas DEF Quiet, RowOp, At, Todo, WritesRow
    <3>2. FailOrStop(r)
      BY <1>2, <3>1, CallDecides DEF ReadBlob
    <3>3. Quiet(Todo(r)')
      BY <1>1, <3>2, JumpMoves, StopMoves, QuietFacts DEF FailOrStop
    <3> QED
      BY <1>4, <2>4, <3>3 DEF Quiet, RowOp, WritesRow
  <2> QED
    BY <1>3, <2>1, <2>2, <2>3, <2>4
<1>5. /\ InsertEntity(r) => thread[r].target \notin files
      /\ InsertOutput(r) => thread[r].target \notin files
  <2>1. ASSUME At(r, "entity_row") \/ At(r, "output_row")
        PROVE  WritesRow(r) /\ ~Has(Todo(r), "read")
    BY <1>1, <2>1, HasFacts, TailInOrder DEF At, Todo, WritesRow, Sequenced
  <2> QED
    BY <1>3, <2>1 DEF InsertEntity, InsertOutput
<1>6. entities' = {} /\ outputs' = {} /\ certificates' = {}
  BY <1>2, <1>5, HandlerWrites DEF InsertEntity, InsertOutput, IssueCertificate
<1> QED
  BY <1>4, <1>6

-----------------------------------------------------------------------------
(* the audit chain *)

\* An event that is linked to an event of an intact chain, with a sequence number
\* that is not taken, comes last.
LEMMA ChainGrows ==
  ASSUME TypeOK, LedgerShape, ChainValid, NEW e \in Event, e.prev \in Hashes,
         e.hash.seq = e.prev.seq + 1, ~SequenceTaken(e.prev),
         ledger' = ledger \cup {e}
  PROVE  ChainValid'
<1> DEFINE n == Cardinality(ledger)
           Seqs == {f.hash.seq : f \in ledger}
<1>1. n \in Nat /\ Seqs = 1..n
  BY FS_CardinalityType DEF LedgerShape, ChainValid
<1>2. e.prev.seq \in 0..n
  <2>1. CASE e.prev = Genesis
    BY <1>1, <2>1 DEF Genesis
  <2>2. CASE e.prev # Genesis
    <3>1. PICK f \in ledger : e.prev = f.hash
      BY <2>2 DEF Hashes
    <3>2. f.hash.seq \in 1..n
      BY <1>1
    <3> QED
      BY <1>1, <3>1, <3>2
  <2> QED
    BY <2>1, <2>2
<1>3. e.hash.seq \notin 1..n
  <2>1. e.hash.seq \notin Seqs
    BY DEF SequenceTaken
  <2> QED
    BY <1>1, <2>1
<1>4. e.hash.seq = n + 1
  BY <1>1, <1>2, <1>3
<1>5. e \notin ledger
  BY <1>1, <1>3
<1>6. Cardinality(ledger') = n + 1
  BY <1>5, FS_AddElement DEF LedgerShape
<1>7. {f.hash.seq : f \in ledger'} = 1..(n + 1)
  <2>1. {f.hash.seq : f \in ledger'} = Seqs \cup {n + 1}
    BY <1>4
  <2>2. 1..(n + 1) = (1..n) \cup {n + 1}
    BY <1>1
  <2> QED
    BY <1>1, <2>1, <2>2
<1>8. ASSUME NEW f \in ledger'
      PROVE  /\ f.prev.seq + 1 = f.hash.seq
             /\ f.prev \in {g.hash : g \in ledger'} \cup {Genesis}
  BY DEF ChainValid, Hashes
<1> QED
  BY <1>6, <1>7, <1>8 DEF ChainValid

\* No step of a handler breaks the chain or leaves a certificate without its event.
LEMMA HandlerChain ==
  ASSUME TypeOK, LedgerShape, Sequenced, Numbered, IdentityRowsStayErased,
         Chained, LedgerIntact, NEW r \in Request, Handler(r)
  PROVE  Chained' /\ LedgerIntact'
<1>1. /\ \A s \in Request : Moved(s)
      /\ Others(r) /\ Todo(r) \in Seq(Op) /\ Todo(r) # <<>>
      /\ Todo(r)' = Tail(Todo(r)) \/ Quiet(Todo(r)')
  BY AllMove, HandlerMoves, ThreadType
<1>2. UNCHANGED <<erased, eraser>>
  BY HandlerWrites
<1>3. ledger \subseteq ledger'
  BY HandlerWrites DEF InsertEvent
<1>4. Hashes \subseteq Hashes' /\ \A id : Logged(id) => Logged(id)'
  BY <1>3 DEF Hashes, Logged
<1>5. Chained'
  <2> SUFFICES ASSUME ~erased
               PROVE  /\ eraser'.tail \in Hashes'
                      /\ \A s \in Request :
                           /\ thread'[s].tail \in Hashes'
                           /\ Has(Todo(s)', "certificate") =>
                                EventFirst(Todo(s)') \/ Logged(thread[s].id)'
    BY <1>2 DEF Chained
  <2>1. \A s \in Request : thread'[s].tail \in Hashes'
    BY <1>1, <1>4, LastHashFacts DEF Moved, Chained, Hashes
  <2>2. ASSUME NEW s \in Request, Has(Todo(s)', "certificate")
        PROVE  EventFirst(Todo(s)') \/ Logged(thread[s].id)'
    <3>1. Has(Todo(s), "certificate") /\ thread'[s].id = thread[s].id
      <4>1. Todo(s)' \in Seq(Op)
        BY <1>1 DEF Moved, Thread, Todo
      <4> QED
        BY <1>1, <2>2, <4>1, ThreadType, MovedHas, HasFacts DEF RowOp, Moved, Active
    <3>2. EventFirst(Todo(s)) \/ Logged(thread[s].id)
      BY <3>1 DEF Chained
    <3>3. CASE Logged(thread[s].id)
      BY <1>4, <3>1, <3>3
    <3>4. CASE s # r /\ EventFirst(Todo(s))
      BY <1>1, <3>4 DEF Others, Todo
    <3>5. CASE s = r /\ EventFirst(Todo(r))
      <4>1. Todo(r)' = Tail(Todo(r))
        BY <1>1, <2>2, <3>5 DEF Quiet, RowOp
      <4>2. CASE At(r, "event")
        <5>1. InsertEvent(r)
          BY <4>2, CallDecides
        <5>2. ~Stop(r)
          BY <1>1, <2>2, <3>5, StopMoves, HasFacts, ThreadType DEF Active, Moved, Thread, Todo
        <5>3. ledger' = ledger \cup {Link(thread[r].tail, thread[r].id, thread[r].type)}
          BY <5>1, <5>2 DEF InsertEvent
        <5>4. thread[r].type = "verify"
          BY <3>1, <3>5 DEF Sequenced
        <5> QED
          BY <3>1, <3>5, <5>1, <5>3, <5>4, HandlerEvent DEF Logged
      <4>3. CASE ~At(r, "event")
        BY <1>1, <3>5, <4>1, <4>3, TailInOrder DEF At, Todo, Sequenced
      <4> QED
        BY <4>2, <4>3
    <3> QED
      BY <3>2, <3>3, <3>4, <3>5
  <2> QED
    BY <1>2, <1>4, <2>1, <2>2 DEF Chained
<1>6. ~erased => ChainValid'
  <2>1. CASE ledger' = ledger
    BY <2>1 DEF LedgerIntact, ChainValid
  <2>2. CASE ledger' # ledger /\ InsertEvent(r) /\ ~erased
    <3> DEFINE e == Link(thread[r].tail, thread[r].id, thread[r].type)
    <3>1. /\ ledger' = ledger \cup {e} /\ ~SequenceTaken(e.prev)
          /\ e \in Event /\ e.hash.seq = e.prev.seq + 1 /\ e.prev = thread[r].tail
      BY <2>2, HandlerEvent
    <3>2. e.prev \in Hashes /\ ChainValid
      BY <2>2, <3>1 DEF Chained, LedgerIntact
    <3> HIDE DEF e
    <3> QED
      BY <3>1, <3>2, ChainGrows
  <2> QED
    BY <2>1, <2>2, HandlerWrites
<1>7. ASSUME NEW c \in certificates' PROVE Logged(c.by)'
  <2>1. CASE c \in certificates
    BY <1>4, <2>1 DEF LedgerIntact, Logged
  <2>2. CASE c \notin certificates
    <3>1. /\ At(r, "certificate") /\ thread[r].target \in outputs
          /\ c.by = thread[r].id
      <4> DEFINE new == [output |-> thread[r].target, by |-> thread[r].id]
      <4>1. IssueCertificate(r)
        BY <1>7, <2>2, HandlerWrites
      <4>2. At(r, "certificate") /\ thread[r].target \in outputs
        BY <1>7, <2>2, <4>1 DEF IssueCertificate
      <4>3. certificates' \subseteq certificates \cup {new}
        BY <4>1, <4>2 DEF IssueCertificate
      <4>4. c = new
        BY <1>7, <2>2, <4>3
      <4> QED
        BY <4>2, <4>4
    <3>2. ~erased
      BY <3>1 DEF IdentityRowsStayErased
    <3>3. Has(Todo(r), "certificate") /\ ~EventFirst(Todo(r))
      BY <1>1, <3>1, HasFacts, TailInOrder DEF At, Todo, Sequenced
    <3> QED
      BY <1>4, <3>1, <3>2, <3>3 DEF Chained
  <2> QED
    BY <2>1, <2>2
<1> QED
  BY <1>2, <1>5, <1>6, <1>7 DEF LedgerIntact, Logged

-----------------------------------------------------------------------------
(* the other steps *)

\* A request that begins: its number is new, and its file is there.
LEMMA BeginRInv ==
  ASSUME KInv, RInv, NEW r \in Request, BeginRequest(r)
  PROVE  RInv'
<1>1. PICK k \in DOMAIN Steps, target \in Id \cup {None} :
        /\ Begin(r, k, target)
        /\ k # "create" => status = "ACTIVE"
        /\ k \in {"analyse", "transform"} => target \in files
  BY DEF BeginRequest, BeginCreate, BeginUpload, BeginAnalyse, BeginReview,
    BeginTransform, BeginVerify, BeginExport, JobIsOpen, Steps, RInv, TypeOK
<1>2. Steps[k] \in Seq(Op) /\ Steps[k] # <<>>
  BY StepsFacts
<1> DEFINE t == [type |-> k, id |-> started + 1, target |-> target,
                 todo |-> Steps[k], tail |-> Genesis]
<1>3. /\ thread[r] = Idle /\ thread' = [thread EXCEPT ![r] = t]
      /\ started' = started + 1 /\ started < MaxRequests
      /\ UNCHANGED <<rows, ledger, receipt, key, blobs, eraser, phase, expired, faults, erased>>
  BY <1>1 DEF Begin, store, rows, workspace
<1>4. /\ t.todo = Steps[k] /\ t.id = started + 1 /\ t.target = target
      /\ t.type = k /\ t.tail = Genesis
  OBVIOUS
<1>5. started \in Nat /\ started' \in 0..MaxRequests /\ started + 1 \in Id
  BY <1>3, LifecycleAssumption DEF LifecycleAssumption, RInv, TypeOK, Id
<1>6. t \in Thread
  <2>1. Genesis \in Hash
    BY LastHashFacts DEF RInv, Hashes
  <2>2. started + 1 \in 0..MaxRequests
    BY <1>3, <1>5
  <2> QED
    BY <1>2, <2>1, <2>2 DEF Thread
<1> HIDE DEF t
<1>7. /\ thread'[r] = t /\ Todo(r)' = Steps[k] /\ Others(r)
      /\ thread' \in [Request -> Thread]
  BY <1>3, <1>4, <1>6 DEF RInv, TypeOK, Todo, Others
<1>8. \A s \in Request \ {r} : thread'[s] = thread[s] /\ Todo(s)' = Todo(s)
  BY <1>7 DEF Others, Todo
<1>9. /\ status' = status /\ files' = files /\ entities' = entities /\ outputs' = outputs
      /\ safe' = safe /\ certificates' = certificates
  BY <1>3 DEF rows
<1>10. TypeOK' /\ Triggered' /\ LedgerShape'
  <2>1. /\ phase' = phase /\ expired' = expired /\ faults' = faults /\ erased' = erased
        /\ receipt' = receipt /\ ledger' = ledger /\ key' = key /\ blobs' = blobs
        /\ eraser' = eraser
    BY <1>3
  <2>2. Triggered' /\ LedgerShape'
    BY <2>1 DEF RInv, Triggered, LedgerShape
  <2>3. TypeOK
    BY DEF RInv
  <2>4. TypeOK'
    BY <1>5, <1>7, <1>9, <2>1, <2>3 DEF TypeOK
  <2> QED
    BY <2>2, <2>4
<1>11. Sequenced'
  <2>1. k # "idle"
    BY DEF Steps
  <2>2. ASSUME NEW s \in Request \ {r}
        PROVE  /\ InOrder(Todo(s)')
               /\ Active(s)' => thread'[s].type # "idle"
               /\ Has(Todo(s)', "certificate") => thread'[s].type = "verify"
    BY <1>8 DEF RInv, Sequenced, Active
  <2>3. /\ InOrder(Todo(r)')
        /\ thread'[r].type # "idle"
        /\ Has(Todo(r)', "certificate") => thread'[r].type = "verify"
    BY <1>4, <1>7, <2>1, StepsInOrder
  <2> QED
    BY <2>2, <2>3 DEF Sequenced
<1>12. WritesRow(r)' => target \in files /\ Has(Todo(r)', "read")
  BY <1>1, <1>7, StepsInOrder DEF WritesRow
<1>13. \A s \in Request \ {r} : WritesRow(s)' = WritesRow(s) /\ Active(s)' = Active(s)
  BY <1>8 DEF WritesRow, Active
<1>14. Numbered'
  <2>1. files' \subseteq 1..started' /\ 1..started \subseteq 1..started'
    BY <1>3, <1>5, <1>9 DEF RInv, Numbered
  <2>2. started + 1 \in 1..started' /\ started + 1 \notin 1..started
    BY <1>3, <1>5
  <2>3. \A s \in Request :
          /\ Active(s)' => thread'[s].id \in 1..started'
          /\ WritesRow(s)' => thread'[s].target \in 1..started'
    BY <1>4, <1>7, <1>8, <1>9, <1>12, <1>13, <2>1, <2>2 DEF RInv, Numbered
  <2>4. \A s \in Request \ {r} : Active(s)' => thread'[s].id \in 1..started
    BY <1>8, <1>13 DEF RInv, Numbered
  <2>5. \A s, q \in Request : Active(s)' /\ Active(q)' /\ s # q => thread'[s].id # thread'[q].id
    BY <1>4, <1>7, <1>8, <1>13, <2>2, <2>4 DEF RInv, Numbered
  <2> QED
    BY <2>1, <2>3, <2>5 DEF Numbered
<1>15. FreshFiles'
  <2> SUFFICES ASSUME NEW s \in Request, Has(Todo(s)', "file_row")
               PROVE  /\ thread'[s].id \notin files
                      /\ \A q \in Request : WritesRow(q)' => thread'[q].target # thread'[s].id
    BY <1>9 DEF FreshFiles
  <2>1. \A q \in Request : WritesRow(q)' => thread'[q].target \in 1..started
    BY <1>4, <1>7, <1>8, <1>12, <1>13 DEF RInv, Numbered
  <2>2. CASE s = r
    <3>1. thread'[s].id \notin 1..started
      BY <1>4, <1>5, <1>7, <2>2
    <3> QED
      BY <2>1, <3>1 DEF RInv, Numbered
  <2>3. CASE s # r
    <3>1. Has(Todo(s), "file_row") /\ thread'[s].id = thread[s].id
      BY <1>8, <2>3
    <3>2. thread[s].id \notin files
      BY <3>1 DEF RInv, FreshFiles
    <3> QED
      BY <1>4, <1>7, <1>8, <1>12, <1>13, <3>1, <3>2 DEF RInv, FreshFiles
  <2> QED
    BY <2>2, <2>3
<1>16. BlobsFirst' /\ RowsHaveBlobs'
  BY <1>1, <1>3, <1>7, <1>8, <1>9, StepsInOrder DEF RInv, BlobsFirst, RowsHaveBlobs
<1>17. RowsStayErased' /\ IdentityRowsStayErased'
  BY <1>3, <1>8, <1>9, <1>12, <1>13 DEF RInv, RowsStayErased, IdentityRowsStayErased
<1>18. Chained' /\ LedgerIntact'
  <2>1. /\ Hashes' = Hashes /\ Genesis \in Hashes /\ ChainValid' = ChainValid
        /\ \A id : Logged(id)' = Logged(id)
    BY <1>3 DEF Hashes, ChainValid, Logged
  <2>2. Has(Todo(r)', "certificate") => EventFirst(Todo(r)')
    BY <1>7, StepsInOrder
  <2>3. LedgerIntact'
    BY <1>3, <1>9, <2>1 DEF RInv, LedgerIntact
  <2>4. Chained'
    BY <1>3, <1>4, <1>7, <1>8, <2>1, <2>2 DEF RInv, Chained
  <2> QED
    BY <2>3, <2>4
<1> QED
  BY <1>10, <1>11, <1>14, <1>15, <1>16, <1>17, <1>18 DEF RInv

\* Steps that leave the rows alone, and threads alone or idle.
LEMMA OthersRows ==
  ASSUME RInv, UNCHANGED <<rows, started, erased>>,
         \A s \in Request : thread'[s] \in {thread[s], Idle},
         key' = "live" => key = "live" /\ blobs' = blobs
  PROVE  /\ Sequenced' /\ Numbered' /\ FreshFiles' /\ BlobsFirst' /\ RowsHaveBlobs'
         /\ RowsStayErased' /\ IdentityRowsStayErased'
<1>1. \A s \in Request : Moved(s)
  BY IdleMoves, RestMoves DEF RInv
<1>2. /\ status' = status /\ files' = files /\ entities' = entities
      /\ outputs' = outputs /\ certificates' = certificates
  BY DEF rows
<1>3. Sequenced' /\ Numbered' /\ FreshFiles'
  BY <1>1, <1>2, MovedKeeps DEF RInv, Numbered
<1>4. \A s \in Request, op \in RowOp : Has(Todo(s)', op) => thread'[s] = thread[s] /\ Has(Todo(s), op)
  <2>1. \A s \in Request : thread'[s] = Idle => Quiet(Todo(s)')
    BY IdleIsThread, QuietFacts DEF Todo
  <2> QED
    BY <2>1 DEF Quiet, Todo
<1>5. BlobsFirst' /\ RowsHaveBlobs'
  BY <1>2, <1>4 DEF RInv, BlobsFirst, RowsHaveBlobs, RowOp, Todo
<1>6. RowsStayErased' /\ IdentityRowsStayErased'
  BY <1>2, <1>4 DEF RInv, RowsStayErased, IdentityRowsStayErased, WritesRow, RowOp, Todo
<1> QED
  BY <1>3, <1>5, <1>6

\* If they leave the ledger alone as well, the chain is as it was.
LEMMA OthersChain ==
  ASSUME RInv, UNCHANGED <<ledger, certificates, erased>>, eraser'.tail \in Hashes \/ erased,
         \A s \in Request : thread'[s] \in {thread[s], Idle}
  PROVE  LedgerShape' /\ Chained' /\ LedgerIntact'
<1>1. /\ Hashes' = Hashes /\ Genesis \in Hashes /\ ChainValid' = ChainValid
      /\ \A id : Logged(id)' = Logged(id)
  BY DEF Hashes, ChainValid, Logged
<1>2. \A s \in Request : thread'[s] = Idle =>
        thread'[s].tail = Genesis /\ ~Has(Todo(s)', "certificate")
  BY IdleIsThread, QuietFacts DEF Todo, Quiet, RowOp
<1>3. Chained'
  BY <1>1, <1>2 DEF RInv, Chained, Todo
<1> QED
  BY <1>1, <1>3 DEF RInv, LedgerShape, LedgerIntact

\* A step of a handler keeps the whole invariant.
LEMMA HandlerRInv ==
  ASSUME KInv, RInv, NEW r \in Request, Handler(r)
  PROVE  RInv'
<1>1. TypeOK' /\ Triggered' /\ LedgerShape'
  BY HandlerTypes DEF RInv
<1>2. Sequenced' /\ Numbered' /\ FreshFiles'
  BY HandlerNumbers DEF RInv
<1>3. BlobsFirst' /\ RowsHaveBlobs'
  BY HandlerBlobs DEF RInv
<1>4. RowsStayErased' /\ IdentityRowsStayErased'
  BY HandlerErased DEF RInv
<1>5. Chained' /\ LedgerIntact'
  BY HandlerChain DEF RInv
<1> QED
  BY <1>1, <1>2, <1>3, <1>4, <1>5 DEF RInv

\* Steps that neither write rows nor the ledger: it is enough that they keep
\* the types and that the erasure's tail stays one of the chain.
LEMMA OthersRInv ==
  ASSUME RInv, UNCHANGED <<rows, ledger, started, erased>>,
         \A s \in Request : thread'[s] \in {thread[s], Idle},
         key' = "live" => key = "live" /\ blobs' = blobs,
         TypeOK', Triggered', eraser'.tail \in Hashes \/ erased
  PROVE  RInv'
<1>1. UNCHANGED <<ledger, certificates, started, erased>> /\ UNCHANGED rows
  BY DEF rows
<1>2. /\ Sequenced' /\ Numbered' /\ FreshFiles' /\ BlobsFirst' /\ RowsHaveBlobs'
      /\ RowsStayErased' /\ IdentityRowsStayErased'
  BY <1>1, OthersRows
<1>3. LedgerShape' /\ Chained' /\ LedgerIntact'
  BY <1>1, OthersChain
<1> QED
  BY <1>2, <1>3 DEF RInv

\* What the steps of the erasure leave as it is.
LEMMA EraserTypes ==
  ASSUME TypeOK, UNCHANGED <<rows, ledger, thread, process>>,
         receipt' \in Receipt \cup {None}, key' \in {"none", "live", "popped"},
         blobs' \subseteq Id, eraser' \in Eraser
  PROVE  TypeOK'
<1>1. /\ status' = status /\ files' = files /\ entities' = entities
      /\ outputs' = outputs /\ safe' = safe /\ certificates' = certificates
      /\ ledger' = ledger /\ thread' = thread /\ phase' = phase /\ expired' = expired
      /\ started' = started /\ faults' = faults /\ erased' = erased
  BY DEF rows, process
<1> QED
  BY <1>1 DEF TypeOK

\* An erasure that has not begun, or has ended.
LEMMA NoErasureFacts ==
  /\ NoErasure \in Eraser /\ NoErasure.pc = "idle" /\ NoErasure.tail = Genesis
  /\ \A trigger \in Trigger :
       [NoErasure EXCEPT !.pc = "tail", !.trigger = trigger] \in Eraser
<1>1. Genesis \in Hash
  BY LifecycleAssumption DEF LifecycleAssumption, Genesis, Hash
<1> QED
  BY <1>1 DEF NoErasure, Eraser

\* The erasure begins under its lock, for a job whose rows are there.
LEMMA BeginErasureRInv ==
  ASSUME RInv, NEW trigger \in Trigger, BeginErasure(trigger)
  PROVE  RInv'
<1> DEFINE e == [NoErasure EXCEPT !.pc = "tail", !.trigger = trigger]
<1>1. /\ eraser' = e /\ UNCHANGED <<store, workspace, thread, process>>
  BY DEF BeginErasure
<1>2. e \in Eraser /\ e.trigger \in Trigger /\ e.tail = Genesis
  BY NoErasureFacts DEF NoErasure
<1> HIDE DEF e
<1>3. /\ UNCHANGED <<rows, ledger, thread, process>> /\ UNCHANGED <<started, erased>>
      /\ receipt' = receipt /\ key' = key /\ blobs' = blobs
  BY <1>1 DEF store, workspace, process
<1>4. TypeOK'
  BY <1>1, <1>2, <1>3, EraserTypes DEF RInv, TypeOK
<1>5. Triggered'
  BY <1>1, <1>2 DEF Triggered
<1>6. eraser'.tail \in Hashes
  BY <1>1, <1>2 DEF Hashes
<1> QED
  BY <1>3, <1>4, <1>5, <1>6, OthersRInv

\* The event of the erasure continues the chain, or is not written.
LEMMA EraserAppendRInv ==
  ASSUME RInv, EraserAppend
  PROVE  RInv'
<1> DEFINE e == Link(eraser.tail, 0, eraser.trigger)
<1>1. /\ EraserAt("append") /\ UNCHANGED <<rows, receipt, workspace, thread, process>>
      /\ eraser' \in {[eraser EXCEPT !.pc = "unregister"], [eraser EXCEPT !.pc = "verify"]}
      /\ \/ ledger' = ledger
         \/ ledger' = ledger \cup {e} /\ ~SequenceTaken(eraser.tail)
  BY DEF EraserAppend
<1>2. eraser \in Eraser /\ eraser.tail \in Hash /\ eraser.trigger \in Trigger
  BY <1>1 DEF RInv, TypeOK, Triggered, EraserAt, Eraser
<1>3. eraser' \in Eraser /\ eraser'.trigger \in Trigger /\ eraser'.tail = eraser.tail
  BY <1>1, <1>2 DEF Eraser
<1>4. e \in Event /\ e.hash.seq = e.prev.seq + 1 /\ e.prev = eraser.tail
  BY <1>2, LinkFacts, LifecycleAssumption DEF LifecycleAssumption, RInv
<1> HIDE DEF e
<1>5. /\ UNCHANGED <<rows, thread, process>> /\ UNCHANGED <<started, erased>>
      /\ receipt' = receipt /\ key' = key /\ blobs' = blobs /\ certificates' = certificates
  BY <1>1 DEF rows, workspace, process
<1>6. CASE ledger' = ledger
  <2>1. TypeOK'
    BY <1>3, <1>5, <1>6, EraserTypes DEF RInv, TypeOK
  <2>2. Triggered'
    BY <1>3 DEF Triggered
  <2>3. eraser'.tail \in Hashes \/ erased
    BY <1>3 DEF RInv, Chained
  <2> QED
    BY <1>5, <1>6, <2>1, <2>2, <2>3, OthersRInv
<1>7. CASE ledger' = ledger \cup {e} /\ ~SequenceTaken(eraser.tail)
  <2>1. LedgerShape'
    BY <1>4, <1>7, LedgerGrows DEF RInv
  <2>2. TypeOK'
    <3>1. /\ status' = status /\ files' = files /\ entities' = entities
          /\ outputs' = outputs /\ safe' = safe /\ thread' = thread
          /\ phase' = phase /\ expired' = expired /\ started' = started
          /\ faults' = faults /\ erased' = erased
      BY <1>5 DEF rows, process
    <3>2. TypeOK /\ ledger' \subseteq Event
      BY <1>4, <1>7 DEF RInv, TypeOK
    <3> QED
      BY <1>3, <1>5, <3>1, <3>2 DEF TypeOK
  <2>3. Triggered'
    BY <1>3 DEF Triggered
  <2>4. /\ Sequenced' /\ Numbered' /\ FreshFiles' /\ BlobsFirst' /\ RowsHaveBlobs'
        /\ RowsStayErased' /\ IdentityRowsStayErased'
    BY <1>5, OthersRows
  <2>5. Hashes \subseteq Hashes' /\ \A id : Logged(id) => Logged(id)'
    BY <1>7 DEF Hashes, Logged
  <2>6. Chained'
    BY <1>3, <1>5, <2>5 DEF RInv, Chained, Todo
  <2>7. ~erased => ChainValid'
    <3>1. ~erased => e.prev \in Hashes /\ ChainValid
      BY <1>4 DEF RInv, Chained, LedgerIntact
    <3>2. TypeOK /\ LedgerShape
      BY DEF RInv
    <3> QED
      BY <1>4, <1>7, <3>1, <3>2, ChainGrows
  <2>8. \A c \in certificates' : Logged(c.by)'
    BY <1>5, <2>5 DEF RInv, LedgerIntact, Logged
  <2>9. LedgerIntact'
    BY <1>5, <2>7, <2>8 DEF LedgerIntact, Logged
  <2> QED
    BY <2>1, <2>2, <2>3, <2>4, <2>6, <2>9 DEF RInv
<1> QED
  BY <1>1, <1>6, <1>7

\* The other steps of the erasure before the rows go, and the receipt.
LEMMA EraserRInv ==
  ASSUME RInv,
         \/ EraserReadTail \/ EraserVerify \/ Unregister
         \/ WipeWorkspace \/ StoreReceipt
  PROVE  RInv'
<1>1. eraser \in Eraser /\ TypeOK
  BY DEF RInv, TypeOK
<1>2. LastHash \in Hashes /\ Hashes \subseteq Hash
  BY LastHashFacts DEF RInv
<1>3. Cardinality(ledger) \in Nat
  BY FS_CardinalityType DEF RInv, LedgerShape
<1>4. ChainValid \in BOOLEAN
  BY DEF ChainValid
<1>5. eraser' \in Eraser
  <2>1. CASE EraserReadTail
    BY <1>1, <1>2, <2>1 DEF EraserReadTail, Eraser
  <2>2. CASE EraserVerify
    <3> DEFINE v == ChainValid
               h == LastHash
               n == Cardinality(ledger)
    <3>1. v \in BOOLEAN /\ h \in Hash /\ n \in Nat
      BY <1>2, <1>3, <1>4
    <3>2. eraser' = [eraser EXCEPT !.pc = "unregister", !.valid = v, !.head = h, !.count = n]
      BY <2>2 DEF EraserVerify
    <3> HIDE DEF v, h, n
    <3> QED
      BY <1>1, <3>1, <3>2 DEF Eraser
  <2>3. CASE Unregister
    BY <1>1, <2>3 DEF Unregister, Eraser
  <2>4. CASE WipeWorkspace
    BY <1>1, <2>4 DEF WipeWorkspace, Eraser
  <2>5. CASE StoreReceipt
    BY <2>5, NoErasureFacts DEF StoreReceipt
  <2> QED
    BY <2>1, <2>2, <2>3, <2>4, <2>5
<1>6. /\ UNCHANGED <<rows, ledger, thread, process>> /\ UNCHANGED <<started, erased>>
  BY DEF EraserReadTail, EraserVerify, Unregister, WipeWorkspace, StoreReceipt, store, process
<1>7. /\ key' \in {"none", "live", "popped"} /\ blobs' \subseteq Id
      /\ key' = "live" => key = "live" /\ blobs' = blobs
  BY <1>1 DEF EraserReadTail, EraserVerify, Unregister, WipeWorkspace, StoreReceipt,
    workspace, TypeOK
<1>8. receipt' \in Receipt \cup {None}
  <2>1. CASE receipt' = receipt
    BY <1>1, <2>1 DEF TypeOK
  <2>2. CASE StoreReceipt
    <3>1. eraser.trigger \in Trigger
      BY <2>2 DEF StoreReceipt, EraserAt, RInv, Triggered
    <3> QED
      BY <1>1, <2>2, <3>1 DEF StoreReceipt, Eraser, Receipt
  <2> QED
    BY <2>1, <2>2 DEF EraserReadTail, EraserVerify, Unregister, WipeWorkspace, store
<1>9. TypeOK'
  BY <1>1, <1>5, <1>6, <1>7, <1>8, EraserTypes
<1>10. /\ eraser'.tail \in {eraser.tail, LastHash, Genesis}
       /\ eraser'.pc = "idle" \/ (eraser'.trigger = eraser.trigger /\ eraser.pc # "idle")
  BY <1>1, NoErasureFacts DEF EraserReadTail, EraserVerify, Unregister, WipeWorkspace,
    StoreReceipt, Eraser, EraserAt
<1>11. Triggered'
  BY <1>10 DEF RInv, Triggered
<1>12. eraser'.tail \in Hashes \/ erased
  BY <1>2, <1>10 DEF RInv, Chained, Hashes
<1> QED
  BY <1>6, <1>7, <1>9, <1>11, <1>12, OthersRInv

\* The rows go in one transaction, after the key and the ciphertext.
LEMMA DestroyRowsRInv ==
  ASSUME KInv, RInv, DestroyRows
  PROVE  RInv'
<1>1. /\ EraserAt("rows") /\ status' = "DESTROYED" /\ erased' = TRUE
      /\ files' = {} /\ entities' = {} /\ outputs' = {} /\ safe' = {}
      /\ certificates' = {} /\ ledger' = {}
      /\ eraser' = [eraser EXCEPT !.pc = "receipt"]
      /\ receipt' = receipt /\ key' = key /\ blobs' = blobs /\ thread' = thread
      /\ phase' = phase /\ expired' = expired /\ started' = started /\ faults' = faults
  BY DEF DestroyRows, workspace
<1>2. key' = "none"
  BY <1>1 DEF KInv, Beyond
<1>3. TypeOK /\ eraser \in Eraser
  BY DEF RInv, TypeOK
<1>4. eraser' \in Eraser /\ eraser'.trigger = eraser.trigger
  BY <1>1, <1>3 DEF Eraser
<1>5. TypeOK'
  BY <1>1, <1>3, <1>4 DEF TypeOK
<1>6. Triggered'
  BY <1>1, <1>4 DEF RInv, Triggered, EraserAt
<1>7. LedgerShape'
  BY <1>1, FS_EmptySet DEF LedgerShape
<1>8. \A s \in Request : Todo(s)' = Todo(s) /\ thread'[s] = thread[s]
  BY <1>1 DEF Todo
<1>9. Sequenced' /\ Numbered' /\ FreshFiles'
  <2>1. Sequenced'
    BY <1>8 DEF RInv, Sequenced, Active
  <2>2. Numbered'
    BY <1>1, <1>8 DEF RInv, Numbered, Active, WritesRow
  <2>3. FreshFiles'
    BY <1>1, <1>8 DEF RInv, FreshFiles, WritesRow
  <2> QED
    BY <2>1, <2>2, <2>3
<1>10. BlobsFirst' /\ RowsHaveBlobs'
  BY <1>1, <1>2 DEF BlobsFirst, RowsHaveBlobs
<1>11. RowsStayErased' /\ IdentityRowsStayErased'
  BY <1>1 DEF RowsStayErased, IdentityRowsStayErased
<1>12. Chained' /\ LedgerIntact'
  BY <1>1 DEF Chained, LedgerIntact
<1> QED
  BY <1>5, <1>6, <1>7, <1>9, <1>10, <1>11, <1>12 DEF RInv

\* Expiry, exceptions, a crash and the restart, and a step of the environment
\* that changes nothing here.
LEMMA EnvironmentRInv ==
  ASSUME RInv,
         \/ \E r \in Request : HandlerRaises(r)
         \/ EraserRaises \/ Expire \/ Crash \/ Serve \/ UNCHANGED vars
  PROVE  RInv'
<1>1. TypeOK /\ eraser \in Eraser /\ faults \in Nat
  BY LifecycleAssumption DEF LifecycleAssumption, RInv, TypeOK
<1>2. /\ UNCHANGED <<rows, ledger, started, erased>>
      /\ receipt' = receipt /\ blobs' = blobs
      /\ status' = status /\ files' = files /\ entities' = entities
      /\ outputs' = outputs /\ safe' = safe /\ certificates' = certificates
      /\ key' \in {key, "none"} /\ phase' \in {phase, "starting", "serving"}
      /\ expired' \in {expired, TRUE}
  BY DEF HandlerRaises, EraserRaises, Expire, Crash, Serve, vars, store, rows, workspace, process
<1>3. faults' \in 0..MaxFaults
  <2>1. faults' = faults \/ (faults < MaxFaults /\ faults' = faults + 1)
    BY DEF HandlerRaises, EraserRaises, Expire, Crash, Serve, Fault, vars, process
  <2> QED
    BY <1>1, <2>1, LifecycleAssumption DEF LifecycleAssumption, TypeOK
<1>4. \/ \E r \in Request : Stop(r)
      \/ thread' = [r \in Request |-> Idle]
      \/ UNCHANGED thread
  BY DEF HandlerRaises, EraserRaises, Expire, Crash, Serve, vars
<1>5. thread' \in [Request -> Thread]
  BY <1>4, ThreadsType DEF RInv
<1>6. \A s \in Request : thread'[s] \in {thread[s], Idle}
  BY <1>1, <1>4 DEF Stop, TypeOK
<1>7. eraser' \in {eraser, NoErasure, [eraser EXCEPT !.pc = "unregister"]}
  BY DEF HandlerRaises, EraserRaises, Expire, Crash, Serve, vars
<1>8. eraser' \in Eraser /\ eraser'.tail \in {eraser.tail, Genesis}
  BY <1>1, <1>7, NoErasureFacts DEF Eraser
<1>9. TypeOK'
  BY <1>1, <1>2, <1>3, <1>5, <1>8 DEF TypeOK
<1>10. Triggered'
  <2>1. \/ eraser' = eraser \/ eraser' = NoErasure
        \/ eraser' = [eraser EXCEPT !.pc = "unregister"] /\ eraser.pc # "idle"
    BY DEF HandlerRaises, EraserRaises, Expire, Crash, Serve, vars
  <2> QED
    BY <1>1, <2>1, NoErasureFacts DEF RInv, Triggered, Eraser
<1>11. eraser'.tail \in Hashes \/ erased
  BY <1>8 DEF RInv, Chained, Hashes
<1> QED
  BY <1>2, <1>6, <1>9, <1>10, <1>11, OthersRInv

-----------------------------------------------------------------------------
(* theorems *)

\* The initial state: nothing is stored and nobody works.
LEMMA InitRInv == Init => RInv
<1> SUFFICES ASSUME Init PROVE RInv
  OBVIOUS
<1>1. \A r \in Request : thread[r] = Idle /\ Todo(r) = <<>> /\ Quiet(Todo(r))
  BY IdleIsThread, QuietFacts DEF Init, Todo
<1>2. \A r \in Request : ~Active(r) /\ InOrder(Todo(r)) /\ \A op \in RowOp : ~Has(Todo(r), op)
  BY <1>1 DEF Quiet, Active
<1>3. /\ files = {} /\ outputs = {} /\ entities = {} /\ certificates = {} /\ ledger = {}
      /\ safe = {} /\ blobs = {} /\ receipt = None /\ key = "none" /\ ~erased
      /\ eraser = NoErasure
  BY DEF Init
<1>4. TypeOK
  <2>1. thread \in [Request -> Thread]
    BY IdleIsThread DEF Init
  <2>2. /\ phase = "serving" /\ expired = FALSE /\ status = "ABSENT" /\ erased = FALSE
        /\ started \in 0..MaxRequests /\ faults \in 0..MaxFaults
    BY LifecycleAssumption DEF LifecycleAssumption, Init
  <2>3. eraser \in Eraser
    BY <1>3, NoErasureFacts
  <2> QED
    BY <1>3, <2>1, <2>2, <2>3 DEF TypeOK
<1>5. Triggered /\ LedgerShape
  BY <1>3, NoErasureFacts, FS_EmptySet DEF Triggered, LedgerShape
<1>6. Sequenced /\ Numbered /\ FreshFiles
  BY <1>2, <1>3 DEF Sequenced, Numbered, FreshFiles, WritesRow, RowOp
<1>7. BlobsFirst /\ RowsHaveBlobs /\ RowsStayErased /\ IdentityRowsStayErased
  BY <1>2, <1>3 DEF BlobsFirst, RowsHaveBlobs, RowsStayErased, IdentityRowsStayErased, RowOp
<1>8. Chained
  BY <1>1, <1>2, <1>3, NoErasureFacts, IdleIsThread DEF Chained, Hashes, RowOp
<1>9. LedgerIntact
  <2>1. Cardinality(ledger) = 0 /\ {e.hash.seq : e \in ledger} = {} /\ 1..0 = {}
    BY <1>3, FS_EmptySet
  <2> QED
    BY <1>3, <2>1 DEF LedgerIntact, ChainValid
<1> QED
  BY <1>4, <1>5, <1>6, <1>7, <1>8, <1>9 DEF RInv

\* Every step keeps RInv, given that it starts in a state of KInv.
LEMMA NextRInv == KInv /\ RInv /\ [Next]_vars => RInv'
<1> SUFFICES ASSUME KInv, RInv, [Next]_vars PROVE RInv'
  OBVIOUS
<1>1. CASE \E r \in Request : BeginRequest(r)
  BY <1>1, BeginRInv
<1>2. CASE \E r \in Request : Handler(r)
  BY <1>2, HandlerRInv
<1>3. CASE DestroyJob \/ SweepExpired \/ SweepAfterRestart
  BY <1>3, BeginErasureRInv DEF DestroyJob, SweepExpired, SweepAfterRestart, Trigger
<1>4. CASE Erase
  BY <1>4, EraserAppendRInv, EraserRInv, DestroyRowsRInv DEF Erase
<1>5. CASE \/ \E r \in Request : HandlerRaises(r)
           \/ EraserRaises \/ Expire \/ Crash \/ Serve \/ UNCHANGED vars
  BY <1>5, EnvironmentRInv
<1> QED
  BY <1>1, <1>2, <1>3, <1>4, <1>5 DEF Next

\* In every reachable state both inductive invariants hold.
LEMMA AlwaysRInv == Spec => [](KInv /\ RInv)
<1>1. Init => KInv /\ RInv
  BY InitKInv, InitRInv
<1>2. KInv /\ RInv /\ [Next]_vars => KInv' /\ RInv'
  BY NextKInv, NextRInv
<1> QED
  BY <1>1, <1>2, PTL DEF Spec

\* Every variable of the job's database rows, workspace, threads and erasure
\* keeps its type; in particular safe outputs have rows, analysed files have
\* rows, and a certificate's output has one: the foreign keys hold in every
\* interleaving of the handlers with destroy_job_rows.
THEOREM JobTypesAreKept == Spec => []TypeOK
<1>1. RInv => TypeOK
  BY DEF RInv
<1> QED
  BY <1>1, AlwaysRInv, PTL

\* While the key of a job is registered, each of its files and outputs rows has
\* its encrypted blob: upload_file and transform_file write the blob first, and
\* the erasure takes the blobs only after it took the key.
THEOREM LiveRowsHaveBlobs == Spec => []RowsHaveBlobs
<1>1. RInv => RowsHaveBlobs
  BY DEF RInv
<1> QED
  BY <1>1, AlwaysRInv, PTL

\* However many threads append to the audit ledger at once, and whatever
\* exceptions end them, it has neither a gap nor a fork until the erasure; and no
\* certificate is stored without the VERIFICATION_COMPLETED event before it.
THEOREM LedgerStaysIntact == Spec => []LedgerIntact
<1>1. RInv => LedgerIntact
  BY DEF RInv
<1> QED
  BY <1>1, AlwaysRInv, PTL

\* After destroy_job_rows no handler that was still running writes canonical
\* entities, outputs or certificates again, not even one whose upload of the
\* file is itself overtaken.
THEOREM IdentitiesStayErased == Spec => []IdentityRowsStayErased
<1>1. RInv => IdentityRowsStayErased
  BY DEF RInv
<1> QED
  BY <1>1, AlwaysRInv, PTL

==============================================================================
