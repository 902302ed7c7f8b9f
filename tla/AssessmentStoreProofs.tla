------------------------ MODULE AssessmentStoreProofs ------------------------
(***************************************************************************)
(* Proofs about AssessmentStore, for any sets of keys, inputs and requests *)
(* and any lease and bounds.  The inductive invariant IInv strengthens the *)
(* safety properties with what a request knows about its row while it      *)
(* holds an attempt (HolderKnows): either its attempt is the row's, and    *)
(* then the row is PENDING with the lease the request computed, or its     *)
(* lease has already run out.                                              *)
(***************************************************************************)
EXTENDS AssessmentStore, TLAPS

\* What the row of a key satisfies on its own.
RowOK(k) ==
  /\ row[k].status = "ABSENT" <=> row[k].input = None
  /\ row[k].status = "COMPLETE" =>
       /\ row[k].result \in Assessment
       /\ row[k].result.input = row[k].input
       /\ row[k].result.createdAt + LeaseSeconds >= row[k].lease
  /\ row[k].status # "COMPLETE" => row[k].result = None

DeliveredOK(k) ==
  \A d \in delivered[k] :
    row[k].status = "COMPLETE" /\ d = <<row[k].input, row[k].result>>

\* A request that is under way has its arguments and a time in the past.
UnderWay(r) ==
  req[r].pc # "idle" =>
    req[r].key \in Key /\ req[r].input \in Input /\ req[r].now <= clock

HolderKnows(r) ==
  Holding(r) =>
    /\ row[req[r].key].input = req[r].input
    /\ req[r].attempt <= row[req[r].key].attempt
    /\ \/ /\ req[r].attempt = row[req[r].key].attempt
          /\ row[req[r].key].status = "PENDING"
          /\ row[req[r].key].lease = req[r].now + LeaseSeconds
       \/ /\ req[r].attempt # row[req[r].key].attempt
          /\ req[r].now + LeaseSeconds <= clock

\* What a request carries to complete() and to its response.
Carries(r) ==
  /\ req[r].pc = "completing" =>
       /\ req[r].result \in Assessment
       /\ req[r].result.input = req[r].input
       /\ req[r].result.createdAt >= req[r].now
  /\ req[r].pc = "responding" =>
       /\ row[req[r].key].status = "COMPLETE"
       /\ row[req[r].key].input = req[r].input
       /\ row[req[r].key].result = req[r].result

OneHolderPerAttempt ==
  \A r, s \in Request :
    Holding(r) /\ Holding(s) /\ req[r].key = req[s].key
      /\ req[r].attempt = req[s].attempt => r = s

IInv ==
  /\ TypeOK
  /\ \A k \in Key : RowOK(k) /\ DeliveredOK(k)
  /\ \A r \in Request : UnderWay(r) /\ HolderKnows(r) /\ Carries(r)
  /\ OneHolderPerAttempt

-----------------------------------------------------------------------------
\* Initially nothing is stored and nothing is under way.
LEMMA InitIInv == Init => IInv
<1> SUFFICES ASSUME Init PROVE IInv
  OBVIOUS
<1> USE StoreAssumption DEF Init, AbsentRow, IdleSlot
<1>1. TypeOK
  BY DEF TypeOK, Row, Local, Statuses
<1>2. QED
  BY <1>1 DEF IInv, RowOK, DeliveredOK, UnderWay, HolderKnows, Carries,
              OneHolderPerAttempt, Holding

\* Acquiring the next attempt of a key, new or expired, preserves IInv.
LEMMA AcquireIInv ==
  ASSUME IInv, NEW r \in Request, req[r].pc = "reserving",
         NEW n \in Nat, Acquire(r, n),
         \/ row[req[r].key].status = "ABSENT" /\ n = 1
         \/ /\ row[req[r].key].status = "PENDING"
            /\ SameInput(r) /\ Expired(r)
            /\ n = row[req[r].key].attempt + 1
  PROVE  IInv'
<1> DEFINE k == req[r].key
           new == [status |-> "PENDING", input |-> req[r].input, attempt |-> n,
                   lease |-> req[r].now + LeaseSeconds, result |-> None]
<1> USE StoreAssumption
<1>1. /\ k \in Key /\ req[r].input \in Input /\ req[r].now \in Nat
      /\ req[r].now <= clock
  BY DEF IInv, UnderWay, TypeOK, Local
<1>2. new \in Row
  BY <1>1 DEF Row, Statuses
<1>3. /\ row' = [row EXCEPT ![k] = new]
      /\ req' = [req EXCEPT ![r].pc = "executing", ![r].attempt = n]
      /\ UNCHANGED <<clock, delivered, crashes>>
  BY DEF Acquire
<1>4. TypeOK'
  <2> DEFINE slot == [req[r] EXCEPT !.pc = "executing", !.attempt = n]
  <2>1. req[r] \in Local /\ row \in [Key -> Row] /\ req \in [Request -> Local]
    BY DEF IInv, TypeOK
  <2>2. slot \in Local
    BY <2>1 DEF Local
  <2>3. req' = [req EXCEPT ![r] = slot]
    BY <1>3, <2>1
  <2> HIDE DEF slot
  <2>4. req' \in [Request -> Local]
    BY <2>1, <2>2, <2>3
  <2> HIDE DEF new
  <2>5. row' \in [Key -> Row]
    BY <1>1, <1>2, <1>3, <2>1
  <2> QED
    BY <1>3, <2>4, <2>5 DEF IInv, TypeOK
<1>5. \A j \in Key : j # k => row'[j] = row[j]
  BY <1>3 DEF IInv, TypeOK
<1>6. row'[k] = new
  BY <1>1, <1>3 DEF IInv, TypeOK
<1>7. \A s \in Request : s # r => req'[s] = req[s]
  BY <1>3 DEF IInv, TypeOK
<1>8. /\ req'[r].pc = "executing" /\ req'[r].attempt = n
      /\ req'[r].key = k /\ req'[r].input = req[r].input
      /\ req'[r].now = req[r].now /\ req'[r].result = req[r].result
  BY <1>3 DEF IInv, TypeOK, Local
<1>9. ASSUME NEW j \in Key PROVE RowOK(j)' /\ DeliveredOK(j)'
  <2>1. RowOK(j) /\ DeliveredOK(j)
    BY DEF IInv
  <2>2. CASE j = k
    BY <1>1, <1>3, <1>6, <2>1, <2>2 DEF RowOK, DeliveredOK, Row
  <2>3. CASE j # k
    BY <1>3, <1>5, <2>1, <2>3 DEF RowOK, DeliveredOK
  <2>4. QED
    BY <2>2, <2>3
<1>10. ASSUME NEW s \in Request, s # r
       PROVE  UnderWay(s)' /\ HolderKnows(s)' /\ Carries(s)'
  <2>1. UnderWay(s) /\ HolderKnows(s) /\ Carries(s)
    BY DEF IInv
  <2>2. UnderWay(s)' /\ req'[s] = req[s]
    BY <1>3, <1>7, <1>10, <2>1 DEF UnderWay
  <2>3. Holding(s) => req[s].key \in Key
    BY <2>1 DEF UnderWay, Holding
  <2>4. CASE req[s].key # k
    BY <1>3, <1>5, <2>1, <2>2, <2>3, <2>4 DEF HolderKnows, Carries, Holding, UnderWay
  <2>5. CASE req[s].key = k
    <3>1. Carries(s)'
      BY <1>6, <2>1, <2>2, <2>5 DEF Carries
    <3>2. RowOK(k)
      BY <1>1 DEF IInv
    <3>3. row[k] \in Row /\ req[s] \in Local /\ clock \in Nat
      BY <1>1 DEF IInv, TypeOK
    <3>4. HolderKnows(s)'
      <4>1. SUFFICES ASSUME Holding(s) PROVE HolderKnows(s)'
        BY <2>2 DEF Holding, HolderKnows
      <4>2. row[k].status = "PENDING" /\ SameInput(r) /\ Expired(r)
            /\ n = row[k].attempt + 1
        BY <1>1, <2>1, <2>5, <3>2, <3>3, <4>1
           DEF HolderKnows, RowOK, UnderWay, Holding, Local
      <4>3. /\ req[s].attempt <= row[k].attempt
            /\ req[s].now + LeaseSeconds <= clock
        BY <1>1, <2>1, <2>5, <3>3, <4>1, <4>2
           DEF HolderKnows, Expired, Row, Local
      <4>4. row'[k].input = req[s].input
        BY <1>6, <2>1, <2>5, <4>1, <4>2 DEF HolderKnows, SameInput
      <4>5. /\ req'[s] = req[s] /\ req[s].key = k
            /\ clock' = clock /\ row'[k].attempt = n
        <5>1. new.attempt = n
          OBVIOUS
        <5> HIDE DEF new, k
        <5> QED
          BY <1>3, <1>6, <2>2, <2>5, <5>1
      <4>6. req[s].attempt \in Nat /\ row[k].attempt \in Nat
        BY <3>3 DEF Row, Local
      <4>7. req[s].attempt <= n /\ req[s].attempt # n
        BY <4>2, <4>3, <4>6
      <4> HIDE DEF new, k
      <4>8. QED
        BY <4>3, <4>4, <4>5, <4>7 DEF HolderKnows
    <3>5. QED
      BY <2>2, <3>1, <3>4
  <2>6. QED
    BY <2>4, <2>5
<1>11. UnderWay(r)' /\ HolderKnows(r)' /\ Carries(r)'
  BY <1>1, <1>3, <1>6, <1>8 DEF UnderWay, HolderKnows, Carries, Holding
<1>12. OneHolderPerAttempt'
  <2>1. ASSUME NEW s \in Request, s # r, Holding(s), req[s].key = k
        PROVE  req[s].attempt # n
    <3>1. HolderKnows(s) /\ UnderWay(s) /\ RowOK(k)
      BY <1>1 DEF IInv
    <3>2. row[k] \in Row /\ req[s] \in Local
      BY <1>1 DEF IInv, TypeOK
    <3>3. QED
      BY <2>1, <3>1, <3>2, <1>1 DEF HolderKnows, RowOK, UnderWay, Holding, Row, Local
  <2>2. ASSUME NEW s \in Request, s # r PROVE Holding(s)' <=> Holding(s)
    BY <1>7, <2>2 DEF Holding
  <2>3. QED
    BY <1>7, <1>8, <2>1, <2>2 DEF IInv, OneHolderPerAttempt
<1>13. QED
  BY <1>4, <1>9, <1>10, <1>11, <1>12 DEF IInv

\* A step that only moves request r, and leaves it consistent with its row,
\* preserves IInv.
LEMMA SlotIInv ==
  ASSUME IInv, NEW r \in Request, TypeOK',
         row' = row, clock' = clock,
         \A s \in Request : s # r => req'[s] = req[s],
         \A k \in Key : DeliveredOK(k)',
         UnderWay(r)', HolderKnows(r)', Carries(r)',
         Holding(r)' => /\ Holding(r)
                        /\ req'[r].key = req[r].key
                        /\ req'[r].attempt = req[r].attempt
  PROVE  IInv'
<1>1. ASSUME NEW k \in Key PROVE RowOK(k)'
  BY DEF IInv, RowOK
<1>2. ASSUME NEW s \in Request PROVE UnderWay(s)' /\ HolderKnows(s)' /\ Carries(s)'
  <2>1. CASE s = r
    BY <2>1
  <2>2. CASE s # r
    BY <2>2 DEF IInv, UnderWay, HolderKnows, Carries, Holding
  <2>3. QED
    BY <2>1, <2>2
<1>3. OneHolderPerAttempt'
  BY DEF IInv, OneHolderPerAttempt, Holding
<1>4. QED
  BY <1>1, <1>2, <1>3 DEF IInv

\* Deciding the row of an active attempt, with a result or a failure,
\* preserves IInv: every other holder of the key is a superseded one.
LEMMA DecideIInv ==
  ASSUME IInv, NEW r \in Request, TypeOK',
         Holding(r), Active(r), ~Holding(r)',
         NEW v \in Row, row' = [row EXCEPT ![req[r].key] = v],
         v.status \in Terminal, v.input = row[req[r].key].input,
         v.attempt = row[req[r].key].attempt,
         v.status = "COMPLETE" =>
           /\ v.result \in Assessment /\ v.result.input = v.input
           /\ v.result.createdAt + LeaseSeconds >= v.lease,
         v.status = "FAILED" => v.result = None,
         clock' = clock, delivered' = delivered,
         \A s \in Request : s # r => req'[s] = req[s],
         UnderWay(r)', Carries(r)'
  PROVE  IInv'
<1> DEFINE k == req[r].key
<1> USE StoreAssumption
<1>1. /\ k \in Key /\ req[r].input \in Input
      /\ row'[k] = v
      /\ \A j \in Key : j # k => row'[j] = row[j]
  BY DEF IInv, UnderWay, TypeOK, Holding
<1>2. row[k].status = "PENDING" /\ row[k].attempt = req[r].attempt
      /\ row[k].input = req[r].input
  BY DEF Active, SameInput
<1>3. ASSUME NEW j \in Key PROVE RowOK(j)' /\ DeliveredOK(j)'
  <2>1. RowOK(j) /\ DeliveredOK(j)
    BY DEF IInv
  <2>2. CASE j = k
    BY <1>1, <1>2, <2>1, <2>2 DEF RowOK, DeliveredOK, Terminal
  <2>3. CASE j # k
    BY <1>1, <2>1, <2>3 DEF RowOK, DeliveredOK
  <2>4. QED
    BY <2>2, <2>3
<1>4. ASSUME NEW s \in Request, s # r
      PROVE  UnderWay(s)' /\ HolderKnows(s)' /\ Carries(s)'
  <2>1. UnderWay(s) /\ HolderKnows(s) /\ Carries(s) /\ req'[s] = req[s]
    BY <1>4 DEF IInv
  <2>2. CASE req[s].key # k
    BY <1>1, <2>1, <2>2 DEF UnderWay, HolderKnows, Carries, Holding
  <2>3. CASE req[s].key = k
    <3>1. Holding(s) => req[s].attempt # row[k].attempt
      BY <1>2, <1>4, <2>3 DEF IInv, OneHolderPerAttempt
    <3>2. QED
      BY <1>1, <1>2, <2>1, <2>3, <3>1 DEF UnderWay, HolderKnows, Carries, Holding
  <2>4. QED
    BY <2>2, <2>3
<1>5. OneHolderPerAttempt'
  BY DEF IInv, OneHolderPerAttempt, Holding
<1>6. UnderWay(r)' /\ HolderKnows(r)' /\ Carries(r)'
  BY DEF HolderKnows
<1>7. QED
  BY <1>3, <1>4, <1>5, <1>6 DEF IInv

-----------------------------------------------------------------------------
\* Every step preserves IInv.
LEMMA NextIInv == IInv /\ [Next]_vars => IInv'
<1> SUFFICES ASSUME IInv, [Next]_vars PROVE IInv'
  OBVIOUS
<1> USE StoreAssumption
<1>0. TypeOK /\ \A s \in Request : UnderWay(s) /\ HolderKnows(s) /\ Carries(s)
  BY DEF IInv
<1>1. ASSUME NEW r \in Request, NEW k \in Key, NEW i \in Input, Submit(r, k, i)
      PROVE  IInv'
  <2>1. TypeOK'
    BY <1>0, <1>1 DEF TypeOK, Submit, Local
  <2>2. UnderWay(r)' /\ HolderKnows(r)' /\ Carries(r)' /\ ~Holding(r)'
    BY <1>0, <1>1 DEF TypeOK, Submit, UnderWay, HolderKnows, Carries, Holding
  <2>3. QED
    BY <1>0, <1>1, <2>1, <2>2, SlotIInv DEF Submit, TypeOK, IInv, DeliveredOK
<1>2. ASSUME NEW r \in Request, ReserveNew(r) PROVE IInv'
  BY <1>2, AcquireIInv DEF ReserveNew
<1>3. ASSUME NEW r \in Request, TakeOver(r) PROVE IInv'
  <2>1. row[req[r].key].attempt + 1 \in Nat
    BY <1>0, <1>3 DEF TakeOver, TypeOK, UnderWay, Row
  <2>2. QED
    BY <1>3, <2>1, AcquireIInv DEF TakeOver
<1>4. ASSUME NEW r \in Request, Replay(r) PROVE IInv'
  <2>1. TypeOK'
    <3> DEFINE v == row[req[r].key].result
               slot == [req[r] EXCEPT !.pc = "responding", !.result = v]
    <3>1. req[r] \in Local /\ req \in [Request -> Local]
      BY <1>0 DEF TypeOK
    <3>2. v \in Assessment \cup {None}
      BY <1>0, <1>4 DEF TypeOK, Replay, UnderWay, Row
    <3> HIDE DEF v
    <3>3. slot \in Local
      BY <3>1, <3>2 DEF Local
    <3>4. req' = [req EXCEPT ![r] = slot]
      BY <1>4, <3>1 DEF Replay, v
    <3> HIDE DEF slot
    <3>5. req' \in [Request -> Local]
      BY <3>1, <3>3, <3>4
    <3> QED
      BY <1>0, <1>4, <3>5 DEF TypeOK, Replay
  <2>2. UnderWay(r)' /\ HolderKnows(r)' /\ Carries(r)' /\ ~Holding(r)'
    BY <1>0, <1>4 DEF TypeOK, Replay, SameInput, Local, UnderWay, HolderKnows,
                      Carries, Holding
  <2>3. QED
    BY <1>0, <1>4, <2>1, <2>2, SlotIInv DEF Replay, TypeOK, IInv, DeliveredOK
<1>5. ASSUME NEW r \in Request, req' = [req EXCEPT ![r] = IdleSlot],
             row' = row, clock' = clock, crashes' \in Nat,
             delivered' \in [Key -> SUBSET (Input \X Assessment)],
             \A k \in Key : DeliveredOK(k)'
      PROVE  IInv'
  <2>1. TypeOK'
    BY <1>0, <1>5 DEF TypeOK, IdleSlot, Local
  <2>2. UnderWay(r)' /\ HolderKnows(r)' /\ Carries(r)' /\ ~Holding(r)'
    BY <1>0, <1>5 DEF TypeOK, IdleSlot, UnderWay, HolderKnows, Carries, Holding
  <2>3. QED
    BY <1>0, <1>5, <2>1, <2>2, SlotIInv DEF TypeOK
<1>6. ASSUME NEW r \in Request, Refuse(r) PROVE IInv'
  BY <1>0, <1>5, <1>6 DEF Refuse, IInv, TypeOK, DeliveredOK
<1>7. ASSUME NEW r \in Request, Execute(r) PROVE IInv'
  <2>1. TypeOK'
    <3> DEFINE v == [input |-> req[r].input, createdAt |-> clock]
               slot == [req[r] EXCEPT !.pc = "completing", !.result = v]
    <3>1. req[r] \in Local /\ req \in [Request -> Local]
      BY <1>0 DEF TypeOK
    <3>2. v \in Assessment
      BY <1>0, <1>7 DEF TypeOK, Execute, UnderWay, Assessment
    <3> HIDE DEF v
    <3>3. slot \in Local
      BY <3>1, <3>2 DEF Local
    <3>4. req' = [req EXCEPT ![r] = slot]
      BY <1>7, <3>1 DEF Execute, v
    <3> HIDE DEF slot
    <3>5. req' \in [Request -> Local]
      BY <3>1, <3>3, <3>4
    <3> QED
      BY <1>0, <1>7, <3>5 DEF TypeOK, Execute
  <2>2. UnderWay(r)' /\ HolderKnows(r)' /\ Carries(r)'
        /\ Holding(r) /\ req'[r].key = req[r].key /\ req'[r].attempt = req[r].attempt
    BY <1>0, <1>7 DEF TypeOK, Execute, Local, UnderWay, HolderKnows, Carries,
                      Holding, Assessment
  <2>3. QED
    BY <1>0, <1>7, <2>1, <2>2, SlotIInv DEF Execute, TypeOK, IInv, DeliveredOK
<1>8. ASSUME NEW r \in Request, ExecuteRaises(r) \/ CompleteRaises(r) PROVE IInv'
  <2>1. TypeOK'
    BY <1>0, <1>8 DEF TypeOK, ExecuteRaises, CompleteRaises, Local
  <2>2. UnderWay(r)' /\ HolderKnows(r)' /\ Carries(r)'
        /\ Holding(r) /\ req'[r].key = req[r].key /\ req'[r].attempt = req[r].attempt
    BY <1>0, <1>8 DEF TypeOK, ExecuteRaises, CompleteRaises, Local, UnderWay,
                      HolderKnows, Carries, Holding
  <2>3. QED
    BY <1>0, <1>8, <2>1, <2>2, SlotIInv
       DEF ExecuteRaises, CompleteRaises, TypeOK, IInv, DeliveredOK
<1>9. ASSUME NEW r \in Request, Complete(r) PROVE IInv'
  <2> DEFINE k == req[r].key
             v == [row[k] EXCEPT !.status = "COMPLETE", !.result = req[r].result]
  <2>1. /\ k \in Key /\ req[r].result \in Assessment /\ row[k] \in Row
        /\ req[r] \in Local /\ Holding(r) /\ Active(r)
        /\ req[r].result.input = req[r].input
        /\ req[r].result.createdAt >= req[r].now
    BY <1>0, <1>9 DEF Complete, UnderWay, Carries, TypeOK, Holding
  <2>2. /\ row' = [row EXCEPT ![k] = v]
        /\ req' = [req EXCEPT ![r].pc = "responding"]
        /\ UNCHANGED <<clock, delivered, crashes>>
    BY <1>9 DEF Complete
  <2>3. /\ v \in Row /\ v.status = "COMPLETE" /\ v.result = req[r].result
        /\ v.input = row[k].input /\ v.attempt = row[k].attempt
        /\ v.lease = row[k].lease
    BY <2>1 DEF Row, Statuses
  <2>4. row[k].input = req[r].input /\ row[k].lease = req[r].now + LeaseSeconds
    BY <1>0, <2>1 DEF Active, SameInput, HolderKnows
  <2>5. v.result \in Assessment /\ v.result.input = v.input
        /\ v.result.createdAt + LeaseSeconds >= v.lease
    BY <2>1, <2>3, <2>4 DEF Assessment, Local
  <2>6. TypeOK'
    BY <1>0, <2>1, <2>2, <2>3 DEF TypeOK, Local
  <2>7. row'[k] = v /\ req'[r] = [req[r] EXCEPT !.pc = "responding"]
        /\ \A s \in Request : s # r => req'[s] = req[s]
    BY <1>0, <2>1, <2>2 DEF TypeOK
  <2>8. /\ req'[r].pc = "responding" /\ req'[r].key = k
        /\ req'[r].input = req[r].input /\ req'[r].now = req[r].now
        /\ req'[r].result = req[r].result
    BY <2>1, <2>7 DEF Local
  <2> HIDE DEF v
  <2>9. ~Holding(r)' /\ UnderWay(r)' /\ Carries(r)'
    BY <1>0, <2>1, <2>2, <2>3, <2>4, <2>7, <2>8 DEF Holding, UnderWay, Carries
  <2>10. QED
    BY <2>1, <2>2, <2>3, <2>5, <2>6, <2>7, <2>9, DecideIInv DEF Terminal
<1>10. ASSUME NEW r \in Request, Fail(r) PROVE IInv'
  <2> DEFINE k == req[r].key
             v == [row[k] EXCEPT !.status = "FAILED"]
  <2>1. CASE ~Active(r)
    BY <1>0, <1>5, <1>10, <2>1 DEF Fail, IInv, TypeOK, DeliveredOK
  <2>2. CASE Active(r)
    <3>1. k \in Key /\ row[k] \in Row /\ Holding(r) /\ RowOK(k)
      BY <1>0, <1>10 DEF Fail, UnderWay, TypeOK, Holding, IInv
    <3>2. /\ row' = [row EXCEPT ![k] = v]
          /\ req' = [req EXCEPT ![r] = IdleSlot]
          /\ UNCHANGED <<clock, delivered, crashes>>
      BY <1>10, <2>2 DEF Fail
    <3>3. /\ v \in Row /\ v.status = "FAILED" /\ v.result = None
          /\ v.input = row[k].input /\ v.attempt = row[k].attempt
      BY <2>2, <3>1 DEF Row, Statuses, RowOK, Active
    <3>4. TypeOK'
      BY <1>0, <3>1, <3>2, <3>3 DEF TypeOK, Local, IdleSlot
    <3>5. ~Holding(r)' /\ UnderWay(r)' /\ Carries(r)'
          /\ \A s \in Request : s # r => req'[s] = req[s]
      BY <1>0, <3>2 DEF TypeOK, IdleSlot, Holding, UnderWay, Carries
    <3> HIDE DEF v
    <3>6. QED
      BY <2>2, <3>1, <3>2, <3>3, <3>4, <3>5, DecideIInv DEF Terminal
  <2>3. QED
    BY <2>1, <2>2
<1>11. ASSUME NEW r \in Request, Respond(r) PROVE IInv'
  <2>1. /\ req[r].key \in Key /\ req[r].input \in Input
        /\ row[req[r].key].status = "COMPLETE"
        /\ row[req[r].key].input = req[r].input
        /\ row[req[r].key].result = req[r].result
        /\ row[req[r].key].result \in Assessment
    BY <1>0, <1>11 DEF Respond, UnderWay, Carries, IInv, RowOK
  <2>2. delivered' \in [Key -> SUBSET (Input \X Assessment)]
    BY <1>0, <1>11, <2>1 DEF Respond, TypeOK
  <2>3. ASSUME NEW k \in Key PROVE DeliveredOK(k)'
    BY <1>0, <1>11, <2>1 DEF Respond, TypeOK, DeliveredOK, IInv
  <2>4. QED
    BY <1>0, <1>5, <1>11, <2>2, <2>3 DEF Respond, TypeOK
<1>12. ASSUME NEW k \in Key, Lookup(k) PROVE IInv'
  <2>1. RowOK(k) /\ row[k].input \in Input /\ row[k].result \in Assessment
    BY <1>0, <1>12 DEF Lookup, IInv, RowOK, TypeOK, Row
  <2>2. TypeOK'
    BY <1>0, <1>12, <2>1 DEF Lookup, TypeOK
  <2>3. ASSUME NEW j \in Key PROVE RowOK(j)' /\ DeliveredOK(j)'
    BY <1>0, <1>12 DEF Lookup, TypeOK, DeliveredOK, IInv, RowOK
  <2>4. ASSUME NEW s \in Request PROVE UnderWay(s)' /\ HolderKnows(s)' /\ Carries(s)'
    BY <1>0, <1>12 DEF Lookup, UnderWay, HolderKnows, Carries, Holding
  <2>5. OneHolderPerAttempt'
    BY <1>12 DEF Lookup, IInv, OneHolderPerAttempt, Holding
  <2>6. QED
    BY <2>2, <2>3, <2>4, <2>5 DEF IInv
<1>13. ASSUME NEW r \in Request, Abandon(r) PROVE IInv'
  <2>1. ASSUME NEW k \in Key PROVE DeliveredOK(k)'
    BY <1>13 DEF Abandon, IInv, DeliveredOK
  <2>2. /\ crashes' \in Nat /\ row' = row /\ clock' = clock
        /\ req' = [req EXCEPT ![r] = IdleSlot]
        /\ delivered' \in [Key -> SUBSET (Input \X Assessment)]
    BY <1>0, <1>13 DEF Abandon, TypeOK
  <2>3. QED
    BY <1>5, <2>1, <2>2
<1>14. CASE Tick
  <2>1. TypeOK'
    BY <1>0, <1>14 DEF Tick, TypeOK
  <2>2. ASSUME NEW j \in Key PROVE RowOK(j)' /\ DeliveredOK(j)'
    BY <1>14 DEF Tick, DeliveredOK, IInv, RowOK
  <2>3. ASSUME NEW s \in Request PROVE UnderWay(s)' /\ HolderKnows(s)' /\ Carries(s)'
    BY <1>0, <1>14 DEF Tick, TypeOK, Local, UnderWay, HolderKnows, Carries, Holding
  <2>4. OneHolderPerAttempt'
    BY <1>14 DEF Tick, IInv, OneHolderPerAttempt, Holding
  <2>5. QED
    BY <2>1, <2>2, <2>3, <2>4 DEF IInv
<1>15. CASE UNCHANGED vars
  BY <1>15 DEF vars, IInv, TypeOK, RowOK, DeliveredOK, UnderWay, HolderKnows,
               Carries, OneHolderPerAttempt, Holding
<1>16. QED
  BY <1>1, <1>2, <1>3, <1>4, <1>6, <1>7, <1>8, <1>9, <1>10, <1>11, <1>12,
     <1>13, <1>14, <1>15 DEF Next, Step

-----------------------------------------------------------------------------
\* The inductive invariant holds throughout.
LEMMA Invariance == Spec => []IInv
  BY InitIInv, NextIInv, PTL DEF Spec

\* Every row, request and history keeps its type.
THEOREM TypeCorrect == Spec => []TypeOK
<1>1. IInv => TypeOK
  BY DEF IInv
<1>2. QED
  BY <1>1, Invariance, PTL

\* reserve() hands out at most one unexpired lease per key.
THEOREM LeaseExclusion == Spec => []SingleLiveHolder
<1>1. IInv => SingleLiveHolder
  <2> SUFFICES ASSUME IInv, NEW r \in Request, NEW s \in Request,
                      LiveHolder(r), LiveHolder(s), req[r].key = req[s].key
               PROVE  r = s
    BY DEF SingleLiveHolder
  <2>1. ASSUME NEW q \in Request, LiveHolder(q)
        PROVE  req[q].attempt = row[req[q].key].attempt
    <3>1. HolderKnows(q) /\ Holding(q) /\ clock < req[q].now + LeaseSeconds
      BY <2>1 DEF IInv, LiveHolder
    <3>2. req[q].now \in Nat /\ clock \in Nat
      BY StoreAssumption DEF IInv, TypeOK, Local
    <3>3. QED
      BY <3>1, <3>2, StoreAssumption DEF HolderKnows
  <2>2. QED
    BY <2>1 DEF IInv, OneHolderPerAttempt, LiveHolder
<1>2. QED
  BY <1>1, Invariance, PTL

\* A superseded attempt can neither complete nor fail the row of a newer one,
\* and what is stored was created within the last attempt.
THEOREM Fencing == Spec => []NewestAttemptDecides
<1>1. ASSUME IInv
      PROVE  \A r \in Request :
               Holding(r) /\ req[r].attempt = row[req[r].key].attempt
                 => row[req[r].key].status = "PENDING"
  BY <1>1 DEF IInv, HolderKnows
<1>2. ASSUME IInv
      PROVE  \A k \in Key : row[k].status = "COMPLETE" =>
               row[k].result.createdAt + LeaseSeconds >= row[k].lease
  BY <1>2 DEF IInv, RowOK
<1>3. IInv => NewestAttemptDecides
  BY <1>1, <1>2 DEF NewestAttemptDecides
<1>4. QED
  BY <1>3, Invariance, PTL

\* All callers of a key are given the assessment its row stores.
THEOREM CallersAgree == Spec => []DeliveredIsStored
<1>1. IInv => DeliveredIsStored
  BY DEF IInv, DeliveredIsStored, DeliveredOK, RowOK
<1>2. QED
  BY <1>1, Invariance, PTL

\* A decided row never changes again.
THEOREM Immutability == Spec => TerminalImmutable
<1>1. IInv /\ [Next]_vars =>
        [\A k \in Key : row[k].status \in Terminal => row'[k] = row[k]]_vars
  <2> SUFFICES ASSUME IInv, Next, NEW k \in Key, row[k].status \in Terminal
               PROVE  row'[k] = row[k]
    BY DEF vars
  <2>1. TypeOK /\ \A r \in Request : UnderWay(r)
    BY DEF IInv
  <2>2. ASSUME NEW r \in Request, NEW n \in Nat, Acquire(r, n),
               row[req[r].key].status \in {"ABSENT", "PENDING"}
        PROVE  row'[k] = row[k]
    BY <2>1, <2>2 DEF Acquire, TypeOK, Terminal
  <2>3. ASSUME NEW r \in Request, Step(r) PROVE row'[k] = row[k]
    <3>1. CASE ReserveNew(r)
      BY <2>2, <3>1 DEF ReserveNew
    <3>2. CASE TakeOver(r)
      <4>1. row[req[r].key].attempt + 1 \in Nat
        BY <2>1, <3>2 DEF TakeOver, TypeOK, UnderWay, Row
      <4>2. QED
        BY <2>2, <3>2, <4>1 DEF TakeOver
    <3>3. CASE Complete(r) \/ Fail(r)
      BY <2>1, <3>3 DEF Complete, Fail, Active, TypeOK, Terminal
    <3>4. CASE Replay(r) \/ Refuse(r) \/ Execute(r) \/ ExecuteRaises(r)
               \/ CompleteRaises(r) \/ Respond(r)
      BY <3>4 DEF Replay, Refuse, Execute, ExecuteRaises, CompleteRaises, Respond
    <3>5. QED
      BY <2>3, <3>1, <3>2, <3>3, <3>4 DEF Step
  <2>4. QED
    BY <2>3 DEF Next, Submit, Abandon, Lookup, Tick
<1>2. QED
  BY <1>1, Invariance, PTL DEF Spec, TerminalImmutable

-----------------------------------------------------------------------------
(* The store implements IdempotentExecution. *)

\* The refinement mapping, as named functions.
Bound == [k \in Key |-> row[k].input]
Decided == [k \in Key |->
              IF row[k].status \in Terminal THEN row[k].status ELSE "OPEN"]
Stored == [k \in Key |-> row[k].result]

\* Each action of the promise is one of its steps.
LEMMA PromiseSteps ==
  ASSUME NEW k \in Key
  PROVE  /\ \A i \in Input : Promise!Bind(k, i) => Promise!Next
         /\ \A v \in Assessment : Promise!Succeed(k, v) => Promise!Next
         /\ Promise!GiveUp(k) => Promise!Next
         /\ Promise!Deliver(k) => Promise!Next
  BY DEF Promise!Next

\* Acquiring a key binds an absent one and is invisible on a pending one.
LEMMA AcquireImplements ==
  ASSUME IInv, NEW r \in Request, NEW n \in Nat, Acquire(r, n),
         req[r].pc = "reserving",
         \/ row[req[r].key].status = "ABSENT"
         \/ row[req[r].key].status = "PENDING" /\ SameInput(r)
  PROVE  [Promise!Next]_(Promise!promise)
<1> DEFINE k == req[r].key
           new == [status |-> "PENDING", input |-> req[r].input, attempt |-> n,
                   lease |-> req[r].now + LeaseSeconds, result |-> None]
<1>1. /\ TypeOK /\ k \in Key /\ req[r].input \in Input /\ RowOK(k)
  BY DEF IInv, UnderWay
<1>2. row' = [row EXCEPT ![k] = new] /\ delivered' = delivered
  BY DEF Acquire
<1>3. /\ row'[k].input = req[r].input /\ row'[k].status = "PENDING"
      /\ row'[k].result = None
      /\ \A j \in Key : j # k => row'[j] = row[j]
  BY <1>1, <1>2 DEF TypeOK
<1>4. row[k].result = None /\ row[k].status \notin Terminal
  BY <1>1 DEF RowOK, Terminal
<1>5. Decided' = Decided /\ Stored' = Stored
  BY <1>1, <1>3, <1>4 DEF Decided, Stored, Terminal
<1>6. Bound' = [Bound EXCEPT ![k] = req[r].input]
  BY <1>1, <1>3 DEF Bound
<1>7. CASE row[k].status = "ABSENT"
  <2>1. Bound[k] = None
    BY <1>1, <1>7 DEF Bound, RowOK
  <2>2. PICK j \in Key, i \in Input : j = k /\ i = req[r].input
    BY <1>1
  <2>3. Promise!Bind(j, i)
    BY <1>2, <1>5, <1>6, <2>1, <2>2 DEF Promise!Bind, Bound, Decided, Stored
  <2>4. QED
    BY <2>3, PromiseSteps
<1>8. CASE row[k].status = "PENDING" /\ SameInput(r)
  <2>1. Bound' = Bound
    BY <1>1, <1>3, <1>8 DEF Bound, SameInput
  <2>2. QED
    BY <1>2, <1>5, <2>1 DEF Promise!promise, Bound, Decided, Stored
<1>9. QED
  BY <1>7, <1>8

\* Every step of the store is a step of the promise, or invisible to it.
LEMMA StepImplements ==
  IInv /\ [Next]_vars => [Promise!Next]_(Promise!promise)
<1> SUFFICES ASSUME IInv, [Next]_vars PROVE [Promise!Next]_(Promise!promise)
  OBVIOUS
<1>0. TypeOK /\ \A s \in Request : UnderWay(s) /\ HolderKnows(s) /\ Carries(s)
  BY DEF IInv
<1>1. ASSUME row' = row, delivered' = delivered
      PROVE  [Promise!Next]_(Promise!promise)
  BY <1>1 DEF Promise!promise
<1>2. ASSUME NEW r \in Request, ReserveNew(r) PROVE [Promise!Next]_(Promise!promise)
  BY <1>2, AcquireImplements DEF ReserveNew
<1>3. ASSUME NEW r \in Request, TakeOver(r) PROVE [Promise!Next]_(Promise!promise)
  <2>1. row[req[r].key].attempt + 1 \in Nat
    BY <1>0, <1>3 DEF TakeOver, TypeOK, UnderWay, Row
  <2>2. QED
    BY <1>3, <2>1, AcquireImplements DEF TakeOver
<1>4. ASSUME NEW r \in Request, Complete(r) PROVE [Promise!Next]_(Promise!promise)
  <2> DEFINE k == req[r].key
  <2>1. /\ k \in Key /\ req[r].result \in Assessment
        /\ req[r].result.input = row[k].input /\ row[k] \in Row
        /\ row[k].status = "PENDING" /\ delivered' = delivered
        /\ row' = [row EXCEPT ![k].status = "COMPLETE", ![k].result = req[r].result]
    BY <1>0, <1>4 DEF Complete, Active, SameInput, UnderWay, Carries, TypeOK
  <2>2. /\ row'[k].input = row[k].input /\ row'[k].status = "COMPLETE"
        /\ row'[k].result = req[r].result
        /\ \A j \in Key : j # k => row'[j] = row[j]
    BY <1>0, <2>1 DEF TypeOK, Row
  <2>3. Bound' = Bound
    <3>1. \A j \in Key : row'[j].input = row[j].input
      BY <2>2
    <3>2. QED
      BY <3>1 DEF Bound
  <2>4. Decided' = [Decided EXCEPT ![k] = "COMPLETE"] /\ Decided[k] = "OPEN"
    BY <2>1, <2>2 DEF Decided, Terminal
  <2>5. Stored' = [Stored EXCEPT ![k] = req[r].result]
    <3>1. \A j \in Key : row'[j].result = IF j = k THEN req[r].result
                                               ELSE row[j].result
      BY <2>2
    <3>2. QED
      BY <2>1, <3>1 DEF Stored
  <2>6. Bound[k] = req[r].result.input
    BY <2>1 DEF Bound
  <2>7. PICK j \in Key, v \in Assessment : j = k /\ v = req[r].result
    BY <2>1
  <2>8. Promise!Succeed(j, v)
    BY <2>1, <2>3, <2>4, <2>5, <2>6, <2>7
       DEF Promise!Succeed, Bound, Decided, Stored
  <2>9. QED
    BY <2>8, PromiseSteps
<1>5. ASSUME NEW r \in Request, Fail(r) PROVE [Promise!Next]_(Promise!promise)
  <2> DEFINE k == req[r].key
  <2>1. CASE ~Active(r)
    BY <1>1, <1>5, <2>1 DEF Fail
  <2>2. CASE Active(r)
    <3>1. /\ k \in Key /\ row[k] \in Row /\ RowOK(k)
          /\ row[k].status = "PENDING" /\ delivered' = delivered
          /\ row' = [row EXCEPT ![k].status = "FAILED"]
      BY <1>0, <1>5, <2>2 DEF Fail, Active, UnderWay, TypeOK, IInv
    <3>2. /\ row'[k].input = row[k].input /\ row'[k].status = "FAILED"
          /\ row'[k].result = row[k].result
          /\ \A j \in Key : j # k => row'[j] = row[j]
      BY <1>0, <3>1 DEF TypeOK, Row
    <3>3. Bound' = Bound /\ Stored' = Stored /\ Bound[k] # None
      BY <3>1, <3>2 DEF Bound, Stored, RowOK
    <3>4. Decided' = [Decided EXCEPT ![k] = "FAILED"] /\ Decided[k] = "OPEN"
      BY <3>1, <3>2 DEF Decided, Terminal
    <3>5. PICK j \in Key : j = k
      BY <3>1
    <3>6. Promise!GiveUp(j)
      BY <3>1, <3>3, <3>4, <3>5 DEF Promise!GiveUp, Bound, Decided, Stored
    <3>7. QED
      BY <3>6, PromiseSteps
  <2>3. QED
    BY <2>1, <2>2
<1>6. ASSUME NEW k \in Key, row[k].status = "COMPLETE", row' = row,
             delivered' = [delivered EXCEPT ![k] =
                             @ \cup {<<row[k].input, row[k].result>>}]
      PROVE  [Promise!Next]_(Promise!promise)
  <2>1. Decided[k] = "COMPLETE" /\ Bound[k] = row[k].input /\ Stored[k] = row[k].result
    BY <1>6 DEF Decided, Bound, Stored, Terminal
  <2>2. Bound' = Bound /\ Decided' = Decided /\ Stored' = Stored
    BY <1>6 DEF Decided, Bound, Stored
  <2>3. Promise!Deliver(k)
    BY <1>6, <2>1, <2>2 DEF Promise!Deliver, Bound, Decided, Stored
  <2>4. QED
    BY <2>3, PromiseSteps
<1>7. ASSUME NEW r \in Request, Respond(r) PROVE [Promise!Next]_(Promise!promise)
  BY <1>0, <1>6, <1>7 DEF Respond, UnderWay, Carries
<1>8. ASSUME NEW k \in Key, Lookup(k) PROVE [Promise!Next]_(Promise!promise)
  BY <1>6, <1>8 DEF Lookup
<1>9. ASSUME NEW r \in Request,
             \/ \E k \in Key, i \in Input : Submit(r, k, i)
             \/ Replay(r) \/ Refuse(r) \/ Execute(r) \/ ExecuteRaises(r)
             \/ CompleteRaises(r) \/ Abandon(r)
      PROVE  row' = row /\ delivered' = delivered
  BY <1>9 DEF Submit, Replay, Refuse, Execute, ExecuteRaises, CompleteRaises, Abandon
<1>10. CASE Tick \/ UNCHANGED vars
  BY <1>1, <1>10 DEF Tick, vars
<1>11. QED
  BY <1>1, <1>2, <1>3, <1>4, <1>5, <1>7, <1>8, <1>9, <1>10 DEF Next, Step

\* The store, with its leases, attempts, crashes and races, implements the
\* write-once promise of IdempotentExecution.
THEOREM Implementation == Spec => KeepsPromise
<1>1. Init => Promise!Init
  BY DEF Init, AbsentRow, Promise!Init, Terminal
<1>2. QED
  BY <1>1, Invariance, StepImplements, PTL DEF Spec, KeepsPromise, Promise!Spec
==============================================================================
