-------------------------- MODULE HeavyRequestsProofs --------------------------
(* Proofs about HeavyRequests, for any number of requests, permits,         *)
(* detections, outputs and restarts.  The admission controller is an        *)
(* independent part of the state: its lemmas come first and apply to        *)
(* its actions.  Types come first; the other invariants each concern a      *)
(* part of what the handlers read and write:                                *)
(*   KInv  the key file and who has read or created it,                     *)
(*   EInv  the regions excused from the QR rescan,                          *)
(*   PInv  the rows of an analysis and the handler that stores them.        *)
EXTENDS HeavyRequests, FiniteSetTheorems, SequenceTheorems, TLAPS

-----------------------------------------------------------------------------
(* The admission controller, for any number of requests and permits: none of *)
(* its actions loses or duplicates a permit, and none leaves a waiting       *)
(* request beside a free permit that nobody is about to hand on.             *)

AInv == AdmissionTypeOK /\ PermitsConserved /\ NoLostWakeup

-----------------------------------------------------------------------------
(* Sets of requests *)

\* The requests in a place are finitely many.
LEMMA PlacesAreFinite ==
  /\ \A place : IsFiniteSet(At(place))
  /\ IsFiniteSet(Owning)
<1>1. \A S \in SUBSET Request : IsFiniteSet(S)
  BY AdmissionAssumption, FS_Subset
<1>2. QED
  BY <1>1 DEF At, Owning

\* Waiters that are chosen become owners of a permit.
LEMMA AddOwners ==
  ASSUME NEW S \in SUBSET Request, NEW T \in SUBSET Request, S \cap T = {}
  PROVE  /\ IsFiniteSet(S) /\ IsFiniteSet(T)
         /\ Cardinality(S \cup T) = Cardinality(S) + Cardinality(T)
         /\ Cardinality(S) \in Nat /\ Cardinality(T) \in Nat
<1>1. IsFiniteSet(S) /\ IsFiniteSet(T)
  BY AdmissionAssumption, FS_Subset
<1>2. Cardinality(S \cup T) = Cardinality(S) + Cardinality(T) - Cardinality(S \cap T)
  BY <1>1, FS_Union
<1>3. Cardinality(S \cap T) = 0
  BY FS_EmptySet
<1>4. QED
  BY <1>1, <1>2, <1>3, FS_CardinalityType

\* One request more, or one less.
LEMMA OneMore ==
  ASSUME NEW S \in SUBSET Request, NEW r \in Request
  PROVE  /\ IsFiniteSet(S) /\ Cardinality(S) \in Nat
         /\ r \notin S => Cardinality(S \cup {r}) = Cardinality(S) + 1
         /\ r \in S => Cardinality(S \ {r}) = Cardinality(S) - 1 /\ Cardinality(S) > 0
<1>1. IsFiniteSet(S)
  BY AdmissionAssumption, FS_Subset
<1>2. Cardinality(S) \in Nat /\ (r \in S => Cardinality(S) # 0)
  BY <1>1, FS_CardinalityType, FS_EmptySet
<1>3. Cardinality(S \cup {r}) = IF r \in S THEN Cardinality(S) ELSE Cardinality(S) + 1
  BY <1>1, FS_AddElement
<1>4. Cardinality(S \ {r}) = IF r \in S THEN Cardinality(S) - 1 ELSE Cardinality(S)
  BY <1>1, FS_RemoveElement
<1>5. QED
  BY <1>1, <1>2, <1>3, <1>4

\* Woken moves r to its place and the chosen to "granted", nobody else.
LEMMA WokenPlaces ==
  ASSUME NEW r \in Request, NEW place \in {"out", "holding"},
         NEW chosen \in SUBSET At("waiting"), slot[r] # "waiting",
         slot \in [Request -> Places], slot' = Woken(r, place, chosen)
  PROVE  /\ slot' \in [Request -> Places]
         /\ At("waiting")' = At("waiting") \ chosen
         /\ At("granted")' = (At("granted") \ {r}) \cup chosen
         /\ At("revoked")' = At("revoked") \ {r}
         /\ At("holding")' = IF place = "holding" THEN At("holding") \cup {r}
                             ELSE At("holding") \ {r}
<1>1. \A x \in Request : slot'[x] = IF x = r THEN place
                                    ELSE IF x \in chosen THEN "granted" ELSE slot[x]
  BY DEF Woken
<1>2. r \notin chosen /\ chosen \subseteq Request /\ \A x \in chosen : slot[x] = "waiting"
  BY DEF At
<1>3. QED
  BY <1>1, <1>2 DEF At, Places, Woken

\* How many of the waiters are chosen.
LEMMA ChosenCount ==
  ASSUME NEW chosen, NEW permits \in Nat, FirstWaiting(chosen, permits)
  PROVE  /\ chosen \in SUBSET At("waiting") /\ chosen \in SUBSET Request
         /\ Cardinality(chosen) \in Nat /\ Cardinality(chosen) <= permits
         /\ Cardinality(chosen) = permits \/ chosen = At("waiting")
<1>1. chosen \in SUBSET At("waiting") /\ chosen \in SUBSET Request
  BY DEF FirstWaiting, At
<1>2. Cardinality(chosen) \in Nat
  BY <1>1, AdmissionAssumption, FS_Subset, FS_CardinalityType
<1>3. QED
  BY <1>1, <1>2 DEF FirstWaiting

-----------------------------------------------------------------------------
(* The actions *)

\* At the start all permits are free.
LEMMA InitAInv == AdmissionInit => AInv
<1> SUFFICES ASSUME AdmissionInit PROVE AInv
  OBVIOUS
<1>1. AdmissionTypeOK
  <2>1. queue \in Seq(Request) /\ slot \in [Request -> Places]
    BY EmptySeq DEF AdmissionInit, Places
  <2>2. QED
    BY <2>1, AdmissionAssumption DEF AdmissionInit, AdmissionTypeOK
<1>2. Owning = {} /\ At("holding") = {} /\ At("waiting") = {}
  BY DEF AdmissionInit, Owning, At
<1>3. Cardinality(Owning) = 0 /\ Cardinality(At("holding")) = 0
  BY <1>2, FS_EmptySet
<1>4. Limit \in Nat /\ value = Limit /\ active = 0
  BY AdmissionAssumption DEF AdmissionInit
<1>5. PermitsConserved
  BY <1>3, <1>4 DEF PermitsConserved
<1>6. NoLostWakeup
  BY <1>2 DEF NoLostWakeup
<1>7. QED
  BY <1>1, <1>5, <1>6 DEF AInv

\* A request that enters at once takes a free permit that nobody waits for.
LEMMA EnterSlotAInv == \A r \in Request : AInv /\ EnterSlot(r) => AInv'
<1> SUFFICES ASSUME AInv, NEW r \in Request, EnterSlot(r) PROVE AInv'
  OBVIOUS
<1>1. /\ value \in Nat /\ active \in Nat /\ slot \in [Request -> Places]
      /\ queue \in Seq(Request)
  BY DEF AInv, AdmissionTypeOK
<1>2. /\ slot[r] = "out" /\ slot' = [slot EXCEPT ![r] = "holding"]
      /\ value' = value - 1 /\ active' = active + 1 /\ queue' = queue
  BY DEF EnterSlot
<1>3. value # 0 /\ At("waiting") = {} /\ At("granted") = {} /\ At("revoked") = {}
  BY DEF EnterSlot, Locked, At
<1>4. AdmissionTypeOK'
  BY <1>1, <1>2, <1>3 DEF AdmissionTypeOK, Places
<1>5. /\ At("holding")' = At("holding") \cup {r} /\ r \notin At("holding")
      /\ At("waiting")' = {}
      /\ Owning' = Owning \cup {r} /\ r \notin Owning
  <2>1. \A x \in Request : slot'[x] = IF x = r THEN "holding" ELSE slot[x]
    BY <1>1, <1>2
  <2>2. QED
    BY <1>2, <1>3, <2>1 DEF At, Owning
<1>6. /\ Cardinality(At("holding")') = Cardinality(At("holding")) + 1
      /\ Cardinality(Owning') = Cardinality(Owning) + 1
      /\ Cardinality(Owning) \in Nat /\ Cardinality(At("holding")) \in Nat
  <2>1. At("holding") \in SUBSET Request /\ Owning \in SUBSET Request
    BY DEF At, Owning
  <2>2. QED
    BY <1>5, <2>1, OneMore
<1>7. PermitsConserved'
  BY <1>1, <1>2, <1>3, <1>6, AdmissionAssumption DEF AInv, PermitsConserved
<1>8. NoLostWakeup'
  BY <1>5 DEF NoLostWakeup
<1>9. QED
  BY <1>4, <1>7, <1>8 DEF AInv

\* Who finds a permit free joins the queue only behind a task about to run.
LEMMA JoinQueueAInv == \A r \in Request : AInv /\ JoinQueue(r) => AInv'
<1> SUFFICES ASSUME AInv, NEW r \in Request, JoinQueue(r) PROVE AInv'
  OBVIOUS
<1>1. /\ value \in Nat /\ active \in Nat /\ slot \in [Request -> Places]
      /\ queue \in Seq(Request)
  BY DEF AInv, AdmissionTypeOK
<1>2. /\ slot[r] = "out" /\ slot' = [slot EXCEPT ![r] = "waiting"]
      /\ value' = value /\ active' = active /\ queue' = Append(queue, r)
  BY DEF JoinQueue
<1>3. AdmissionTypeOK'
  BY <1>1, <1>2, AppendProperties DEF AdmissionTypeOK, Places
<1>4. \A x \in Request : slot'[x] = IF x = r THEN "waiting" ELSE slot[x]
  BY <1>1, <1>2
<1>5. /\ At("holding")' = At("holding") /\ Owning' = Owning
      /\ At("granted")' = At("granted") /\ At("revoked")' = At("revoked")
  BY <1>2, <1>4 DEF At, Owning
<1>6. PermitsConserved'
  BY <1>2, <1>5 DEF AInv, PermitsConserved
<1>7. NoLostWakeup'
  <2>1. CASE value = 0
    BY <1>1, <1>2, <2>1 DEF NoLostWakeup
  <2>2. CASE value # 0
    <3>1. At("waiting") \cup At("granted") \cup At("revoked") # {}
      BY <2>2 DEF JoinQueue, Locked, At
    <3>2. At("granted") \cup At("revoked") # {}
      BY <1>1, <2>2, <3>1 DEF AInv, NoLostWakeup
    <3>3. QED
      BY <1>5, <3>2 DEF NoLostWakeup
  <2>3. QED
    BY <2>1, <2>2
<1>8. QED
  BY <1>3, <1>6, <1>7 DEF AInv

\* A permit given too late stays with the task until it runs.
LEMMA GiveUpAInv == \A r \in Request : AInv /\ GiveUp(r) => AInv'
<1> SUFFICES ASSUME AInv, NEW r \in Request, GiveUp(r) PROVE AInv'
  OBVIOUS
<1>1. /\ value \in Nat /\ active \in Nat /\ slot \in [Request -> Places]
      /\ queue \in Seq(Request)
  BY DEF AInv, AdmissionTypeOK
<1> DEFINE place == IF slot[r] = "waiting" THEN "cancelled" ELSE "revoked"
<1>2. /\ slot[r] \in {"waiting", "granted"} /\ slot' = [slot EXCEPT ![r] = place]
      /\ value' = value /\ active' = active /\ queue' = queue
  BY DEF GiveUp
<1>3. AdmissionTypeOK'
  BY <1>1, <1>2 DEF AdmissionTypeOK, Places
<1>4. \A x \in Request : slot'[x] = IF x = r THEN place ELSE slot[x]
  BY <1>1, <1>2
<1>5. /\ At("holding")' = At("holding") /\ Owning' = Owning
      /\ At("waiting")' \subseteq At("waiting")
      /\ (At("granted") \cup At("revoked"))' = At("granted") \cup At("revoked")
  BY <1>2, <1>4 DEF At, Owning
<1>6. PermitsConserved' /\ NoLostWakeup'
  BY <1>2, <1>5 DEF AInv, PermitsConserved, NoLostWakeup
<1>7. QED
  BY <1>3, <1>6 DEF AInv

\* The queue without one of its futures is a queue.
LEMMA DequeueType ==
  ASSUME NEW r, queue \in Seq(Request), Dequeue(r)
  PROVE  queue' \in Seq(Request)
<1>1. PICK i \in DOMAIN queue :
        queue' = SubSeq(queue, 1, i - 1) \o SubSeq(queue, i + 1, Len(queue))
  BY DEF Dequeue
<1>2. i \in 1 .. Len(queue) /\ Len(queue) \in Nat
  BY LenProperties
<1>3. /\ SubSeq(queue, 1, i - 1) \in Seq(Request)
      /\ SubSeq(queue, i + 1, Len(queue)) \in Seq(Request)
  BY <1>2, SubSeqProperties
<1>4. QED
  BY <1>1, <1>3, ConcatProperties

\* The task that runs again hands on what it does not use.
LEMMA ResumeAInv == \A r \in Request : AInv /\ Resume(r) => AInv'
<1> SUFFICES ASSUME AInv, NEW r \in Request, Resume(r) PROVE AInv'
  OBVIOUS
<1>1. /\ value \in Nat /\ active \in Nat /\ slot \in [Request -> Places]
      /\ queue \in Seq(Request)
  BY DEF AInv, AdmissionTypeOK
<1> DEFINE free == value + (IF slot[r] = "revoked" THEN 1 ELSE 0)
           place == IF slot[r] = "granted" THEN "holding" ELSE "out"
<1>2. PICK chosen \in SUBSET At("waiting") :
        /\ slot[r] \in {"granted", "revoked", "cancelled"}
        /\ FirstWaiting(chosen, free)
        /\ value' = free - Cardinality(chosen)
        /\ slot' = Woken(r, place, chosen)
        /\ active' = active + (IF slot[r] = "granted" THEN 1 ELSE 0)
        /\ Dequeue(r)
  BY DEF Resume
<1>3. free \in Nat
  BY <1>1
<1>4. /\ chosen \in SUBSET Request
      /\ Cardinality(chosen) \in Nat /\ Cardinality(chosen) <= free
      /\ Cardinality(chosen) = free \/ chosen = At("waiting")
  <2> HIDE DEF free
  <2> QED
    BY <1>2, <1>3, ChosenCount
<1>5. /\ slot' \in [Request -> Places]
      /\ At("waiting")' = At("waiting") \ chosen
      /\ At("granted")' = (At("granted") \ {r}) \cup chosen
      /\ At("revoked")' = At("revoked") \ {r}
      /\ At("holding")' = IF place = "holding" THEN At("holding") \cup {r}
                          ELSE At("holding") \ {r}
  BY <1>1, <1>2, WokenPlaces
<1>6. value' \in Nat /\ active' \in Nat /\ queue' \in Seq(Request)
  BY <1>1, <1>2, <1>3, <1>4, DequeueType
<1>7. AdmissionTypeOK'
  BY <1>5, <1>6 DEF AdmissionTypeOK
<1> DEFINE rest == IF slot[r] = "revoked" THEN Owning \ {r} ELSE Owning
<1>8. /\ Owning' = rest \cup chosen /\ rest \cap chosen = {}
      /\ rest \in SUBSET Request /\ Owning \in SUBSET Request
      /\ slot[r] = "revoked" => r \in Owning
      /\ At("holding") \in SUBSET Request /\ (slot[r] # "holding" => r \notin At("holding"))
  BY <1>1, <1>2, <1>4, <1>5 DEF Owning, At
<1>9. /\ Cardinality(Owning') = Cardinality(rest) + Cardinality(chosen)
      /\ Cardinality(rest) = Cardinality(Owning) - (IF slot[r] = "revoked" THEN 1 ELSE 0)
      /\ Cardinality(Owning) \in Nat
  <2> HIDE DEF rest
  <2>1. Cardinality(Owning') = Cardinality(rest) + Cardinality(chosen)
    BY <1>4, <1>8, AddOwners
  <2> USE DEF rest
  <2>2. Cardinality(Owning) \in Nat
    BY <1>8, OneMore
  <2>3. CASE slot[r] = "revoked"
    <3>1. rest = Owning \ {r} /\ r \in Owning
      BY <1>8, <2>3
    <3>2. Cardinality(rest) = Cardinality(Owning) - 1
      BY <1>8, <3>1, OneMore
    <3>3. QED
      BY <2>1, <2>2, <2>3, <3>2
  <2>4. CASE slot[r] # "revoked"
    <3>1. rest = Owning
      BY <2>4
    <3> HIDE DEF rest
    <3>2. QED
      BY <2>1, <2>2, <2>4, <3>1
  <2>5. QED
    BY <2>3, <2>4
<1>10. Cardinality(At("holding")') = active'
  <2>1. CASE slot[r] = "granted"
    <3>1. At("holding")' = At("holding") \cup {r} /\ r \notin At("holding")
      BY <1>5, <1>8, <2>1
    <3>2. Cardinality(At("holding")') = Cardinality(At("holding")) + 1
      BY <1>8, <3>1, OneMore
    <3>3. QED
      BY <1>2, <2>1, <3>2 DEF AInv, PermitsConserved
  <2>2. CASE slot[r] # "granted"
    <3>1. At("holding")' = At("holding")
      BY <1>2, <1>5, <1>8, <2>2
    <3>2. QED
      BY <1>1, <1>2, <2>2, <3>1 DEF AInv, PermitsConserved
  <2>3. QED
    BY <2>1, <2>2
<1>11. PermitsConserved'
  <2>1. value' + Cardinality(Owning') = Limit
    <3>1. value + Cardinality(Owning) = Limit
      BY DEF AInv, PermitsConserved
    <3>2. value' = free - Cardinality(chosen)
      BY <1>2
    <3> HIDE DEF rest
    <3>3. QED
      BY <1>1, <1>4, <1>9, <3>1, <3>2
  <2>2. QED
    BY <1>6, <1>10, <2>1 DEF PermitsConserved
<1>12. NoLostWakeup'
  <2>1. CASE Cardinality(chosen) = free
    BY <1>2, <1>3, <1>4, <2>1 DEF NoLostWakeup
  <2>2. CASE chosen = At("waiting")
    BY <1>5, <2>2 DEF NoLostWakeup
  <2>3. QED
    BY <1>4, <2>1, <2>2
<1>13. QED
  BY <1>7, <1>11, <1>12 DEF AInv

\* The permit of a slot that ends goes to one waiter or is free.
LEMMA VacateAInv == \A r \in Request : AInv /\ Vacate(r) => AInv'
<1> SUFFICES ASSUME AInv, NEW r \in Request, Vacate(r) PROVE AInv'
  OBVIOUS
<1>1. /\ value \in Nat /\ active \in Nat /\ slot \in [Request -> Places]
      /\ queue \in Seq(Request)
  BY DEF AInv, AdmissionTypeOK
<1>2. PICK chosen \in SUBSET At("waiting") :
        /\ slot[r] = "holding"
        /\ FirstWaiting(chosen, 1)
        /\ value' = value + 1 - Cardinality(chosen)
        /\ slot' = Woken(r, "out", chosen)
        /\ active' = IF active = 0 THEN 0 ELSE active - 1
        /\ queue' = queue
  BY DEF Vacate
<1>3. /\ chosen \in SUBSET Request
      /\ Cardinality(chosen) \in Nat /\ Cardinality(chosen) <= 1
      /\ Cardinality(chosen) = 1 \/ chosen = At("waiting")
  BY <1>2, ChosenCount
<1>4. /\ slot' \in [Request -> Places]
      /\ At("waiting")' = At("waiting") \ chosen
      /\ At("granted")' = (At("granted") \ {r}) \cup chosen
      /\ At("revoked")' = At("revoked") \ {r}
      /\ At("holding")' = At("holding") \ {r}
  BY <1>1, <1>2, WokenPlaces
<1>5. /\ Owning' = (Owning \ {r}) \cup chosen /\ (Owning \ {r}) \cap chosen = {}
      /\ Owning \in SUBSET Request /\ At("holding") \in SUBSET Request
      /\ r \in Owning /\ r \in At("holding")
  BY <1>1, <1>2, <1>3, <1>4 DEF Owning, At
<1>6. /\ Cardinality(Owning') = Cardinality(Owning) - 1 + Cardinality(chosen)
      /\ Cardinality(Owning) \in Nat
  <2>1. Cardinality(Owning') = Cardinality(Owning \ {r}) + Cardinality(chosen)
    BY <1>3, <1>5, AddOwners
  <2>2. QED
    BY <1>5, <2>1, OneMore
<1>7. /\ Cardinality(At("holding")') = Cardinality(At("holding")) - 1
      /\ Cardinality(At("holding")) \in Nat /\ Cardinality(At("holding")) > 0
  BY <1>4, <1>5, OneMore
<1>8. AdmissionTypeOK'
  BY <1>1, <1>2, <1>3, <1>4 DEF AdmissionTypeOK
<1>9. PermitsConserved'
  <2>1. value + Cardinality(Owning) = Limit /\ active = Cardinality(At("holding"))
    BY DEF AInv, PermitsConserved
  <2>2. value' \in Nat
    BY <1>1, <1>2, <1>3
  <2>3. active' = Cardinality(At("holding")')
    BY <1>1, <1>2, <1>7, <2>1
  <2>4. value' + Cardinality(Owning') = Limit
    BY <1>1, <1>2, <1>3, <1>6, <2>1, AdmissionAssumption
  <2> QED
    BY <2>2, <2>3, <2>4 DEF PermitsConserved
<1>10. NoLostWakeup'
  <2>1. CASE chosen = At("waiting")
    BY <1>4, <2>1 DEF NoLostWakeup
  <2>2. CASE Cardinality(chosen) = 1 /\ value = 0
    BY <1>2, <2>2 DEF NoLostWakeup
  <2>3. CASE Cardinality(chosen) = 1 /\ value # 0
    <3>1. chosen # {}
      BY <2>3, FS_EmptySet
    <3>2. QED
      BY <1>4, <3>1 DEF NoLostWakeup
  <2>4. QED
    BY <1>3, <2>1, <2>2, <2>3
<1>11. QED
  BY <1>8, <1>9, <1>10 DEF AInv

-----------------------------------------------------------------------------

-----------------------------------------------------------------------------
(* Facts about one handler's step *)

Changed(r, local) ==
  /\ handler'[r] = local
  /\ \A s \in Request \ {r} : handler'[s] = handler[s]

\* A step of one handler changes its local variables only.
LEMMA BecomeType ==
  ASSUME NEW r \in Request, NEW local \in Local, handler \in [Handler -> Local],
         Become(r, local)
  PROVE  handler' \in [Handler -> Local] /\ Changed(r, local)
BY HeavyAssumption DEF Become, Changed

\* What a handler starts and ends with.
LEMMA EndedType == \A pc \in PCs : Ended(pc) \in Local
<1> SUFFICES ASSUME NEW pc \in PCs PROVE Ended(pc) \in Local
  OBVIOUS
<1>1. Fresh \in Local
  BY DEF Fresh, Local, PCs
<1>2. QED
  BY <1>1 DEF Ended, Local

\* A handler that leaves forgets what it has read.
LEMMA LeaveType ==
  ASSUME NEW r \in Request, handler \in [Handler -> Local], Leave(r)
  PROVE  handler' \in [Handler -> Local] /\ Changed(r, Ended("leaving"))
<1>1. Ended("leaving") \in Local
  BY EndedType DEF PCs
<1>2. QED
  BY <1>1, BecomeType DEF Leave

\* A handler that moves on changes its program counter only.
LEMMA GotoType ==
  ASSUME NEW r \in Request, NEW pc \in PCs, handler \in [Handler -> Local], Goto(r, pc)
  PROVE  handler' \in [Handler -> Local] /\ Changed(r, [handler[r] EXCEPT !.pc = pc])
<1>1. handler[r] \in Local
  BY HeavyAssumption
<1>2. [handler[r] EXCEPT !.pc = pc] \in Local
  BY <1>1 DEF Local
<1>3. QED
  BY <1>2, BecomeType DEF Goto

\* Detections are numbered from 1.
LEMMA DetectionType ==
  /\ Len(Detected) \in Nat /\ Detection = 1 .. Len(Detected)
  /\ \A i \in Detection :
       /\ Detected[i].entity \in Entity
       /\ Detected[i].review \in {"PENDING", "NOT_REQUIRED"}
<1> DEFINE S == [entity : Entity, kind : Kinds, review : {"PENDING", "NOT_REQUIRED"}]
<1>1. Detected \in Seq(S)
  BY ReviewAssumption
<1>2. Len(Detected) \in Nat /\ Detection = 1 .. Len(Detected)
  BY <1>1, LenProperties DEF Detection
<1>3. \A i \in 1 .. Len(Detected) : Detected[i] \in S
  BY <1>1, ElementOfSeq
<1>4. QED
  BY <1>2, <1>3

-----------------------------------------------------------------------------
(* Types *)

\* A handler that stores the rows of a detection has one.
NextOK ==
  \A r \in Request : handler[r].pc \in {"entity", "mention"} => handler[r].next \in Detection

\* A handler that verifies has an output.
TargetOK ==
  \A r \in Request : handler[r].pc \in {"verify", "record"} =>
    handler[r].output \in DOMAIN outputs

TInv == ReviewTypeOK /\ NextOK /\ TargetOK

\* What a step of a handler must show of its new local variables.
LEMMA LocalTInv ==
  ASSUME NEW r \in Request, NEW local \in Local, TInv,
         handler' \in [Handler -> Local], Changed(r, local),
         DOMAIN outputs \subseteq DOMAIN outputs',
         local.pc \in {"entity", "mention"} => local.next \in Detection,
         local.pc \in {"verify", "record"} => local.output \in DOMAIN outputs'
  PROVE  NextOK' /\ TargetOK'
<1>1. \A s \in Request : handler'[s] = IF s = r THEN local ELSE handler[s]
  BY DEF Changed
<1>2. QED
  BY <1>1 DEF TInv, NextOK, TargetOK, Detection

\* A handler that leaves shows it all.
LEMMA LeaveTInv ==
  ASSUME NEW r \in Request, TInv, Leave(r), DOMAIN outputs \subseteq DOMAIN outputs'
  PROVE  handler' \in [Handler -> Local] /\ NextOK' /\ TargetOK'
<1>1. handler' \in [Handler -> Local] /\ Changed(r, Ended("leaving"))
  BY LeaveType DEF TInv, ReviewTypeOK
<1>2. Ended("leaving") \in Local /\ Ended("leaving").pc = "leaving"
  BY EndedType DEF PCs, Ended, Fresh
<1>3. QED
  BY <1>1, <1>2, LocalTInv

\* So does one that goes on to a step that needs no detection or output.
LEMMA GotoTInv ==
  ASSUME NEW r \in Request, TInv, DOMAIN outputs \subseteq DOMAIN outputs',
         NEW pc \in PCs \ {"entity", "mention", "verify", "record"}, Goto(r, pc)
  PROVE  handler' \in [Handler -> Local] /\ NextOK' /\ TargetOK'
<1> DEFINE local == [handler[r] EXCEPT !.pc = pc]
<1>1. handler' \in [Handler -> Local] /\ Changed(r, local)
  BY GotoType DEF TInv, ReviewTypeOK
<1>2. handler[r] \in Local
  BY HeavyAssumption DEF TInv, ReviewTypeOK
<1>3. local \in Local /\ local.pc = pc
  BY <1>2 DEF Local
<1> HIDE DEF local
<1>4. QED
  BY <1>1, <1>3, LocalTInv

\* The steps of analyse_file keep the types.
LEMMA AnalyseTInv ==
  \A r \in Request :
    TInv /\ (CheckUnanalysed(r) \/ InsertEntity(r) \/ InsertMention(r)) => TInv'
<1> SUFFICES ASSUME TInv, NEW r \in Request,
                    CheckUnanalysed(r) \/ InsertEntity(r) \/ InsertMention(r)
             PROVE  TInv'
  OBVIOUS
<1> DEFINE i == handler[r].next
<1>1. ReviewTypeOK /\ handler[r] \in Local /\ r \in Handler
  BY HeavyAssumption DEF TInv, ReviewTypeOK
<1>2. ASSUME CheckUnanalysed(r) PROVE TInv'
  <2>1. handler' \in [Handler -> Local] /\ NextOK' /\ TargetOK'
    <3>1. CASE Leave(r)
      BY <1>2, <3>1, LeaveTInv DEF CheckUnanalysed, rows
    <3>2. CASE Detected # <<>> /\ Become(r, [handler[r] EXCEPT !.pc = "entity", !.next = 1])
      <4> DEFINE local == [handler[r] EXCEPT !.pc = "entity", !.next = 1]
      <4>1. local \in Local /\ local.pc = "entity" /\ local.next = 1
        BY <1>1 DEF Local, PCs
      <4>2. 1 \in Detection
        BY <3>2, DetectionType, ReviewAssumption, EmptySeq
      <4> HIDE DEF local
      <4>3. Become(r, local)
        BY <3>2 DEF local
      <4>4. handler' \in [Handler -> Local] /\ Changed(r, local)
        BY <1>1, <4>1, <4>3, BecomeType DEF ReviewTypeOK
      <4>5. QED
        BY <1>2, <4>1, <4>2, <4>4, LocalTInv DEF CheckUnanalysed, rows
    <3>3. QED
      BY <1>2, <3>1, <3>2 DEF CheckUnanalysed
  <2>2. QED
    BY <1>1, <1>2, <2>1 DEF TInv, ReviewTypeOK, CheckUnanalysed, rows, documents
<1>3. ASSUME InsertEntity(r) PROVE TInv'
  <2>1. i \in Detection
    BY <1>3 DEF TInv, NextOK, InsertEntity
  <2>2. handler' \in [Handler -> Local] /\ NextOK' /\ TargetOK'
    <3>1. CASE Leave(r)
      BY <1>3, <3>1, LeaveTInv DEF InsertEntity
    <3>2. CASE Goto(r, "mention")
      <4> DEFINE local == [handler[r] EXCEPT !.pc = "mention"]
      <4>1. handler' \in [Handler -> Local] /\ Changed(r, local)
        BY <1>1, <3>2, GotoType DEF ReviewTypeOK, PCs
      <4>2. local \in Local /\ local.pc = "mention" /\ local.next = i
        BY <1>1 DEF Local, PCs
      <4> HIDE DEF local
      <4>3. QED
        BY <1>3, <2>1, <4>1, <4>2, LocalTInv DEF InsertEntity
    <3>3. QED
      BY <1>3, <3>1, <3>2 DEF InsertEntity
  <2>3. entities' \subseteq EntityRow
    <3>1. [entity |-> Detected[i].entity, by |-> r] \in EntityRow
      BY <1>1, <2>1, DetectionType DEF EntityRow
    <3>2. entities' = entities
          \/ entities' = entities \cup {[entity |-> Detected[i].entity, by |-> r]}
      BY <1>3 DEF InsertEntity
    <3>3. QED
      BY <1>1, <3>1, <3>2 DEF ReviewTypeOK
  <2>4. QED
    BY <1>1, <1>3, <2>2, <2>3 DEF TInv, ReviewTypeOK, InsertEntity, documents
<1>4. ASSUME InsertMention(r) PROVE TInv'
  <2>1. i \in Detection
    BY <1>4 DEF TInv, NextOK, InsertMention
  <2>2. handler' \in [Handler -> Local] /\ NextOK' /\ TargetOK'
    <3>1. CASE Leave(r)
      BY <1>4, <3>1, LeaveTInv DEF InsertMention
    <3>2. CASE /\ i # Len(Detected)
               /\ Become(r, [handler[r] EXCEPT !.pc = "entity", !.next = i + 1])
      <4> DEFINE local == [handler[r] EXCEPT !.pc = "entity", !.next = i + 1]
      <4>1. i + 1 \in Detection /\ i + 1 \in Nat
        BY <2>1, <3>2, DetectionType
      <4>2. local \in Local /\ local.pc = "entity" /\ local.next = i + 1
        BY <1>1, <4>1 DEF Local, PCs
      <4>3. Become(r, local)
        BY <3>2
      <4> HIDE DEF local
      <4>4. handler' \in [Handler -> Local] /\ Changed(r, local)
        BY <1>1, <4>2, <4>3, BecomeType DEF ReviewTypeOK
      <4>5. QED
        BY <1>4, <4>1, <4>2, <4>4, LocalTInv DEF InsertMention
    <3>3. QED
      BY <1>4, <3>1, <3>2 DEF InsertMention
  <2>3. mentions' \subseteq MentionRow
    <3>1. [detection |-> i, by |-> r, review |-> Detected[i].review] \in MentionRow
      BY <1>1, <2>1, DetectionType DEF MentionRow
    <3>2. QED
      BY <1>1, <1>4, <3>1 DEF ReviewTypeOK, InsertMention
  <2>4. QED
    BY <1>1, <1>4, <2>2, <2>3 DEF TInv, ReviewTypeOK, InsertMention, documents
<1>5. QED
  BY <1>2, <1>3, <1>4

\* The detections of some mentions are detections.
LEMMA MentionDetections ==
  ASSUME ReviewTypeOK, NEW S \in SUBSET mentions
  PROVE  Detections(S) \in SUBSET Detection
BY DEF ReviewTypeOK, Detections, MentionRow

\* A review keeps them.
LEMMA ReviewTInv ==
  \A m \in mentions, decision \in {"PROTECT", "IGNORE"} :
    TInv /\ Review(m, decision) => TInv'
<1> SUFFICES ASSUME TInv, NEW m \in mentions, NEW decision \in {"PROTECT", "IGNORE"},
                    Review(m, decision)
             PROVE  TInv'
  OBVIOUS
<1>1. ReviewTypeOK /\ m \in MentionRow
  BY DEF TInv, ReviewTypeOK
<1>2. [m EXCEPT !.review = decision] \in MentionRow /\ m.detection \in Detection
  BY <1>1 DEF MentionRow
<1>3. mentions' \subseteq MentionRow /\ dismissed' \subseteq Detection
  BY <1>1, <1>2 DEF Review, ReviewTypeOK
<1>4. QED
  BY <1>1, <1>3 DEF TInv, ReviewTypeOK, NextOK, TargetOK, Review, documents

\* The steps of transform_file keep them.
LEMMA TransformTInv ==
  \A r \in Request :
    TInv /\ (PassGate(r) \/ ReadRows(r) \/ ReadRegions(r) \/ StoreOutput(r)) => TInv'
<1> SUFFICES ASSUME TInv, NEW r \in Request,
                    PassGate(r) \/ ReadRows(r) \/ ReadRegions(r) \/ StoreOutput(r)
             PROVE  TInv'
  OBVIOUS
<1>1. ReviewTypeOK /\ handler[r] \in Local /\ r \in Handler
  BY HeavyAssumption DEF TInv, ReviewTypeOK
<1>2. ASSUME PassGate(r) PROVE TInv'
  <2>1. Leave(r) \/ Goto(r, "rows")
    BY <1>2 DEF PassGate
  <2>2. handler' \in [Handler -> Local] /\ NextOK' /\ TargetOK'
    BY <1>2, <2>1, LeaveTInv, GotoTInv DEF PassGate, rows, PCs
  <2>3. QED
    BY <1>1, <1>2, <2>2 DEF TInv, ReviewTypeOK, PassGate, rows, documents
<1>3. ASSUME ReadRows(r) PROVE TInv'
  <2> DEFINE kept == Detections({m \in mentions : m.review # "IGNORE"})
             local == [handler[r] EXCEPT !.pc = "regions", !.rows = kept]
  <2>1. kept \in SUBSET Detection
    BY <1>1, MentionDetections
  <2>2. local \in Local /\ local.pc = "regions"
    BY <1>1, <2>1 DEF Local, PCs
  <2>3. Become(r, local)
    BY <1>3 DEF ReadRows
  <2> HIDE DEF local
  <2>4. handler' \in [Handler -> Local] /\ Changed(r, local)
    BY <1>1, <2>2, <2>3, BecomeType DEF ReviewTypeOK
  <2>5. NextOK' /\ TargetOK'
    BY <1>3, <2>2, <2>4, LocalTInv DEF ReadRows, rows
  <2>6. QED
    BY <1>1, <1>3, <2>4, <2>5 DEF TInv, ReviewTypeOK, ReadRows, rows, documents
<1>4. ASSUME ReadRegions(r) PROVE TInv'
  <2>1. handler' \in [Handler -> Local] /\ NextOK' /\ TargetOK'
    <3>1. CASE Leave(r)
      BY <1>4, <3>1, LeaveTInv DEF ReadRegions, rows
    <3>2. CASE Become(r, [handler[r] EXCEPT !.pc = "store",
                                           !.excused = ExcusedRegions(handler[r].rows)])
      <4> DEFINE excused == ExcusedRegions(handler[r].rows)
                 local == [handler[r] EXCEPT !.pc = "store", !.excused = excused]
      <4>1. excused \in SUBSET Detection
        BY <1>1, MentionDetections DEF ExcusedRegions
      <4>2. local \in Local /\ local.pc = "store"
        <5> HIDE DEF excused
        <5> QED
          BY <1>1, <4>1 DEF Local, PCs
      <4>3. Become(r, local)
        BY <3>2
      <4> HIDE DEF local
      <4>4. handler' \in [Handler -> Local] /\ Changed(r, local)
        BY <1>1, <4>2, <4>3, BecomeType DEF ReviewTypeOK
      <4>5. QED
        BY <1>4, <4>2, <4>4, LocalTInv DEF ReadRegions, rows
    <3>3. QED
      BY <1>4, <3>1, <3>2 DEF ReadRegions
  <2>2. QED
    BY <1>1, <1>4, <2>1 DEF TInv, ReviewTypeOK, ReadRegions, rows, documents
<1>5. ASSUME StoreOutput(r) PROVE TInv'
  <2> DEFINE protects == Protects(handler[r].rows)
             output == [protects |-> protects, excused |-> handler[r].excused,
                        status |-> "CREATED"]
  <2>1. output \in Output
    BY <1>1 DEF Output, Local, Protects
  <2>2. outputs' = outputs \/ outputs' = Append(outputs, output)
    BY <1>5 DEF StoreOutput
  <2> HIDE DEF output
  <2>3. outputs' \in Seq(Output) /\ DOMAIN outputs \subseteq DOMAIN outputs'
    <3>1. outputs \in Seq(Output)
      BY <1>1 DEF ReviewTypeOK
    <3>2. QED
      BY <2>1, <2>2, <3>1, AppendProperties, LenProperties
  <2>4. handler' \in [Handler -> Local] /\ NextOK' /\ TargetOK'
    BY <1>5, <2>3, LeaveTInv DEF StoreOutput
  <2>5. QED
    BY <1>1, <1>5, <2>3, <2>4 DEF TInv, ReviewTypeOK, StoreOutput, documents
<1>6. QED
  BY <1>2, <1>3, <1>4, <1>5

\* The red team and the record of its verdict keep them.
LEMMA VerifyTInv ==
  \A r \in Request : TInv /\ (Attack(r) \/ Record(r)) => TInv'
<1> SUFFICES ASSUME TInv, NEW r \in Request, Attack(r) \/ Record(r) PROVE TInv'
  OBVIOUS
<1>1. ReviewTypeOK /\ handler[r] \in Local /\ r \in Handler
  BY HeavyAssumption DEF TInv, ReviewTypeOK
<1>2. ASSUME Attack(r) PROVE TInv'
  <2>1. PICK others \in BOOLEAN :
          Become(r, [handler[r] EXCEPT !.pc = "record",
                       !.safe = RunRedTeam(outputs[handler[r].output], others)])
    BY <1>2 DEF Attack
  <2> DEFINE safe == RunRedTeam(outputs[handler[r].output], others)
             local == [handler[r] EXCEPT !.pc = "record", !.safe = safe]
  <2>2. safe \in BOOLEAN
    BY DEF RunRedTeam, DirectIdentifierRescan, KnownValuesAbsent, QRRescan
  <2>3. /\ local \in Local /\ local.pc = "record"
        /\ local.output = handler[r].output
    <3> HIDE DEF safe
    <3> QED
      BY <1>1, <2>2 DEF Local, PCs
  <2>4. Become(r, local)
    BY <2>1
  <2>5. handler[r].output \in DOMAIN outputs
    BY <1>2 DEF TInv, TargetOK, Attack
  <2> HIDE DEF local
  <2>6. handler' \in [Handler -> Local] /\ Changed(r, local)
    BY <1>1, <2>3, <2>4, BecomeType DEF ReviewTypeOK
  <2>7. NextOK' /\ TargetOK'
    BY <1>2, <2>3, <2>5, <2>6, LocalTInv DEF Attack, rows
  <2>8. QED
    BY <1>1, <1>2, <2>6, <2>7 DEF TInv, ReviewTypeOK, Attack, rows, documents
<1>3. ASSUME Record(r) PROVE TInv'
  <2> DEFINE o == handler[r].output
             status == IF handler[r].safe THEN "VERIFIED_SAFE" ELSE "RELEASE_BLOCKED"
  <2>1. o \in DOMAIN outputs
    BY <1>3 DEF TInv, TargetOK, Record
  <2>2. outputs \in Seq(Output) /\ outputs' = [outputs EXCEPT ![o].status = status]
    BY <1>1, <1>3 DEF ReviewTypeOK, Record
  <2>3. outputs[o] \in Output /\ o \in 1 .. Len(outputs)
    BY <2>1, <2>2, ElementOfSeq, LenProperties
  <2>4. [outputs[o] EXCEPT !.status = status] \in Output
    BY <2>3 DEF Output
  <2>5. outputs' \in Seq(Output) /\ DOMAIN outputs' = DOMAIN outputs
    <3>1. outputs' = [outputs EXCEPT ![o] = [outputs[o] EXCEPT !.status = status]]
      BY <2>2
    <3>2. QED
      BY <2>2, <2>3, <2>4, <3>1, ExceptSeq, LenProperties
  <2>6. Leave(r) \/ Goto(r, "key")
    BY <1>3 DEF Record
  <2>7. handler' \in [Handler -> Local] /\ NextOK' /\ TargetOK'
    BY <2>5, <2>6, LeaveTInv, GotoTInv DEF PCs
  <2>8. QED
    BY <1>1, <1>3, <2>5, <2>7 DEF TInv, ReviewTypeOK, Record, documents
<1>4. QED
  BY <1>2, <1>3

\* The steps of issue_certificate keep them.
LEMMA KeyTInv ==
  \A r \in Request :
    TInv /\ (LookForKey(r) \/ MakeKeyFile(r) \/ FillKeyFile(r) \/ ReadKey(r)) => TInv'
<1> SUFFICES ASSUME TInv, NEW r \in Request,
                    LookForKey(r) \/ MakeKeyFile(r) \/ FillKeyFile(r) \/ ReadKey(r)
             PROVE  TInv'
  OBVIOUS
<1>1. ReviewTypeOK /\ handler[r] \in Local /\ r \in Handler
  BY HeavyAssumption DEF TInv, ReviewTypeOK
<1>2. ASSUME LookForKey(r) PROVE TInv'
  <2>1. Goto(r, "create") \/ Goto(r, "read")
    BY <1>2 DEF LookForKey
  <2>2. handler' \in [Handler -> Local] /\ NextOK' /\ TargetOK'
    BY <1>2, <2>1, GotoTInv DEF LookForKey, rows, PCs
  <2>3. QED
    BY <1>1, <1>2, <2>2 DEF TInv, ReviewTypeOK, LookForKey, rows, documents
<1>3. ASSUME MakeKeyFile(r) PROVE TInv'
  <2>1. Goto(r, "write") \/ Goto(r, "read")
    BY <1>3 DEF MakeKeyFile
  <2>2. handler' \in [Handler -> Local] /\ NextOK' /\ TargetOK'
    BY <1>3, <2>1, GotoTInv DEF MakeKeyFile, rows, PCs
  <2>3. keyFile' \in Handler \cup {"absent", "empty"}
    BY <1>1, <1>3 DEF ReviewTypeOK, MakeKeyFile, CreateKey
  <2>4. QED
    BY <1>1, <1>3, <2>2, <2>3 DEF TInv, ReviewTypeOK, MakeKeyFile, rows, documents
<1>4. ASSUME FillKeyFile(r) PROVE TInv'
  <2>1. handler' \in [Handler -> Local] /\ NextOK' /\ TargetOK'
    BY <1>4, GotoTInv DEF FillKeyFile, rows, PCs
  <2>2. keyFile' \in Handler \cup {"absent", "empty"}
    BY <1>1, <1>4 DEF FillKeyFile, WriteKey
  <2>3. QED
    BY <1>1, <1>4, <2>1, <2>2 DEF TInv, ReviewTypeOK, FillKeyFile, rows, documents
<1>5. ASSUME ReadKey(r) PROVE TInv'
  <2>1. CASE ~Readable
    <3>1. handler' \in [Handler -> Local] /\ NextOK' /\ TargetOK'
      BY <1>5, <2>1, LeaveTInv DEF ReadKey, rows
    <3>2. QED
      BY <1>1, <1>5, <2>1, <3>1 DEF TInv, ReviewTypeOK, ReadKey, rows
  <2>2. CASE Readable /\ handler[r].named = "none"
    <3> DEFINE local == [handler[r] EXCEPT !.pc = "key", !.named = keyFile]
    <3>1. keyFile \in Handler
      BY <1>1, <2>2 DEF ReviewTypeOK, Readable
    <3>2. local \in Local /\ local.pc = "key"
      BY <1>1, <3>1 DEF Local, PCs
    <3>3. Become(r, local) /\ UNCHANGED certificates
      BY <1>5, <2>2 DEF ReadKey
    <3> HIDE DEF local
    <3>4. handler' \in [Handler -> Local] /\ Changed(r, local)
      BY <1>1, <3>2, <3>3, BecomeType DEF ReviewTypeOK
    <3>5. NextOK' /\ TargetOK'
      BY <1>5, <3>2, <3>4, LocalTInv DEF ReadKey, rows
    <3>6. QED
      BY <1>1, <1>5, <3>3, <3>4, <3>5 DEF TInv, ReviewTypeOK, ReadKey, rows
  <2>3. CASE Readable /\ handler[r].named # "none"
    <3> DEFINE certificate == [output |-> handler[r].output, named |-> handler[r].named,
                               signed |-> keyFile]
    <3>1. keyFile \in Handler /\ handler[r].named \in Handler /\ handler[r].output \in Nat
      BY <1>1, <2>3 DEF ReviewTypeOK, Readable, Local
    <3>2. certificate \in [output : Nat, named : Handler, signed : Handler]
      BY <3>1
    <3>3. Leave(r) /\ certificates' = certificates \cup {certificate}
      BY <1>5, <2>3 DEF ReadKey
    <3>4. handler' \in [Handler -> Local] /\ NextOK' /\ TargetOK'
      BY <1>5, <3>3, LeaveTInv DEF ReadKey, rows
    <3> HIDE DEF certificate
    <3>5. QED
      BY <1>1, <1>5, <3>2, <3>3, <3>4 DEF TInv, ReviewTypeOK, ReadKey, rows
  <2>4. QED
    BY <2>1, <2>2, <2>3
<1>6. QED
  BY <1>2, <1>3, <1>4, <1>5

\* A download keeps them.
LEMMA DownloadTInv == \A o \in DOMAIN outputs : TInv /\ Download(o) => TInv'
<1> SUFFICES ASSUME TInv, NEW o \in DOMAIN outputs, Download(o) PROVE TInv'
  OBVIOUS
<1> DEFINE shown == Detections(Pending) \cap Residual(outputs[o])
<1>1. ReviewTypeOK
  BY DEF TInv
<1>2. shown \in SUBSET Detection /\ o \in Nat
  <2>1. Len(outputs) \in Nat /\ DOMAIN outputs = 1 .. Len(outputs)
    BY <1>1, LenProperties DEF ReviewTypeOK
  <2>2. QED
    BY <2>1 DEF Residual
<1>3. downloads' = downloads \cup {[output |-> o, unresolved |-> shown]}
  BY DEF Download
<1> HIDE DEF shown
<1>4. downloads' \subseteq [output : Nat, unresolved : SUBSET Detection]
  BY <1>1, <1>2, <1>3 DEF ReviewTypeOK
<1>5. QED
  BY <1>1, <1>4 DEF TInv, ReviewTypeOK, NextOK, TargetOK, Download, rows

\* So does every step of a handler.
LEMMA WorkTInv == \A r \in Request : TInv /\ Work(r) => TInv'
<1> SUFFICES ASSUME TInv, NEW r \in Request, Work(r) PROVE TInv'
  OBVIOUS
<1>1. CASE Fails(r)
  <2>1. handler' \in [Handler -> Local] /\ NextOK' /\ TargetOK'
    BY <1>1, LeaveTInv DEF Fails, rows
  <2>2. QED
    BY <1>1, <2>1 DEF TInv, ReviewTypeOK, Fails, rows, documents
<1>2. QED
  BY <1>1, AnalyseTInv, TransformTInv, VerifyTInv, KeyTInv DEF Work

-----------------------------------------------------------------------------
(* The whole system: types, permits and wake-ups *)

BInv == AInv /\ TInv /\ restarts \in 0 .. MaxRestarts

\* Steps that leave the rows, the documents and the key file alone.
LEMMA LocalStepTInv ==
  ASSUME NEW r \in Request, NEW local \in Local, TInv, Become(r, local),
         local.pc \notin {"entity", "mention", "record"},
         local.pc = "verify" => local.output \in DOMAIN outputs,
         UNCHANGED <<rows, documents, dismissed, keyFile>>
  PROVE  TInv'
<1>1. ReviewTypeOK
  BY DEF TInv
<1>2. handler' \in [Handler -> Local] /\ Changed(r, local)
  BY <1>1, BecomeType DEF ReviewTypeOK
<1>3. NextOK' /\ TargetOK'
  BY <1>2, LocalTInv DEF rows
<1>4. QED
  BY <1>1, <1>2, <1>3 DEF TInv, ReviewTypeOK, rows, documents

\* What Arrive makes of an idle handler.
LEMMA ArriveLocal ==
  ASSUME TInv, NEW r \in Request, Arrive(r)
  PROVE  \E local \in Local :
           /\ Become(r, local) /\ local.pc \in Ops /\ local.excused = handler[r].excused
           /\ local.safe = handler[r].safe /\ local.named = handler[r].named
           /\ local.pc = "verify" => local.output \in DOMAIN outputs
<1>1. PICK op \in Ops, o \in DOMAIN outputs \cup {0} :
        /\ op = "verify" <=> o # 0
        /\ handler' = [handler EXCEPT ![r].pc = op, ![r].output = o]
  BY DEF Arrive
<1> DEFINE local == [handler[r] EXCEPT !.pc = op, !.output = o]
<1>2. handler[r] \in Local
  BY HeavyAssumption DEF TInv, ReviewTypeOK
<1>3. o \in Nat /\ op \in PCs
  <2>1. Len(outputs) \in Nat /\ DOMAIN outputs = 1 .. Len(outputs)
    BY LenProperties DEF TInv, ReviewTypeOK
  <2>2. QED
    BY <2>1 DEF Ops, PCs
<1>4. /\ local \in Local /\ local.pc = op /\ local.output = o
      /\ local.excused = handler[r].excused
      /\ local.safe = handler[r].safe /\ local.named = handler[r].named
  BY <1>2, <1>3 DEF Local
<1>5. Become(r, local)
  BY <1>1, <1>2 DEF Become
<1> HIDE DEF local
<1>6. QED
  BY <1>1, <1>4, <1>5

\* Initially nothing is admitted, stored or handed out.
LEMMA InitBInv == Init => BInv
<1> SUFFICES ASSUME Init PROVE BInv
  OBVIOUS
<1>1. AInv
  BY InitAInv DEF Init
<1>2. TInv
  <2>1. Fresh \in Local /\ Fresh.pc = "idle"
    BY DEF Fresh, Local, PCs
  <2>2. handler = [h \in Handler |-> Fresh] /\ outputs = <<>>
    BY DEF Init, ReviewInit
  <2>3. outputs \in Seq(Output) /\ handler \in [Handler -> Local]
    BY <2>1, <2>2, EmptySeq
  <2>4. NextOK /\ TargetOK
    BY <2>1, <2>2, HeavyAssumption DEF NextOK, TargetOK
  <2>5. QED
    BY <2>3, <2>4 DEF TInv, ReviewTypeOK, Init, ReviewInit, KeyInit
<1>3. QED
  BY <1>1, <1>2, HeavyAssumption DEF BInv, Init

\* After a restart nothing is left but what was handed out and the key file.
LEMMA RestartBInv == BInv /\ Restart => BInv'
<1> SUFFICES ASSUME BInv, Restart PROVE BInv'
  OBVIOUS
<1>1. AInv'
  <2>1. /\ value' = Limit /\ queue' = <<>> /\ active' = 0
        /\ slot' = [r \in Request |-> "out"]
    BY DEF Restart
  <2>2. AdmissionTypeOK'
    BY <2>1, AdmissionAssumption, EmptySeq DEF AdmissionTypeOK, Places
  <2>3. Owning' = {} /\ At("holding")' = {} /\ At("waiting")' = {}
    BY <2>1 DEF Owning, At
  <2>4. Cardinality(Owning') = 0 /\ Cardinality(At("holding")') = 0
    BY <2>3, FS_EmptySet
  <2>5. PermitsConserved' /\ NoLostWakeup'
    BY <2>1, <2>3, <2>4, AdmissionAssumption DEF PermitsConserved, NoLostWakeup
  <2>6. QED
    BY <2>2, <2>5 DEF AInv
<1>2. \A r \in Request : handler'[r] \in Local /\ handler'[r].pc \in {"idle", "done"}
  <2> TAKE r \in Request
  <2>1. handler'[r] = Ended("idle") \/ handler'[r] = Ended("done")
    BY DEF Restart
  <2>2. /\ Ended("idle") \in Local /\ Ended("done") \in Local
        /\ Ended("idle").pc = "idle" /\ Ended("done").pc = "done"
    BY EndedType DEF PCs, Ended, Fresh
  <2>3. QED
    BY <2>1, <2>2
<1>3. TInv'
  <2>1. handler' \in [Handler -> Local] /\ NextOK' /\ TargetOK'
    BY <1>2, HeavyAssumption DEF NextOK, TargetOK, Restart
  <2>2. outputs' \in Seq(Output) /\ entities' = {} /\ mentions' = {} /\ dismissed' = {}
    BY EmptySeq DEF Restart
  <2>3. certificates' = certificates /\ downloads' = downloads /\ keyFile' = keyFile
    BY DEF Restart, documents
  <2>4. QED
    BY <2>1, <2>2, <2>3 DEF BInv, TInv, ReviewTypeOK
<1>4. QED
  BY <1>1, <1>3, HeavyAssumption DEF BInv, Restart

\* Types, permits and wake-ups survive every step of the system.
LEMMA NextBInv == BInv /\ [Next]_vars => BInv'
<1> SUFFICES ASSUME BInv, [Next]_vars PROVE BInv'
  OBVIOUS
<1>0. AInv /\ TInv /\ restarts \in 0 .. MaxRestarts
  BY DEF BInv
<1>a. ASSUME UNCHANGED admission PROVE AInv'
  BY <1>0, <1>a DEF admission, AInv, AdmissionTypeOK, PermitsConserved, NoLostWakeup,
                    Owning, At
<1>1. ASSUME NEW r \in Request, Arrive(r) PROVE BInv'
  <2>1. AInv'
    BY <1>0, <1>1, EnterSlotAInv, JoinQueueAInv DEF Arrive
  <2>2. PICK local \in Local :
          /\ Become(r, local) /\ local.pc \in Ops
          /\ local.pc = "verify" => local.output \in DOMAIN outputs
    BY <1>0, <1>1, ArriveLocal
  <2>3. TInv'
    BY <1>0, <1>1, <2>2, LocalStepTInv DEF Arrive, Ops
  <2>4. QED
    BY <1>0, <1>1, <2>1, <2>3 DEF BInv, Arrive
<1>2. ASSUME NEW r \in Request, Wake(r) PROVE BInv'
  <2>1. AInv'
    BY <1>0, <1>2, ResumeAInv DEF Wake
  <2>2. TInv'
    <3>1. CASE UNCHANGED handler
      BY <1>0, <1>2, <3>1 DEF Wake, TInv, ReviewTypeOK, NextOK, TargetOK, rows, documents
    <3>2. CASE Become(r, Ended("done"))
      <4>1. Ended("done") \in Local /\ Ended("done").pc = "done"
        BY EndedType DEF PCs, Ended, Fresh
      <4>2. QED
        BY <1>0, <1>2, <3>2, <4>1, LocalStepTInv DEF Wake
    <3>3. QED
      BY <1>2, <3>1, <3>2 DEF Wake
  <2>3. QED
    BY <1>0, <1>2, <2>1, <2>2 DEF BInv, Wake
<1>3. ASSUME NEW r \in Request, TimeOut(r) PROVE BInv'
  <2>1. AInv'
    BY <1>0, <1>3, GiveUpAInv DEF TimeOut
  <2>2. TInv'
    BY <1>0, <1>3 DEF TimeOut, review, TInv, ReviewTypeOK, NextOK, TargetOK, rows, documents
  <2>3. QED
    BY <1>0, <1>3, <2>1, <2>2 DEF BInv, TimeOut
<1>4. ASSUME NEW r \in Request, Handle(r) PROVE BInv'
  BY <1>0, <1>4, <1>a, WorkTInv DEF BInv, Handle
<1>5. ASSUME NEW r \in Request, Answer(r) PROVE BInv'
  <2>1. AInv'
    BY <1>0, <1>5, VacateAInv DEF Answer
  <2>2. Ended("done") \in Local /\ Ended("done").pc = "done"
    BY EndedType DEF PCs, Ended, Fresh
  <2>3. TInv'
    BY <1>0, <1>5, <2>2, LocalStepTInv DEF Answer
  <2>4. QED
    BY <1>0, <1>5, <2>1, <2>3 DEF BInv, Answer
<1>6. ASSUME LightRequest PROVE BInv'
  BY <1>0, <1>6, <1>a, ReviewTInv, DownloadTInv DEF BInv, LightRequest
<1>7. ASSUME UNCHANGED vars PROVE BInv'
  <2>1. TInv'
    BY <1>0, <1>7 DEF vars, review, TInv, ReviewTypeOK, NextOK, TargetOK, rows, documents
  <2>2. QED
    BY <1>0, <1>7, <1>a, <2>1 DEF BInv, vars
<1>8. QED
  BY <1>1, <1>2, <1>3, <1>4, <1>5, <1>6, <1>7, RestartBInv DEF Next

\* All variables keep their types: slots, rows, handlers, documents, key file.
THEOREM TypeCorrect == Spec => []TypeOK
<1>1. BInv => TypeOK
  BY DEF BInv, TypeOK, AInv, TInv
<1>2. QED
  BY InitBInv, NextBInv, <1>1, PTL DEF Spec

\* A permit is never lost or duplicated by time-outs, cancellations, failing
\* handlers or restarts, for any limit and any number of requests, and nobody
\* waits beside a free permit unless a task is about to hand it on.
THEOREM PermitsAreConserved == Spec => []PermitsAreHandedOn
<1>1. BInv => PermitsAreHandedOn
  BY DEF BInv, AInv, PermitsAreHandedOn
<1>2. QED
  BY InitBInv, NextBInv, <1>1, PTL DEF Spec

-----------------------------------------------------------------------------
(* The invariants of the handlers *)

\* Whoever has read a key has read the one in the file; one handler at most
\* has created the file and not written it.
KInv ==
  /\ \A r \in Request : handler[r].named # "none" =>
       handler[r].named = keyFile /\ Readable
  /\ \A r \in Request : handler[r].pc = "write" =>
       /\ keyFile = "empty"
       /\ \A s \in Request : handler[s].pc = "write" => s = r
  /\ certificates # {} => Readable
  /\ OneIdentity

\* An excuse always goes back to a reviewer's decision.
EInv ==
  /\ \A m \in mentions : m.review = "IGNORE" => m.detection \in dismissed
  /\ \A r \in Request : handler[r].excused \subseteq dismissed
  /\ \A o \in DOMAIN outputs :
       /\ outputs[o].excused \subseteq dismissed
       /\ outputs[o].status = "VERIFIED_SAFE" => QRRescan(outputs[o])
  /\ \A r \in Request : handler[r].pc = "record" /\ handler[r].safe =>
       QRRescan(outputs[handler[r].output])

Storing(r) ==
  handler[r].pc = "mention" \/ (handler[r].pc = "entity" /\ handler[r].next # 1)

\* The rows belong to the handler whose first entity came first; the UNIQUE
\* constraint turns every other one away at that entity.
PInv ==
  /\ \A e, f \in entities : e.by = f.by
  /\ entities # {} => \E e \in entities : e.entity = Detected[1].entity
  /\ \A m \in mentions : \E e \in entities : e.by = m.by
  /\ \A r \in Request : Storing(r) =>
       /\ \E e \in entities : e.by = r
       /\ Detections(mentions) = 1 .. handler[r].next - 1
  /\ AnalysisIsOfOnePiece

HInv == KInv /\ EInv /\ PInv

\* Frames: what a step of r must show to keep the parts it does not touch.
LEMMA KFrame ==
  ASSUME KInv, NEW r \in Request, NEW local, Changed(r, local),
         local.pc # "write", local.named \in {handler[r].named, "none"},
         UNCHANGED <<certificates, keyFile>>
  PROVE  KInv'
<1>1. \A s \in Request : /\ handler'[s].pc = "write" => handler[s].pc = "write"
                         /\ handler'[s].named \in {handler[s].named, "none"}
  BY DEF Changed
<1>2. QED
  BY <1>1 DEF KInv, OneIdentity, Readable

\* The excuses, by a step of r that neither stores nor reviews anything.
LEMMA EFrame ==
  ASSUME EInv, NEW r \in Request, NEW local, Changed(r, local),
         local.pc # "record", local.excused \in {handler[r].excused, {}},
         UNCHANGED <<mentions, outputs, dismissed>>
  PROVE  EInv'
<1>1. \A s \in Request :
        /\ handler'[s].excused \subseteq handler[s].excused
        /\ handler'[s].pc = "record" => handler'[s] = handler[s]
  BY DEF Changed
<1>2. QED
  BY <1>1 DEF EInv, QRRescan, Residual

\* The rows of the analysis, by a step of r that stores none of them.
LEMMA PFrame ==
  ASSUME PInv, NEW r \in Request, NEW local, Changed(r, local),
         local.pc # "mention", local.pc = "entity" => local.next = 1,
         UNCHANGED <<entities, mentions>>
  PROVE  PInv'
<1>1. \A s \in Request : Storing(s)' => Storing(s) /\ handler'[s] = handler[s]
  BY DEF Changed, Storing
<1>2. QED
  BY <1>1 DEF PInv, AnalysisIsOfOnePiece, Detections

\* All three, by a step of r that only changes its own local variables.
LEMMA QuietHInv ==
  ASSUME HInv, NEW r \in Request, NEW local, Changed(r, local),
         local.pc \notin {"write", "record", "entity", "mention"},
         local.named \in {handler[r].named, "none"},
         local.excused \in {handler[r].excused, {}},
         UNCHANGED <<rows, certificates, dismissed, keyFile>>
  PROVE  HInv'
BY KFrame, EFrame, PFrame DEF HInv, rows

\* What is left of the local variables of a handler that leaves or moves on.
LEMMA LeaveLocal ==
  ASSUME TInv, NEW r \in Request, Leave(r)
  PROVE  \E local : /\ Changed(r, local) /\ local.pc = "leaving"
                    /\ local.named = "none" /\ local.excused = {}
<1>1. Changed(r, Ended("leaving"))
  BY LeaveType DEF TInv, ReviewTypeOK
<1>2. /\ Ended("leaving").pc = "leaving" /\ Ended("leaving").named = "none"
      /\ Ended("leaving").excused = {}
  BY DEF Ended, Fresh
<1>3. QED
  BY <1>1, <1>2

\* A handler that moves on keeps what it has read.
LEMMA GotoLocal ==
  ASSUME TInv, NEW r \in Request, NEW pc \in PCs, Goto(r, pc)
  PROVE  \E local : /\ Changed(r, local) /\ local.pc = pc
                    /\ local.named = handler[r].named
                    /\ local.excused = handler[r].excused
                    /\ local.next = handler[r].next
<1>1. Changed(r, [handler[r] EXCEPT !.pc = pc])
  BY GotoType DEF TInv, ReviewTypeOK
<1>2. handler[r] \in Local
  BY HeavyAssumption DEF TInv, ReviewTypeOK
<1>3. QED
  BY <1>1, <1>2 DEF Local

-----------------------------------------------------------------------------
(* Analysis *)

\* The check for earlier entities begins an analysis at its first detection.
LEMMA CheckHInv == \A r \in Request : TInv /\ HInv /\ CheckUnanalysed(r) => HInv'
<1> SUFFICES ASSUME TInv, HInv, NEW r \in Request, CheckUnanalysed(r) PROVE HInv'
  OBVIOUS
<1>1. UNCHANGED <<entities, mentions, outputs, certificates, dismissed, keyFile>>
  BY DEF CheckUnanalysed, rows, documents
<1>2. CASE Leave(r)
  BY <1>1, <1>2, LeaveLocal, QuietHInv DEF rows
<1>3. CASE Become(r, [handler[r] EXCEPT !.pc = "entity", !.next = 1])
  <2> DEFINE local == [handler[r] EXCEPT !.pc = "entity", !.next = 1]
  <2>1. handler[r] \in Local
    BY HeavyAssumption DEF TInv, ReviewTypeOK
  <2>2. /\ local \in Local /\ local.pc = "entity" /\ local.next = 1
        /\ local.named = handler[r].named /\ local.excused = handler[r].excused
    BY <2>1 DEF Local, PCs
  <2> HIDE DEF local
  <2>3. Changed(r, local)
    BY <1>3, <2>2, BecomeType DEF TInv, ReviewTypeOK, local
  <2>4. QED
    BY <1>1, <2>2, <2>3, KFrame, EFrame, PFrame DEF HInv
<1>4. QED
  BY <1>2, <1>3 DEF CheckUnanalysed

\* Only the handler that owns the rows gets past its first entity.
LEMMA InsertEntityHInv == \A r \in Request : TInv /\ HInv /\ InsertEntity(r) => HInv'
<1> SUFFICES ASSUME TInv, HInv, NEW r \in Request, InsertEntity(r) PROVE HInv'
  OBVIOUS
<1> DEFINE i == handler[r].next
           new == [entity |-> Detected[i].entity, by |-> r]
<1>1. UNCHANGED <<mentions, outputs, certificates, dismissed, keyFile>>
  BY DEF InsertEntity, documents
<1>2. CASE Leave(r) /\ UNCHANGED entities
  BY <1>1, <1>2, LeaveLocal, QuietHInv DEF rows
<1>3. CASE /\ Seen(i) \/ ~RowExists(i)
           /\ entities' = entities \cup {new} /\ Goto(r, "mention")
  <2>1. PICK local : /\ Changed(r, local) /\ local.pc = "mention" /\ local.next = i
                     /\ local.named = handler[r].named
                     /\ local.excused = handler[r].excused
    BY <1>3, GotoLocal DEF PCs
  <2>2. KInv' /\ EInv'
    BY <1>1, <2>1, KFrame, EFrame DEF HInv
  <2>3. i \in Nat /\ handler[r].pc = "entity"
    BY HeavyAssumption DEF TInv, ReviewTypeOK, Local, InsertEntity
  <2>4. /\ \A e \in entities : e.by = r
        /\ i = 1 => entities = {} /\ mentions = {}
        /\ Detections(mentions) = 1 .. i - 1
    <3>1. CASE i = 1
      <4>1. ~Seen(i)
        BY <3>1 DEF Seen
      <4>2. entities = {}
        BY <1>3, <3>1, <4>1 DEF RowExists, HInv, PInv
      <4>3. mentions = {}
        BY <4>2 DEF HInv, PInv
      <4>4. QED
        BY <3>1, <4>2, <4>3 DEF Detections
    <3>2. CASE i # 1
      <4>1. Storing(r)
        BY <2>3, <3>2 DEF Storing
      <4>2. QED
        BY <3>2, <4>1 DEF HInv, PInv
    <3>3. QED
      BY <3>1, <3>2
  <2>5. new \in entities' /\ new.by = r /\ \A e \in entities' : e.by = r
    BY <1>3, <2>4
  <2>6. \E e \in entities' : e.entity = Detected[1].entity
    <3>1. CASE i = 1
      BY <2>5, <3>1
    <3>2. CASE i # 1
      <4>1. entities # {}
        BY <2>3, <3>2 DEF Storing, HInv, PInv
      <4>2. QED
        BY <1>3, <4>1 DEF HInv, PInv
    <3>3. QED
      BY <3>1, <3>2
  <2>7. \A m \in mentions' : \E e \in entities' : e.by = m.by
    BY <1>1, <1>3 DEF HInv, PInv
  <2>8. ASSUME NEW s \in Request, Storing(s)'
        PROVE  /\ \E e \in entities' : e.by = s
               /\ Detections(mentions') = 1 .. handler'[s].next - 1
    <3>1. CASE s = r
      BY <1>1, <2>1, <2>4, <2>5, <3>1 DEF Changed
    <3>2. CASE s # r
      <4>1. handler'[s] = handler[s]
        BY <2>1, <3>2 DEF Changed
      <4>2. Storing(s)
        BY <2>8, <4>1 DEF Storing
      <4>3. \E e \in entities : e.by = s
        BY <4>2 DEF HInv, PInv
      <4>4. QED
        BY <2>4, <3>2, <4>3
    <3>3. QED
      BY <3>1, <3>2
  <2>9. AnalysisIsOfOnePiece'
    BY <1>1 DEF HInv, PInv, AnalysisIsOfOnePiece, Detections
  <2> HIDE DEF new
  <2>10. PInv'
    BY <2>5, <2>6, <2>7, <2>8, <2>9 DEF PInv, Detections
  <2>11. QED
    BY <2>2, <2>10 DEF HInv
<1>4. QED
  BY <1>2, <1>3 DEF InsertEntity

\* That handler extends the stored prefix by one detection.
LEMMA InsertMentionHInv == \A r \in Request : TInv /\ HInv /\ InsertMention(r) => HInv'
<1> SUFFICES ASSUME TInv, HInv, NEW r \in Request, InsertMention(r) PROVE HInv'
  OBVIOUS
<1> DEFINE i == handler[r].next
           new == [detection |-> i, by |-> r, review |-> Detected[i].review]
<1>1. /\ UNCHANGED <<entities, outputs, certificates, dismissed, keyFile>>
      /\ mentions' = mentions \cup {new} /\ handler[r].pc = "mention"
  BY DEF InsertMention, documents
<1>2. Storing(r) /\ i \in Detection /\ i \in Nat /\ i >= 1
  BY <1>1, HeavyAssumption, DetectionType
     DEF Storing, TInv, NextOK, ReviewTypeOK, Local
<1>3. /\ \E e \in entities : e.by = r
      /\ \A e \in entities : e.by = r
      /\ Detections(mentions) = 1 .. i - 1
  BY <1>2 DEF HInv, PInv
<1>4. PICK local : /\ Changed(r, local) /\ local.named \in {handler[r].named, "none"}
                   /\ local.excused \in {handler[r].excused, {}}
                   /\ \/ local.pc = "leaving"
                      \/ local.pc = "entity" /\ local.next = i + 1
  <2>1. CASE Leave(r)
    BY <2>1, LeaveLocal
  <2>2. CASE Become(r, [handler[r] EXCEPT !.pc = "entity", !.next = i + 1])
    <3> DEFINE new2 == [handler[r] EXCEPT !.pc = "entity", !.next = i + 1]
    <3>1. handler[r] \in Local
      BY HeavyAssumption DEF TInv, ReviewTypeOK
    <3>2. i + 1 \in Nat
      BY <1>2
    <3>3. /\ new2 \in Local /\ new2.pc = "entity" /\ new2.next = i + 1
          /\ new2.named = handler[r].named /\ new2.excused = handler[r].excused
      BY <3>1, <3>2 DEF Local, PCs
    <3>4. Become(r, new2)
      BY <2>2
    <3> HIDE DEF new2
    <3>5. Changed(r, new2)
      BY <3>3, <3>4, BecomeType DEF TInv, ReviewTypeOK
    <3>6. QED
      BY <3>3, <3>5
  <2>3. QED
    BY <2>1, <2>2 DEF InsertMention
<1>5. KInv'
  BY <1>1, <1>4, KFrame DEF HInv
<1>6. EInv'
  <2>1. new.review # "IGNORE"
    BY <1>2, DetectionType
  <2>2. \A s \in Request :
          /\ handler'[s].excused \subseteq handler[s].excused
          /\ handler'[s].pc = "record" => handler'[s] = handler[s]
    BY <1>4 DEF Changed
  <2>3. \A m \in mentions' : m.review = "IGNORE" => m.detection \in dismissed'
    BY <1>1, <2>1 DEF HInv, EInv
  <2> HIDE DEF new
  <2>4. QED
    BY <1>1, <2>2, <2>3 DEF HInv, EInv, QRRescan, Residual
<1>7. PInv'
  <2>1. Detections(mentions') = 1 .. i
    <3>1. Detections(mentions') = Detections(mentions) \cup {new.detection}
      <4> HIDE DEF new
      <4> QED
        BY <1>1 DEF Detections
    <3>2. QED
      BY <1>2, <1>3, <3>1
  <2>2. \A m \in mentions : m.by = r /\ m.detection \in 1 .. i - 1
    BY <1>3 DEF HInv, PInv, Detections
  <2>3. \A m \in mentions' : m.by = r /\ m.detection \in 1 .. i
    BY <1>1, <1>2, <2>2
  <2>4. \A m, n \in mentions' : m.detection = n.detection => m = n
    <3>1. \A m, n \in mentions : m.detection = n.detection => m = n
      BY DEF HInv, PInv, AnalysisIsOfOnePiece
    <3>2. \A m \in mentions : m.detection # new.detection
      BY <1>2, <2>2
    <3> HIDE DEF new
    <3>3. QED
      BY <1>1, <3>1, <3>2
  <2>5. AnalysisIsOfOnePiece'
    <3>1. \A m \in mentions' : \A j \in 1 .. m.detection : j \in 1 .. i
      BY <1>2, <2>3
    <3>2. QED
      BY <2>1, <2>3, <2>4, <3>1 DEF AnalysisIsOfOnePiece
  <2>6. ASSUME NEW s \in Request, Storing(s)'
        PROVE  /\ \E e \in entities' : e.by = s
               /\ Detections(mentions') = 1 .. handler'[s].next - 1
    <3>1. s = r
      <4>1. CASE s # r
        <5>1. handler'[s] = handler[s]
          BY <1>4, <4>1 DEF Changed
        <5>2. Storing(s)
          BY <2>6, <5>1 DEF Storing
        <5>3. QED
          BY <1>3, <5>2 DEF HInv, PInv
      <4>2. QED
        BY <4>1
    <3>2. handler'[s].next = i + 1
      BY <1>4, <2>6, <3>1 DEF Changed, Storing
    <3>3. QED
      BY <1>1, <1>2, <1>3, <2>1, <3>1, <3>2
  <2>7. \A m \in mentions' : \E e \in entities' : e.by = m.by
    BY <1>1, <1>3, <2>3
  <2>8. (\A e, f \in entities : e.by = f.by)'
        /\ (entities # {} => \E e \in entities : e.entity = Detected[1].entity)'
    BY <1>1 DEF HInv, PInv
  <2>9. QED
    BY <2>5, <2>6, <2>7, <2>8 DEF PInv, Detections
<1>8. QED
  BY <1>5, <1>6, <1>7 DEF HInv

-----------------------------------------------------------------------------
(* Review and transformation *)

\* A review changes no detection, and a dismissal is remembered.
LEMMA ReviewHInv ==
  \A m \in mentions, decision \in {"PROTECT", "IGNORE"} :
    HInv /\ Review(m, decision) => HInv'
<1> SUFFICES ASSUME HInv, NEW m \in mentions, NEW decision \in {"PROTECT", "IGNORE"},
                    Review(m, decision)
             PROVE  HInv'
  OBVIOUS
<1> DEFINE new == [m EXCEPT !.review = decision]
<1>1. /\ mentions' = (mentions \ {m}) \cup {new}
      /\ dismissed' = IF decision = "IGNORE" THEN dismissed \cup {m.detection} ELSE dismissed
      /\ UNCHANGED <<entities, outputs, handler, certificates, downloads, keyFile>>
  BY DEF Review, documents
<1>2. new.detection = m.detection /\ new.by = m.by
  OBVIOUS
<1>3. KInv'
  BY <1>1 DEF HInv, KInv, OneIdentity, Readable
<1>4. EInv'
  <2>1. dismissed \subseteq dismissed'
    BY <1>1
  <2>2. \A n \in mentions' : n.review = "IGNORE" => n.detection \in dismissed'
    <3>1. new.review = "IGNORE" => new.detection \in dismissed'
      BY <1>1, <1>2 DEF HInv, EInv
    <3> HIDE DEF new
    <3>2. QED
      BY <1>1, <2>1, <3>1 DEF HInv, EInv
  <2> HIDE DEF new
  <2>3. QED
    BY <1>1, <2>1, <2>2 DEF HInv, EInv, QRRescan, Residual
<1> HIDE DEF new
<1>5. Detections(mentions') = Detections(mentions)
  BY <1>1, <1>2 DEF Detections
<1>6. AnalysisIsOfOnePiece'
  <2>1. \A n \in mentions' : \E l \in mentions :
          n.by = l.by /\ n.detection = l.detection /\ (n # new => n = l /\ l # m)
                      /\ (n = new => l = m)
    BY <1>1, <1>2
  <2>2. \A n, l \in mentions' : n.by = l.by /\ (n.detection = l.detection => n = l)
    BY <2>1 DEF HInv, PInv, AnalysisIsOfOnePiece
  <2>3. \A n \in mentions' : \A i \in 1 .. n.detection : i \in Detections(mentions)
    BY <2>1 DEF HInv, PInv, AnalysisIsOfOnePiece
  <2>4. QED
    BY <1>5, <2>2, <2>3 DEF AnalysisIsOfOnePiece
<1>7. \A n \in mentions' : \E e \in entities : e.by = n.by
  BY <1>1, <1>2 DEF HInv, PInv
<1>8. PInv'
  BY <1>1, <1>5, <1>6, <1>7 DEF HInv, PInv, Storing, Detections
<1>9. QED
  BY <1>3, <1>4, <1>8 DEF HInv

\* The excuses a transformation reads are dismissed already.
LEMMA TransformHInv ==
  \A r \in Request :
    TInv /\ HInv /\ (PassGate(r) \/ ReadRows(r) \/ ReadRegions(r) \/ StoreOutput(r)) => HInv'
<1> SUFFICES ASSUME TInv, HInv, NEW r \in Request,
                    PassGate(r) \/ ReadRows(r) \/ ReadRegions(r) \/ StoreOutput(r)
             PROVE  HInv'
  OBVIOUS
<1>0. handler[r] \in Local /\ handler \in [Handler -> Local]
  BY HeavyAssumption DEF TInv, ReviewTypeOK
<1>1. CASE PassGate(r)
  <2>1. Leave(r) \/ Goto(r, "rows")
    BY <1>1 DEF PassGate
  <2>2. UNCHANGED <<rows, certificates, dismissed, keyFile>>
    BY <1>1 DEF PassGate, documents
  <2>3. QED
    BY <2>1, <2>2, LeaveLocal, GotoLocal, QuietHInv DEF PCs
<1>2. CASE ReadRows(r)
  <2> DEFINE kept == Detections({m \in mentions : m.review # "IGNORE"})
             local == [handler[r] EXCEPT !.pc = "regions", !.rows = kept]
  <2>1. kept \in SUBSET Detection
    BY MentionDetections DEF TInv
  <2>2. /\ local \in Local /\ local.pc = "regions"
        /\ local.named = handler[r].named /\ local.excused = handler[r].excused
    BY <1>0, <2>1 DEF Local, PCs
  <2>3. Become(r, local) /\ UNCHANGED <<rows, certificates, dismissed, keyFile>>
    BY <1>2 DEF ReadRows, documents
  <2> HIDE DEF local
  <2>4. Changed(r, local)
    BY <1>0, <2>2, <2>3, BecomeType
  <2>5. QED
    BY <2>2, <2>3, <2>4, QuietHInv
<1>3. CASE ReadRegions(r)
  <2> DEFINE excused == ExcusedRegions(handler[r].rows)
             local == [handler[r] EXCEPT !.pc = "store", !.excused = excused]
  <2>1. UNCHANGED <<entities, mentions, outputs, certificates, dismissed, keyFile>>
    BY <1>3 DEF ReadRegions, rows, documents
  <2>2. CASE Leave(r)
    BY <2>1, <2>2, LeaveLocal, QuietHInv DEF rows
  <2>3. CASE Become(r, local)
    <3>1. excused \subseteq dismissed
      BY DEF ExcusedRegions, Detections, HInv, EInv
    <3>2. excused \in SUBSET Detection
      BY MentionDetections DEF ExcusedRegions, TInv
    <3> HIDE DEF excused
    <3>3. /\ local \in Local /\ local.pc = "store"
          /\ local.named = handler[r].named /\ local.excused = excused
      BY <1>0, <3>2 DEF Local, PCs
    <3> HIDE DEF local
    <3>4. Changed(r, local)
      BY <1>0, <2>3, <3>3, BecomeType
    <3>5. KInv' /\ PInv'
      BY <2>1, <3>3, <3>4, KFrame, PFrame DEF HInv
    <3>6. EInv'
      <4>1. \A s \in Request :
              /\ handler'[s].excused \subseteq dismissed
              /\ handler'[s].pc = "record" => handler'[s] = handler[s]
        BY <3>1, <3>3, <3>4 DEF Changed, HInv, EInv
      <4>2. QED
        BY <2>1, <4>1 DEF HInv, EInv, QRRescan, Residual
    <3>7. QED
      BY <3>5, <3>6 DEF HInv
  <2>4. QED
    BY <1>3, <2>2, <2>3 DEF ReadRegions
<1>4. CASE StoreOutput(r)
  <2> DEFINE output == [protects |-> Protects(handler[r].rows),
                        excused |-> handler[r].excused, status |-> "CREATED"]
  <2>1. /\ Leave(r) /\ UNCHANGED <<entities, mentions, certificates, dismissed, keyFile>>
        /\ outputs' = outputs \/ outputs' = Append(outputs, output)
    BY <1>4 DEF StoreOutput, documents
  <2>2. PICK local : /\ Changed(r, local) /\ local.pc = "leaving"
                     /\ local.named = "none" /\ local.excused = {}
    BY <2>1, LeaveLocal
  <2>3. KInv' /\ PInv'
    BY <2>1, <2>2, KFrame, PFrame DEF HInv
  <2>4. output \in Output /\ output.status = "CREATED" /\ output.excused \subseteq dismissed
    BY <1>0 DEF Output, Local, Protects, HInv, EInv
  <2> HIDE DEF output
  <2>5. /\ DOMAIN outputs \subseteq DOMAIN outputs'
        /\ \A o \in DOMAIN outputs : outputs'[o] = outputs[o]
        /\ \A o \in DOMAIN outputs' \ DOMAIN outputs : outputs'[o] = output
    <3>1. outputs \in Seq(Output)
      BY DEF TInv, ReviewTypeOK
    <3>2. QED
      BY <2>1, <2>4, <3>1, AppendProperties, LenProperties
  <2>6. EInv'
    <3>1. \A s \in Request :
            /\ handler'[s].excused \subseteq handler[s].excused
            /\ handler'[s].pc = "record" => handler'[s] = handler[s]
      BY <2>2 DEF Changed
    <3>2. \A o \in DOMAIN outputs' :
            /\ outputs'[o].excused \subseteq dismissed
            /\ outputs'[o].status = "VERIFIED_SAFE" => QRRescan(outputs'[o])
      BY <2>4, <2>5 DEF HInv, EInv
    <3>3. \A s \in Request : handler'[s].pc = "record" /\ handler'[s].safe =>
            QRRescan(outputs'[handler'[s].output])
      BY <2>5, <3>1 DEF HInv, EInv, TInv, TargetOK
    <3>4. QED
      BY <2>1, <3>1, <3>2, <3>3 DEF HInv, EInv, QRRescan, Residual
  <2>7. QED
    BY <2>3, <2>6 DEF HInv
<1>5. QED
  BY <1>1, <1>2, <1>3, <1>4

-----------------------------------------------------------------------------
(* Verification *)

\* The verdict that is recorded is that of the output as it still is.
LEMMA VerifyHInv == \A r \in Request : TInv /\ HInv /\ (Attack(r) \/ Record(r)) => HInv'
<1> SUFFICES ASSUME TInv, HInv, NEW r \in Request, Attack(r) \/ Record(r) PROVE HInv'
  OBVIOUS
<1>0. handler[r] \in Local /\ handler \in [Handler -> Local] /\ outputs \in Seq(Output)
  BY HeavyAssumption DEF TInv, ReviewTypeOK
<1>1. CASE Attack(r)
  <2>1. PICK others \in BOOLEAN :
          Become(r, [handler[r] EXCEPT !.pc = "record",
                       !.safe = RunRedTeam(outputs[handler[r].output], others)])
    BY <1>1 DEF Attack
  <2> DEFINE safe == RunRedTeam(outputs[handler[r].output], others)
             local == [handler[r] EXCEPT !.pc = "record", !.safe = safe]
  <2>2. safe \in BOOLEAN /\ (safe => QRRescan(outputs[handler[r].output]))
    BY DEF RunRedTeam, DirectIdentifierRescan, KnownValuesAbsent, QRRescan
  <2>3. Become(r, local)
    BY <2>1
  <2> HIDE DEF safe
  <2>4. /\ local \in Local /\ local.pc = "record" /\ local.safe = safe
        /\ local.output = handler[r].output
        /\ local.named = handler[r].named /\ local.excused = handler[r].excused
    BY <1>0, <2>2 DEF Local, PCs
  <2> HIDE DEF local
  <2>5. Changed(r, local)
    BY <1>0, <2>3, <2>4, BecomeType
  <2>6. UNCHANGED <<entities, mentions, outputs, certificates, dismissed, keyFile>>
    BY <1>1 DEF Attack, rows, documents
  <2>7. KInv' /\ PInv'
    BY <2>4, <2>5, <2>6, KFrame, PFrame DEF HInv
  <2>8. EInv'
    <3>1. \A s \in Request : s # r => handler'[s] = handler[s]
      BY <2>5 DEF Changed
    <3>2. handler'[r] = local
      BY <2>5 DEF Changed
    <3>3. \A s \in Request : handler'[s].pc = "record" /\ handler'[s].safe =>
            QRRescan(outputs[handler'[s].output])
      BY <2>2, <2>4, <3>1, <3>2 DEF HInv, EInv
    <3>4. \A s \in Request : handler'[s].excused \subseteq dismissed
      BY <2>4, <3>1, <3>2 DEF HInv, EInv
    <3>5. QED
      BY <2>6, <3>3, <3>4 DEF HInv, EInv, QRRescan, Residual
  <2>9. QED
    BY <2>7, <2>8 DEF HInv
<1>2. CASE Record(r)
  <2> DEFINE o == handler[r].output
             status == IF handler[r].safe THEN "VERIFIED_SAFE" ELSE "RELEASE_BLOCKED"
  <2>1. o \in DOMAIN outputs /\ handler[r].pc = "record"
    BY <1>2 DEF TInv, TargetOK, Record
  <2>2. /\ outputs' = [outputs EXCEPT ![o].status = status]
        /\ UNCHANGED <<entities, mentions, certificates, dismissed, keyFile>>
        /\ Leave(r) \/ Goto(r, "key")
    BY <1>2 DEF Record, documents
  <2>3. PICK local : /\ Changed(r, local) /\ local.pc \in {"leaving", "key"}
                     /\ local.named \in {handler[r].named, "none"}
                     /\ local.excused \in {handler[r].excused, {}}
    BY <2>2, LeaveLocal, GotoLocal DEF PCs
  <2>4. KInv' /\ PInv'
    BY <2>2, <2>3, KFrame, PFrame DEF HInv
  <2>5. /\ DOMAIN outputs' = DOMAIN outputs
        /\ \A p \in DOMAIN outputs :
             /\ outputs'[p].protects = outputs[p].protects
             /\ outputs'[p].excused = outputs[p].excused
             /\ outputs'[p].status = IF p = o THEN status ELSE outputs[p].status
    <3>1. \A p \in DOMAIN outputs : outputs[p] \in Output
      BY <1>0, ElementOfSeq, LenProperties
    <3> HIDE DEF status
    <3>2. QED
      BY <2>1, <2>2, <3>1 DEF Output
  <2>6. \A p \in DOMAIN outputs : QRRescan(outputs[p]) => QRRescan(outputs'[p])
    BY <2>5 DEF QRRescan, Residual
  <2>7. EInv'
    <3>1. \A s \in Request :
            /\ handler'[s].excused \subseteq handler[s].excused
            /\ handler'[s].pc = "record" => handler'[s] = handler[s]
      BY <2>3 DEF Changed
    <3>2. \A p \in DOMAIN outputs : outputs'[p].status = "VERIFIED_SAFE" =>
            QRRescan(outputs[p])
      BY <2>1, <2>5 DEF HInv, EInv
    <3>3. \A s \in Request : handler'[s].pc = "record" /\ handler'[s].safe =>
            QRRescan(outputs'[handler'[s].output])
      BY <2>6, <3>1 DEF HInv, EInv, TInv, TargetOK
    <3>4. \A p \in DOMAIN outputs' :
            /\ outputs'[p].excused \subseteq dismissed
            /\ outputs'[p].status = "VERIFIED_SAFE" => QRRescan(outputs'[p])
      BY <2>5, <2>6, <3>2 DEF HInv, EInv
    <3>5. \A s \in Request : handler'[s].excused \subseteq dismissed
      BY <3>1 DEF HInv, EInv
    <3>6. QED
      BY <2>2, <3>3, <3>4, <3>5 DEF HInv, EInv, QRRescan, Residual
  <2>8. QED
    BY <2>4, <2>7 DEF HInv
<1>3. QED
  BY <1>1, <1>2

-----------------------------------------------------------------------------
(* The signing key *)

\* The key file is created by one handler and filled by the same one; every
\* key that is read is the one in the file.
LEMMA KeyHInv ==
  \A r \in Request :
    TInv /\ HInv /\ (LookForKey(r) \/ MakeKeyFile(r) \/ FillKeyFile(r) \/ ReadKey(r)) => HInv'
<1> SUFFICES ASSUME TInv, HInv, NEW r \in Request,
                    LookForKey(r) \/ MakeKeyFile(r) \/ FillKeyFile(r) \/ ReadKey(r)
             PROVE  HInv'
  OBVIOUS
<1>0. handler[r] \in Local /\ handler \in [Handler -> Local] /\ r \in Handler
  BY HeavyAssumption DEF TInv, ReviewTypeOK
<1>1. CASE LookForKey(r)
  <2>1. Goto(r, "create") \/ Goto(r, "read")
    BY <1>1 DEF LookForKey
  <2>2. UNCHANGED <<rows, certificates, dismissed, keyFile>>
    BY <1>1 DEF LookForKey, documents
  <2>3. QED
    BY <2>1, <2>2, GotoLocal, QuietHInv DEF PCs
<1>2. CASE MakeKeyFile(r)
  <2>1. UNCHANGED <<rows, certificates, dismissed>>
    BY <1>2 DEF MakeKeyFile, documents
  <2>2. CASE keyFile # "absent"
    <3>1. Goto(r, "read") /\ UNCHANGED keyFile
      BY <1>2, <2>2 DEF MakeKeyFile, CreateKey
    <3>2. QED
      BY <2>1, <3>1, GotoLocal, QuietHInv DEF PCs
  <2>3. CASE keyFile = "absent"
    <3>1. Goto(r, "write") /\ keyFile' = "empty"
      BY <1>2, <2>3 DEF MakeKeyFile, CreateKey
    <3>2. PICK local : /\ Changed(r, local) /\ local.pc = "write"
                       /\ local.named = handler[r].named
                       /\ local.excused = handler[r].excused
      BY <3>1, GotoLocal DEF PCs
    <3>3. /\ \A s \in Request : handler[s].named = "none" /\ handler[s].pc # "write"
          /\ certificates = {}
      BY <2>3 DEF HInv, KInv, Readable
    <3>4. /\ \A s \in Request : handler'[s].named = "none"
          /\ \A s \in Request : handler'[s].pc = "write" => s = r
      BY <3>2, <3>3 DEF Changed
    <3>5. KInv'
      BY <2>1, <3>1, <3>3, <3>4 DEF KInv, OneIdentity
    <3>6. EInv' /\ PInv'
      BY <2>1, <3>2, EFrame, PFrame DEF HInv, rows
    <3>7. QED
      BY <3>5, <3>6 DEF HInv
  <2>4. QED
    BY <2>2, <2>3
<1>3. CASE FillKeyFile(r)
  <2>1. /\ Goto(r, "read") /\ keyFile' = r /\ handler[r].pc = "write"
        /\ UNCHANGED <<rows, certificates, dismissed>>
    BY <1>3 DEF FillKeyFile, WriteKey, documents
  <2>2. PICK local : /\ Changed(r, local) /\ local.pc = "read"
                     /\ local.named = handler[r].named
                     /\ local.excused = handler[r].excused
    BY <2>1, GotoLocal DEF PCs
  <2>3. /\ \A s \in Request : handler[s].named = "none"
        /\ \A s \in Request : handler[s].pc = "write" => s = r
        /\ certificates = {}
    BY <2>1 DEF HInv, KInv, Readable
  <2>4. \A s \in Request : handler'[s].named = "none" /\ handler'[s].pc # "write"
    BY <2>2, <2>3 DEF Changed
  <2>5. KInv'
    BY <2>1, <2>3, <2>4 DEF KInv, OneIdentity
  <2>6. EInv' /\ PInv'
    BY <2>1, <2>2, EFrame, PFrame DEF HInv, rows
  <2>7. QED
    BY <2>5, <2>6 DEF HInv
<1>4. CASE ReadKey(r)
  <2>1. UNCHANGED <<rows, dismissed, keyFile>>
    BY <1>4 DEF ReadKey
  <2>2. CASE ~Readable
    <3>1. Leave(r) /\ UNCHANGED certificates
      BY <1>4, <2>2 DEF ReadKey
    <3>2. QED
      BY <2>1, <3>1, LeaveLocal, QuietHInv
  <2>3. CASE Readable /\ handler[r].named = "none"
    <3> DEFINE local == [handler[r] EXCEPT !.pc = "key", !.named = keyFile]
    <3>1. keyFile \in Handler
      BY <2>3 DEF TInv, ReviewTypeOK, Readable
    <3>2. /\ local \in Local /\ local.pc = "key" /\ local.named = keyFile
          /\ local.excused = handler[r].excused
      BY <1>0, <3>1 DEF Local, PCs
    <3>3. Become(r, local) /\ UNCHANGED certificates
      BY <1>4, <2>3 DEF ReadKey
    <3> HIDE DEF local
    <3>4. Changed(r, local)
      BY <1>0, <3>2, <3>3, BecomeType
    <3>5. \A s \in Request : /\ handler'[s].pc = "write" => handler[s].pc = "write"
                             /\ handler'[s].named \in {handler[s].named, keyFile}
      BY <3>2, <3>4 DEF Changed
    <3>6. KInv'
      BY <2>1, <2>3, <3>3, <3>5 DEF HInv, KInv, OneIdentity, Readable
    <3>7. EInv' /\ PInv'
      BY <2>1, <3>2, <3>4, EFrame, PFrame DEF HInv, rows
    <3>8. QED
      BY <3>6, <3>7 DEF HInv
  <2>4. CASE Readable /\ handler[r].named # "none"
    <3> DEFINE certificate == [output |-> handler[r].output, named |-> handler[r].named,
                               signed |-> keyFile]
    <3>1. Leave(r) /\ certificates' = certificates \cup {certificate}
      BY <1>4, <2>4 DEF ReadKey
    <3>2. certificate.named = keyFile /\ certificate.signed = keyFile
      BY <2>4 DEF HInv, KInv
    <3> HIDE DEF certificate
    <3>3. PICK local : /\ Changed(r, local) /\ local.pc = "leaving"
                       /\ local.named = "none" /\ local.excused = {}
      BY <3>1, LeaveLocal
    <3>4. \A s \in Request : /\ handler'[s].pc = "write" => handler[s].pc = "write"
                             /\ handler'[s].named \in {handler[s].named, "none"}
      BY <3>3 DEF Changed
    <3>5. OneIdentity'
      BY <2>1, <3>1, <3>2 DEF HInv, KInv, OneIdentity
    <3>6. KInv'
      BY <2>1, <2>4, <3>4, <3>5 DEF HInv, KInv, Readable
    <3>7. EInv' /\ PInv'
      BY <2>1, <3>3, EFrame, PFrame DEF HInv, rows
    <3>8. QED
      BY <3>6, <3>7 DEF HInv
  <2>5. QED
    BY <2>2, <2>3, <2>4
<1>5. QED
  BY <1>1, <1>2, <1>3, <1>4

-----------------------------------------------------------------------------
(* The whole system: what the handlers keep true *)

\* Every step of a handler keeps the invariants.
LEMMA WorkHInv == \A r \in Request : TInv /\ HInv /\ Work(r) => HInv'
<1> SUFFICES ASSUME TInv, HInv, NEW r \in Request, Work(r) PROVE HInv'
  OBVIOUS
<1>1. CASE Fails(r)
  <2>1. Leave(r) /\ UNCHANGED <<rows, certificates, dismissed, keyFile>>
    BY <1>1 DEF Fails, documents
  <2>2. QED
    BY <2>1, LeaveLocal, QuietHInv
<1>2. QED
  BY <1>1, CheckHInv, InsertEntityHInv, InsertMentionHInv, TransformHInv, VerifyHInv,
     KeyHInv DEF Work

\* A handler that is over has no local variables that matter.
LEMMA EndedHInv ==
  ASSUME TInv, HInv, NEW r \in Request, Become(r, Ended("done")),
         UNCHANGED <<rows, certificates, dismissed, keyFile>>
  PROVE  HInv'
<1>1. Ended("done") \in Local
  BY EndedType DEF PCs
<1>2. Changed(r, Ended("done"))
  BY <1>1, BecomeType DEF TInv, ReviewTypeOK
<1>3. /\ Ended("done").pc = "done" /\ Ended("done").named = "none"
      /\ Ended("done").excused = {}
  BY DEF Ended, Fresh
<1>4. QED
  BY <1>2, <1>3, QuietHInv

\* Nothing is read or stored yet.
LEMMA InitHInv == Init => HInv
<1> SUFFICES ASSUME Init PROVE HInv
  OBVIOUS
<1>1. \A r \in Request : /\ handler[r].pc = "idle" /\ handler[r].named = "none"
                         /\ handler[r].excused = {}
  BY HeavyAssumption DEF Init, ReviewInit, Fresh
<1>2. /\ entities = {} /\ mentions = {} /\ outputs = <<>> /\ certificates = {}
      /\ dismissed = {}
  BY DEF Init, ReviewInit
<1>3. KInv
  BY <1>1, <1>2 DEF KInv, OneIdentity
<1>4. EInv
  BY <1>1, <1>2 DEF EInv
<1>5. PInv
  BY <1>1, <1>2 DEF PInv, Storing, AnalysisIsOfOnePiece
<1>6. QED
  BY <1>3, <1>4, <1>5 DEF HInv

\* A restart forgets rows and handlers together; the certificates and the key
\* file stay together.
LEMMA RestartHInv == HInv /\ Restart => HInv'
<1> SUFFICES ASSUME HInv, Restart PROVE HInv'
  OBVIOUS
<1>1. \A r \in Request : /\ handler'[r].pc \in {"idle", "done"}
                         /\ handler'[r].named = "none" /\ handler'[r].excused = {}
  <2> TAKE r \in Request
  <2>1. handler'[r] = Ended("idle") \/ handler'[r] = Ended("done")
    BY DEF Restart
  <2>2. QED
    BY <2>1 DEF Ended, Fresh
<1>2. /\ entities' = {} /\ mentions' = {} /\ outputs' = <<>> /\ dismissed' = {}
      /\ UNCHANGED <<certificates, keyFile>>
  BY DEF Restart, documents
<1>3. KInv'
  BY <1>1, <1>2 DEF HInv, KInv, OneIdentity, Readable
<1>4. EInv'
  BY <1>1, <1>2 DEF EInv
<1>5. PInv'
  BY <1>1, <1>2 DEF PInv, Storing, AnalysisIsOfOnePiece
<1>6. QED
  BY <1>3, <1>4, <1>5 DEF HInv

\* Every step of the system keeps the invariants of the handlers.
LEMMA NextHInv == BInv /\ HInv /\ [Next]_vars => HInv'
<1> SUFFICES ASSUME BInv, HInv, [Next]_vars PROVE HInv'
  OBVIOUS
<1>0. TInv
  BY DEF BInv
<1>a. ASSUME UNCHANGED review, UNCHANGED keyFile PROVE HInv'
  <2>1. UNCHANGED <<entities, mentions, outputs, handler, certificates, dismissed>>
    BY <1>a DEF review, rows, documents
  <2>2. KInv'
    BY <1>a, <2>1 DEF HInv, KInv, OneIdentity, Readable
  <2>3. EInv'
    BY <2>1 DEF HInv, EInv, QRRescan, Residual
  <2>4. PInv'
    BY <2>1 DEF HInv, PInv, Storing, AnalysisIsOfOnePiece, Detections
  <2>5. QED
    BY <2>2, <2>3, <2>4 DEF HInv
<1>1. ASSUME NEW r \in Request, Arrive(r) PROVE HInv'
  <2>1. PICK local \in Local :
          /\ Become(r, local) /\ local.pc \in Ops
          /\ local.excused = handler[r].excused /\ local.named = handler[r].named
    BY <1>0, <1>1, ArriveLocal
  <2>2. Changed(r, local)
    BY <1>0, <2>1, BecomeType DEF TInv, ReviewTypeOK
  <2>3. UNCHANGED <<rows, certificates, dismissed, keyFile>>
    BY <1>1 DEF Arrive, documents
  <2>4. QED
    BY <2>1, <2>2, <2>3, QuietHInv DEF Ops
<1>2. ASSUME NEW r \in Request, Wake(r) PROVE HInv'
  <2>1. UNCHANGED <<rows, documents, dismissed, keyFile>>
    BY <1>2 DEF Wake
  <2>2. UNCHANGED handler \/ Become(r, Ended("done"))
    BY <1>2 DEF Wake
  <2>3. QED
    BY <1>0, <1>a, <2>1, <2>2, EndedHInv DEF review, documents
<1>3. ASSUME NEW r \in Request, TimeOut(r) PROVE HInv'
  BY <1>3, <1>a DEF TimeOut
<1>4. ASSUME NEW r \in Request, Handle(r) PROVE HInv'
  BY <1>0, <1>4, WorkHInv DEF Handle
<1>5. ASSUME NEW r \in Request, Answer(r) PROVE HInv'
  BY <1>0, <1>5, EndedHInv DEF Answer, documents
<1>6. ASSUME LightRequest PROVE HInv'
  <2>1. ASSUME NEW o \in DOMAIN outputs, Download(o) PROVE HInv'
    <3>1. UNCHANGED <<entities, mentions, outputs, handler, certificates, dismissed,
                      keyFile>>
      BY <2>1 DEF Download, rows
    <3>2. KInv'
      BY <3>1 DEF HInv, KInv, OneIdentity, Readable
    <3>3. EInv'
      BY <3>1 DEF HInv, EInv, QRRescan, Residual
    <3>4. PInv'
      BY <3>1 DEF HInv, PInv, Storing, AnalysisIsOfOnePiece, Detections
    <3>5. QED
      BY <3>2, <3>3, <3>4 DEF HInv
  <2>2. QED
    BY <1>6, <2>1, ReviewHInv DEF LightRequest
<1>7. ASSUME UNCHANGED vars PROVE HInv'
  BY <1>7, <1>a DEF vars
<1>8. QED
  BY <1>1, <1>2, <1>3, <1>4, <1>5, <1>6, <1>7, RestartHInv DEF Next

\* All certificates, across restarts, name and are signed by the one key of
\* the device, whoever raced to create it.
THEOREM OneKeyForAll == Spec => []OneIdentity
<1>1. BInv /\ HInv => OneIdentity
  BY DEF HInv, KInv
<1>2. Init => BInv /\ HInv
  BY InitBInv, InitHInv
<1>3. BInv /\ HInv /\ [Next]_vars => BInv' /\ HInv'
  BY NextBInv, NextHInv
<1>4. QED
  BY <1>1, <1>2, <1>3, PTL DEF Spec

\* Rows of two concurrent analyses are never mixed and never have a gap.
THEOREM RowsAreOfOneAnalysis == Spec => []AnalysisIsOfOnePiece
<1>1. BInv /\ HInv => AnalysisIsOfOnePiece
  BY DEF HInv, PInv
<1>2. Init => BInv /\ HInv
  BY InitBInv, InitHInv
<1>3. BInv /\ HInv /\ [Next]_vars => BInv' /\ HInv'
  BY NextBInv, NextHInv
<1>4. QED
  BY <1>1, <1>2, <1>3, PTL DEF Spec

\* What a VERIFIED_SAFE output still shows of QR shapes, a reviewer has
\* dismissed, in whatever order reviews, analysis and transformation ran.
THEOREM ExcusesComeFromReviewers == Spec => []ExcusedByReviewer
<1>1. BInv /\ HInv => ExcusedByReviewer
  <2> SUFFICES ASSUME EInv, NEW o \in DOMAIN outputs, outputs[o].status = "VERIFIED_SAFE"
               PROVE  {i \in Residual(outputs[o]) : Visual(i)} \subseteq dismissed
    BY DEF HInv, ExcusedByReviewer
  <2>1. QRRescan(outputs[o]) /\ outputs[o].excused \subseteq dismissed
    BY DEF EInv
  <2>2. QED
    BY <2>1 DEF QRRescan
<1>2. Init => BInv /\ HInv
  BY InitBInv, InitHInv
<1>3. BInv /\ HInv /\ [Next]_vars => BInv' /\ HInv'
  BY NextBInv, NextHInv
<1>4. QED
  BY <1>1, <1>2, <1>3, PTL DEF Spec
=============================================================================
