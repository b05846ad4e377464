---------------------------- MODULE AIWorker_proofs ----------------------------
(***************************************************************************)
(* What holds of AIWorker for every set of requests and every size of the  *)
(* queue, however the threads are interleaved and the backend answers.     *)
(***************************************************************************)
EXTENDS AIWorker, FiniteSetTheorems, SequenceTheorems, TLAPS

--------------------------------------------------------------------------------
(* Lemmas about the queue.                                                 *)

(* The room EnqueueRequest makes: the oldest go, and one more fits.        *)
LEMMA RoomIsMade ==
  ASSUME NEW q \in Seq(Requests), Len(q) <= MaxQueueSize
  PROVE  /\ RoomFor(q) \in Seq(Requests)
         /\ Len(RoomFor(q)) < MaxQueueSize
         /\ \E n \in 0..Len(q) : RoomFor(q) = SubSeq(q, n + 1, Len(q))
         /\ Len(RoomFor(q)) <= Len(q)
<1>1. /\ MaxQueueSize \in Nat \ {0} /\ Len(q) \in Nat
      /\ \A i \in 1..Len(q) : q[i] \in Requests
  BY WorkerAssumption, LenProperties
<1>2. CASE Len(q) < MaxQueueSize
  <2>1. RoomFor(q) = q
    BY <1>2 DEF RoomFor
  <2>2. SubSeq(q, 0 + 1, Len(q)) = q
    BY SubSeqFull
  <2> QED BY <1>1, <1>2, <2>1, <2>2
<1>3. CASE ~ (Len(q) < MaxQueueSize)
  <2>1. Len(q) = MaxQueueSize
    BY <1>1, <1>3
  <2>2. RoomFor(q) = SubSeq(q, 2, Len(q))
    BY <1>1, <1>3, <2>1 DEF RoomFor
  <2>3. /\ SubSeq(q, 2, Len(q)) \in Seq(Requests)
        /\ Len(SubSeq(q, 2, Len(q))) = IF 2 <= Len(q) THEN Len(q) - 2 + 1 ELSE 0
    BY <1>1, SubSeqProperties
  <2>4. 1 \in 0..Len(q) /\ 1 + 1 = 2
    BY <1>1, <2>1
  <2> QED BY <1>1, <2>1, <2>2, <2>3, <2>4
<1> QED BY <1>2, <1>3

--------------------------------------------------------------------------------
(* Types.                                                                  *)

(* TypeOK without the flags: what is counted and queued.                   *)
DataOK ==
  /\ queue \in Seq(Requests) /\ Len(queue) <= MaxQueueSize
  /\ hand \in Requests \cup {None}
  /\ processed \in Nat /\ dropped \in Nat /\ discarded \in Nat
  /\ enqueued \subseteq Requests

LEMMA DataStep == DataOK /\ [Next]_vars => DataOK'
<1> SUFFICES ASSUME DataOK, [Next]_vars PROVE DataOK'
  OBVIOUS
<1> USE DEF DataOK
<1>1. ASSUME NEW r \in Requests, EnqueueRequest(r)
      PROVE  DataOK'
  <2>1. /\ RoomFor(queue) \in Seq(Requests)
        /\ Len(RoomFor(queue)) < MaxQueueSize /\ Len(RoomFor(queue)) <= Len(queue)
    BY RoomIsMade
  <2>2. /\ queue' \in Seq(Requests) /\ Len(queue') = Len(RoomFor(queue)) + 1
    BY <1>1, <2>1, AppendProperties DEF EnqueueRequest
  <2>3. Len(queue) \in Nat /\ Len(RoomFor(queue)) \in Nat
    BY <2>1, LenProperties
  <2>4. dropped' \in Nat /\ Len(queue') <= MaxQueueSize
    BY <1>1, <2>1, <2>2, <2>3, WorkerAssumption DEF EnqueueRequest
  <2> QED BY <1>1, <2>2, <2>4 DEF EnqueueRequest, thread
<1>2. CASE PopsRequest
  <2>1. /\ Head(queue) \in Requests /\ Tail(queue) \in Seq(Requests)
        /\ Len(Tail(queue)) = Len(queue) - 1
    BY <1>2, HeadTailProperties DEF PopsRequest
  <2>2. Len(queue) \in Nat
    BY LenProperties
  <2> QED BY <1>2, <2>1, <2>2, WorkerAssumption DEF PopsRequest, stats
<1>3. CASE DiscardsRequest \/ GeneratesNothing \/ GeneratesCandidates
  BY <1>3 DEF DiscardsRequest, GeneratesNothing, GeneratesCandidates
<1>4. CASE StoresCandidates
  BY <1>4 DEF StoresCandidates, stats
<1>5. ASSUME UNCHANGED <<queue, hand, stats, enqueued>>
      PROVE  DataOK'
  BY <1>5 DEF stats
<1>6. CASE Start \/ StopBegins \/ StopNotifies \/ StopJoins
  BY <1>5, <1>6 DEF Start, StopBegins, StopNotifies, StopJoins, thread
<1>7. CASE ReadsRunning \/ Locks \/ ChecksPredicate \/ FallsAsleep \/ WakesUp \/ WaitTimesOut
  BY <1>5, <1>7 DEF ReadsRunning, Locks, ChecksPredicate, FallsAsleep, WakesUp,
                    WaitTimesOut
<1>8. CASE BreaksOrContinues \/ CallsGenerate \/ WarmsUp
           \/ \E succeeds \in BOOLEAN : Initializes(succeeds)
  BY <1>5, <1>8 DEF BreaksOrContinues, CallsGenerate, WarmsUp, Initializes
<1>9. CASE UNCHANGED vars
  BY <1>5, <1>9 DEF vars, thread
<1> QED BY <1>1, <1>2, <1>3, <1>4, <1>6, <1>7, <1>8, <1>9
           DEF Next, Stops, Loops, BackendReturns

(* The flags, which are set to TRUE, to FALSE or to the value of a formula.*)
FlagsOK == running \in BOOLEAN /\ backend_ready \in BOOLEAN /\ signalled \in BOOLEAN

LEMMA FlagsStep == FlagsOK /\ [Next]_vars => FlagsOK'
<1> SUFFICES ASSUME FlagsOK, [Next]_vars PROVE FlagsOK'
  OBVIOUS
<1> USE DEF FlagsOK
<1>1. ASSUME NEW r \in Requests, EnqueueRequest(r)
      PROVE  FlagsOK'
  BY <1>1, Zenon DEF EnqueueRequest
<1>2. CASE Start
  BY <1>2, Zenon DEF Start
<1>3. CASE StopBegins
  BY <1>3, Zenon DEF StopBegins
<1>4. CASE StopNotifies
  BY <1>4, Zenon DEF StopNotifies
<1>5. CASE FallsAsleep \/ WakesUp \/ WaitTimesOut
  BY <1>5, Zenon DEF FallsAsleep, WakesUp, WaitTimesOut
<1>6. ASSUME NEW succeeds \in BOOLEAN, Initializes(succeeds)
      PROVE  FlagsOK'
  BY <1>6, Zenon DEF Initializes
<1>7. ASSUME UNCHANGED <<running, backend_ready, signalled>>
      PROVE  FlagsOK'
  BY <1>7, Zenon
<1>8. CASE \/ StopJoins \/ ReadsRunning \/ Locks \/ ChecksPredicate
           \/ BreaksOrContinues \/ PopsRequest \/ DiscardsRequest
  BY <1>7, <1>8, Zenon DEF StopJoins, ReadsRunning, Locks, ChecksPredicate,
                           BreaksOrContinues, PopsRequest, DiscardsRequest
<1>9. CASE \/ CallsGenerate \/ StoresCandidates \/ WarmsUp
           \/ GeneratesNothing \/ GeneratesCandidates \/ UNCHANGED vars
  BY <1>7, <1>9, Zenon DEF CallsGenerate, StoresCandidates, WarmsUp,
                           GeneratesNothing, GeneratesCandidates, vars
<1> QED BY <1>1, <1>2, <1>3, <1>4, <1>5, <1>6, <1>8, <1>9, Zenon
           DEF Next, Stops, Loops, BackendReturns

--------------------------------------------------------------------------------
(* Where the threads can stand.  The mutex is held while the worker checks,*)
(* decides and falls asleep; a request is in hand from the pop to the cache;*)
(* between the start of a Stop and its end the thread may be anywhere.     *)
Locked == {"checking", "sleeping", "deciding"}
Busy == {"holding", "generating", "storing"}

Control ==
  /\ mutex = IF pc \in Locked THEN "worker" ELSE "free"
  /\ IF pc \in Busy THEN hand \in Requests ELSE hand = None
  /\ pc = "none" <=> (~running /\ owner = "idle")
  /\ owner # "idle" => ~running
  /\ pc = "sleeping" => queue = <<>> /\ (running \/ owner = "notifying")
  /\ NoLostWakeup

LEMMA ControlStep == DataOK /\ Control /\ [Next]_vars => Control'
<1> SUFFICES ASSUME DataOK, Control, [Next]_vars PROVE Control'
  OBVIOUS
<1> USE DEF Control, NoLostWakeup, Locked, Busy
<1>1. ASSUME NEW r \in Requests, EnqueueRequest(r)
      PROVE  Control'
  BY <1>1 DEF EnqueueRequest, thread
<1>2. CASE PopsRequest
  <2>1. Head(queue) \in Requests
    BY <1>2, HeadTailProperties DEF PopsRequest, DataOK
  <2> QED BY <1>2, <2>1 DEF PopsRequest
<1>3. CASE DiscardsRequest \/ GeneratesNothing \/ GeneratesCandidates
           \/ StoresCandidates \/ CallsGenerate
  BY <1>3 DEF DiscardsRequest, GeneratesNothing, GeneratesCandidates,
              StoresCandidates, CallsGenerate
<1>4. CASE Start
  BY <1>4 DEF Start
<1>5. CASE StopBegins
  BY <1>5 DEF StopBegins, thread
<1>6. CASE StopNotifies
  BY <1>6 DEF StopNotifies, thread
<1>7. CASE StopJoins
  BY <1>7 DEF StopJoins
<1>8. CASE ReadsRunning \/ Locks \/ ChecksPredicate
  BY <1>8 DEF ReadsRunning, Locks, ChecksPredicate
<1>9. CASE FallsAsleep \/ WakesUp \/ WaitTimesOut \/ BreaksOrContinues
  BY <1>9 DEF FallsAsleep, WakesUp, WaitTimesOut, BreaksOrContinues
<1>10. CASE WarmsUp \/ \E succeeds \in BOOLEAN : Initializes(succeeds)
  BY <1>10 DEF WarmsUp, Initializes
<1>11. CASE UNCHANGED vars
  BY <1>11 DEF vars, thread
<1> QED BY <1>1, <1>2, <1>3, <1>4, <1>5, <1>6, <1>7, <1>8, <1>9, <1>10, <1>11
           DEF Next, Stops, Loops, BackendReturns

(* The places themselves.                                                  *)
Places ==
  /\ pc \in {"none", "starting", "warming", "top", "locking", "checking",
             "sleeping", "asleep", "deciding", "holding", "generating",
             "storing", "ended"}
  /\ owner \in {"idle", "notifying", "joining"}

LEMMA PlacesStep == Places /\ [Next]_vars => Places'
<1> SUFFICES ASSUME Places, [Next]_vars PROVE Places'
  OBVIOUS
<1> USE DEF Places
<1>1. CASE Start \/ StopBegins \/ Stops \/ \E r \in Requests : EnqueueRequest(r)
  BY <1>1 DEF Start, StopBegins, Stops, StopNotifies, StopJoins, EnqueueRequest,
              thread
<1>2. CASE Loops
  BY <1>2 DEF Loops, ReadsRunning, Locks, ChecksPredicate, FallsAsleep,
              BreaksOrContinues, PopsRequest, DiscardsRequest, CallsGenerate,
              StoresCandidates
<1>3. CASE WakesUp \/ WaitTimesOut \/ BackendReturns
  BY <1>3 DEF WakesUp, WaitTimesOut, BackendReturns, Initializes, WarmsUp,
              GeneratesNothing, GeneratesCandidates
<1>4. CASE UNCHANGED vars
  BY <1>4 DEF vars, thread
<1> QED BY <1>1, <1>2, <1>3, <1>4 DEF Next

LEMMA Invariant == Spec => [](DataOK /\ Control)
<1>1. Init => DataOK
  BY EmptySeq, WorkerAssumption DEF Init, DataOK
<1>2. Init => Control
  BY DEF Init, Control, NoLostWakeup, Locked, Busy
<1> QED BY <1>1, <1>2, DataStep, ControlStep, PTL DEF Spec

(* The worker is well-typed, and its queue never above the limit.          *)
THEOREM WorkerTypeCorrect == Spec => []TypeOK
<1>1. Init => FlagsOK
  BY Zenon DEF Init, FlagsOK
<1>2. Init => Places
  BY DEF Init, Places
<1>3. FlagsOK => {running, backend_ready, signalled} \subseteq BOOLEAN
  BY Zenon DEF FlagsOK
<1>4. FlagsOK /\ Places /\ DataOK /\ Control => TypeOK
  BY <1>3 DEF Places, DataOK, Control, TypeOK
<1> QED BY <1>1, <1>2, <1>4, FlagsStep, PlacesStep, Invariant, PTL DEF Spec

(* A worker that sleeps unnotified has nothing to do, or Stop has yet to   *)
(* notify it: running_ is changed outside the mutex, but Stop takes it     *)
(* between that and the notification, so it cannot fall between the check  *)
(* of the predicate and the sleep.                                         *)
THEOREM NoWakeupIsLost == Spec => []NoLostWakeup
<1>1. Control => NoLostWakeup
  BY DEF Control
<1> QED BY <1>1, Invariant, PTL

(* When Stop has returned, the thread is gone with what it had in hand, so *)
(* that the backend and the cache may be destroyed.                        *)
THEOREM StopLeavesNothing == Spec => []StoppedIsQuiet
<1>1. Control => StoppedIsQuiet
  BY DEF Control, StoppedIsQuiet, Locked, Busy
<1> QED BY <1>1, Invariant, PTL

--------------------------------------------------------------------------------
(* Counting.                                                               *)

LEMMA CountStep ==
  DataOK /\ Control /\ CountsAddUp /\ [Next]_vars => CountsAddUp'
<1> SUFFICES ASSUME DataOK, Control, CountsAddUp, [Next]_vars PROVE CountsAddUp'
  OBVIOUS
<1>1. DataOK' /\ IsFiniteSet(enqueued) /\ Len(queue) \in Nat /\ InHand \in Nat
  <2>1. IsFiniteSet(enqueued)
    BY WorkerAssumption, FS_Subset DEF DataOK
  <2> QED BY <2>1, DataStep, LenProperties DEF DataOK, InHand
<1> USE <1>1 DEF DataOK, CountsAddUp
<1>2. ASSUME NEW r \in Requests, EnqueueRequest(r)
      PROVE  CountsAddUp'
  <2>1. Cardinality(enqueued') = Cardinality(enqueued) + 1
    BY <1>2, FS_AddElement DEF EnqueueRequest
  <2>2. RoomFor(queue) \in Seq(Requests) /\ Len(RoomFor(queue)) \in Nat
    BY RoomIsMade, LenProperties
  <2>3. Len(queue') = Len(RoomFor(queue)) + 1
    BY <1>2, <2>2, AppendProperties DEF EnqueueRequest
  <2>4. /\ dropped' = dropped + (Len(queue) - Len(RoomFor(queue)))
        /\ processed' = processed /\ discarded' = discarded
    BY <1>2 DEF EnqueueRequest
  <2>5. InHand' = InHand
    BY <1>2 DEF EnqueueRequest, InHand, thread
  <2> QED BY <2>1, <2>2, <2>3, <2>4, <2>5
<1>3. CASE PopsRequest
  <2>1. Len(queue') = Len(queue) - 1 /\ InHand = 0 /\ InHand' = 1
    BY <1>3, HeadTailProperties DEF PopsRequest, InHand
  <2> QED BY <1>3, <2>1 DEF PopsRequest, stats
<1>4. CASE DiscardsRequest \/ GeneratesNothing \/ GeneratesCandidates
  <2>1. InHand = 1 /\ InHand' = 0
    BY <1>4 DEF DiscardsRequest, GeneratesNothing, GeneratesCandidates, InHand
  <2>2. /\ queue' = queue /\ enqueued' = enqueued /\ dropped' = dropped
        /\ \/ processed' = processed /\ discarded' = discarded + 1
           \/ processed' = processed + 1 /\ discarded' = discarded
    BY <1>4 DEF DiscardsRequest, GeneratesNothing, GeneratesCandidates
  <2>3. Len(queue') = Len(queue) /\ Cardinality(enqueued') = Cardinality(enqueued)
    BY <2>2
  <2> QED BY <2>1, <2>2, <2>3
<1>5. ASSUME UNCHANGED <<queue, stats, enqueued>>, InHand' = InHand
      PROVE  CountsAddUp'
  <2>1. Len(queue') = Len(queue) /\ Cardinality(enqueued') = Cardinality(enqueued)
    BY <1>5
  <2> QED BY <1>5, <2>1 DEF stats
<1>6. CASE Start \/ StopBegins \/ StopNotifies \/ StopJoins \/ StoresCandidates
  BY <1>5, <1>6 DEF Start, StopBegins, StopNotifies, StopJoins, StoresCandidates,
                    thread, InHand, Control
<1>7. CASE ReadsRunning \/ Locks \/ ChecksPredicate \/ FallsAsleep \/ WakesUp \/ WaitTimesOut
  BY <1>5, <1>7 DEF ReadsRunning, Locks, ChecksPredicate, FallsAsleep, WakesUp,
                    WaitTimesOut, InHand
<1>8. CASE BreaksOrContinues \/ CallsGenerate \/ WarmsUp
           \/ \E succeeds \in BOOLEAN : Initializes(succeeds)
  BY <1>5, <1>8 DEF BreaksOrContinues, CallsGenerate, WarmsUp, Initializes, InHand
<1>9. CASE UNCHANGED vars
  BY <1>5, <1>9 DEF vars, thread, InHand
<1> QED BY <1>2, <1>3, <1>4, <1>6, <1>7, <1>8, <1>9
           DEF Next, Stops, Loops, BackendReturns

(* Every call of EnqueueRequest is accounted for, by the queue, the hand   *)
(* and the counters of GetStats, but for requests popped too early.        *)
THEOREM EveryRequestCounted == Spec => []CountsAddUp
<1>1. Init => CountsAddUp
  BY EmptySeq, FS_EmptySet, WorkerAssumption DEF Init, CountsAddUp, InHand
<1> QED BY <1>1, CountStep, Invariant, PTL DEF Spec

--------------------------------------------------------------------------------
(* The worker implements RequestLine.                                      *)

LEMMA LineStep ==
  DataOK /\ Control /\ [Next]_vars
    => [L!Next]_<<queue, HandIf({"holding"}), HandIf({"generating", "storing"})>>
<1> DEFINE takenNow == HandIf({"holding"})
           servedNow == HandIf({"generating", "storing"})
<1> SUFFICES ASSUME DataOK, Control, [Next]_vars
             PROVE  L!Next \/ UNCHANGED <<queue, takenNow, servedNow>>
  OBVIOUS
<1>1. ASSUME NEW r \in Requests, EnqueueRequest(r)
      PROVE  L!Submit(r)
  <2>1. PICK n \in 0..Len(queue) : RoomFor(queue) = SubSeq(queue, n + 1, Len(queue))
    BY RoomIsMade DEF DataOK
  <2>2. queue' = SubSeq(queue, n + 1, Len(queue)) \o <<r>>
    BY <1>1, <2>1, RoomIsMade, AppendIsConcat DEF EnqueueRequest, DataOK
  <2>3. UNCHANGED <<takenNow, servedNow>>
    BY <1>1 DEF EnqueueRequest, thread, HandIf
  <2> QED BY <2>2, <2>3 DEF L!Submit
<1>2. ASSUME PopsRequest
      PROVE  L!Take
  BY <1>2 DEF PopsRequest, L!Take, HandIf
<1>3. ASSUME DiscardsRequest
      PROVE  L!GiveUp
  BY <1>3, WorkerAssumption DEF DiscardsRequest, L!GiveUp, HandIf, Control, Busy
<1>4. ASSUME CallsGenerate
      PROVE  L!Serve
  BY <1>4, WorkerAssumption DEF CallsGenerate, L!Serve, HandIf, Control, Busy
<1>5. ASSUME GeneratesNothing \/ StoresCandidates
      PROVE  L!Finish
  BY <1>5, WorkerAssumption
     DEF GeneratesNothing, StoresCandidates, L!Finish, HandIf, Control, Busy
<1>6. CASE GeneratesCandidates
  BY <1>6 DEF GeneratesCandidates, HandIf
<1>7. CASE Start \/ StopBegins \/ StopNotifies \/ StopJoins
  BY <1>7 DEF Start, StopBegins, StopNotifies, StopJoins, thread, HandIf, Control,
              Busy
<1>8. CASE ReadsRunning \/ Locks \/ ChecksPredicate \/ FallsAsleep
  BY <1>8 DEF ReadsRunning, Locks, ChecksPredicate, FallsAsleep, HandIf
<1>9. CASE WakesUp \/ WaitTimesOut \/ BreaksOrContinues \/ WarmsUp
           \/ \E succeeds \in BOOLEAN : Initializes(succeeds)
  BY <1>9 DEF WakesUp, WaitTimesOut, BreaksOrContinues, WarmsUp, Initializes, HandIf
<1>10. CASE UNCHANGED vars
  BY <1>10 DEF vars, thread, HandIf
<1> QED BY <1>1, <1>2, <1>3, <1>4, <1>5, <1>6, <1>7, <1>8, <1>9, <1>10
           DEF Next, Stops, Loops, BackendReturns, L!Next

(* The worker serves the requests one by one in their order, and only the  *)
(* oldest ever make room for new ones.                                     *)
THEOREM WorkerIsRequestLine == Spec => ServesInOrder
<1>1. Init => L!Init
  BY DEF Init, L!Init, HandIf
<1> QED BY <1>1, LineStep, Invariant, PTL DEF Spec, ServesInOrder, L!Spec
================================================================================
