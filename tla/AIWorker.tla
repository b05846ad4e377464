------------------------------- MODULE AIWorker -------------------------------
(***************************************************************************)
(* AIWorker (src/ai/ai_worker.{h,cc}): a queue of requests, a thread that  *)
(* takes them one by one to the backend and puts the results into the      *)
(* cache, and Start and Stop.                                              *)
(*                                                                         *)
(* The thread is split where it takes or gives back queue_mutex_, where it *)
(* reads running_ or backend_ready_ (atomics, changed without the mutex)   *)
(* and where it waits for the backend.  Start and Stop come from one       *)
(* thread, the owner's, as in AIRewriter and in the tests; EnqueueRequest  *)
(* may come from any.                                                      *)
(*                                                                         *)
(* An operator just above another and named for it and a change is a       *)
(* faulty variant of that one, used to test the properties (README).       *)
(***************************************************************************)
EXTENDS SequencesExt, Integers, FiniteSets

CONSTANTS
  Requests,      \* the calls of EnqueueRequest, each made once at most
  MaxQueueSize,  \* kMaxQueueSize, 10
  None           \* no request in hand

VARIABLES
  running,       \* running_
  backend_ready, \* backend_ready_
  queue,         \* request_queue_
  mutex,         \* who holds queue_mutex_ from one step to the next
  signalled,     \* the sleeping worker has been notified
  pc,            \* where the worker thread stands
  hand,          \* the request it has popped
  owner,         \* where Stop stands
  processed, dropped,  \* stats_
  enqueued,      \* observer: the calls made
  discarded      \* observer: requests popped before the backend was ready

thread   == <<pc, hand>>
stats    == <<processed, dropped, discarded>>
vars == <<running, backend_ready, queue, mutex, signalled, thread, owner, stats,
          enqueued>>

ASSUME WorkerAssumption ==
  /\ IsFiniteSet(Requests)
  /\ MaxQueueSize \in Nat \ {0}
  /\ None \notin Requests

TypeOK ==
  /\ {running, backend_ready, signalled} \subseteq BOOLEAN
  /\ queue \in Seq(Requests) /\ Len(queue) <= MaxQueueSize
  /\ mutex \in {"free", "worker"}
  /\ pc \in {"none", "starting", "warming", "top", "locking", "checking",
             "sleeping", "asleep", "deciding", "holding", "generating",
             "storing", "ended"}
  /\ hand \in Requests \cup {None}
  /\ owner \in {"idle", "notifying", "joining"}
  /\ {processed, dropped, discarded} \subseteq Nat
  /\ enqueued \subseteq Requests

Init ==
  /\ running = FALSE /\ backend_ready = FALSE
  /\ queue = <<>>
  /\ mutex = "free" /\ signalled = FALSE
  /\ pc = "none" /\ hand = None
  /\ owner = "idle"
  /\ processed = 0 /\ dropped = 0 /\ discarded = 0
  /\ enqueued = {}

--------------------------------------------------------------------------------
(* The owner.                                                              *)
Start ==
  /\ owner = "idle"
  /\ ~running
  /\ running' = TRUE
  /\ pc' = "starting"
  /\ UNCHANGED <<backend_ready, queue, mutex, signalled, hand, owner, stats,
                 enqueued>>

StopBegins ==
  /\ owner = "idle"
  /\ running
  /\ running' = FALSE
  /\ owner' = "notifying"
  /\ UNCHANGED <<backend_ready, queue, mutex, signalled, thread, stats,
                 enqueued>>

StopNotifiesUnlocked ==
  /\ owner = "notifying"
  /\ signalled' = (pc = "asleep")
  /\ owner' = "joining"
  /\ UNCHANGED <<running, backend_ready, queue, mutex, thread, stats, enqueued>>

StopNotifies ==
  /\ owner = "notifying"
  /\ mutex = "free"
  /\ signalled' = (pc = "asleep")
  /\ owner' = "joining"
  /\ UNCHANGED <<running, backend_ready, queue, mutex, thread, stats, enqueued>>

StopDetaches ==
  /\ owner = "joining"
  /\ owner' = "idle"
  /\ UNCHANGED <<running, backend_ready, queue, mutex, signalled, thread, stats,
                 enqueued>>

StopJoins ==
  /\ owner = "joining"
  /\ pc = "ended"
  /\ pc' = "none"
  /\ owner' = "idle"
  /\ UNCHANGED <<running, backend_ready, queue, mutex, signalled, hand, stats,
                 enqueued>>

(* EnqueueRequest, with the mutex: the oldest requests make room.          *)
RoomFor(q) ==
  IF Len(q) < MaxQueueSize THEN q ELSE SubSeq(q, Len(q) - MaxQueueSize + 2, Len(q))

EnqueueRequestSilently(r) ==
  /\ mutex = "free"
  /\ r \notin enqueued
  /\ queue' = Append(RoomFor(queue), r)
  /\ dropped' = dropped + (Len(queue) - Len(RoomFor(queue)))
  /\ enqueued' = enqueued \cup {r}
  /\ UNCHANGED <<running, backend_ready, signalled, mutex, thread, owner,
                 processed, discarded>>

EnqueueRequest(r) ==
  /\ mutex = "free"
  /\ r \notin enqueued
  /\ queue' = Append(RoomFor(queue), r)
  /\ dropped' = dropped + (Len(queue) - Len(RoomFor(queue)))
  /\ signalled' = (signalled \/ pc = "asleep")
  /\ enqueued' = enqueued \cup {r}
  /\ UNCHANGED <<running, backend_ready, mutex, thread, owner, processed,
                 discarded>>

--------------------------------------------------------------------------------
(* The worker thread.  WarmUp: a backend that is missing or does not       *)
(* initialize is not made ready, and not made unready either.              *)
Initializes(succeeds) ==
  /\ pc = "starting"
  /\ backend_ready' = (backend_ready \/ succeeds)
  /\ pc' = IF succeeds THEN "warming" ELSE "top"
  /\ UNCHANGED <<running, queue, mutex, signalled, hand, owner, stats, enqueued>>

(* The test request of WarmUp returns, be it with an error.                *)
WarmsUp ==
  /\ pc = "warming"
  /\ pc' = "top"
  /\ UNCHANGED <<running, backend_ready, queue, mutex, signalled, hand, owner,
                 stats, enqueued>>

(* WorkerLoop.  Its conditions are read in this order: running_, ...       *)
ReadsRunning ==
  /\ pc = "top"
  /\ pc' = IF running THEN "locking" ELSE "ended"
  /\ UNCHANGED <<running, backend_ready, queue, mutex, signalled, hand, owner,
                 stats, enqueued>>

Locks ==
  /\ pc = "locking"
  /\ mutex = "free"
  /\ mutex' = "worker"
  /\ pc' = "checking"
  /\ UNCHANGED <<running, backend_ready, queue, signalled, hand, owner, stats,
                 enqueued>>

(* ... the predicate of wait_for, ...                                      *)
ChecksQueueOnly ==
  /\ pc = "checking"
  /\ pc' = IF queue # <<>> THEN "deciding" ELSE "sleeping"
  /\ UNCHANGED <<running, backend_ready, queue, mutex, signalled, hand, owner,
                 stats, enqueued>>

ChecksPredicate ==
  /\ pc = "checking"
  /\ pc' = IF queue # <<>> \/ ~running THEN "deciding" ELSE "sleeping"
  /\ UNCHANGED <<running, backend_ready, queue, mutex, signalled, hand, owner,
                 stats, enqueued>>

(* The mutex is given back as the thread goes to sleep, ...                *)
FallsAsleep ==
  /\ pc = "sleeping"
  /\ pc' = "asleep"
  /\ mutex' = "free"
  /\ signalled' = FALSE
  /\ UNCHANGED <<running, backend_ready, queue, hand, owner, stats, enqueued>>

(* ... and taken again when it is notified, or wakes for no reason, and    *)
(* the predicate is evaluated again, or when a second is over.             *)
WakesUp ==
  /\ pc = "asleep"
  /\ mutex = "free"
  /\ mutex' = "worker"
  /\ pc' = "checking"
  /\ signalled' = FALSE
  /\ UNCHANGED <<running, backend_ready, queue, hand, owner, stats, enqueued>>

WaitTimesOut ==
  /\ pc = "asleep"
  /\ mutex = "free"
  /\ mutex' = "worker"
  /\ pc' = "deciding"
  /\ signalled' = FALSE
  /\ UNCHANGED <<running, backend_ready, queue, hand, owner, stats, enqueued>>

(* ... running_ and the queue again, and a request is popped.              *)
BreaksOrContinues ==
  /\ pc = "deciding"
  /\ ~running \/ queue = <<>>
  /\ mutex' = "free"
  /\ pc' = IF running THEN "top" ELSE "ended"
  /\ UNCHANGED <<running, backend_ready, queue, signalled, hand, owner, stats,
                 enqueued>>

PeeksRequest ==
  /\ pc = "deciding"
  /\ running /\ queue # <<>>
  /\ hand' = Head(queue)
  /\ mutex' = "free"
  /\ pc' = "holding"
  /\ UNCHANGED <<running, backend_ready, queue, signalled, owner, stats,
                 enqueued>>

PopsNewest ==
  /\ pc = "deciding"
  /\ running /\ queue # <<>>
  /\ hand' = Last(queue)
  /\ queue' = Front(queue)
  /\ mutex' = "free"
  /\ pc' = "holding"
  /\ UNCHANGED <<running, backend_ready, signalled, owner, stats, enqueued>>

PopsRequest ==
  /\ pc = "deciding"
  /\ running /\ queue # <<>>
  /\ hand' = Head(queue)
  /\ queue' = Tail(queue)
  /\ mutex' = "free"
  /\ pc' = "holding"
  /\ UNCHANGED <<running, backend_ready, signalled, owner, stats, enqueued>>

(* A request popped before the backend is ready is gone.                   *)
DiscardsRequest ==
  /\ pc = "holding"
  /\ ~backend_ready
  /\ discarded' = discarded + 1
  /\ hand' = None
  /\ pc' = "top"
  /\ UNCHANGED <<running, backend_ready, queue, mutex, signalled, owner,
                 processed, dropped, enqueued>>

(* ProcessRequest.                                                         *)
CallsGenerate ==
  /\ pc = "holding"
  /\ backend_ready
  /\ pc' = "generating"
  /\ UNCHANGED <<running, backend_ready, queue, mutex, signalled, hand, owner,
                 stats, enqueued>>

(* Generate fails or has no candidates; or it has some, for the cache.     *)
GeneratesNothing ==
  /\ pc = "generating"
  /\ processed' = processed + 1
  /\ hand' = None
  /\ pc' = "top"
  /\ UNCHANGED <<running, backend_ready, queue, mutex, signalled, owner,
                 dropped, discarded, enqueued>>

GeneratesCandidates ==
  /\ pc = "generating"
  /\ processed' = processed + 1
  /\ pc' = "storing"
  /\ UNCHANGED <<running, backend_ready, queue, mutex, signalled, hand, owner,
                 dropped, discarded, enqueued>>

StoresCandidates ==
  /\ pc = "storing"
  /\ hand' = None
  /\ pc' = "top"
  /\ UNCHANGED <<running, backend_ready, queue, mutex, signalled, owner, stats,
                 enqueued>>

--------------------------------------------------------------------------------
(* The thread's own steps; the backend's, which its timeouts end.          *)
Loops ==
  \/ ReadsRunning \/ Locks \/ ChecksPredicate \/ FallsAsleep
  \/ BreaksOrContinues \/ PopsRequest
  \/ DiscardsRequest \/ CallsGenerate \/ StoresCandidates

BackendReturns ==
  \/ \E succeeds \in BOOLEAN : Initializes(succeeds)
  \/ WarmsUp \/ GeneratesNothing \/ GeneratesCandidates

Stops == StopNotifies \/ StopJoins

Next ==
  \/ Start \/ StopBegins \/ Stops
  \/ \E r \in Requests : EnqueueRequest(r)
  \/ Loops \/ WakesUp \/ WaitTimesOut \/ BackendReturns

Spec == Init /\ [][Next]_vars

(* The threads are scheduled, a notified thread wakes up and the backend   *)
(* returns.  Nothing is asked of the timeout of wait_for: what is shown    *)
(* holds without it.                                                       *)
Fairness ==
  /\ WF_vars(Loops)
  /\ WF_vars(signalled /\ WakesUp)
  /\ WF_vars(BackendReturns)
  /\ WF_vars(Stops)

FairSpec == Spec /\ Fairness

--------------------------------------------------------------------------------
(* Properties.                                                             *)
(* No wakeup is lost: a worker asleep that nobody has notified has nothing *)
(* to do, or Stop is still going to notify it.  running_ is cleared outside*)
(* the mutex, so Stop must take it before it notifies (45-48).             *)
NoLostWakeup ==
  (pc = "asleep" /\ ~signalled) =>
    queue = <<>> /\ (running \/ owner = "notifying")

(* Once Stop has returned the thread is gone: nothing is generated and     *)
(* nothing put into the cache, which its owner may destroy.                *)
StoppedIsQuiet ==
  (~running /\ owner = "idle") => pc = "none" /\ hand = None /\ mutex = "free"

(* Every request is accounted for: it waits in a queue within its limit, is*)
(* in hand, was processed, was dropped to keep the limit, or was popped    *)
(* while the backend was not ready, which is the only way one vanishes from*)
(* GetStats.                                                               *)
InHand == IF pc \in {"holding", "generating"} THEN 1 ELSE 0

CountsAddUp ==
  /\ Cardinality(enqueued) = Len(queue) + InHand + processed + dropped + discarded
  /\ Len(queue) <= MaxQueueSize

(* The worker is a RequestLine: what it has in hand is taken until it is   *)
(* given to Generate, and served until its result has been put away.       *)
HandIf(places) == IF pc \in places THEN hand ELSE None

L == INSTANCE RequestLine
       WITH line <- queue, taken <- HandIf({"holding"}),
            served <- HandIf({"generating", "storing"})

ServesInOrder == L!Spec

(* Every request enqueued while the worker runs is taken or dropped, unless*)
(* the worker is stopped, ...                                              *)
RequestIsTaken ==
  \A r \in Requests :
    (r \in ToSet(queue) /\ running) ~> (r \notin ToSet(queue) \/ ~running)

(* ... and Stop returns, even if the worker was asleep, on its way there or*)
(* waiting for the backend.                                                *)
StopReturns == owner # "idle" ~> owner = "idle"

================================================================================
