------------------------------ MODULE AIRewriter ------------------------------
(***************************************************************************)
(* AIRewriter (src/rewriter/ai_rewriter.{h,cc}): threads convert, look for *)
(* candidates in the cache, ask the worker for those that are missing and  *)
(* never wait for them.  The cache and the worker are here what they       *)
(* promise, a FreshMap and a RequestLine (AICandidateCache and AIWorker    *)
(* implement them); the rewriter creates both at its first conversion.     *)
(*                                                                         *)
(* Rewrite is split where it takes a mutex and where it reads what another *)
(* thread may change.  Statistics and the words of a prompt are left out.  *)
(*                                                                         *)
(* An operator just above another and named for it and a change is a       *)
(* faulty variant of that one, used to test the properties (README).       *)
(***************************************************************************)
EXTENDS SequencesExt, Integers

CONSTANTS
  Threads,             \* the converter's threads
  Inputs,              \* readings, GetInputKey
  Surfaces,            \* candidates
  Unfit,               \* those that are empty or longer than 60 bytes
  Conversions,         \* the first segments: [key, candidates]
  Results,             \* what the backend may answer to each input
  IncludeContext,      \* config.cache.include_context_in_key
  MaxInitFailures,     \* kMaxInitFailures, 3
  MaxContextHistory,   \* kMaxContextHistory, 5
  MaxCandidatesToAdd,  \* kMaxCandidatesToAdd, 3
  MaxQueueSize,        \* AIWorker::kMaxQueueSize, 10
  None                 \* no thread, request, value or context

VARIABLES
  initialized, init_failures,
  init_mutex,          \* the thread that holds it, or None
  cache_,              \* which of the caches created so far, 0 for none
  worker_,             \* the cache the worker was given, 0 for no worker
  ready,               \* worker_->IsBackendReady()
  context_history,
  fresh,               \* the cache, see FreshMap
  line, taken, served,  \* the worker, see RequestLine
  pc, conv, segment,   \* of each thread: where it stands, its conversion and
                       \* the candidates the segment has now
  cache_key,           \* the key it has computed, while it needs it
  using,               \* the cache it is in a call of, or 0
  ai_candidates        \* what it has found, or None

init    == <<initialized, init_failures, init_mutex>>
queue   == <<line, taken, served>>
objects == <<cache_, worker_, ready, fresh, queue>>
locals  == <<conv, segment, cache_key, using, ai_candidates>>
vars    == <<init, objects, context_history, pc, locals>>

CacheKeys == [input : Inputs,
              context : IF IncludeContext THEN Surfaces \cup {None} ELSE {None}]
Requests  == [input : Inputs, cache_key : CacheKeys]
Values    == UNION {Results[i] : i \in Inputs}

ASSUME RewriterAssumption ==
  /\ Conversions \subseteq [key : Inputs \cup {None}, candidates : Seq(Surfaces)]
  /\ Results \in [Inputs -> SUBSET (Seq(Surfaces) \ {<<>>})]
  /\ Unfit \subseteq Surfaces
  /\ IncludeContext \in BOOLEAN
  /\ {MaxInitFailures, MaxContextHistory, MaxCandidatesToAdd, MaxQueueSize}
       \subseteq Nat \ {0}
  /\ None \notin Threads \cup Inputs \cup Surfaces \cup Values \cup Requests

Map  == INSTANCE FreshMap
          WITH Keys <- CacheKeys, lasting <- TRUE, last <- None, got <- None, hits <- 0,
               misses <- 0
Line == INSTANCE RequestLine

TypeOK ==
  /\ initialized \in BOOLEAN /\ init_failures \in 0..MaxInitFailures
  /\ init_mutex \in Threads \cup {None}
  /\ cache_ \in 0..(MaxInitFailures + 1) /\ worker_ \in 0..cache_
  /\ ready \in BOOLEAN
  /\ context_history \in Seq(Surfaces)
  /\ Len(context_history) <= MaxContextHistory
  /\ fresh \in [CacheKeys -> Values \cup {None}]
  /\ line \in Seq(Requests) /\ Len(line) <= MaxQueueSize
  /\ {taken, served} \subseteq Requests \cup {None}
  /\ pc \in [Threads -> {"idle", "ensure", "locking", "init", "backend",
                         "lookup", "get", "getting", "decide", "request",
                         "enqueue", "insert", "context"}]
  /\ conv \in [Threads -> Conversions \cup {None}]
  /\ segment \in [Threads -> Seq(Surfaces)]
  /\ cache_key \in [Threads -> CacheKeys \cup {None}]
  /\ using \in [Threads -> 0..cache_]
  /\ ai_candidates \in [Threads -> Values \cup {None}]

Init ==
  /\ initialized = FALSE /\ init_failures = 0 /\ init_mutex = None
  /\ cache_ = 0 /\ worker_ = 0 /\ ready = FALSE
  /\ context_history = <<>>
  /\ fresh = [k \in CacheKeys |-> None]
  /\ Line!Init
  /\ pc = [t \in Threads |-> "idle"]
  /\ conv = [t \in Threads |-> None]
  /\ segment = [t \in Threads |-> <<>>]
  /\ cache_key = [t \in Threads |-> None]
  /\ using = [t \in Threads |-> 0]
  /\ ai_candidates = [t \in Threads |-> None]

GoesTo(t, place) == pc' = [pc EXCEPT ![t] = place]

--------------------------------------------------------------------------------
(* Rewrite begins.  It declines if AI is off or there is no segment, or no *)
(* key, None.                                                              *)
TakesConversion(t, c) ==
  /\ pc[t] = "idle"
  /\ conv' = [conv EXCEPT ![t] = c]
  /\ segment' = [segment EXCEPT ![t] = c.candidates]
  /\ UNCHANGED <<init, objects, context_history, cache_key, using, ai_candidates>>

RewriteDeclines(t) ==
  \E c \in Conversions, enabled \in BOOLEAN :
    /\ ~enabled \/ c.key = None
    /\ TakesConversion(t, c)
    /\ UNCHANGED pc

RewriteBegins(t) ==
  \E c \in Conversions :
    /\ c.key # None
    /\ TakesConversion(t, c)
    /\ GoesTo(t, "ensure")

(* EnsureInitialized: initialized_ is read outside the mutex ...           *)
ChecksInitialized(t) ==
  /\ pc[t] = "ensure"
  /\ GoesTo(t, IF initialized THEN "lookup" ELSE "locking")
  /\ UNCHANGED <<init, objects, context_history, locals>>

TakesInitMutex(t) ==
  /\ pc[t] = "locking"
  /\ init_mutex = None
  /\ init_mutex' = t
  /\ GoesTo(t, "init")
  /\ UNCHANGED <<initialized, init_failures, objects, context_history, locals>>

(* ... and again under it.                                                 *)
InitializesUnchecked == init_failures < MaxInitFailures

Initializes == ~initialized /\ init_failures < MaxInitFailures

LeavesInit(t) ==
  /\ pc[t] = "init"
  /\ ~Initializes
  /\ init_mutex' = None
  /\ GoesTo(t, "lookup")
  /\ UNCHANGED <<initialized, init_failures, objects, context_history, locals>>

(* A new cache replaces, and destroys, the one there may be; ...           *)
CreatesCache(t) ==
  /\ pc[t] = "init"
  /\ Initializes
  /\ cache_' = cache_ + 1
  /\ fresh' = [k \in CacheKeys |-> None]
  /\ GoesTo(t, "backend")
  /\ UNCHANGED <<init, worker_, ready, queue, context_history, locals>>

(* ... then there is no backend (it is disabled), or something throws; ... *)
InitFails(t) ==
  /\ pc[t] = "backend" \/ (pc[t] = "init" /\ Initializes)
  /\ init_failures' = init_failures + 1
  /\ init_mutex' = None
  /\ GoesTo(t, "lookup")
  /\ UNCHANGED <<initialized, objects, context_history, locals>>

(* ... or a worker is started on the new cache.                            *)
StartsWorker(t) ==
  /\ pc[t] = "backend"
  /\ worker_' = cache_
  /\ initialized' = TRUE
  /\ init_mutex' = None
  /\ GoesTo(t, "lookup")
  /\ UNCHANGED <<init_failures, cache_, ready, fresh, queue, context_history, locals>>

--------------------------------------------------------------------------------
(* The lookup.  GetCacheKey takes context_mutex_ for the last context; ... *)
CacheKeyOfContext(input) ==
  [input |-> CHOOSE i \in Inputs : TRUE,
   context |-> IF IncludeContext /\ context_history # <<>>
               THEN Last(context_history) ELSE None]

CacheKey(input) ==
  [input |-> input,
   context |-> IF IncludeContext /\ context_history # <<>>
               THEN Last(context_history) ELSE None]

LooksForCache(t) ==
  /\ pc[t] = "lookup"
  /\ IF cache_ = 0
     THEN GoesTo(t, "decide") /\ UNCHANGED cache_key
     ELSE /\ cache_key' = [cache_key EXCEPT ![t] = CacheKey(conv[t].key)]
          /\ GoesTo(t, "get")
  /\ UNCHANGED <<init, objects, context_history, conv, segment, using, ai_candidates>>

(* ... then Get is called of the cache cache_ points to by then.           *)
CallsGet(t) ==
  /\ pc[t] = "get"
  /\ using' = [using EXCEPT ![t] = cache_]
  /\ GoesTo(t, "getting")
  /\ UNCHANGED <<init, objects, context_history, conv, segment, cache_key, ai_candidates>>

(* A call of a cache that is no more may return anything.                  *)
Found(t) == IF using[t] = cache_ THEN {fresh[cache_key[t]]} ELSE Values \cup {None}

ReturnsFromGet(t) ==
  /\ pc[t] = "getting"
  /\ \E v \in Found(t) : ai_candidates' = [ai_candidates EXCEPT ![t] = v]
  /\ using' = [using EXCEPT ![t] = 0]
  /\ cache_key' = [cache_key EXCEPT ![t] = None]
  /\ GoesTo(t, "decide")
  /\ UNCHANGED <<init, objects, context_history, conv, segment>>

Decides(t) ==
  /\ pc[t] = "decide"
  /\ GoesTo(t, IF ai_candidates[t] # None THEN "insert"
               ELSE IF worker_ # 0 /\ ready THEN "request" ELSE "context")
  /\ UNCHANGED <<init, objects, context_history, locals>>

(* RequestAICandidates: the key is computed again.                         *)
KeysRequest(t) ==
  /\ pc[t] = "request"
  /\ cache_key' = [cache_key EXCEPT ![t] = CacheKey(conv[t].key)]
  /\ GoesTo(t, "enqueue")
  /\ UNCHANGED <<init, objects, context_history, conv, segment, using, ai_candidates>>

Enqueues(t) ==
  /\ pc[t] = "enqueue"
  /\ Line!Submit([input |-> conv[t].key, cache_key |-> cache_key[t]])
  /\ Len(line') <= MaxQueueSize
  /\ cache_key' = [cache_key EXCEPT ![t] = None]
  /\ GoesTo(t, "context")
  /\ UNCHANGED <<init, cache_, worker_, ready, fresh, context_history, conv, segment,
                 using, ai_candidates>>

(* InsertCandidates: what the segment lacks and may have, in order and only*)
(* so many.                                                                *)
AddCounted(list, value, room) ==
  IF value \in Unfit \/ Len(list) >= room THEN list ELSE Append(list, value)

AddCandidate(list, value, room) ==
  IF value \in Unfit \/ Contains(list, value) \/ Len(list) >= room
  THEN list ELSE Append(list, value)

InsertCandidates(list, values) ==
  LET upTo[n \in 0..Len(values)] ==
        IF n = 0 THEN list
        ELSE AddCandidate(upTo[n - 1], values[n], Len(list) + MaxCandidatesToAdd)
  IN upTo[Len(values)]

Inserts(t) ==
  /\ pc[t] = "insert"
  /\ segment' = [segment EXCEPT ![t] = InsertCandidates(@, ai_candidates[t])]
  /\ GoesTo(t, "context")
  /\ UNCHANGED <<init, objects, context_history, conv, cache_key, using, ai_candidates>>

(* UpdateContext, and Rewrite returns.                                     *)
Remembered(history, top) ==
  LET longer == Append(history, top)
  IN IF Len(longer) > MaxContextHistory THEN Tail(longer) ELSE longer

UpdatesContextWhenServed(t) ==
  /\ pc[t] = "context"
  /\ line = <<>> /\ served = None
  /\ context_history' =
       IF segment[t] = <<>> THEN context_history
       ELSE Remembered(context_history, segment[t][1])
  /\ ai_candidates' = [ai_candidates EXCEPT ![t] = None]
  /\ GoesTo(t, "idle")
  /\ UNCHANGED <<init, objects, conv, segment, cache_key, using>>

UpdatesContext(t) ==
  /\ pc[t] = "context"
  /\ context_history' =
       IF segment[t] = <<>> THEN context_history
       ELSE Remembered(context_history, segment[t][1])
  /\ ai_candidates' = [ai_candidates EXCEPT ![t] = None]
  /\ GoesTo(t, "idle")
  /\ UNCHANGED <<init, objects, conv, segment, cache_key, using>>

Clear ==
  /\ context_history' = <<>>
  /\ UNCHANGED <<init, objects, pc, locals>>

--------------------------------------------------------------------------------
(* The worker: the backend gets ready, requests are taken, served or given *)
(* up, and a result is put into the cache under the request's key; the     *)
(* cache may forget.                                                       *)
GetsReady ==
  /\ worker_ # 0 /\ ~ready
  /\ ready' = TRUE
  /\ UNCHANGED <<init, cache_, worker_, fresh, queue, context_history, pc, locals>>

Serves ==
  /\ ready
  /\ Line!Take \/ Line!Serve \/ Line!GiveUp \/ Line!Finish
  /\ UNCHANGED <<init, cache_, worker_, ready, fresh, context_history, pc, locals>>

StoresResult ==
  /\ Line!Finish
  /\ \E v \in Results[served.input] : Map!Store(served.cache_key, v)
  /\ UNCHANGED <<init, cache_, worker_, ready, context_history, pc, locals>>

Forgets ==
  /\ Map!Forget
  /\ UNCHANGED <<init, cache_, worker_, ready, queue, context_history, pc, locals>>

Converts(t) == RewriteDeclines(t) \/ RewriteBegins(t)

Proceeds(t) ==
  \/ ChecksInitialized(t) \/ TakesInitMutex(t)
  \/ LeavesInit(t) \/ CreatesCache(t) \/ InitFails(t) \/ StartsWorker(t)
  \/ LooksForCache(t) \/ CallsGet(t) \/ ReturnsFromGet(t) \/ Decides(t)
  \/ KeysRequest(t) \/ Enqueues(t) \/ Inserts(t) \/ UpdatesContext(t)

Next ==
  \/ \E t \in Threads : Converts(t) \/ Proceeds(t)
  \/ Clear \/ GetsReady \/ Serves \/ StoresResult \/ Forgets

Spec == Init /\ [][Next]_vars

(* A converter thread is scheduled, and gets init_mutex_ if it is given    *)
(* back again and again.  Nothing is asked of the worker or its backend.   *)
Fairness ==
  \A t \in Threads : WF_vars(Proceeds(t)) /\ SF_vars(TakesInitMutex(t))

FairSpec == Spec /\ Fairness

--------------------------------------------------------------------------------
(* Properties.                                                             *)
(* Mozc's candidates stay first and in order; what is added is fit, nothing*)
(* twice and nothing Mozc has, and no more than the limit (267-308), even  *)
(* if the cache was gone when it was asked.                                *)
MozcCandidatesKept ==
  \A t \in Threads : conv[t] # None =>
    LET own   == conv[t].candidates
        added == SubSeq(segment[t], Len(own) + 1, Len(segment[t]))
    IN /\ IsPrefix(own, segment[t])
       /\ Len(added) <= MaxCandidatesToAdd
       /\ IsInjective(added)
       /\ ToSet(added) \cap (ToSet(own) \cup Unfit) = {}

(* As long as no initialization has failed, the cache a thread is in a call*)
(* of, and the one the worker was given, is the one there is: two threads  *)
(* that convert first do not both create one (145-180).                    *)
AllUseTheCache ==
  /\ \A t \in Threads : using[t] \in {0, cache_}
  /\ worker_ \in {0, cache_}

CacheOutlivesItsUsers == init_failures = 0 => AllUseTheCache

(* ai_rewriter.h:29, results are available for the next conversion: while  *)
(* the cache has a result for an input, a lookup for that input finds one, *)
(* in the default configuration; and what is found was generated for that  *)
(* input, whatever other threads asked meanwhile (94-104, 194-212, 252).   *)
NextConversionFinds ==
  [][\A t \in Threads : ReturnsFromGet(t) /\ init_failures = 0 =>
       /\ ai_candidates'[t] \in Results[conv[t].key] \cup {None}
       /\ (~IncludeContext
            /\ \E k \in CacheKeys : k.input = conv[t].key /\ fresh[k] # None)
          => ai_candidates'[t] # None]_vars

(* Rewrite never waits for the worker, its backend or a failing start: it  *)
(* returns whatever these do (ai_rewriter.cc:49-54).                       *)
RewriteReturns == \A t \in Threads : pc[t] # "idle" ~> pc[t] = "idle"

(* Said of the program, and not so.                                        *)
(* The cache may be called by threads that convert at the same time        *)
(* (ai_candidate_cache.h:26-30, ai_rewriter_test.cc:200): it is not        *)
(* destroyed under any of them.                                            *)
CacheStays == AllUseTheCache
================================================================================
