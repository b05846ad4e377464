--------------------------- MODULE AIRewriter_proofs ---------------------------
(***************************************************************************)
(* What holds of AIRewriter for every number of threads, every set of      *)
(* conversions and whatever the backend answers.                           *)
(***************************************************************************)
EXTENDS AIRewriter, ListLemmas

(* Who initializes, and what there is by then.  While no initialization has*)
(* failed, a cache exists only if it is done or the thread that holds      *)
(* init_mutex_ is past creating it; so the next to take the mutex finds it *)
(* done, and creates no second one.                                        *)
InitInv ==
  /\ init_failures \in Nat /\ cache_ \in Nat
  /\ \A t \in Threads : pc[t] \in {"init", "backend"} <=> init_mutex = t
  /\ \A t \in Threads : pc[t] = "backend" => ~initialized
  /\ init_failures = 0 =>
       /\ cache_ # 0 => initialized \/ \E t \in Threads : pc[t] = "backend"
       /\ AllUseTheCache

Place == {"idle", "ensure", "locking", "init", "backend", "lookup", "get", "getting",
          "decide", "request", "enqueue", "insert", "context"}

Places == pc \in [Threads -> Place] /\ using \in [Threads -> Nat] /\ cache_ \in Nat

LEMMA PlacesStep == Places /\ [Next]_vars => Places'
<1> SUFFICES ASSUME Places, [Next]_vars PROVE Places'
  OBVIOUS
<1> USE DEF Places
<1>1. ASSUME NEW t \in Threads, NEW place \in Place, GoesTo(t, place), cache_' \in Nat,
             using' \in {using, [using EXCEPT ![t] = 0], [using EXCEPT ![t] = cache_]}
      PROVE  Places'
  BY <1>1 DEF GoesTo
<1>2. ASSUME UNCHANGED <<cache_, pc, using>>
      PROVE  Places'
  BY <1>2
<1>3. ASSUME NEW t \in Threads, Converts(t)
      PROVE  Places'
  BY <1>1, <1>2, <1>3
     DEF Converts, RewriteDeclines, RewriteBegins, TakesConversion, objects, Place
<1>4. ASSUME NEW t \in Threads, ChecksInitialized(t)
      PROVE  Places'
  <2>1. CASE initialized
    BY <1>1, <1>4, <2>1 DEF ChecksInitialized, objects, locals, Place
  <2>2. CASE ~initialized
    BY <1>1, <1>4, <2>2 DEF ChecksInitialized, objects, locals, Place
  <2> QED BY <2>1, <2>2
<1>5. ASSUME NEW t \in Threads, TakesInitMutex(t) \/ LeavesInit(t) \/ InitFails(t)
                                \/ CreatesCache(t) \/ StartsWorker(t)
      PROVE  Places'
  <2>1. UNCHANGED using /\ cache_' \in Nat
    BY <1>5 DEF TakesInitMutex, LeavesInit, InitFails, CreatesCache, StartsWorker,
                objects, locals
  <2>2. \E place \in Place : GoesTo(t, place)
    BY <1>5 DEF TakesInitMutex, LeavesInit, InitFails, CreatesCache, StartsWorker,
                Place
  <2> QED BY <1>1, <2>1, <2>2
<1>6. ASSUME NEW t \in Threads, LooksForCache(t) \/ CallsGet(t) \/ ReturnsFromGet(t)
      PROVE  Places'
  <2>1. /\ UNCHANGED cache_
        /\ using' \in {using, [using EXCEPT ![t] = 0], [using EXCEPT ![t] = cache_]}
    BY <1>6 DEF LooksForCache, CallsGet, ReturnsFromGet, objects
  <2>2. \E place \in Place : GoesTo(t, place)
    BY <1>6 DEF LooksForCache, CallsGet, ReturnsFromGet, Place
  <2> QED BY <1>1, <2>1, <2>2
<1>7. ASSUME NEW t \in Threads, Decides(t)
      PROVE  Places'
  <2>1. \E place \in Place : GoesTo(t, place)
    <3>1. CASE ai_candidates[t] # None
      BY <1>7, <3>1 DEF Decides, Place
    <3>2. CASE ai_candidates[t] = None /\ worker_ # 0 /\ ready
      BY <1>7, <3>2 DEF Decides, Place
    <3>3. CASE ai_candidates[t] = None /\ ~(worker_ # 0 /\ ready)
      BY <1>7, <3>3 DEF Decides, Place
    <3> QED BY <3>1, <3>2, <3>3
  <2> QED BY <1>1, <1>7, <2>1 DEF Decides, objects, locals
<1>8. ASSUME NEW t \in Threads, KeysRequest(t) \/ Enqueues(t) \/ Inserts(t)
                                \/ UpdatesContext(t)
      PROVE  Places'
  <2>1. UNCHANGED <<cache_, using>>
    BY <1>8 DEF KeysRequest, Enqueues, Inserts, UpdatesContext, objects
  <2>2. \E place \in Place : GoesTo(t, place)
    BY <1>8 DEF KeysRequest, Enqueues, Inserts, UpdatesContext, Place
  <2> QED BY <1>1, <2>1, <2>2
<1>9. CASE Clear \/ GetsReady \/ Serves \/ StoresResult \/ Forgets \/ UNCHANGED vars
  BY <1>2, <1>9 DEF Clear, GetsReady, Serves, StoresResult, Forgets, vars, objects, locals
<1> QED BY <1>3, <1>4, <1>5, <1>6, <1>7, <1>8, <1>9 DEF Next, Proceeds

LEMMA InitStep == Places /\ InitInv /\ [Next]_vars => InitInv'
<1> SUFFICES ASSUME Places, InitInv, [Next]_vars PROVE InitInv'
  OBVIOUS
<1>0. None \notin Threads
  BY RewriterAssumption
<1> USE <1>0 DEF Places, InitInv, AllUseTheCache
<1>1. ASSUME NEW t \in Threads, RewriteDeclines(t)
      PROVE  InitInv'
  BY <1>1 DEF RewriteDeclines, TakesConversion, init, objects
<1>2. ASSUME NEW t \in Threads, RewriteBegins(t)
      PROVE  InitInv'
  BY <1>2 DEF RewriteBegins, TakesConversion, init, objects, GoesTo
<1>3. ASSUME NEW t \in Threads, ChecksInitialized(t)
      PROVE  InitInv'
  BY <1>3 DEF ChecksInitialized, init, objects, locals, GoesTo
<1>4. ASSUME NEW t \in Threads, TakesInitMutex(t)
      PROVE  InitInv'
  BY <1>4 DEF TakesInitMutex, objects, locals, GoesTo
<1>5. ASSUME NEW t \in Threads, LeavesInit(t)
      PROVE  InitInv'
  BY <1>5 DEF LeavesInit, objects, locals, GoesTo
<1>6. ASSUME NEW t \in Threads, CreatesCache(t)
      PROVE  InitInv'
  <2>1. /\ pc[t] = "init" /\ ~initialized /\ init_mutex = t
        /\ cache_' = cache_ + 1 /\ pc' = [pc EXCEPT ![t] = "backend"]
        /\ UNCHANGED <<initialized, init_failures, init_mutex, worker_, using>>
    BY <1>6 DEF CreatesCache, Initializes, init, locals, GoesTo
  <2>2. \A s \in Threads : pc[s] # "backend"
    BY <2>1
  <2>3. init_failures = 0 => cache_ = 0
    BY <2>1, <2>2
  <2> QED BY <2>1, <2>2, <2>3
<1>7. ASSUME NEW t \in Threads, InitFails(t)
      PROVE  InitInv'
  <2>1. /\ pc[t] \in {"init", "backend"} /\ pc' = [pc EXCEPT ![t] = "lookup"]
        /\ init_failures' = init_failures + 1 /\ init_mutex' = None
        /\ UNCHANGED <<initialized, cache_>>
    BY <1>7 DEF InitFails, objects, GoesTo
  <2> QED BY <2>1
<1>8. ASSUME NEW t \in Threads, StartsWorker(t)
      PROVE  InitInv'
  BY <1>8 DEF StartsWorker, locals, GoesTo
<1>9. ASSUME UNCHANGED <<init, cache_, worker_>>,
             NEW t \in Threads, NEW place \in Place \ {"init", "backend"},
             pc[t] \notin {"init", "backend"}, GoesTo(t, place),
             using' \in {using, [using EXCEPT ![t] = 0], [using EXCEPT ![t] = cache_]}
      PROVE  InitInv'
  <2>1. pc' = [pc EXCEPT ![t] = place] /\ place \notin {"init", "backend"}
    BY <1>9 DEF GoesTo
  <2>2. \A s \in Threads : using'[s] \in {using[s], 0, cache_}
    BY <1>9
  <2>3. ASSUME NEW s \in Threads
        PROVE  /\ (pc'[s] = "backend") <=> (pc[s] = "backend")
               /\ (pc'[s] \in {"init", "backend"}) <=> (pc[s] \in {"init", "backend"})
    BY <1>9, <2>1
  <2>4. UNCHANGED <<initialized, init_failures, init_mutex, cache_, worker_>>
    BY <1>9 DEF init
  <2>5. \A s \in Threads : pc'[s] \in {"init", "backend"} <=> init_mutex' = s
    BY <2>3, <2>4
  <2>6. \A s \in Threads : pc'[s] = "backend" => ~initialized'
    BY <2>3, <2>4
  <2>7. ASSUME init_failures' = 0
        PROVE  /\ cache_' # 0 => initialized' \/ \E s \in Threads : pc'[s] = "backend"
               /\ AllUseTheCache'
    <3>1. init_failures = 0
      BY <2>4, <2>7
    <3>2. cache_' # 0 => initialized' \/ \E s \in Threads : pc'[s] = "backend"
      BY <2>3, <2>4, <3>1
    <3>3. \A s \in Threads : using'[s] \in {0, cache_'}
      BY <2>2, <2>4, <3>1
    <3> QED BY <2>4, <3>1, <3>2, <3>3
  <2> QED BY <2>4, <2>5, <2>6, <2>7
<1>10. ASSUME NEW t \in Threads, LooksForCache(t) \/ CallsGet(t) \/ ReturnsFromGet(t)
                                 \/ Decides(t)
       PROVE  InitInv'
  <2>1. /\ UNCHANGED <<init, cache_, worker_>> /\ pc[t] \notin {"init", "backend"}
        /\ using' \in {using, [using EXCEPT ![t] = 0], [using EXCEPT ![t] = cache_]}
    BY <1>10 DEF LooksForCache, CallsGet, ReturnsFromGet, Decides, objects, locals
  <2>2. \E place \in Place \ {"init", "backend"} : GoesTo(t, place)
    <3>1. CASE Decides(t)
      <4>1. CASE ai_candidates[t] # None
        BY <3>1, <4>1 DEF Decides, Place
      <4>2. CASE ai_candidates[t] = None /\ worker_ # 0 /\ ready
        BY <3>1, <4>2 DEF Decides, Place
      <4>3. CASE ai_candidates[t] = None /\ ~(worker_ # 0 /\ ready)
        BY <3>1, <4>3 DEF Decides, Place
      <4> QED BY <4>1, <4>2, <4>3
    <3>2. CASE LooksForCache(t) \/ CallsGet(t) \/ ReturnsFromGet(t)
      BY <3>2 DEF LooksForCache, CallsGet, ReturnsFromGet, Place
    <3> QED BY <1>10, <3>1, <3>2
  <2> QED BY <1>9, <2>1, <2>2
<1>11. ASSUME NEW t \in Threads, KeysRequest(t) \/ Enqueues(t) \/ Inserts(t)
                                 \/ UpdatesContext(t)
       PROVE  InitInv'
  <2>1. UNCHANGED <<init, cache_, worker_, using>> /\ pc[t] \notin {"init", "backend"}
    BY <1>11 DEF KeysRequest, Enqueues, Inserts, UpdatesContext, objects
  <2>2. \E place \in Place \ {"init", "backend"} : GoesTo(t, place)
    BY <1>11 DEF KeysRequest, Enqueues, Inserts, UpdatesContext, Place
  <2> QED BY <1>9, <2>1, <2>2
<1>12. ASSUME UNCHANGED <<init, cache_, worker_, pc, using>>
       PROVE  InitInv'
  BY <1>12 DEF init
<1>13. CASE Clear \/ UNCHANGED vars
  BY <1>12, <1>13 DEF Clear, vars, objects, locals
<1>14. CASE GetsReady \/ Serves \/ StoresResult \/ Forgets
  BY <1>12, <1>14 DEF GetsReady, Serves, StoresResult, Forgets, locals
<1> QED BY <1>1, <1>2, <1>3, <1>4, <1>5, <1>6, <1>7, <1>8, <1>10, <1>11, <1>13, <1>14
           DEF Next, Converts, Proceeds

LEMMA PlacesAtFirst == Init => Places /\ InitInv
<1> SUFFICES ASSUME Init PROVE Places /\ InitInv
  OBVIOUS
<1>1. None \notin Threads
  BY RewriterAssumption
<1>2. /\ init_failures = 0 /\ init_mutex = None /\ cache_ = 0 /\ worker_ = 0
      /\ pc = [t \in Threads |-> "idle"] /\ using = [t \in Threads |-> 0]
  BY DEF Init
<1> QED BY <1>1, <1>2 DEF Places, Place, InitInv, AllUseTheCache

(* However many threads convert for the first time at once, one creates the*)
(* cache, and as long as no initialization fails nobody ever calls one     *)
(* that was replaced.                                                      *)
THEOREM OneCacheForAll == Spec => []CacheOutlivesItsUsers
<1>1. Init => Places /\ InitInv
  BY PlacesAtFirst
<1>2. InitInv => CacheOutlivesItsUsers
  BY DEF InitInv, CacheOutlivesItsUsers
<1> QED BY <1>1, <1>2, PlacesStep, InitStep, PTL DEF Spec
--------------------------------------------------------------------------------
(* What InsertCandidates makes of a list: the list, and behind it at most  *)
(* MaxCandidatesToAdd others, all fit and none like one before it.         *)
Extends(own, cur) ==
  /\ cur \in Seq(Surfaces)
  /\ Len(own) <= Len(cur) /\ Len(cur) <= Len(own) + MaxCandidatesToAdd
  /\ \A i \in 1..Len(own) : cur[i] = own[i]
  /\ \A i \in (Len(own) + 1)..Len(cur) :
       cur[i] \notin Unfit /\ \A j \in 1..(i - 1) : cur[j] # cur[i]

(* The requests of the rewriter: its key is the key of its input.          *)
OwnRequests == {r \in Requests : r.cache_key.input = r.input}

(* What the threads share: the cache holds for each key a result of the    *)
(* key's input, and the worker's requests will not store another there.    *)
SharedInv ==
  /\ fresh \in [CacheKeys -> Values \cup {None}]
  /\ \A k \in CacheKeys : fresh[k] \in Results[k.input] \cup {None}
  /\ line \in Seq(OwnRequests)
  /\ {taken, served} \subseteq OwnRequests \cup {None}
  /\ context_history \in Seq(Surfaces)

(* What each thread has in hand.                                           *)
Converting(t) ==
  pc[t] # "idle" => conv[t] \in Conversions /\ conv[t].key \in Inputs
Keyed(t) ==
  pc[t] \in {"get", "getting", "enqueue"} =>
    cache_key[t] \in CacheKeys /\ cache_key[t].input = conv[t].key
Calling(t) ==
  /\ pc[t] = "get" => cache_ # 0
  /\ pc[t] = "getting" => using[t] # 0
Finding(t) ==
  pc[t] = "insert" => ai_candidates[t] \in Values
Showing(t) ==
  conv[t] # None =>
    IF pc[t] \in {"context", "idle"}
    THEN Extends(conv[t].candidates, segment[t])
    ELSE segment[t] = conv[t].candidates

ThreadInv(t) == Converting(t) /\ Keyed(t) /\ Calling(t) /\ Finding(t) /\ Showing(t)

DataInv ==
  /\ conv \in [Threads -> Conversions \cup {None}]
  /\ segment \in [Threads -> Seq(Surfaces)]
  /\ cache_key \in [Threads -> CacheKeys \cup {None}]
  /\ ai_candidates \in [Threads -> Values \cup {None}]
  /\ SharedInv
  /\ \A t \in Threads : ThreadInv(t)

LEMMA ExtendsItself ==
  ASSUME NEW own \in Seq(Surfaces)
  PROVE  Extends(own, own)
BY RewriterAssumption DEF Extends

LEMMA AddCandidateExtends ==
  ASSUME NEW own \in Seq(Surfaces), NEW cur, Extends(own, cur), NEW value \in Surfaces
  PROVE  Extends(own, AddCandidate(cur, value, Len(own) + MaxCandidatesToAdd))
<1> DEFINE room == Len(own) + MaxCandidatesToAdd
           added == AddCandidate(cur, value, room)
<1>0. room \in Nat
  BY RewriterAssumption
<1>1. CASE value \in Unfit \/ Contains(cur, value) \/ Len(cur) >= room
  BY <1>1 DEF AddCandidate
<1>2. CASE ~(value \in Unfit \/ Contains(cur, value) \/ Len(cur) >= room)
  <2>1. /\ added = Append(cur, value) /\ value \notin Unfit
        /\ Len(cur) < room /\ \A j \in 1..Len(cur) : cur[j] # value
    BY <1>0, <1>2 DEF AddCandidate, Contains, Extends
  <2> HIDE DEF added
  <2>2. /\ cur \in Seq(Surfaces) /\ added \in Seq(Surfaces)
        /\ Len(added) = Len(cur) + 1 /\ added[Len(cur) + 1] = value
        /\ \A i \in 1..Len(cur) : added[i] = cur[i]
    BY <2>1, AppendProperties DEF Extends
  <2>3. Len(own) <= Len(added) /\ Len(added) <= room
    BY <1>0, <2>1, <2>2 DEF Extends
  <2>4. \A i \in 1..Len(own) : added[i] = own[i]
    BY <2>2 DEF Extends
  <2>5. ASSUME NEW i \in (Len(own) + 1)..Len(added)
        PROVE  added[i] \notin Unfit /\ \A j \in 1..(i - 1) : added[j] # added[i]
    <3>1. CASE i = Len(cur) + 1
      BY <2>1, <2>2, <3>1
    <3>2. CASE i # Len(cur) + 1
      <4>1. i \in (Len(own) + 1)..Len(cur)
        BY <2>2, <3>2
      <4> QED BY <2>2, <4>1 DEF Extends
    <3> QED BY <3>1, <3>2
  <2>6. Extends(own, added)
    BY <2>2, <2>3, <2>4, <2>5 DEF Extends
  <2> QED BY <2>6 DEF added
<1> QED BY <1>1, <1>2

(* The loop of InsertCandidates, value by value.                           *)
LEMMA InsertCandidatesExtends ==
  ASSUME NEW own \in Seq(Surfaces), NEW values \in Seq(Surfaces)
  PROVE  Extends(own, InsertCandidates(own, values))
<1> DEFINE count == Len(values)
           room == Len(own) + MaxCandidatesToAdd
           added(list, n) == AddCandidate(list, values[n], room)
           step == [n \in 1..count |-> [list \in Seq(Surfaces) |-> added(list, n)]]
           Loop(f) == f = [n \in 0..count |-> IF n = 0 THEN own ELSE added(f[n - 1], n)]
           upTo == CHOOSE f : Loop(f)
<1>1. count \in Nat /\ \A n \in 1..count : values[n] \in Surfaces
  BY ElementOfSeq
<1>2. \E f : Loop(f)
  <2>1. ASSUME NEW n \in 1..count, NEW list \in Seq(Surfaces)
        PROVE  added(list, n) \in Seq(Surfaces)
    BY <1>1, AppendProperties DEF AddCandidate
  <2> HIDE DEF added
  <2>2. step \in [1..count -> [Seq(Surfaces) -> Seq(Surfaces)]]
    BY <2>1
  <2>3. PICK f : IsLoop(f, count, Seq(Surfaces), own, step)
    <3> HIDE DEF step, count
    <3>1. step \in Steps(count, Seq(Surfaces))
      BY <2>2 DEF Steps
    <3> QED BY <1>1, <3>1, Recursion
  <2> HIDE DEF count
  <2>4. ASSUME NEW n \in 0..count, n # 0
        PROVE  f[n] = added(f[n - 1], n)
    <3>1. n \in 1..count /\ f[n - 1] \in Seq(Surfaces)
      BY <1>1, <2>3, <2>4 DEF IsLoop
    <3> QED BY <2>3, <3>1 DEF IsLoop
  <2>5. \A n \in 0..count : f[n] = IF n = 0 THEN own ELSE added(f[n - 1], n)
    BY <2>3, <2>4 DEF IsLoop
  <2>6. Loop(f)
    BY <2>3, <2>5 DEF IsLoop
  <2> QED BY <2>6
<1>3. Loop(upTo)
  BY <1>2
<1>4. InsertCandidates(own, values) = upTo[count]
  BY DEF InsertCandidates
<1> HIDE DEF upTo, count
<1>5. upTo[0] = own /\ \A n \in 1..count : upTo[n] = added(upTo[n - 1], n)
  <2> HIDE DEF added
  <2>1. \A n \in 0..count : upTo[n] = IF n = 0 THEN own ELSE added(upTo[n - 1], n)
    BY <1>3
  <2> QED BY <1>1, <2>1
<1> DEFINE T == {n \in 0..count : Extends(own, upTo[n])}
<1>6. 0 \in T
  BY <1>1, <1>5, ExtendsItself
<1>7. ASSUME NEW n \in 0..count, n \in T, n < count
      PROVE  n + 1 \in T
  <2>1. n + 1 \in 1..count /\ Extends(own, upTo[n])
    BY <1>1, <1>7
  <2>2. upTo[n + 1] = added(upTo[n], n + 1)
    BY <1>1, <1>5, <2>1
  <2>3. Extends(own, upTo[n + 1])
    BY <1>1, <2>1, <2>2, AddCandidateExtends
  <2> QED BY <1>1, <2>1, <2>3
<1> HIDE DEF T
<1>8. \A n \in 0..count : n \in T
  BY <1>1, <1>6, <1>7, UpTo
<1> QED BY <1>1, <1>4, <1>8 DEF T

(* A step of a thread, of which only its own state and the cache are left  *)
(* to look at.                                                             *)
LEMMA ThreadStep ==
  ASSUME DataInv, Places,
         NEW t \in Threads,
         \A s \in Threads \ {t} :
           /\ UNCHANGED <<pc[s], conv[s], segment[s], cache_key[s], using[s]>>
           /\ UNCHANGED ai_candidates[s],
         cache_ # 0 => cache_' # 0,
         conv' \in [Threads -> Conversions \cup {None}],
         segment' \in [Threads -> Seq(Surfaces)],
         cache_key' \in [Threads -> CacheKeys \cup {None}],
         ai_candidates' \in [Threads -> Values \cup {None}],
         SharedInv', ThreadInv(t)'
  PROVE  DataInv'
<1>1. ASSUME NEW s \in Threads
      PROVE  ThreadInv(s)'
  <2>1. CASE s = t
    BY <2>1
  <2>2. CASE s # t
    <3>1. ThreadInv(s)
      BY DEF DataInv
    <3>2. /\ UNCHANGED <<pc[s], conv[s], segment[s], cache_key[s], using[s]>>
          /\ UNCHANGED ai_candidates[s]
      BY <2>2
    <3>3. Converting(s)'
      BY <3>1, <3>2 DEF ThreadInv, Converting
    <3>4. Keyed(s)'
      BY <3>1, <3>2 DEF ThreadInv, Keyed
    <3>5. Calling(s)'
      BY <3>1, <3>2 DEF ThreadInv, Calling
    <3>6. Finding(s)'
      BY <3>1, <3>2 DEF ThreadInv, Finding
    <3>7. Showing(s)'
      BY <3>1, <3>2 DEF ThreadInv, Showing
    <3> QED BY <3>3, <3>4, <3>5, <3>6, <3>7 DEF ThreadInv
  <2> QED BY <2>1, <2>2
<1> QED BY <1>1 DEF DataInv

LEMMA CacheKeyOfInput ==
  ASSUME SharedInv, NEW input \in Inputs
  PROVE  CacheKey(input) \in CacheKeys /\ CacheKey(input).input = input
<1>1. ASSUME context_history # <<>>
      PROVE  Last(context_history) \in Surfaces
  <2>1. Len(context_history) \in 1..Len(context_history)
    BY <1>1 DEF SharedInv
  <2> QED BY <2>1, ElementOfSeq DEF SharedInv, Last
<1>2. CASE IncludeContext /\ context_history # <<>>
  BY <1>1, <1>2 DEF CacheKey, CacheKeys
<1>3. CASE ~(IncludeContext /\ context_history # <<>>)
  BY <1>3 DEF CacheKey, CacheKeys
<1> QED BY <1>2, <1>3

LEMMA BeginningStep ==
  ASSUME DataInv, Places, NEW t \in Threads, Converts(t)
  PROVE  DataInv'
<1>1. PICK c \in Conversions :
             /\ TakesConversion(t, c)
             /\ (UNCHANGED pc \/ (c.key # None /\ GoesTo(t, "ensure")))
  BY DEF Converts, RewriteDeclines, RewriteBegins
<1>2. /\ pc[t] = "idle"
      /\ conv' = [conv EXCEPT ![t] = c]
      /\ segment' = [segment EXCEPT ![t] = c.candidates]
      /\ UNCHANGED <<cache_, fresh, line, taken, served, context_history, cache_key,
                     using, ai_candidates>>
  BY <1>1 DEF TakesConversion, objects, queue
<1>3. c.candidates \in Seq(Surfaces) /\ c.key \in Inputs \cup {None}
  BY RewriterAssumption
<1>4. SharedInv'
  BY <1>2 DEF DataInv, SharedInv
<1>5. /\ conv' \in [Threads -> Conversions \cup {None}]
      /\ segment' \in [Threads -> Seq(Surfaces)]
      /\ cache_key' \in [Threads -> CacheKeys \cup {None}]
      /\ ai_candidates' \in [Threads -> Values \cup {None}]
      /\ conv'[t] = c /\ segment'[t] = c.candidates
  BY <1>2, <1>3 DEF DataInv
<1>6. /\ pc'[t] = "idle" \/ (c.key # None /\ pc'[t] = "ensure")
      /\ \A s \in Threads \ {t} : pc'[s] = pc[s]
  BY <1>1, <1>2 DEF GoesTo, Places
<1>7. ThreadInv(t)'
  <2>1. Converting(t)'
    BY <1>3, <1>5, <1>6 DEF Converting
  <2>2. Keyed(t)' /\ Calling(t)' /\ Finding(t)'
    BY <1>6 DEF Keyed, Calling, Finding
  <2>3. Showing(t)'
    BY <1>3, <1>5, <1>6, ExtendsItself DEF Showing
  <2> QED BY <2>1, <2>2, <2>3 DEF ThreadInv
<1>8. \A s \in Threads \ {t} :
        /\ UNCHANGED <<pc[s], conv[s], segment[s], cache_key[s], using[s]>>
        /\ UNCHANGED ai_candidates[s]
  BY <1>2, <1>6 DEF DataInv
<1> QED BY <1>2, <1>4, <1>5, <1>7, <1>8, ThreadStep

(* Initialization touches nothing of this but the cache, which it empties. *)
LEMMA InitializationStep ==
  ASSUME DataInv, Places, NEW t \in Threads,
         \/ ChecksInitialized(t) \/ TakesInitMutex(t) \/ LeavesInit(t)
         \/ CreatesCache(t) \/ InitFails(t) \/ StartsWorker(t)
  PROVE  DataInv'
<1>1. /\ pc[t] \in {"ensure", "locking", "init", "backend"}
      /\ UNCHANGED <<conv, segment, cache_key, using, ai_candidates>>
      /\ UNCHANGED <<line, taken, served, context_history>>
      /\ UNCHANGED fresh \/ fresh' = [k \in CacheKeys |-> None]
      /\ cache_' \in {cache_, cache_ + 1}
  BY DEF ChecksInitialized, TakesInitMutex, LeavesInit, CreatesCache, InitFails,
         StartsWorker, objects, queue, locals
<1>2. \E place \in {"lookup", "locking", "init", "backend"} : GoesTo(t, place)
  BY DEF ChecksInitialized, TakesInitMutex, LeavesInit, CreatesCache, InitFails,
         StartsWorker
<1>3. /\ pc'[t] \in {"lookup", "locking", "init", "backend"}
      /\ \A s \in Threads \ {t} : pc'[s] = pc[s]
  BY <1>2 DEF GoesTo, Places
<1>4. SharedInv'
  BY <1>1 DEF DataInv, SharedInv
<1>5. cache_ # 0 => cache_' # 0
  BY <1>1 DEF Places
<1>6. ThreadInv(t)'
  <2>1. ThreadInv(t)
    BY DEF DataInv
  <2>2. Converting(t)'
    BY <1>1, <2>1 DEF Converting, ThreadInv
  <2>3. Keyed(t)' /\ Calling(t)' /\ Finding(t)'
    BY <1>3 DEF Keyed, Calling, Finding
  <2>4. Showing(t)'
    BY <1>1, <1>3, <2>1 DEF Showing, ThreadInv
  <2> QED BY <2>2, <2>3, <2>4 DEF ThreadInv
<1>7. \A s \in Threads \ {t} :
        /\ UNCHANGED <<pc[s], conv[s], segment[s], cache_key[s], using[s]>>
        /\ UNCHANGED ai_candidates[s]
  BY <1>1, <1>3
<1> QED BY <1>1, <1>4, <1>5, <1>6, <1>7, ThreadStep DEF DataInv

(* The key is computed from a context that is only made of surfaces, and   *)
(* kept until the call it is for.                                          *)
LEMMA KeyStep ==
  ASSUME DataInv, Places, NEW t \in Threads,
         LooksForCache(t) \/ KeysRequest(t)
  PROVE  DataInv'
<1>1. /\ pc[t] \in {"lookup", "request"}
      /\ UNCHANGED <<conv, segment, using, ai_candidates, cache_>>
      /\ UNCHANGED <<fresh, line, taken, served, context_history>>
      /\ \/ pc' = [pc EXCEPT ![t] = "decide"] /\ UNCHANGED cache_key
         \/ /\ cache_key' = [cache_key EXCEPT ![t] = CacheKey(conv[t].key)]
            /\ \/ pc' = [pc EXCEPT ![t] = "get"] /\ cache_ # 0
               \/ pc' = [pc EXCEPT ![t] = "enqueue"]
  BY DEF LooksForCache, KeysRequest, GoesTo, objects, queue
<1>2. ThreadInv(t)
  BY DEF DataInv
<1>3. conv[t].key \in Inputs
  BY <1>1, <1>2 DEF ThreadInv, Converting
<1> DEFINE key == CacheKey(conv[t].key)
<1>4. key \in CacheKeys /\ key.input = conv[t].key
  BY <1>3, CacheKeyOfInput DEF DataInv
<1> HIDE DEF key
<1>5. /\ pc'[t] \in {"decide", "get", "enqueue"}
      /\ pc'[t] = "get" => cache_ # 0
      /\ pc'[t] # "decide" => cache_key'[t] = key
      /\ \A s \in Threads \ {t} : pc'[s] = pc[s] /\ cache_key'[s] = cache_key[s]
      /\ cache_key' \in [Threads -> CacheKeys \cup {None}]
  BY <1>1, <1>4 DEF Places, DataInv, key
<1>6. SharedInv'
  BY <1>1 DEF DataInv, SharedInv
<1>7. ThreadInv(t)'
  <2>1. Converting(t)'
    BY <1>1, <1>2 DEF Converting, ThreadInv
  <2>2. Keyed(t)'
    BY <1>1, <1>4, <1>5 DEF Keyed
  <2>3. Calling(t)' /\ Finding(t)'
    BY <1>1, <1>5 DEF Calling, Finding
  <2>4. Showing(t)'
    BY <1>1, <1>2, <1>5 DEF Showing, ThreadInv
  <2> QED BY <2>1, <2>2, <2>3, <2>4 DEF ThreadInv
<1> QED BY <1>1, <1>5, <1>6, <1>7, ThreadStep DEF DataInv

LEMMA CallsGetStep ==
  ASSUME DataInv, Places, NEW t \in Threads, CallsGet(t)
  PROVE  DataInv'
<1>1. /\ pc[t] = "get"
      /\ using' = [using EXCEPT ![t] = cache_]
      /\ pc' = [pc EXCEPT ![t] = "getting"]
      /\ UNCHANGED <<conv, segment, cache_key, ai_candidates, cache_>>
      /\ UNCHANGED <<fresh, line, taken, served, context_history>>
  BY DEF CallsGet, GoesTo, objects, queue
<1>2. ThreadInv(t)
  BY DEF DataInv
<1>3. /\ pc'[t] = "getting" /\ using'[t] = cache_ /\ cache_ # 0
      /\ \A s \in Threads \ {t} : pc'[s] = pc[s] /\ using'[s] = using[s]
  BY <1>1, <1>2 DEF Places, ThreadInv, Calling
<1>4. SharedInv'
  BY <1>1 DEF DataInv, SharedInv
<1>5. ThreadInv(t)'
  <2>1. Converting(t)' /\ Keyed(t)'
    BY <1>1, <1>2, <1>3 DEF Converting, Keyed, ThreadInv
  <2>2. Calling(t)' /\ Finding(t)'
    BY <1>3 DEF Calling, Finding
  <2>3. Showing(t)'
    BY <1>1, <1>2, <1>3 DEF Showing, ThreadInv
  <2> QED BY <2>1, <2>2, <2>3 DEF ThreadInv
<1> QED BY <1>1, <1>3, <1>4, <1>5, ThreadStep DEF DataInv

LEMMA ReturnsStep ==
  ASSUME DataInv, Places, NEW t \in Threads, ReturnsFromGet(t)
  PROVE  DataInv'
<1>1. /\ pc[t] = "getting"
      /\ using' = [using EXCEPT ![t] = 0]
      /\ cache_key' = [cache_key EXCEPT ![t] = None]
      /\ pc' = [pc EXCEPT ![t] = "decide"]
      /\ UNCHANGED <<conv, segment, cache_>>
      /\ UNCHANGED <<fresh, line, taken, served, context_history>>
  BY DEF ReturnsFromGet, GoesTo, objects, queue
<1>2. ThreadInv(t)
  BY DEF DataInv
<1>3. PICK v \in Found(t) : ai_candidates' = [ai_candidates EXCEPT ![t] = v]
  BY DEF ReturnsFromGet
<1>4. v \in Values \cup {None}
  BY <1>1, <1>2, <1>3 DEF Found, ThreadInv, Keyed, DataInv, SharedInv
<1>5. /\ pc'[t] = "decide"
      /\ \A s \in Threads \ {t} :
           /\ pc'[s] = pc[s] /\ using'[s] = using[s] /\ cache_key'[s] = cache_key[s]
           /\ ai_candidates'[s] = ai_candidates[s]
      /\ ai_candidates' \in [Threads -> Values \cup {None}]
      /\ cache_key' \in [Threads -> CacheKeys \cup {None}]
  BY <1>1, <1>3, <1>4 DEF Places, DataInv
<1>6. SharedInv'
  BY <1>1 DEF DataInv, SharedInv
<1>7. ThreadInv(t)'
  <2>1. Converting(t)' /\ Keyed(t)'
    BY <1>1, <1>2, <1>5 DEF Converting, Keyed, ThreadInv
  <2>2. Calling(t)' /\ Finding(t)'
    BY <1>5 DEF Calling, Finding
  <2>3. Showing(t)'
    BY <1>1, <1>2, <1>5 DEF Showing, ThreadInv
  <2> QED BY <2>1, <2>2, <2>3 DEF ThreadInv
<1> QED BY <1>1, <1>5, <1>6, <1>7, ThreadStep DEF DataInv

LEMMA DecidesStep ==
  ASSUME DataInv, Places, NEW t \in Threads, Decides(t)
  PROVE  DataInv'
<1>1. /\ pc[t] = "decide"
      /\ UNCHANGED <<conv, segment, cache_key, using, ai_candidates, cache_>>
      /\ UNCHANGED <<fresh, line, taken, served, context_history>>
  BY DEF Decides, objects, queue, locals
<1>2. \/ pc' = [pc EXCEPT ![t] = "insert"] /\ ai_candidates[t] # None
      \/ pc' = [pc EXCEPT ![t] = "request"] \/ pc' = [pc EXCEPT ![t] = "context"]
  <2>1. CASE ai_candidates[t] # None
    BY <2>1 DEF Decides, GoesTo
  <2>2. CASE ai_candidates[t] = None /\ worker_ # 0 /\ ready
    BY <2>2 DEF Decides, GoesTo
  <2>3. CASE ai_candidates[t] = None /\ ~(worker_ # 0 /\ ready)
    BY <2>3 DEF Decides, GoesTo
  <2> QED BY <2>1, <2>2, <2>3
<1>3. ThreadInv(t)
  BY DEF DataInv
<1>4. /\ pc'[t] \in {"insert", "request", "context"}
      /\ pc'[t] = "insert" => ai_candidates[t] \in Values
      /\ \A s \in Threads \ {t} : pc'[s] = pc[s]
  BY <1>2 DEF Places, DataInv
<1>5. SharedInv'
  BY <1>1 DEF DataInv, SharedInv
<1>6. ThreadInv(t)'
  <2>1. Converting(t)' /\ Keyed(t)'
    BY <1>1, <1>3, <1>4 DEF Converting, Keyed, ThreadInv
  <2>2. Calling(t)' /\ Finding(t)'
    BY <1>1, <1>4 DEF Calling, Finding
  <2>3. ASSUME conv[t] # None
        PROVE  /\ segment[t] = conv[t].candidates
               /\ Extends(conv[t].candidates, conv[t].candidates)
    <3>1. conv[t].candidates \in Seq(Surfaces)
      BY <1>1, <1>3, RewriterAssumption DEF ThreadInv, Converting
    <3>2. segment[t] = conv[t].candidates
      BY <1>1, <1>3, <2>3 DEF ThreadInv, Showing
    <3> QED BY <3>1, <3>2, ExtendsItself
  <2>4. Showing(t)'
    BY <1>1, <2>3 DEF Showing
  <2> QED BY <2>1, <2>2, <2>4 DEF ThreadInv
<1> QED BY <1>1, <1>4, <1>5, <1>6, ThreadStep DEF DataInv

LEMMA EnqueuesStep ==
  ASSUME DataInv, Places, NEW t \in Threads, Enqueues(t)
  PROVE  DataInv'
<1> DEFINE r == [input |-> conv[t].key, cache_key |-> cache_key[t]]
<1>1. /\ pc[t] = "enqueue"
      /\ cache_key' = [cache_key EXCEPT ![t] = None]
      /\ pc' = [pc EXCEPT ![t] = "context"]
      /\ UNCHANGED <<conv, segment, using, ai_candidates, cache_>>
      /\ UNCHANGED <<fresh, taken, served, context_history>>
      /\ \E n \in 0..Len(line) : line' = SubSeq(line, n + 1, Len(line)) \o <<r>>
  BY DEF Enqueues, GoesTo, Line!Submit
<1>2. ThreadInv(t)
  BY DEF DataInv
<1>3. r \in OwnRequests
  BY <1>1, <1>2 DEF ThreadInv, Converting, Keyed, OwnRequests, Requests
<1> HIDE DEF r
<1>4. line' \in Seq(OwnRequests)
  <2>1. PICK n \in 0..Len(line) : line' = SubSeq(line, n + 1, Len(line)) \o <<r>>
    BY <1>1
  <2>2. line \in Seq(OwnRequests) /\ n + 1 \in 1..(Len(line) + 1)
    BY DEF DataInv, SharedInv
  <2>3. SubSeq(line, n + 1, Len(line)) \in Seq(OwnRequests)
    BY <2>2, SubSeqProperties
  <2>4. <<r>> \in Seq(OwnRequests)
    BY <1>3
  <2> QED BY <2>1, <2>3, <2>4, ConcatProperties
<1>5. SharedInv'
  BY <1>1, <1>4 DEF DataInv, SharedInv
<1>6. /\ pc'[t] = "context"
      /\ \A s \in Threads \ {t} : pc'[s] = pc[s] /\ cache_key'[s] = cache_key[s]
      /\ cache_key' \in [Threads -> CacheKeys \cup {None}]
  BY <1>1 DEF Places, DataInv
<1>7. ThreadInv(t)'
  <2>1. Converting(t)' /\ Keyed(t)'
    BY <1>1, <1>2, <1>6 DEF Converting, Keyed, ThreadInv
  <2>2. Calling(t)' /\ Finding(t)'
    BY <1>6 DEF Calling, Finding
  <2>3. ASSUME conv[t] # None
        PROVE  /\ segment[t] = conv[t].candidates
               /\ Extends(conv[t].candidates, conv[t].candidates)
    <3>1. conv[t].candidates \in Seq(Surfaces)
      BY <1>1, <1>2, RewriterAssumption DEF ThreadInv, Converting
    <3>2. segment[t] = conv[t].candidates
      BY <1>1, <1>2, <2>3 DEF ThreadInv, Showing
    <3> QED BY <3>1, <3>2, ExtendsItself
  <2>4. Showing(t)'
    BY <1>1, <2>3 DEF Showing
  <2> QED BY <2>1, <2>2, <2>4 DEF ThreadInv
<1> QED BY <1>1, <1>5, <1>6, <1>7, ThreadStep DEF DataInv

LEMMA InsertsStep ==
  ASSUME DataInv, Places, NEW t \in Threads, Inserts(t)
  PROVE  DataInv'
<1>1. /\ pc[t] = "insert"
      /\ segment' = [segment EXCEPT ![t] = InsertCandidates(segment[t], ai_candidates[t])]
      /\ pc' = [pc EXCEPT ![t] = "context"]
      /\ UNCHANGED <<conv, cache_key, using, ai_candidates, cache_>>
      /\ UNCHANGED <<fresh, line, taken, served, context_history>>
  BY DEF Inserts, GoesTo, objects, queue
<1>2. ThreadInv(t)
  BY DEF DataInv
<1>3. segment[t] \in Seq(Surfaces) /\ ai_candidates[t] \in Seq(Surfaces)
  <2>1. ai_candidates[t] \in Values
    BY <1>1, <1>2 DEF ThreadInv, Finding
  <2> QED BY <2>1, RewriterAssumption DEF DataInv, Values
<1> DEFINE shown == InsertCandidates(segment[t], ai_candidates[t])
<1>4. Extends(segment[t], shown)
  BY <1>3, InsertCandidatesExtends
<1> HIDE DEF shown
<1>5. /\ pc'[t] = "context" /\ segment'[t] = shown
      /\ \A s \in Threads \ {t} : pc'[s] = pc[s] /\ segment'[s] = segment[s]
      /\ segment' \in [Threads -> Seq(Surfaces)]
  <2>1. shown \in Seq(Surfaces)
    BY <1>4 DEF Extends
  <2> QED BY <1>1, <2>1 DEF Places, DataInv, shown
<1>6. SharedInv'
  BY <1>1 DEF DataInv, SharedInv
<1>7. ThreadInv(t)'
  <2>1. Converting(t)' /\ Keyed(t)'
    BY <1>1, <1>2, <1>5 DEF Converting, Keyed, ThreadInv
  <2>2. Calling(t)' /\ Finding(t)'
    BY <1>5 DEF Calling, Finding
  <2>3. Showing(t)'
    BY <1>1, <1>2, <1>4, <1>5 DEF Showing, ThreadInv
  <2> QED BY <2>1, <2>2, <2>3 DEF ThreadInv
<1> QED BY <1>1, <1>5, <1>6, <1>7, ThreadStep DEF DataInv

LEMMA RememberedTyped ==
  ASSUME NEW history \in Seq(Surfaces), NEW top \in Surfaces
  PROVE  Remembered(history, top) \in Seq(Surfaces)
<1>1. Append(history, top) \in Seq(Surfaces) /\ Append(history, top) # <<>>
  BY AppendProperties
<1>2. Tail(Append(history, top)) \in Seq(Surfaces)
  BY <1>1, HeadTailProperties
<1> QED BY <1>1, <1>2 DEF Remembered

LEMMA ContextStep ==
  ASSUME DataInv, Places, NEW t \in Threads, UpdatesContext(t)
  PROVE  DataInv'
<1>1. /\ pc[t] = "context"
      /\ ai_candidates' = [ai_candidates EXCEPT ![t] = None]
      /\ pc' = [pc EXCEPT ![t] = "idle"]
      /\ UNCHANGED <<conv, segment, cache_key, using, cache_>>
      /\ UNCHANGED <<fresh, line, taken, served>>
  BY DEF UpdatesContext, GoesTo, objects, queue
<1>2. ThreadInv(t)
  BY DEF DataInv
<1>3. context_history' \in Seq(Surfaces)
  <2>1. CASE segment[t] = <<>>
    BY <2>1 DEF UpdatesContext, DataInv, SharedInv
  <2>2. CASE segment[t] # <<>>
    <3>1. segment[t][1] \in Surfaces /\ context_history \in Seq(Surfaces)
      BY <2>2 DEF DataInv, SharedInv
    <3>2. context_history' = Remembered(context_history, segment[t][1])
      BY <2>2 DEF UpdatesContext
    <3> QED BY <3>1, <3>2, RememberedTyped
  <2> QED BY <2>1, <2>2
<1>4. SharedInv'
  BY <1>1, <1>3 DEF DataInv, SharedInv
<1>5. /\ pc'[t] = "idle"
      /\ \A s \in Threads \ {t} : pc'[s] = pc[s] /\ ai_candidates'[s] = ai_candidates[s]
      /\ ai_candidates' \in [Threads -> Values \cup {None}]
  BY <1>1 DEF Places, DataInv
<1>6. ThreadInv(t)'
  <2>1. Converting(t)' /\ Keyed(t)'
    BY <1>1, <1>2, <1>5 DEF Converting, Keyed, ThreadInv
  <2>2. Calling(t)' /\ Finding(t)'
    BY <1>5 DEF Calling, Finding
  <2>3. Showing(t)'
    BY <1>1, <1>2, <1>5 DEF Showing, ThreadInv
  <2> QED BY <2>1, <2>2, <2>3 DEF ThreadInv
<1> QED BY <1>1, <1>4, <1>5, <1>6, ThreadStep DEF DataInv

(* What the worker and the cache do leaves the threads alone.              *)
LEMMA SharedStep ==
  ASSUME DataInv, Places,
         Clear \/ GetsReady \/ Serves \/ StoresResult \/ Forgets \/ UNCHANGED vars
  PROVE  DataInv'
<1>1. UNCHANGED <<pc, conv, segment, cache_key, using, ai_candidates, cache_>>
  BY DEF Clear, GetsReady, Serves, StoresResult, Forgets, vars, objects, locals
<1>2. SharedInv
  BY DEF DataInv
<1>3. context_history' \in Seq(Surfaces)
  <2>1. CASE UNCHANGED context_history
    BY <1>2, <2>1 DEF SharedInv
  <2>2. CASE context_history' = <<>>
    BY <2>2
  <2> QED BY <2>1, <2>2
          DEF Clear, GetsReady, Serves, StoresResult, Forgets, vars
<1>4. SharedInv' => DataInv'
  BY <1>1 DEF DataInv, ThreadInv, Converting, Keyed, Calling, Finding, Showing
<1>5. CASE Clear \/ GetsReady \/ UNCHANGED vars
  <2>1. UNCHANGED <<fresh, line, taken, served>>
    BY <1>5 DEF Clear, GetsReady, vars, objects, queue
  <2> QED BY <1>3, <1>2, <1>4, <2>1 DEF SharedInv
<1>6. CASE Serves \/ StoresResult \/ Forgets
  <2>1. line' \in Seq(OwnRequests) /\ {taken', served'} \subseteq OwnRequests \cup {None}
    <3>1. CASE Serves /\ Line!Take
      <4>1. line # <<>> /\ taken' = Head(line) /\ line' = Tail(line) /\ served' = served
        BY <3>1 DEF Line!Take
      <4> QED BY <1>2, <4>1, HeadTailProperties DEF SharedInv
    <3>2. CASE (Serves \/ StoresResult) /\ (Line!Serve \/ Line!GiveUp \/ Line!Finish)
      BY <1>2, <3>2 DEF SharedInv, Line!Serve, Line!GiveUp, Line!Finish
    <3>3. CASE Forgets
      BY <1>2, <3>3 DEF SharedInv, Forgets, queue
    <3> QED BY <1>6, <3>1, <3>2, <3>3 DEF Serves, StoresResult
  <2>2. /\ fresh' \in [CacheKeys -> Values \cup {None}]
        /\ \A k \in CacheKeys : fresh'[k] \in Results[k.input] \cup {None}
    <3>1. CASE Serves
      BY <1>2, <3>1 DEF Serves, SharedInv
    <3>2. CASE Forgets
      <4>1. PICK gone \in SUBSET CacheKeys : fresh' = Map!Without(fresh, gone)
        BY <3>2 DEF Forgets, Map!Forget
      <4> QED BY <1>2, <4>1 DEF SharedInv, Map!Without
    <3>3. CASE StoresResult
      <4>1. served \in OwnRequests
        BY <1>2, <3>3 DEF StoresResult, Line!Finish, SharedInv
      <4> DEFINE key == served.cache_key
      <4>2. key \in CacheKeys /\ served.input = key.input
        BY <4>1 DEF OwnRequests, Requests
      <4>3. PICK v \in Results[served.input], gone \in SUBSET CacheKeys :
                   fresh' = Map!Without([fresh EXCEPT ![key] = v], gone)
        BY <3>3 DEF StoresResult, Map!Store
      <4>4. v \in Results[key.input] /\ v \in Values
        <5>1. key.input \in Inputs
          BY <4>2 DEF CacheKeys
        <5> QED BY <4>2, <4>3, <5>1 DEF Values
      <4> HIDE DEF key
      <4> DEFINE put == [fresh EXCEPT ![key] = v]
      <4>5. /\ put \in [CacheKeys -> Values \cup {None}]
            /\ \A k \in CacheKeys : put[k] \in Results[k.input] \cup {None}
        BY <1>2, <4>2, <4>4 DEF SharedInv
      <4> HIDE DEF put
      <4>6. fresh' = [k \in CacheKeys |-> IF k \in gone THEN None ELSE put[k]]
        BY <4>3 DEF put, Map!Without
      <4> QED BY <4>5, <4>6
    <3> QED BY <1>6, <3>1, <3>2, <3>3
  <2> QED BY <1>3, <1>4, <2>1, <2>2 DEF SharedInv
<1> QED BY <1>5, <1>6

LEMMA DataStep == Places /\ DataInv /\ [Next]_vars => DataInv'
<1> SUFFICES ASSUME Places, DataInv, [Next]_vars PROVE DataInv'
  OBVIOUS
<1>1. ASSUME NEW t \in Threads, Converts(t) \/ Proceeds(t)
      PROVE  DataInv'
  BY <1>1, BeginningStep, InitializationStep, KeyStep, CallsGetStep, ReturnsStep,
     DecidesStep, EnqueuesStep, InsertsStep, ContextStep DEF Proceeds
<1>2. CASE Clear \/ GetsReady \/ Serves \/ StoresResult \/ Forgets \/ UNCHANGED vars
  BY <1>2, SharedStep
<1> QED BY <1>1, <1>2 DEF Next

Inv == Places /\ InitInv /\ DataInv

LEMMA Invariant == Spec => []Inv
<1>1. Init => Inv
  <2> SUFFICES ASSUME Init PROVE Inv
    OBVIOUS
  <2>1. Places /\ InitInv
    BY PlacesAtFirst
  <2>2. DataInv
    BY DEF Init, Line!Init, DataInv, SharedInv, ThreadInv, Converting, Keyed, Calling,
           Finding, Showing
  <2> QED BY <2>1, <2>2 DEF Inv
<1>2. Inv /\ [Next]_vars => Inv'
  BY PlacesStep, InitStep, DataStep DEF Inv
<1> QED BY <1>1, <1>2, PTL DEF Spec

(* Mozc's candidates stay first and in order, and what is added is fit,    *)
(* new, and no more than the limit: for every number of threads and every  *)
(* answer of the backend, even one taken from a cache that is gone.        *)
THEOREM MozcKeepsItsCandidates == Spec => []MozcCandidatesKept
<1>1. Inv => MozcCandidatesKept
  <2> SUFFICES ASSUME Inv, NEW t \in Threads, conv[t] # None
               PROVE  LET own   == conv[t].candidates
                          added == SubSeq(segment[t], Len(own) + 1, Len(segment[t]))
                      IN /\ IsPrefix(own, segment[t])
                         /\ Len(added) <= MaxCandidatesToAdd
                         /\ IsInjective(added)
                         /\ ToSet(added) \cap (ToSet(own) \cup Unfit) = {}
    BY DEF MozcCandidatesKept
  <2> DEFINE own == conv[t].candidates
             shown == segment[t]
             added == SubSeq(shown, Len(own) + 1, Len(shown))
  <2>1. own \in Seq(Surfaces)
    BY RewriterAssumption DEF Inv, DataInv
  <2>2. Extends(own, shown)
    <3>1. Showing(t)
      BY DEF Inv, DataInv, ThreadInv
    <3> QED BY <2>1, <3>1, ExtendsItself DEF Showing
  <2> HIDE DEF own, shown
  <2>3. MaxCandidatesToAdd \in Nat
    BY RewriterAssumption
  <2>4. /\ Len(own) \in Nat /\ Len(shown) \in Nat
        /\ Len(own) <= Len(shown) /\ Len(shown) <= Len(own) + MaxCandidatesToAdd
        /\ shown \in Seq(Surfaces)
    BY <2>1, <2>2, LenProperties DEF Extends
  <2>5. /\ Len(added) = Len(shown) - Len(own)
        /\ DOMAIN added = 1..(Len(shown) - Len(own))
        /\ \A i \in 1..(Len(shown) - Len(own)) : added[i] = shown[Len(own) + i]
    <3>1. CASE Len(own) = Len(shown)
      BY <2>4, <3>1
    <3>2. CASE Len(own) < Len(shown)
      BY <2>4, <3>2, SubSeqProperties
    <3> QED BY <2>4, <3>1, <3>2
  <2> HIDE DEF added
  <2>6. IsPrefix(own, shown)
    <3>1. SubSeq(own, 1, Len(own)) = SubSeq(shown, 1, Len(own))
      BY <2>1, <2>2, <2>4 DEF Extends
    <3> QED BY <2>4, <3>1 DEF IsPrefix
  <2>7. Len(added) <= MaxCandidatesToAdd
    BY <2>3, <2>4, <2>5
  <2>8. ASSUME NEW i \in DOMAIN added
        PROVE  /\ added[i] \notin Unfit
               /\ \A j \in 1..Len(own) : own[j] # added[i]
               /\ \A j \in 1..(i - 1) : added[j] # added[i]
    <3> DEFINE place == Len(own) + i
    <3>1. place \in (Len(own) + 1)..Len(shown)
      BY <2>4, <2>5
    <3> HIDE DEF place
    <3>2. shown[place] \notin Unfit
      BY <2>2, <3>1 DEF Extends
    <3>3. \A j \in 1..(place - 1) : shown[j] # shown[place]
      BY <2>2, <3>1 DEF Extends
    <3>4. ASSUME NEW j \in 1..Len(own)
          PROVE  own[j] # added[i]
      BY <2>2, <2>4, <2>5, <3>3 DEF Extends, place
    <3>5. ASSUME NEW j \in 1..(i - 1)
          PROVE  added[j] # added[i]
      <4>1. j \in DOMAIN added /\ Len(own) + j \in 1..(place - 1)
        BY <2>4, <2>5 DEF place
      <4> QED BY <2>5, <3>3, <4>1 DEF place
    <3> QED BY <2>5, <3>2, <3>4, <3>5 DEF place
  <2>9. IsInjective(added)
    <3> SUFFICES ASSUME NEW i \in DOMAIN added, NEW j \in DOMAIN added,
                        added[i] = added[j], i # j
                 PROVE  FALSE
      BY DEF IsInjective
    <3>1. i \in 1..(j - 1) \/ j \in 1..(i - 1)
      BY <2>4, <2>5
    <3> QED BY <2>8, <3>1
  <2>10. ToSet(added) \cap (ToSet(own) \cup Unfit) = {}
    <3>1. DOMAIN own = 1..Len(own)
      BY <2>1
    <3> QED BY <2>8, <3>1 DEF ToSet
  <2> QED BY <2>6, <2>7, <2>9, <2>10 DEF own, shown, added
<1> QED BY <1>1, Invariant, PTL

(* As long as no initialization has failed, a lookup finds what the cache  *)
(* has for the input it is for, and finds nothing that was made for another*)
(* input, whatever the other threads have asked for meanwhile.             *)
THEOREM NextConversionFindsResult == Spec => NextConversionFinds
<1> DEFINE Finds ==
             \A t \in Threads : ReturnsFromGet(t) /\ init_failures = 0 =>
               /\ ai_candidates'[t] \in Results[conv[t].key] \cup {None}
               /\ (~IncludeContext
                    /\ \E k \in CacheKeys : k.input = conv[t].key /\ fresh[k] # None)
                  => ai_candidates'[t] # None
<1>1. Inv /\ [Next]_vars => Finds
  <2> SUFFICES ASSUME Inv, NEW t \in Threads, ReturnsFromGet(t), init_failures = 0
               PROVE  /\ ai_candidates'[t] \in Results[conv[t].key] \cup {None}
                      /\ (~IncludeContext /\ \E k \in CacheKeys :
                                               k.input = conv[t].key /\ fresh[k] # None)
                         => ai_candidates'[t] # None
    OBVIOUS
  <2>1. pc[t] = "getting"
    BY DEF ReturnsFromGet
  <2>2. ThreadInv(t)
    BY DEF Inv, DataInv
  <2>3. using[t] = cache_
    BY <2>1, <2>2 DEF ThreadInv, Calling, Inv, InitInv, AllUseTheCache
  <2>4. cache_key[t] \in CacheKeys /\ cache_key[t].input = conv[t].key
    BY <2>1, <2>2 DEF ThreadInv, Keyed
  <2>5. ai_candidates'[t] = fresh[cache_key[t]]
    BY <2>3 DEF ReturnsFromGet, Found, Inv, DataInv
  <2>6. ai_candidates'[t] \in Results[conv[t].key] \cup {None}
    BY <2>4, <2>5 DEF Inv, DataInv, SharedInv
  <2>7. ASSUME ~IncludeContext,
               NEW k \in CacheKeys, k.input = conv[t].key, fresh[k] # None
        PROVE  ai_candidates'[t] # None
    <3>1. k = cache_key[t]
      BY <2>4, <2>7 DEF CacheKeys
    <3> QED BY <2>5, <2>7, <3>1
  <2> QED BY <2>6, <2>7
<1> QED BY <1>1, Invariant, PTL DEF Spec, NextConversionFinds
================================================================================
