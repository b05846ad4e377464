------------------------ MODULE AICandidateCache_proofs ------------------------
(***************************************************************************)
(* What holds of AICandidateCache for every set of keys and values, and    *)
(* every limit and time to live a configuration may set.                   *)
(***************************************************************************)
EXTENDS AICandidateCache, FiniteSetTheorems, TLAPS

Caches == [Keys -> Entries \cup {None}]

--------------------------------------------------------------------------------
(* Lemmas about the entries.                                               *)

LEMMA NoneIsNothing == None \notin Values /\ None \notin Entries
  BY CacheAssumption

(* Prune drops what has expired and nothing else.                          *)
LEMMA PrunedEntries ==
  ASSUME NEW c \in Caches
  PROVE  /\ Pruned(c) \in Caches
         /\ \A k \in Keys : Pruned(c)[k] = IF c[k] # None /\ IsExpired(c[k])
                                           THEN None ELSE c[k]
         /\ Present(Pruned(c)) = {k \in Present(c) : ~IsExpired(c[k])}
<1>1. /\ Pruned(c) \in Caches
      /\ \A k \in Keys : Pruned(c)[k] = IF c[k] # None /\ IsExpired(c[k])
                                        THEN None ELSE c[k]
  BY DEF Pruned, Caches
<1> QED BY <1>1 DEF Present

(* The room Put makes: entries stay as they are or go.  Those that go had  *)
(* expired, but for at most one, the oldest of a cache full of good ones.  *)
LEMMA RoomEntries ==
  ASSUME NEW c \in Caches, NEW room \in RoomMade(c)
  PROVE  /\ room \in Caches
         /\ \A k \in Keys : room[k] = c[k] \/ room[k] = None
         /\ \/ \A k \in Present(c) \ Present(room) : IsExpired(c[k])
            \/ /\ Full(Pruned(c))
               /\ \E e \in Present(Pruned(c)) :
                    /\ Present(room) = Present(Pruned(c)) \ {e}
                    /\ \A k \in Present(Pruned(c)) :
                         c[e].created_at <= c[k].created_at
<1> DEFINE p == Pruned(c)
<1>1. /\ p \in Caches
      /\ \A k \in Keys : p[k] = IF c[k] # None /\ IsExpired(c[k])
                                THEN None ELSE c[k]
      /\ Present(p) = {k \in Present(c) : ~IsExpired(c[k])}
  BY PrunedEntries
<1> HIDE DEF p
<1>2. CASE room = c
  BY <1>2 DEF Present
<1>3. CASE room = p
  BY <1>1, <1>3 DEF Present
<1>4. ASSUME room # c, room # p
      PROVE  /\ Full(p)
             /\ \E e \in Present(p) :
                  /\ room = [p EXCEPT ![e] = None]
                  /\ \A k \in Present(p) : p[e].created_at <= p[k].created_at
  BY <1>4 DEF RoomMade, Evicted, p
<1>5. CASE room # c /\ room # p
  <2>1. PICK e \in Present(p) :
          /\ room = [p EXCEPT ![e] = None]
          /\ \A k \in Present(p) : p[e].created_at <= p[k].created_at
    BY <1>4, <1>5
  <2>2. e \in Keys /\ \A k \in Present(p) : k \in Keys /\ p[k] = c[k]
    BY <1>1 DEF Present
  <2>3. room \in Caches
    BY <1>1, <2>1, <2>2 DEF Caches
  <2>4. \A k \in Keys : room[k] = IF k = e THEN None ELSE p[k]
    BY <1>1, <2>1, <2>2 DEF Caches
  <2>5. Present(room) = Present(p) \ {e}
    BY <2>4 DEF Present
  <2>6. \A k \in Keys : room[k] = c[k] \/ room[k] = None
    BY <1>1, <2>4
  <2>7. \A k \in Present(p) : c[e].created_at <= c[k].created_at
    BY <2>1, <2>2
  <2> QED BY <1>4, <1>5, <2>3, <2>5, <2>6, <2>7 DEF p
<1> QED BY <1>2, <1>3, <1>5

--------------------------------------------------------------------------------
(* Types.                                                                  *)

LEMMA TypeStep == TypeOK /\ [Next]_vars => TypeOK'
<1> SUFFICES ASSUME TypeOK, [Next]_vars PROVE TypeOK'
  OBVIOUS
<1> USE CacheAssumption DEF TypeOK
<1>1. ASSUME NEW k \in Keys, Get(k)
      PROVE  TypeOK'
  BY <1>1 DEF Get, Contains, Entries
<1>2. ASSUME NEW k \in Keys, NEW v \in Values, Put(k, v)
      PROVE  TypeOK'
  <2>1. PICK room \in RoomMade(cache) : cache' = [room EXCEPT ![k] = NewEntry(k, v)]
    BY <1>2 DEF Put
  <2>2. NewEntry(k, v) \in Entries
    BY DEF NewEntry, Entries
  <2>3. cache' \in Caches
    BY <2>1, <2>2, RoomEntries DEF Caches
  <2> QED BY <1>2, <2>3 DEF Put, Caches
<1>3. CASE Clear
  BY <1>3 DEF Clear
<1>4. CASE Prune
  BY <1>4, PrunedEntries DEF Prune, Caches
<1>5. CASE ResetStats
  BY <1>5 DEF ResetStats
<1>6. CASE Tick
  BY <1>6 DEF Tick
<1>7. CASE UNCHANGED vars
  BY <1>7 DEF vars
<1> QED BY <1>1, <1>2, <1>3, <1>4, <1>5, <1>6, <1>7 DEF Next

(* The cache is well-typed: it holds entries or nothing, and a lookup finds*)
(* a list of candidates or nothing.                                        *)
THEOREM CacheTypeCorrect == Spec => []TypeOK
<1>1. Init => TypeOK
  BY CacheAssumption DEF Init, TypeOK
<1> QED BY <1>1, TypeStep, PTL DEF Spec

--------------------------------------------------------------------------------
(* Size.                                                                   *)

LEMMA Sizes ==
  ASSUME NEW c \in Caches
  PROVE  /\ IsFiniteSet(Present(c)) /\ Cardinality(Present(c)) \in Nat
         /\ Cardinality(Present(Pruned(c))) <= Cardinality(Present(c))
<1>1. IsFiniteSet(Present(c))
  BY CacheAssumption, FS_Subset DEF Present
<1>2. Present(Pruned(c)) \in SUBSET Present(c)
  BY PrunedEntries
<1> QED BY <1>1, <1>2, FS_Subset, FS_CardinalityType

(* What a Put leaves is no more than the limit, or one if that is 0.       *)
LEMMA PutSize ==
  ASSUME TypeOK, SizeWithinLimit, NEW k \in Keys, NEW v \in Values, Put(k, v)
  PROVE  SizeWithinLimit'
<1> SUFFICES ASSUME max_entries >= 0
             PROVE  Cardinality(Present(cache'))
                      <= IF max_entries = 0 THEN 1 ELSE max_entries
  BY DEF SizeWithinLimit, Put, Present
<1>1. max_entries \in Nat /\ cache \in Caches
  BY CacheAssumption DEF TypeOK, Caches
<1>2. PICK room \in RoomMade(cache) : cache' = [room EXCEPT ![k] = NewEntry(k, v)]
  BY DEF Put
<1>3. room \in Caches
  BY <1>1, <1>2, RoomEntries
<1>4. NewEntry(k, v) # None
  BY NoneIsNothing, CacheAssumption DEF NewEntry, Entries, TypeOK
<1>5. Present(cache') = Present(room) \cup {k}
  BY <1>2, <1>3, <1>4 DEF Present, Caches
<1>6. /\ IsFiniteSet(Present(room)) /\ Cardinality(Present(room)) \in Nat
      /\ Cardinality(Present(cache')) \in Nat
      /\ Cardinality(Present(cache')) <= Cardinality(Present(room)) + 1
  <2>1. IsFiniteSet(Present(room)) /\ Cardinality(Present(room)) \in Nat
    BY <1>3, Sizes
  <2>2. IsFiniteSet(Present(cache'))
    BY <1>5, <2>1, FS_AddElement
  <2>3. Cardinality(Present(cache')) \in Nat
    BY <2>2, FS_CardinalityType
  <2>4. Cardinality(Present(cache')) =
          IF k \in Present(room) THEN Cardinality(Present(room))
          ELSE Cardinality(Present(room)) + 1
    BY <1>5, <2>1, FS_AddElement
  <2> QED BY <2>1, <2>3, <2>4
<1> DEFINE p == Pruned(cache)
<1>7. p \in Caches /\ IsFiniteSet(Present(p)) /\ Cardinality(Present(p)) \in Nat
  BY <1>1, PrunedEntries, Sizes
<1>8. CASE ~Full(room)
  BY <1>1, <1>6, <1>8 DEF Full
<1>9. CASE Full(room)
  <2>1. Full(cache) /\ Full(p) /\ room \in Evicted(p)
    BY <1>2, <1>9 DEF RoomMade
  <2>2. CASE Present(p) = {}
    <3>1. Cardinality(Present(p)) = 0 /\ max_entries = 0 /\ room = p
      BY <1>1, <2>1, <2>2, FS_EmptySet DEF Full, Evicted
    <3> QED BY <1>6, <3>1
  <2>3. CASE Present(p) # {}
    <3>1. PICK e \in Present(p) : room = [p EXCEPT ![e] = None]
      BY <2>1, <2>3 DEF Evicted
    <3>2. Present(room) = Present(p) \ {e}
      BY <1>7, <3>1 DEF Present, Caches
    <3>3. Cardinality(Present(room)) = Cardinality(Present(p)) - 1
      BY <1>7, <3>1, <3>2, FS_RemoveElement
    <3>4. /\ Cardinality(Present(p)) <= Cardinality(Present(cache))
          /\ Cardinality(Present(cache)) \in Nat
      BY <1>1, Sizes
    <3> QED BY <1>1, <1>6, <1>7, <3>3, <3>4 DEF SizeWithinLimit
  <2> QED BY <2>2, <2>3
<1> QED BY <1>8, <1>9

LEMMA SizeStep == TypeOK /\ SizeWithinLimit /\ [Next]_vars => SizeWithinLimit'
<1> SUFFICES ASSUME TypeOK, SizeWithinLimit, [Next]_vars PROVE SizeWithinLimit'
  OBVIOUS
<1>1. max_entries \in Int /\ cache \in Caches
  BY CacheAssumption DEF TypeOK, Caches
<1>2. CASE \E k \in Keys : \E v \in Values : Put(k, v)
  BY <1>2, PutSize
<1>3. CASE Clear
  <2>1. Present(cache') = {} /\ max_entries' = max_entries
    BY <1>3 DEF Clear, Present
  <2> QED BY <1>1, <2>1, FS_EmptySet DEF SizeWithinLimit
<1>4. CASE Prune
  <2>1. cache' = Pruned(cache) /\ max_entries' = max_entries
    BY <1>4 DEF Prune
  <2>2. /\ Cardinality(Present(cache')) <= Cardinality(Present(cache))
        /\ Cardinality(Present(cache)) \in Nat /\ Cardinality(Present(cache')) \in Nat
    BY <1>1, <2>1, Sizes, PrunedEntries
  <2> QED BY <1>1, <2>1, <2>2 DEF SizeWithinLimit
<1>5. ASSUME UNCHANGED <<cache, max_entries>>
      PROVE  SizeWithinLimit'
  BY <1>5 DEF SizeWithinLimit, Present
<1>6. CASE ResetStats \/ Tick \/ UNCHANGED vars \/ \E k \in Keys : Get(k)
  BY <1>5, <1>6 DEF ResetStats, Tick, vars, Get
<1> QED BY <1>2, <1>3, <1>4, <1>6 DEF Next

(* A Put costs at most one good entry, the oldest, and only a full cache   *)
(* any; and the cache is never above its limit.                            *)
THEOREM PutCostsOldest == Spec => OldestGoesFirst
<1> DEFINE Cost(k, v) ==
      /\ SizeWithinLimit'
      /\ LET lost == (Live \ Live') \ {k}
         IN lost # {} =>
              /\ Cardinality(lost) = 1
              /\ Cardinality(Live) >= max_entries
              /\ \A gone \in lost, i \in (Live \cap Live') \ {k} :
                   cache[gone].created_at <= cache[i].created_at
<1>1. ASSUME TypeOK, SizeWithinLimit, NEW k \in Keys, NEW v \in Values, Put(k, v)
      PROVE  Cost(k, v)
  <2> DEFINE lost == (Live \ Live') \ {k}
             p == Pruned(cache)
  <2>1. cache \in Caches
    BY <1>1 DEF TypeOK, Caches
  <2>2. PICK room \in RoomMade(cache) : cache' = [room EXCEPT ![k] = NewEntry(k, v)]
    BY <1>1 DEF Put
  <2>3. room \in Caches /\ \A i \in Keys : room[i] = cache[i] \/ room[i] = None
    BY <2>1, <2>2, RoomEntries
  <2>4. now' = now /\ \A i \in Keys \ {k} : cache'[i] = room[i]
    BY <1>1, <2>2, <2>3 DEF Put, Caches
  <2>5. Live = Present(p)
    BY <2>1, PrunedEntries DEF Live, Contains, Present
  <2>6. ASSUME NEW i \in lost
        PROVE  i \in Present(cache) \ Present(room) /\ ~IsExpired(cache[i])
    BY <2>3, <2>4, <2>6 DEF Live, Contains, Present, IsExpired
  <2>7. CASE \A i \in Present(cache) \ Present(room) : IsExpired(cache[i])
    <3>1. lost = {}
      BY <2>6, <2>7
    <3> QED BY <1>1, <3>1, PutSize
  <2>8. CASE /\ Full(p)
             /\ \E e \in Present(p) :
                  /\ Present(room) = Present(p) \ {e}
                  /\ \A i \in Present(p) : cache[e].created_at <= cache[i].created_at
    <3>1. PICK e \in Present(p) :
                  /\ Present(room) = Present(p) \ {e}
                  /\ \A i \in Present(p) : cache[e].created_at <= cache[i].created_at
      BY <2>8
    <3>2. lost \subseteq {e}
      BY <2>5, <2>6, <3>1
    <3>3. lost # {} => lost = {e} /\ Cardinality(lost) = 1
      BY <3>2, FS_Singleton
    <3>4. Cardinality(Live) >= max_entries
      BY <2>5, <2>8 DEF Full
    <3>5. \A gone \in lost, i \in (Live \cap Live') \ {k} :
            cache[gone].created_at <= cache[i].created_at
      BY <2>5, <3>1, <3>2
    <3> HIDE DEF lost
    <3> QED BY <1>1, <3>3, <3>4, <3>5, PutSize DEF lost
  <2> QED BY <2>1, <2>2, <2>7, <2>8, RoomEntries
<1>2. TypeOK /\ SizeWithinLimit
        => [\A k \in Keys, v \in Values : Put(k, v) => Cost(k, v)]_vars
  BY <1>1
<1>3. Init => SizeWithinLimit
  <2> SUFFICES ASSUME Init, max_entries >= 0
               PROVE  Cardinality(Present(cache)) <= IF max_entries = 0 THEN 1 ELSE max_entries
    BY DEF SizeWithinLimit
  <2>1. Present(cache) = {} /\ max_entries \in Int
    BY CacheAssumption DEF Init, Present
  <2> QED BY <2>1, FS_EmptySet
<1> QED BY <1>2, <1>3, SizeStep, CacheTypeCorrect, PTL DEF Spec, OldestGoesFirst

--------------------------------------------------------------------------------
(* The cache implements FreshMap.                                          *)

LEMMA FreshValues ==
  ASSUME TypeOK, TypeOK'
  PROVE  /\ Fresh \in [Keys -> Values \cup {None}]
         /\ Fresh' \in [Keys -> Values \cup {None}]
  BY DEF TypeOK, Fresh, Contains, Entries

(* If no key gets a value, the map forgets some.                           *)
LEMMA Forgets ==
  ASSUME TypeOK, TypeOK', \A i \in Keys : Fresh'[i] = Fresh[i] \/ Fresh'[i] = None
  PROVE  M!Forget
<1> DEFINE gone == {i \in Keys : Fresh'[i] = None}
<1>1. Fresh' \in [Keys -> Values \cup {None}] /\ Fresh \in [Keys -> Values \cup {None}]
  BY FreshValues
<1>2. Fresh' = M!Without(Fresh, gone)
  BY <1>1 DEF M!Without
<1> QED BY <1>2 DEF M!Forget

LEMMA MapStep ==
  TypeOK /\ [Next]_vars => [M!Next]_<<ttl >= 0, Fresh, last, got, hits, misses>>
<1> SUFFICES ASSUME TypeOK, [Next]_vars
             PROVE  M!Next \/ UNCHANGED <<ttl >= 0, Fresh, last, got, hits, misses>>
  OBVIOUS
<1>1. TypeOK' /\ cache \in Caches /\ now \in Int /\ ttl \in Int
  BY TypeStep, CacheAssumption DEF TypeOK, Caches
<1>2. ASSUME NEW k \in Keys, Get(k)
      PROVE  M!Next
  <2>1. UNCHANGED <<ttl >= 0, Fresh, last>>
    BY <1>2 DEF Get, Fresh, Contains, IsExpired
  <2>2. Fresh[k] = IF Contains(k) THEN cache[k].candidates ELSE None
    BY DEF Fresh
  <2>3. Contains(k) => cache[k].candidates # None
    BY <1>1, NoneIsNothing DEF Contains, Caches, Entries
  <2>4. M!Look(k)
    BY <1>2, <2>2, <2>3 DEF Get, M!Look
  <2> QED BY <2>1, <2>4 DEF M!Next, M!Answers
<1>3. ASSUME NEW k \in Keys, NEW v \in Values, Put(k, v)
      PROVE  M!Next
  <2> DEFINE gone == {i \in Keys : Fresh'[i] = None}
  <2>1. PICK room \in RoomMade(cache) : cache' = [room EXCEPT ![k] = NewEntry(k, v)]
    BY <1>3 DEF Put
  <2>2. room \in Caches /\ \A i \in Keys : room[i] = cache[i] \/ room[i] = None
    BY <1>1, <2>1, RoomEntries
  <2>3. /\ UNCHANGED <<ttl, now, got, hits, misses>> /\ last' = <<k, v>>
        /\ cache'[k] = NewEntry(k, v)
        /\ \A i \in Keys \ {k} : cache'[i] = cache[i] \/ cache'[i] = None
    BY <1>3, <2>1, <2>2 DEF Put, Caches
  <2>4. \A i \in Keys \ {k} : Fresh'[i] = Fresh[i] \/ Fresh'[i] = None
    BY <2>3 DEF Fresh, Contains, IsExpired
  <2>5. NewEntry(k, v) # None
    BY <1>1, NoneIsNothing DEF NewEntry, Entries, TypeOK
  <2>6. Fresh'[k] = IF ttl >= 0 THEN v ELSE None
    BY <1>1, <2>3, <2>5 DEF Fresh, Contains, IsExpired, NewEntry
  <2>7. Fresh' \in [Keys -> Values \cup {None}] /\ Fresh \in [Keys -> Values \cup {None}]
    BY <1>1, FreshValues
  <2>8. ttl >= 0 => k \notin gone
    BY <2>6, NoneIsNothing
  <2>9. Fresh' = M!Without([Fresh EXCEPT ![k] = v], gone)
    BY <2>4, <2>6, <2>7 DEF M!Without
  <2>10. gone \in SUBSET Keys
    OBVIOUS
  <2> HIDE DEF gone
  <2>11. M!Store(k, v)
    BY <2>8, <2>9, <2>10 DEF M!Store
  <2> QED BY <2>3, <2>11 DEF M!Next, M!Changes
<1>4. CASE Clear \/ Prune \/ Tick
  <2>1. UNCHANGED <<ttl, last, got, hits, misses>>
    BY <1>4 DEF Clear, Prune, Tick
  <2>2. \A i \in Keys : Fresh'[i] = Fresh[i] \/ Fresh'[i] = None
    <3>1. CASE Clear
      BY <3>1 DEF Clear, Fresh, Contains
    <3>2. CASE Prune
      BY <1>1, <3>2, PrunedEntries DEF Prune, Fresh, Contains, IsExpired
    <3>3. CASE Tick
      BY <1>1, <3>3 DEF Tick, Fresh, Contains, IsExpired, Caches, Entries
    <3> QED BY <1>4, <3>1, <3>2, <3>3
  <2>3. M!Forget
    BY <1>1, <2>2, Forgets
  <2> QED BY <2>1, <2>3 DEF M!Next, M!Changes
<1>5. CASE ResetStats
  <2>1. UNCHANGED <<ttl >= 0, Fresh, last>>
    BY <1>5 DEF ResetStats, Fresh, Contains, IsExpired
  <2> QED BY <1>5, <2>1 DEF ResetStats, M!Next, M!Answers, M!Recount
<1>6. CASE UNCHANGED vars
  BY <1>6 DEF vars, Fresh, Contains, IsExpired
<1> QED BY <1>2, <1>3, <1>4, <1>5, <1>6 DEF Next

(* A lookup finds what the last Put of its key stored or nothing, and what *)
(* has expired never comes back.                                           *)
THEOREM CacheIsFreshMap == Spec => KeepsFreshMap
<1>1. Init => M!Init
  <2> SUFFICES ASSUME Init PROVE M!Init
    OBVIOUS
  <2>1. Fresh = [k \in Keys |-> None]
    BY DEF Init, Fresh, Contains
  <2>2. (ttl >= 0) \in BOOLEAN
    OBVIOUS
  <2> QED BY <2>1, <2>2 DEF Init, M!Init
<1> QED BY <1>1, MapStep, CacheTypeCorrect, PTL DEF Spec, KeepsFreshMap, M!Spec
================================================================================
