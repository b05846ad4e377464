--------------------------- MODULE AICandidateCache ---------------------------
(***************************************************************************)
(* AICandidateCache (src/ai/ai_candidate_cache.{h,cc}): the candidates the *)
(* AI worker stores and the rewriter looks up.  Every operation runs under *)
(* mutex_, so it is one step; the clock is read as the same tick all       *)
(* through an operation.                                                   *)
(*                                                                         *)
(* An operator just above another and named for it and a change is a       *)
(* faulty variant of that one, used to test the properties (README).       *)
(***************************************************************************)
EXTENDS Integers, FiniteSets

CONSTANTS
  Keys,        \* cache keys
  Values,      \* candidate lists
  Limits,      \* the max_entries a cache may be constructed with
  Ttls,        \* and the ttl_seconds: GetInt accepts any number for both
  MaxTime,     \* bound: the clock stops there
  MaxLookups,  \* bound: lookups that are counted before ResetStats
  None         \* no entry, no value

VARIABLES
  max_entries, ttl,   \* set by the constructor
  cache,              \* the entry of each key, or None
  now,                \* steady_clock, in seconds
  hits, misses,
  got,                \* what the last Get returned
  last                \* observer: the key and value of the last Put

vars == <<max_entries, ttl, cache, now, hits, misses, got, last>>

Entries == [candidates : Values, created_at : Nat, expires_at : Int]

ASSUME CacheAssumption ==
  /\ IsFiniteSet(Keys)
  /\ Limits \subseteq Int /\ Ttls \subseteq Int
  /\ {MaxTime, MaxLookups} \subseteq Nat
  /\ None \notin Values \cup Entries \cup (Keys \X Values)

TypeOK ==
  /\ max_entries \in Limits /\ ttl \in Ttls
  /\ cache \in [Keys -> Entries \cup {None}]
  /\ now \in 0..MaxTime
  /\ hits \in 0..MaxLookups /\ misses \in 0..MaxLookups
  /\ got \in Values \cup {None}
  /\ last \in (Keys \X Values) \cup {None}

Init ==
  /\ max_entries \in Limits /\ ttl \in Ttls
  /\ cache = [k \in Keys |-> None]
  /\ now = 0
  /\ hits = 0 /\ misses = 0
  /\ got = None /\ last = None

--------------------------------------------------------------------------------
Present(c) == {k \in Keys : c[k] # None}

IsExpired(entry) == now > entry.expires_at

Contains(k) == cache[k] # None /\ ~IsExpired(cache[k])

(* size() >= static_cast<size_t>(max_entries_): a negative limit turns into*)
(* a number no size reaches.                                               *)
Full(c) == max_entries >= 0 /\ Cardinality(Present(c)) >= max_entries

Get(k) ==
  /\ hits + misses < MaxLookups
  /\ IF Contains(k)
     THEN got' = cache[k].candidates /\ hits' = hits + 1 /\ UNCHANGED misses
     ELSE got' = None /\ misses' = misses + 1 /\ UNCHANGED hits
  /\ UNCHANGED <<max_entries, ttl, cache, now, last>>

Pruned(c) == [k \in Keys |-> IF c[k] # None /\ IsExpired(c[k]) THEN None ELSE c[k]]

EvictedNewest(c) ==
  {[c EXCEPT ![k] = None] :
     k \in {i \in Present(c) :
              \A j \in Present(c) : c[i].created_at >= c[j].created_at}}

(* EvictOldest: the first of the oldest in the order of the hash table,    *)
(* which may be any of them; nothing if there is none.                     *)
Evicted(c) ==
  IF Present(c) = {} THEN {c}
  ELSE {[c EXCEPT ![k] = None] :
          k \in {i \in Present(c) :
                   \A j \in Present(c) : c[i].created_at <= c[j].created_at}}

(* What Put makes of the entries before it stores its own.                 *)
RoomMade(c) ==
  IF ~Full(c) THEN {c}
  ELSE IF ~Full(Pruned(c)) THEN {Pruned(c)}
  ELSE Evicted(Pruned(c))

EntryKeepsExpiry(k, v) ==
  [candidates |-> v, created_at |-> now,
   expires_at |-> IF cache[k] = None THEN now + ttl ELSE cache[k].expires_at]

NewEntry(k, v) == [candidates |-> v, created_at |-> now, expires_at |-> now + ttl]

Put(k, v) ==
  /\ \E c \in RoomMade(cache) : cache' = [c EXCEPT ![k] = NewEntry(k, v)]
  /\ last' = <<k, v>>
  /\ UNCHANGED <<max_entries, ttl, now, hits, misses, got>>

Clear ==
  /\ cache' = [k \in Keys |-> None]
  /\ UNCHANGED <<max_entries, ttl, now, hits, misses, got, last>>

Prune ==
  /\ cache' = Pruned(cache)
  /\ UNCHANGED <<max_entries, ttl, now, hits, misses, got, last>>

ResetStats ==
  /\ hits' = 0 /\ misses' = 0
  /\ UNCHANGED <<max_entries, ttl, cache, now, got, last>>

Tick ==
  /\ now < MaxTime
  /\ now' = now + 1
  /\ UNCHANGED <<max_entries, ttl, cache, hits, misses, got, last>>

Next ==
  \/ \E k \in Keys : Get(k) \/ \E v \in Values : Put(k, v)
  \/ Clear \/ Prune \/ ResetStats \/ Tick

Spec == Init /\ [][Next]_vars

--------------------------------------------------------------------------------
(* Properties.                                                             *)
(* A Put costs at most one entry that was still good, only when there were *)
(* as many of those as the cache may hold, and never one created after one *)
(* that stays (Put, EvictOldest); and it leaves no more than max_entries,  *)
(* or one if that is 0.                                                    *)
SizeWithinLimit ==
  max_entries >= 0 =>
    Cardinality(Present(cache)) <= IF max_entries = 0 THEN 1 ELSE max_entries

Live == {k \in Keys : Contains(k)}

OldestGoesFirst ==
  [][\A k \in Keys, v \in Values : Put(k, v) =>
       /\ SizeWithinLimit'
       /\ LET lost == (Live \ Live') \ {k}
          IN lost # {} =>
               /\ Cardinality(lost) = 1
               /\ Cardinality(Live) >= max_entries
               /\ \A gone \in lost, i \in (Live \cap Live') \ {k} :
                    cache[gone].created_at <= cache[i].created_at]_vars

(* The cache is a FreshMap: a lookup finds what the last Put of its key    *)
(* stored, as long as it has not expired, been evicted or been cleared, and*)
(* nothing that once expired comes back.                                   *)
Fresh == [k \in Keys |-> IF Contains(k) THEN cache[k].candidates ELSE None]

M == INSTANCE FreshMap WITH fresh <- Fresh, lasting <- (ttl >= 0)

KeepsFreshMap == M!Spec
================================================================================
