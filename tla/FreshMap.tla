------------------------------- MODULE FreshMap -------------------------------
(***************************************************************************)
(* What the AI candidate cache promises the rewriter and the worker: a map *)
(* that may forget at any time, but never makes a value up, never gives a  *)
(* key the value of another or one that was stored before the last, and    *)
(* counts every lookup as a hit or a miss.                                 *)
(***************************************************************************)
EXTENDS Integers

CONSTANTS Keys, Values, None

VARIABLES
  lasting,  \* whether it keeps anything at all
  fresh,    \* what a lookup of each key would find now, or None
  last,     \* what was stored last: its key and value, or None
  got,      \* what the last lookup returned
  hits, misses

Init ==
  /\ lasting \in BOOLEAN
  /\ fresh = [k \in Keys |-> None]
  /\ last = None
  /\ got = None
  /\ hits = 0 /\ misses = 0

Without(map, gone) == [k \in Keys |-> IF k \in gone THEN None ELSE map[k]]

Forget == \E gone \in SUBSET Keys : fresh' = Without(fresh, gone)

Store(k, v) ==
  \E gone \in SUBSET Keys :
    /\ lasting => k \notin gone
    /\ fresh' = Without([fresh EXCEPT ![k] = v], gone)

Look(k) ==
  /\ got' = fresh[k]
  /\ hits' = IF fresh[k] = None THEN hits ELSE hits + 1
  /\ misses' = IF fresh[k] = None THEN misses + 1 ELSE misses

Recount == hits' = 0 /\ misses' = 0 /\ UNCHANGED got

Changes ==
  \/ Forget /\ UNCHANGED last
  \/ \E k \in Keys, v \in Values : Store(k, v) /\ last' = <<k, v>>

Answers == Recount \/ \E k \in Keys : Look(k)

Next ==
  \/ Changes /\ UNCHANGED <<lasting, got, hits, misses>>
  \/ Answers /\ UNCHANGED <<lasting, fresh, last>>

Spec == Init /\ [][Next]_<<lasting, fresh, last, got, hits, misses>>
================================================================================
