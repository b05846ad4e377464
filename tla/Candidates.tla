------------------------------ MODULE Candidates ------------------------------
(***************************************************************************)
(* The candidate list of one Mozc segment, as the rewriters see it: a      *)
(* sequence of surfaces in display order.  Segment::move_candidate belongs *)
(* to Mozc, outside this repository; it is modelled from the way           *)
(* RerankRewriter::ReorderSegment relies on it.                            *)
(*                                                                         *)
(* An operator just above another and named for it and a change is a       *)
(* faulty variant of that one, used to test the properties (README).       *)
(***************************************************************************)
EXTENDS Integers, Sequences

(* Segment::move_candidate(from, to), used with to < from only: the        *)
(* candidate at from is taken out and put back at to.                      *)
CopyCandidate(cands, from, to) == [cands EXCEPT ![to] = cands[from]]

MoveCandidate(cands, from, to) ==
  [k \in 1..Len(cands) |-> IF k = to THEN cands[from]
                           ELSE IF k \in to+1..from THEN cands[k-1]
                           ELSE cands[k]]

(* The candidates of b are those of a, each as often, in some order.       *)
Reorderings(n) == {p \in [1..n -> 1..n] : \A i, j \in 1..n : p[i] = p[j] => i = j}

IsRearrangement(a, b) ==
  /\ Len(a) = Len(b)
  /\ \E p \in Reorderings(Len(a)) : \A k \in 1..Len(a) : b[k] = a[p[k]]

(* The places from slot on that hold the surface.                          *)
PlacesOf(surface, cands, slot) == {k \in slot..Len(cands) : cands[k] = surface}

FirstPlace(surface, cands, slot) ==
  CHOOSE k \in PlacesOf(surface, cands, slot) :
    \A l \in PlacesOf(surface, cands, slot) : k <= l

Smaller(a, b) == IF a < b THEN a ELSE b
================================================================================
