----------------------------- MODULE MCAIRewriter -----------------------------
(***************************************************************************)
(* An instance of AIRewriter: two threads that convert two readings, one   *)
(* with two candidates and one with none.  One result repeats a candidate  *)
(* of Mozc's and one of its own and holds an unfit one, the other holds    *)
(* more than may be added.                                                 *)
(***************************************************************************)
EXTENDS AIRewriter

CONSTANTS t1, t2, i1, i2, a, b, c, d, long

Firsts == {[key |-> i1, candidates |-> <<a, b>>],
           [key |-> i2, candidates |-> <<>>]}

SomeResults ==
  i1 :> {<<b, long, c, c>>} @@ i2 :> {<<a, c, d>>}
================================================================================
