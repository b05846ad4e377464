---------------------------- MODULE MCRerankSystem ----------------------------
(***************************************************************************)
(* Instances of RerankSystem: a conversion of three candidates, which the  *)
(* daemon's cap and the tiers cut, one with the candidate twice, one with a*)
(* segment before it; surface c is junk.                                   *)
(***************************************************************************)
EXTENDS RerankSystem

CONSTANTS t1, t2, a, b, c

Conv(len, listed, at, lists) ==
  [reading |-> [len |-> len, listed |-> listed], textAt |-> at, segs |-> lists]

Three == Conv(3, TRUE, 1, <<<<a, b, c>>>>)
Twice == Conv(5, TRUE, 3, <<<<a, b, a>>>>)
Second == Conv(4, TRUE, 2, <<<<c, a>>, <<c, b, a>>>>)

SystemRequests == {Three, Twice, Second}

(* Every well-formed response over rankings of up to three surfaces.       *)
SystemReplies ==
  [ranked : UNION {[1..n -> Surfaces] : n \in 1..3}, final_top1 : Surfaces,
   overwritten : BOOLEAN]
================================================================================
