--------------------------- MODULE MCRerankOutcomes ---------------------------
(***************************************************************************)
(* An instance of RerankOutcomes that only calls: one conversion, one      *)
(* answer, so that the runs of outcomes may be as long as in the code.     *)
(***************************************************************************)
EXTENDS RerankOutcomes

CONSTANTS t1, t2, a, b

OneRequest == {[reading |-> [len |-> 3, listed |-> TRUE], textAt |-> 1,
                segs |-> <<<<a, b>>>>]}
OneReply == {[ranked |-> <<b>>, final_top1 |-> b, overwritten |-> TRUE]}
================================================================================
