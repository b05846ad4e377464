------------------------------ MODULE RerankOrder ------------------------------
(***************************************************************************)
(* What the reranker computes: the margin rule and the ranking the hook    *)
(* command shares with rerank_margin.h, the same in the daemon             *)
(* (runtime/rerank_daemon.py, rerank), and ReorderSegment, which applies a *)
(* ranking to the candidates of a segment.  Indices start at 1; scores are *)
(* integers, tau the margin.                                               *)
(*                                                                         *)
(* An operator just above another and named for it and a change is a       *)
(* faulty variant of that one, used to test the properties (README).       *)
(***************************************************************************)
EXTENDS Candidates, SequencesExt

(* The first of the best scores.                                           *)
ArgMax(scores) ==
  LET best[i \in 0..Len(scores)] ==
        IF i = 0 THEN 1
        ELSE IF scores[i] > scores[best[i - 1]] THEN i ELSE best[i - 1]
  IN best[Len(scores)]

(* ApplyMargin: the model's first choice replaces Mozc's only by a margin. *)
ApplyNoMargin(cands, scores, mozc_top1, tau) ==
  [final_top1 |-> cands[ArgMax(scores)],
   overwritten |-> cands[ArgMax(scores)] # mozc_top1]

ApplyMargin(cands, scores, mozc_top1, tau) ==
  LET keep == [final_top1 |-> mozc_top1, overwritten |-> FALSE]
  IN IF cands = <<>> \/ Len(cands) # Len(scores) \/ ~Contains(cands, mozc_top1)
     THEN keep
     ELSE LET best   == ArgMax(scores)
              margin == scores[best] - scores[FirstPlace(mozc_top1, cands, 1)]
          IN IF cands[best] # mozc_top1 /\ margin >= tau
             THEN [final_top1 |-> cands[best], overwritten |-> TRUE]
             ELSE keep

(* Places by descending score, those of equal score in Mozc's order        *)
(* (std::stable_sort; Python's sorted keeps that order with reverse=True   *)
(* too): the k-th is the one that k - 1 others come before.                *)
ByScore(scores, places) ==
  LET Before(i, j) == scores[i] > scores[j] \/ (scores[i] = scores[j] /\ i < j)
      Ahead(i) == {j \in places : Before(j, i)}
  IN [k \in 1..Cardinality(places) |->
        CHOOSE i \in places : Cardinality(Ahead(i)) = k - 1]

(* RankedSurfaces: the final choice, then the other candidates by score.   *)
RankedInMozcOrder(cands, scores, final_top1) ==
  <<final_top1>> \o SelectSeq(cands, LAMBDA s : s # final_top1)

RankedWithTopTwice(cands, scores, final_top1) ==
  LET order == ByScore(scores, DOMAIN cands)
  IN <<final_top1>> \o [k \in DOMAIN order |-> cands[order[k]]]

RankedSurfaces(cands, scores, final_top1) ==
  LET others == ByScore(scores, {i \in DOMAIN cands : cands[i] # final_top1})
  IN <<final_top1>> \o [k \in DOMAIN others |-> cands[others[k]]]

(* The hook command's answer.                                              *)
HookRerank(cands, scores, tau) ==
  LET d == ApplyMargin(cands, scores, cands[1], tau)
  IN [ranked |-> RankedSurfaces(cands, scores, d.final_top1),
      final_top1 |-> d.final_top1, overwritten |-> d.overwritten]

(* Whether the daemon's best candidate replaces Mozc's first.              *)
OverwritesByMore(cands, scores, best, tau, junk) ==
  best # 1 /\ scores[best] - scores[1] > tau /\ cands[best] \notin junk

OverwritesByBest(cands, scores, best, tau, junk) ==
  best # 1 /\ cands[best] \notin junk

Overwrites(cands, scores, best, tau, junk) ==
  best # 1 /\ scores[best] - scores[1] >= tau /\ cands[best] \notin junk

(* The answer without scores: the order as it came.                        *)
NoRanking(cands) ==
  [ranked |-> <<>>, final_top1 |-> cands[1], overwritten |-> FALSE]

MozcOrder(cands) ==
  [ranked |-> cands, final_top1 |-> cands[1], overwritten |-> FALSE]

(* The daemon's answer to nbest: cut to its own cap, not scored if its own *)
(* guard skips, and never a junk surface in front.                         *)
DaemonRerank(nbest, score, tau, cap, skips, junk) ==
  LET cands  == SubSeq(nbest, 1, Smaller(cap, Len(nbest)))
      scores == [i \in DOMAIN cands |-> score[cands[i]]]
      best   == ArgMax(scores)
      over   == Overwrites(cands, scores, best, tau, junk)
      top    == IF over THEN cands[best] ELSE cands[1]
  IN IF skips
     THEN MozcOrder(cands)
     ELSE [ranked |-> RankedSurfaces(cands, scores, top), final_top1 |-> top,
           overwritten |-> over]

(* ReorderSegment: each ranked surface in turn is moved up to its slot, if *)
(* it is found from there on.                                              *)
FillSlotBySwap(cands, surface, slot) ==
  IF PlacesOf(surface, cands, slot) = {} THEN cands
  ELSE LET found == FirstPlace(surface, cands, slot)
       IN [cands EXCEPT ![slot] = cands[found], ![found] = cands[slot]]

FillSlot(cands, surface, slot) ==
  IF PlacesOf(surface, cands, slot) = {} THEN cands
  ELSE MoveCandidate(cands, FirstPlace(surface, cands, slot), slot)

ReorderSegmentShort(cands, ranked) ==
  LET after[i \in 0..Len(cands)] ==
        IF i = 0 THEN cands ELSE FillSlot(after[i - 1], ranked[i], i)
  IN after[Smaller(Len(ranked), Len(cands)) - 1]

ReorderSegment(cands, ranked) ==
  LET limit == Smaller(Len(ranked), Len(cands))
      after[i \in 0..limit] ==
        IF i = 0 THEN cands ELSE FillSlot(after[i - 1], ranked[i], i)
  IN after[limit]
================================================================================
