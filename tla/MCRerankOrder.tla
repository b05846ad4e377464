----------------------------- MODULE MCRerankOrder -----------------------------
(***************************************************************************)
(* RerankOrder over every candidate list of up to MaxCandidates surfaces   *)
(* (repetitions included), every scoring of the surfaces, and the answer of*)
(* the hook, of the daemon, or any ranking at all.  A behaviour picks the  *)
(* candidates, gets a ranking and applies it.                              *)
(***************************************************************************)
EXTENDS RerankOrder

CONSTANTS Surfaces, Junk, MaxCandidates, Scores, Tau

ASSUME OrderAssumption ==
  MaxCandidates \in Nat \ {0} /\ Scores \subseteq Int /\ Tau \in Int

Lists == UNION {[1..n -> Surfaces] : n \in 1..MaxCandidates}
NotYet == <<>>

VARIABLES offered, score, by, answer, applied
vars == <<offered, score, by, answer, applied>>

NoAnswer == [ranked |-> <<>>, final_top1 |-> <<>>, overwritten |-> FALSE]

Init == /\ offered \in Lists
        /\ score \in [Surfaces -> Scores]
        /\ by = "nobody"
        /\ answer = NoAnswer
        /\ applied = NotYet

ScoresOf(cands) == [i \in DOMAIN cands |-> score[cands[i]]]

HookAnswers == /\ by = "nobody"
               /\ by' = "hook"
               /\ answer' = HookRerank(offered, ScoresOf(offered), Tau)
               /\ UNCHANGED <<offered, score, applied>>

DaemonAnswers == /\ by = "nobody"
                 /\ by' = "daemon"
                 /\ answer' = DaemonRerank(offered, score, Tau, MaxCandidates,
                                           FALSE, Junk)
                 /\ UNCHANGED <<offered, score, applied>>

AnyoneAnswers == /\ by = "nobody"
                 /\ score = [s \in Surfaces |-> 0]
                 /\ by' = "anyone"
                 /\ \E r \in Lists : answer' = [NoAnswer EXCEPT !.ranked = r]
                 /\ UNCHANGED <<offered, score, applied>>

Applies == /\ by # "nobody"
           /\ applied = NotYet
           /\ applied' = ReorderSegment(offered, answer.ranked)
           /\ UNCHANGED <<offered, score, by, answer>>

Next == HookAnswers \/ DaemonAnswers \/ AnyoneAnswers \/ Applies

Spec == Init /\ [][Next]_vars

--------------------------------------------------------------------------------
Scored == by \in {"hook", "daemon"}

(* Whatever ranking is applied (ReorderSegment, 713-737), no candidate is  *)
(* lost or doubled, and those it does not name keep their order.           *)
UnrankedKeepOrder ==
  applied # NotYet =>
    /\ Len(applied) = Len(offered)
    /\ \E p \in Reorderings(Len(offered)) :
         /\ \A k \in 1..Len(applied) : applied[k] = offered[p[k]]
         /\ \A j, k \in 1..Len(applied) :
              (j < k /\ {applied[j], applied[k]} \cap ToSet(answer.ranked) = {})
                => p[j] < p[k]

(* A ranking that repeats nothing and names candidates of the segment is   *)
(* exactly what the user then sees first, whatever the segment repeats: the*)
(* loop with its moves in place computes this.                             *)
NoRepeat(list) == \A i, j \in DOMAIN list : list[i] = list[j] => i = j

RankingIsShown ==
  (applied # NotYet /\ NoRepeat(answer.ranked)
     /\ ToSet(answer.ranked) \subseteq ToSet(offered)) =>
    IsPrefix(answer.ranked, applied)

(* The first candidate the user sees is the one the answer calls final,    *)
(* and it is not Mozc's own first only if it scores at least Tau more than *)
(* that and no candidate scores better (rerank_margin.h and the daemon).   *)
FirstNeedsMargin ==
  (Scored /\ applied # NotYet) =>
    /\ applied[1] = answer.final_top1
    /\ applied[1] # offered[1] =>
         /\ answer.overwritten
         /\ score[applied[1]] >= score[offered[1]] + Tau
         /\ \A i \in DOMAIN offered : score[offered[i]] <= score[applied[1]]

(* When the margin is met, the scores of the answer never rise behind the  *)
(* first either, and candidates of equal score stay as Mozc had them (the  *)
(* stable sorts of rerank_margin.h:74 and rerank_daemon.py:195).           *)
RestByScore ==
  (Scored /\ answer.overwritten) =>
    \A i, j \in 2..Len(answer.ranked) : i < j =>
      LET si == score[answer.ranked[i]]
          sj == score[answer.ranked[j]]
      IN /\ si >= sj
         /\ (si = sj /\ NoRepeat(offered)) =>
              FirstPlace(answer.ranked[i], offered, 1)
                < FirstPlace(answer.ranked[j], offered, 1)


(* The daemon and the hook decide alike but for the daemon's refusal of    *)
(* junk, which RerankRewriter repeats for the hook (Rewrite, 546-550).     *)
DaemonAgreesWithHook ==
  by = "daemon" =>
    LET hook == HookRerank(offered, ScoresOf(offered), Tau)
    IN IF hook.overwritten /\ hook.final_top1 \in Junk
       THEN ~answer.overwritten /\ answer.final_top1 = offered[1]
       ELSE answer = hook
================================================================================
