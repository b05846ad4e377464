--------------------------- MODULE RerankOrder_proofs ---------------------------
(***************************************************************************)
(* What holds of the rankings and their application (MCRerankOrder), for   *)
(* every set of surfaces, candidate list, scoring, margin and ranking.  The*)
(* module's constants bound the run; here they may have any value of the   *)
(* types OrderAssumption gives them.                                       *)
(***************************************************************************)
EXTENDS MCRerankOrder, ListLemmas

(* What has happened so far: an answer is one of the three, to the question*)
(* that was asked, and what is applied is that answer.                     *)
DataInv ==
  /\ offered \in Seq(Surfaces) \ {<<>>}
  /\ Len(offered) <= MaxCandidates
  /\ score \in [Surfaces -> Int]

AnswerInv ==
  \/ by = "nobody" /\ answer = NoAnswer /\ applied = NotYet
  \/ by = "hook" /\ answer = HookRerank(offered, ScoresOf(offered), Tau)
  \/ by = "daemon" /\ answer = DaemonRerank(offered, score, Tau, MaxCandidates,
                                            FALSE, Junk)
  \/ by = "anyone" /\ answer.ranked \in Seq(Surfaces)

AppliedInv ==
  applied # NotYet => applied = ReorderSegment(offered, answer.ranked)

OrderInv == DataInv /\ AnswerInv /\ AppliedInv

LEMMA ListsAreSequences == Lists \subseteq Seq(Surfaces) \ {<<>>}
  BY OrderAssumption DEF Lists

LEMMA OrderInvInit == Init => OrderInv
<1> SUFFICES ASSUME Init PROVE OrderInv
  OBVIOUS
<1>1. DataInv
  <2>1. PICK n \in 1..MaxCandidates : offered \in [1..n -> Surfaces]
    BY DEF Init, Lists
  <2>2. Len(offered) = n
    BY <2>1, OrderAssumption
  <2>3. score \in [Surfaces -> Int]
    BY OrderAssumption DEF Init
  <2>4. offered \in Seq(Surfaces) \ {<<>>}
    BY ListsAreSequences DEF Init
  <2> QED BY <2>1, <2>2, <2>3, <2>4, OrderAssumption DEF DataInv
<1> QED BY <1>1 DEF Init, OrderInv, AnswerInv, AppliedInv

LEMMA OrderInvStep == OrderInv /\ [Next]_vars => OrderInv'
<1> SUFFICES ASSUME OrderInv, [Next]_vars PROVE OrderInv'
  OBVIOUS
<1> USE DEF OrderInv, NotYet
<1>1. CASE HookAnswers
  BY <1>1 DEF HookAnswers, DataInv, AnswerInv, AppliedInv, ScoresOf, NoAnswer
<1>2. CASE DaemonAnswers
  BY <1>2 DEF DaemonAnswers, DataInv, AnswerInv, AppliedInv, NoAnswer
<1>3. CASE AnyoneAnswers
  <2>1. PICK r \in Lists : answer' = [NoAnswer EXCEPT !.ranked = r]
    BY <1>3 DEF AnyoneAnswers
  <2>2. answer'.ranked \in Seq(Surfaces)
    BY <2>1, ListsAreSequences DEF NoAnswer
  <2> QED BY <1>3, <2>2 DEF AnyoneAnswers, DataInv, AnswerInv, AppliedInv, NoAnswer
<1>4. CASE Applies
  BY <1>4 DEF Applies, DataInv, AnswerInv, AppliedInv, ScoresOf
<1>5. CASE UNCHANGED vars
  BY <1>5 DEF vars, DataInv, AnswerInv, AppliedInv, ScoresOf
<1> QED BY <1>1, <1>2, <1>3, <1>4, <1>5 DEF Next

LEMMA OrderInvariant == Spec => []OrderInv
<1> QED BY OrderInvInit, OrderInvStep, PTL DEF Spec

--------------------------------------------------------------------------------
(* The answers.                                                            *)

LEMMA ScoresTyped ==
  ASSUME DataInv
  PROVE  /\ offered \in Seq(Surfaces) \ {<<>>}
         /\ Len(offered) \in Nat \ {0}
         /\ ScoresOf(offered) \in [1..Len(offered) -> Int]
         /\ \A i \in 1..Len(offered) :
              /\ offered[i] \in Surfaces
              /\ ScoresOf(offered)[i] = score[offered[i]]
              /\ score[offered[i]] \in Int
<1>1. Len(offered) \in Nat \ {0}
  <2>1. offered \in Seq(Surfaces) /\ offered # <<>>
    BY DEF DataInv
  <2> QED BY <2>1
<1>2. offered \in Seq(Surfaces) \ {<<>>} /\ score \in [Surfaces -> Int]
  BY DEF DataInv
<1>3. ScoresOf(offered) = [i \in 1..Len(offered) |-> score[offered[i]]]
  BY <1>2 DEF ScoresOf
<1>4. \A i \in 1..Len(offered) : offered[i] \in Surfaces
  BY <1>2
<1> QED BY <1>1, <1>2, <1>3, <1>4

(* The daemon's cap is not below the list's length here: it ranks all.     *)
LEMMA DaemonAnswer ==
  ASSUME DataInv
  PROVE  LET scores == ScoresOf(offered)
             over == Overwrites(offered, scores, ArgMax(scores), Tau, Junk)
             top == IF over THEN offered[ArgMax(scores)] ELSE offered[1]
         IN DaemonRerank(offered, score, Tau, MaxCandidates, FALSE, Junk)
              = [ranked |-> RankedSurfaces(offered, scores, top),
                 final_top1 |-> top, overwritten |-> over]
<1>1. Smaller(MaxCandidates, Len(offered)) = Len(offered)
  BY OrderAssumption DEF DataInv, Smaller
<1>2. SubSeq(offered, 1, Len(offered)) = offered
  BY DEF DataInv
<1> QED BY <1>1, <1>2 DEF DaemonRerank, ScoresOf

(* Either answer ranks by score behind its final choice, and that is Mozc's*)
(* first or a best candidate that beats it by the margin.                  *)
Decided ==
  \E first \in 1..Len(offered) :
    /\ answer.final_top1 = offered[first]
    /\ answer.ranked = RankedSurfaces(offered, ScoresOf(offered), offered[first])
    /\ offered[first] # offered[1] =>
         /\ answer.overwritten
         /\ score[offered[first]] - score[offered[1]] >= Tau
         /\ \A i \in 1..Len(offered) : score[offered[i]] <= score[offered[first]]

LEMMA AnswerIsDecided == OrderInv /\ Scored => Decided
<1> SUFFICES ASSUME OrderInv, Scored PROVE Decided
  OBVIOUS
<1> DEFINE scores == ScoresOf(offered)
           best == ArgMax(scores)
<1>1. DataInv /\ AnswerInv /\ Tau \in Int
  BY OrderAssumption DEF OrderInv
<1>2. /\ offered \in Seq(Surfaces) \ {<<>>}
      /\ scores \in [1..Len(offered) -> Int]
      /\ 1 \in 1..Len(offered)
      /\ \A i \in 1..Len(offered) : scores[i] = score[offered[i]]
  BY <1>1, ScoresTyped
<1>3. /\ best \in 1..Len(offered)
      /\ \A i \in 1..Len(offered) : scores[i] <= scores[best]
      /\ ApplyMargin(offered, scores, offered[1], Tau) =
           IF offered[best] # offered[1] /\ scores[best] - scores[1] >= Tau
           THEN [final_top1 |-> offered[best], overwritten |-> TRUE]
           ELSE [final_top1 |-> offered[1], overwritten |-> FALSE]
  <2> HIDE DEF scores
  <2> QED BY <1>1, <1>2, MarginDecides
<1>4. CASE by = "hook"
  <2>1. answer = HookRerank(offered, scores, Tau)
    BY <1>1, <1>4 DEF AnswerInv
  <2> HIDE DEF scores, best
  <2>2. CASE offered[best] # offered[1] /\ scores[best] - scores[1] >= Tau
    BY <1>2, <1>3, <2>1, <2>2 DEF Decided, HookRerank, scores
  <2>3. CASE ~ (offered[best] # offered[1] /\ scores[best] - scores[1] >= Tau)
    BY <1>2, <1>3, <2>1, <2>3 DEF Decided, HookRerank, scores
  <2> QED BY <2>2, <2>3
<1>5. CASE by = "daemon"
  <2> DEFINE over == Overwrites(offered, scores, best, Tau, Junk)
             top == IF over THEN offered[best] ELSE offered[1]
  <2>1. answer = [ranked |-> RankedSurfaces(offered, scores, top),
                  final_top1 |-> top, overwritten |-> over]
    BY <1>1, <1>5, DaemonAnswer DEF AnswerInv
  <2> HIDE DEF scores, best
  <2>2. CASE over
    BY <1>2, <1>3, <2>1, <2>2 DEF Decided, Overwrites, scores
  <2>3. CASE ~ over
    BY <1>2, <1>3, <2>1, <2>3 DEF Decided, scores
  <2> QED BY <2>2, <2>3
<1> QED BY <1>4, <1>5 DEF Scored

(* The ranking behind a choice from the list (RankedSurfacesList).         *)
LEMMA RankedBehind ==
  ASSUME DataInv, NEW first \in 1..Len(offered)
  PROVE  LET ranked == RankedSurfaces(offered, ScoresOf(offered), offered[first])
             others == Others(offered, offered[first])
             order == ByScore(ScoresOf(offered), others)
             count == Cardinality(others)
         IN /\ ranked \in Seq(Surfaces) \ {<<>>} /\ ranked[1] = offered[first]
            /\ count \in Nat /\ Len(ranked) = 1 + count
            /\ \A k \in 1..count : order[k] \in others
                                   /\ ranked[k + 1] = offered[order[k]]
            /\ \A k, l \in 1..count : k < l =>
                 Before(ScoresOf(offered), order[k], order[l])
<1> DEFINE scores == ScoresOf(offered)
           top == offered[first]
           others == Others(offered, top)
<1>1. /\ offered \in Seq(Surfaces) /\ scores \in [1..Len(offered) -> Int]
      /\ top \in Surfaces /\ Len(offered) \in Nat
  BY ScoresTyped
<1>2. others \in SUBSET (1..Len(offered))
  BY <1>1 DEF Others
<1> HIDE DEF scores, top
<1>3. /\ Cardinality(others) \in Nat
      /\ RankedSurfaces(offered, scores, top) \in Seq(Surfaces)
      /\ Len(RankedSurfaces(offered, scores, top)) = 1 + Cardinality(others)
      /\ RankedSurfaces(offered, scores, top)[1] = top
      /\ \A k \in 1..Cardinality(others) :
           /\ ByScore(scores, others)[k] \in others
           /\ RankedSurfaces(offered, scores, top)[k + 1]
                = offered[ByScore(scores, others)[k]]
  BY <1>1, RankedSurfacesList
<1> HIDE DEF others
<1>4. \A k, l \in 1..Cardinality(others) : k < l =>
        Before(scores, ByScore(scores, others)[k], ByScore(scores, others)[l])
  BY <1>1, <1>2, ByScoreSorts
<1>5. RankedSurfaces(offered, scores, top) # <<>>
  <2> DEFINE ranked == RankedSurfaces(offered, scores, top)
  <2>1. ranked \in Seq(Surfaces) /\ Len(ranked) # 0
    BY <1>3
  <2> HIDE DEF ranked
  <2>2. ranked # <<>>
    BY <2>1
  <2> QED BY <2>2 DEF ranked
<1> QED BY <1>3, <1>4, <1>5 DEF scores, top, others

(* An answer is always a list of surfaces.                                 *)
LEMMA RankedTyped == OrderInv /\ by # "nobody" => answer.ranked \in Seq(Surfaces)
<1> SUFFICES ASSUME OrderInv, by # "nobody" PROVE answer.ranked \in Seq(Surfaces)
  OBVIOUS
<1>1. CASE Scored
  <2>1. DataInv
    BY DEF OrderInv
  <2>2. PICK first \in 1..Len(offered) :
          answer.ranked = RankedSurfaces(offered, ScoresOf(offered), offered[first])
    BY <1>1, AnswerIsDecided DEF Decided
  <2> QED BY <2>1, <2>2, RankedBehind
<1>2. CASE ~ Scored
  BY <1>2 DEF OrderInv, AnswerInv, Scored
<1> QED BY <1>1, <1>2

--------------------------------------------------------------------------------
(* The properties.                                                         *)

LEMMA AppliedByAnswer ==
  OrderInv /\ applied # NotYet =>
    /\ by # "nobody"
    /\ offered \in Seq(Surfaces) \ {<<>>}
    /\ answer.ranked \in Seq(Surfaces)
    /\ applied = ReorderSegment(offered, answer.ranked)
<1>1. OrderInv /\ applied # NotYet => by # "nobody"
  BY DEF OrderInv, AnswerInv
<1> QED BY <1>1, RankedTyped DEF OrderInv, DataInv, AppliedInv

LEMMA UnrankedStay == OrderInv => UnrankedKeepOrder
<1> SUFFICES ASSUME OrderInv, applied # NotYet
             PROVE  /\ Len(applied) = Len(offered)
                    /\ OthersInOrder(offered, applied, answer.ranked)
  BY DEF UnrankedKeepOrder, OthersInOrder
<1> QED BY AppliedByAnswer, ReorderSegmentTurns, ReorderSegmentKeepsOthers

LEMMA RankedShow == OrderInv => RankingIsShown
<1> SUFFICES ASSUME OrderInv, applied # NotYet, NoRepeat(answer.ranked),
                    ToSet(answer.ranked) \subseteq ToSet(offered)
             PROVE  IsPrefix(answer.ranked, applied)
  BY DEF RankingIsShown
<1> DEFINE ranked == answer.ranked
<1>1. /\ offered \in Seq(Surfaces) /\ ranked \in Seq(Surfaces)
      /\ applied = ReorderSegment(offered, ranked)
  BY AppliedByAnswer
<1>2. \A i, j \in 1..Len(ranked) : ranked[i] = ranked[j] => i = j
  BY <1>1 DEF NoRepeat
<1>3. ASSUME NEW i \in 1..Len(ranked)
      PROVE  \E k \in 1..Len(offered) : offered[k] = ranked[i]
  <2>1. DOMAIN ranked = 1..Len(ranked) /\ DOMAIN offered = 1..Len(offered)
    BY <1>1
  <2>2. ToSet(ranked) \subseteq ToSet(offered)
    OBVIOUS
  <2> HIDE DEF ranked
  <2>3. ranked[i] \in ToSet(offered)
    BY <2>1, <2>2 DEF ToSet
  <2> QED BY <2>1, <2>3 DEF ToSet
<1> HIDE DEF ranked
<1>4. /\ Len(ranked) <= Len(offered) /\ Len(applied) = Len(offered)
      /\ \A i \in 1..Len(ranked) : applied[i] = ranked[i]
  BY <1>1, <1>2, <1>3, ReorderSegmentShows, ReorderSegmentTurns
<1>5. SubSeq(ranked, 1, Len(ranked)) = SubSeq(applied, 1, Len(ranked))
  BY <1>1, <1>4
<1> QED BY <1>4, <1>5 DEF IsPrefix, ranked

LEMMA FirstBeatsMozc == OrderInv => FirstNeedsMargin
<1> SUFFICES ASSUME OrderInv, Scored, applied # NotYet
             PROVE  /\ applied[1] = answer.final_top1
                    /\ applied[1] # offered[1] =>
                         /\ answer.overwritten
                         /\ score[applied[1]] >= score[offered[1]] + Tau
                         /\ \A i \in DOMAIN offered :
                              score[offered[i]] <= score[applied[1]]
  BY DEF FirstNeedsMargin
<1>1. /\ offered \in Seq(Surfaces) \ {<<>>} /\ answer.ranked \in Seq(Surfaces)
      /\ applied = ReorderSegment(offered, answer.ranked)
  BY AppliedByAnswer
<1>2. PICK first \in 1..Len(offered) :
        /\ answer.final_top1 = offered[first]
        /\ answer.ranked = RankedSurfaces(offered, ScoresOf(offered), offered[first])
        /\ offered[first] # offered[1] =>
             /\ answer.overwritten
             /\ score[offered[first]] - score[offered[1]] >= Tau
             /\ \A i \in 1..Len(offered) : score[offered[i]] <= score[offered[first]]
  BY AnswerIsDecided DEF Decided
<1>3. /\ ScoresOf(offered) \in [1..Len(offered) -> Int]
      /\ Len(offered) \in Nat \ {0}
      /\ \A i \in 1..Len(offered) : offered[i] \in Surfaces /\ score[offered[i]] \in Int
  BY ScoresTyped DEF OrderInv
<1>4. /\ answer.ranked[1] = offered[first]
      /\ answer.ranked \in Seq(Surfaces) \ {<<>>}
  BY <1>2, RankedBehind DEF OrderInv
<1>5. applied[1] = offered[first]
  <2> DEFINE ranked == answer.ranked
  <2>1. /\ ranked \in Seq(Surfaces) \ {<<>>} /\ ranked[1] = offered[first]
        /\ offered \in Seq(Surfaces) /\ applied = ReorderSegment(offered, ranked)
    BY <1>1, <1>4
  <2> HIDE DEF ranked
  <2> QED BY <2>1, ReorderSegmentFirst
<1>6. Tau \in Int /\ 1 \in 1..Len(offered) /\ DOMAIN offered = 1..Len(offered)
  BY <1>1, <1>3, OrderAssumption
<1> QED BY <1>2, <1>3, <1>5, <1>6

LEMMA RestFollowsScores == OrderInv => RestByScore
<1> SUFFICES ASSUME OrderInv, Scored, answer.overwritten,
                    NEW i \in 2..Len(answer.ranked), NEW j \in 2..Len(answer.ranked),
                    i < j
             PROVE  LET si == score[answer.ranked[i]]
                        sj == score[answer.ranked[j]]
                    IN /\ si >= sj
                       /\ (si = sj /\ NoRepeat(offered)) =>
                            FirstPlace(answer.ranked[i], offered, 1)
                              < FirstPlace(answer.ranked[j], offered, 1)
  BY DEF RestByScore
<1> DEFINE scores == ScoresOf(offered)
<1>1. PICK first \in 1..Len(offered) :
        answer.ranked = RankedSurfaces(offered, ScoresOf(offered), offered[first])
  BY AnswerIsDecided DEF Decided
<1> DEFINE others == Others(offered, offered[first])
           order == ByScore(scores, others)
           count == Cardinality(others)
<1>2. /\ scores \in [1..Len(offered) -> Int] /\ offered \in Seq(Surfaces)
      /\ \A k \in 1..Len(offered) : scores[k] = score[offered[k]]
      /\ offered[first] \in Surfaces
  BY ScoresTyped DEF OrderInv
<1>3. others \in SUBSET (1..Len(offered)) /\ Len(offered) \in Nat
  BY <1>2 DEF Others
<1>4. /\ count \in Nat /\ Len(answer.ranked) = 1 + count
      /\ \A k \in 1..count : /\ order[k] \in others
                             /\ answer.ranked[k + 1] = offered[order[k]]
      /\ \A k, l \in 1..count : k < l => Before(scores, order[k], order[l])
  BY <1>1, RankedBehind DEF OrderInv
<1> HIDE DEF scores, others, order, count
<1> DEFINE oi == order[i - 1]
           oj == order[j - 1]
<1>5. /\ i - 1 \in 1..count /\ j - 1 \in 1..count /\ i - 1 < j - 1
      /\ (i - 1) + 1 = i /\ (j - 1) + 1 = j
  BY <1>4
<1>6. /\ oi \in 1..Len(offered) /\ oj \in 1..Len(offered)
      /\ answer.ranked[i] = offered[oi] /\ answer.ranked[j] = offered[oj]
      /\ Before(scores, oi, oj)
  BY <1>3, <1>4, <1>5
<1> HIDE DEF oi, oj
<1>7. /\ score[offered[oi]] = scores[oi] /\ score[offered[oj]] = scores[oj]
      /\ scores[oi] \in Int /\ scores[oj] \in Int
  BY <1>2, <1>6
<1>8. ASSUME NoRepeat(offered), NEW k \in 1..Len(offered)
      PROVE  FirstPlace(offered[k], offered, 1) = k
  <2>1. k \in PlacesOf(offered[k], offered, 1) /\ 1 \in Nat \ {0}
    BY DEF PlacesOf
  <2>2. /\ FirstPlace(offered[k], offered, 1) \in 1..Len(offered)
        /\ offered[FirstPlace(offered[k], offered, 1)] = offered[k]
    BY <1>2, <2>1, FirstPlaceFound
  <2> QED BY <1>2, <1>8, <2>2 DEF NoRepeat
<1> QED BY <1>6, <1>7, <1>8 DEF Before

LEMMA DaemonFollowsHook == OrderInv => DaemonAgreesWithHook
<1> SUFFICES ASSUME OrderInv, by = "daemon" PROVE DaemonAgreesWithHook
  BY DEF DaemonAgreesWithHook
<1> DEFINE scores == ScoresOf(offered)
           best == ArgMax(scores)
           hook == HookRerank(offered, scores, Tau)
           over == Overwrites(offered, scores, best, Tau, Junk)
           top == IF over THEN offered[best] ELSE offered[1]
<1>1. DataInv /\ Tau \in Int
  BY OrderAssumption DEF OrderInv
<1>2. /\ offered \in Seq(Surfaces) \ {<<>>} /\ Len(offered) \in Nat \ {0}
      /\ scores \in [1..Len(offered) -> Int]
      /\ \A i \in 1..Len(offered) : scores[i] = score[offered[i]]
  BY <1>1, ScoresTyped
<1>3. /\ best \in 1..Len(offered)
      /\ ApplyMargin(offered, scores, offered[1], Tau) =
           IF offered[best] # offered[1] /\ scores[best] - scores[1] >= Tau
           THEN [final_top1 |-> offered[best], overwritten |-> TRUE]
           ELSE [final_top1 |-> offered[1], overwritten |-> FALSE]
  <2> HIDE DEF scores
  <2> QED BY <1>1, <1>2, MarginDecides
<1>4. answer = [ranked |-> RankedSurfaces(offered, scores, top),
                final_top1 |-> top, overwritten |-> over]
  BY <1>1, DaemonAnswer DEF OrderInv, AnswerInv
(* The first of the best has Mozc's first surface only if it is the first. *)
<1>5. offered[best] = offered[1] => best = 1
  <2>1. scores \in Seq(Int) \ {<<>>} /\ Len(scores) = Len(offered)
    BY <1>2
  <2>2. \A i \in 1..Len(offered) : i < best => scores[i] < scores[best]
    <3> HIDE DEF scores
    <3> QED BY <2>1, ArgMaxFirstBest
  <2> HIDE DEF scores, best
  <2>3. /\ 1 \in 1..Len(offered) /\ scores[1] = score[offered[1]]
        /\ scores[best] = score[offered[best]] /\ scores[1] \in Int
    BY <1>2, <1>3
  <2> QED BY <1>3, <2>2, <2>3
<1> HIDE DEF scores, best
<1>6. hook = [ranked |-> RankedSurfaces(offered, scores, hook.final_top1),
              final_top1 |-> hook.final_top1, overwritten |-> hook.overwritten]
  BY DEF HookRerank
<1>7. /\ hook.overwritten <=> (best # 1 /\ scores[best] - scores[1] >= Tau)
      /\ hook.final_top1 = IF hook.overwritten THEN offered[best] ELSE offered[1]
  BY <1>3, <1>5 DEF HookRerank
<1> HIDE DEF hook
<1>8. over <=> (hook.overwritten /\ offered[best] \notin Junk)
  BY <1>7 DEF Overwrites
<1>9. IF hook.overwritten /\ hook.final_top1 \in Junk
      THEN ~answer.overwritten /\ answer.final_top1 = offered[1]
      ELSE answer = hook
  <2>1. CASE hook.overwritten /\ hook.final_top1 \in Junk
    BY <1>4, <1>7, <1>8, <2>1
  <2>2. CASE ~ (hook.overwritten /\ hook.final_top1 \in Junk)
    <3>1. (over <=> hook.overwritten) /\ top = hook.final_top1
      BY <1>7, <1>8, <2>2
    <3>2. hook.overwritten \in BOOLEAN
      BY <1>3 DEF HookRerank, hook
    <3>3. over \in BOOLEAN
      BY DEF Overwrites
    <3>4. over = hook.overwritten
      BY <3>1, <3>2, <3>3
    <3> QED BY <1>4, <1>6, <2>2, <3>1, <3>4
  <2> QED BY <2>1, <2>2
<1> QED BY <1>9 DEF DaemonAgreesWithHook, hook, scores

--------------------------------------------------------------------------------
(* Whatever ranking is applied, no candidate is lost or doubled, and those *)
(* it does not name keep Mozc's order (ReorderSegment, 713-737).           *)
THEOREM UnrankedKeepMozcsOrder == Spec => []UnrankedKeepOrder
<1> QED BY OrderInvariant, UnrankedStay, PTL

(* A ranking of candidates of the segment that repeats nothing is what the *)
(* user sees first, whatever the segment repeats.                          *)
THEOREM RankingComesFirst == Spec => []RankingIsShown
<1> QED BY OrderInvariant, RankedShow, PTL

(* The first candidate is Mozc's, or a best one that scores at least Tau   *)
(* more, whoever answers (rerank_margin.h and the daemon's rerank).        *)
THEOREM FirstBeatsMozcByMargin == Spec => []FirstNeedsMargin
<1> QED BY OrderInvariant, FirstBeatsMozc, PTL

(* The rest of an answer that meets the margin is sorted by score, stably  *)
(* (std::stable_sort and Python's sorted with reverse=True).               *)
THEOREM RestIsSortedStably == Spec => []RestByScore
<1> QED BY OrderInvariant, RestFollowsScores, PTL

(* Daemon and hook give the same answer but for the daemon's refusal of    *)
(* junk: comparing the places (best # 1) or the surfaces comes to the same *)
(* because the first of the best scores is taken.                          *)
THEOREM DaemonDecidesLikeHook == Spec => []DaemonAgreesWithHook
<1> QED BY OrderInvariant, DaemonFollowsHook, PTL
================================================================================
