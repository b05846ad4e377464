------------------------------ MODULE ListLemmas ------------------------------
(***************************************************************************)
(* What the proofs about the rewriters keep needing: induction up to a     *)
(* number, loops that run to their end, and what the operators on candidate*)
(* lists return.  Induction is said of sets of numbers, and a loop of      *)
(* functions, since no prover here instantiates an operator.               *)
(***************************************************************************)
EXTENDS RerankOrder, FiniteSetTheorems, SequenceTheorems, WellFoundedInduction, TLAPS

(* A set of numbers has a least one.                                       *)
LEMMA LeastNumber ==
  ASSUME NEW T \in SUBSET Nat, T # {}
  PROVE  \E k \in T : \A l \in T : k <= l
<1> DEFINE Heads == {1..k : k \in T}
<1>1. PICK head \in Heads : \A h \in Heads : ~ (<<h, head>> \in StrictSubsetOrdering(Nat))
  <2>1. Heads \subseteq FiniteSubsetsOf(Nat)
    <3>1. ASSUME NEW k \in Nat
          PROVE  1..k \subseteq Nat /\ IsFiniteSet(1..k)
      BY FS_Interval
    <3> QED BY <3>1 DEF FiniteSubsetsOf
  <2>2. Heads # {}
    OBVIOUS
  <2>3. IsWellFoundedOn(StrictSubsetOrdering(Nat), FiniteSubsetsOf(Nat))
    BY FS_StrictSubsetOrderingWellFounded
  <2> QED BY <2>1, <2>2, <2>3, WFMin
<1>2. PICK k \in T : head = 1..k
  OBVIOUS
<1>3. ASSUME NEW l \in T, l < k
      PROVE  <<1..l, head>> \in StrictSubsetOrdering(Nat)
  BY <1>2, <1>3 DEF StrictSubsetOrdering
<1>4. ASSUME NEW l \in T
      PROVE  k <= l
  <2>1. 1..l \in Heads
    OBVIOUS
  <2>2. ~ (l < k)
    BY <1>1, <1>3, <2>1
  <2> QED BY <2>2
<1> QED BY <1>4

(* Induction up to a number, said of the set of the numbers it holds for.  *)
LEMMA UpTo ==
  ASSUME NEW limit \in Nat, NEW T, 0 \in T,
         \A n \in 0..limit : (n \in T /\ n < limit) => n + 1 \in T
  PROVE  \A n \in 0..limit : n \in T
<1> SUFFICES ASSUME NEW n \in 0..limit, n \notin T PROVE FALSE
  OBVIOUS
<1> DEFINE Out == {k \in 0..limit : k \notin T}
<1>1. PICK k \in Out : \A l \in Out : k <= l
  <2>1. Out \in SUBSET Nat /\ Out # {}
    OBVIOUS
  <2> QED BY <2>1, LeastNumber
<1>2. k # 0 /\ k - 1 \in 0..limit /\ k - 1 \notin Out
  BY <1>1
<1> QED BY <1>1, <1>2

(* What a loop of so many rounds makes of base, after each round.          *)
Steps(limit, S) == [1..limit -> [S -> S]]

IsLoop(f, limit, S, base, step) ==
  /\ f \in [0..limit -> S]
  /\ f[0] = base
  /\ \A n \in 1..limit : f[n] = step[n][f[n - 1]]

(* Every loop can be run: a function defined by recursion exists.          *)
LEMMA Recursion ==
  ASSUME NEW limit \in Nat, NEW S, NEW base \in S, NEW step \in Steps(limit, S)
  PROVE  \E f : IsLoop(f, limit, S, base, step)
<1> USE DEF Steps, IsLoop
<1> DEFINE Is(f, m) == /\ f \in [0..m -> S]
                       /\ f[0] = base
                       /\ \A n \in 1..m : f[n] = step[n][f[n - 1]]
           T == {m \in 0..limit : \E f : Is(f, m)}
<1>1. limit \in T
  <2>1. 0 \in T
    <3> DEFINE g == [n \in 0..0 |-> base]
    <3>1. Is(g, 0)
      OBVIOUS
    <3> HIDE DEF g, Is
    <3>2. 0 \in 0..limit /\ \E f : Is(f, 0)
      BY <3>1
    <3> QED BY <3>2
  <2>2. ASSUME NEW m \in 0..limit, m \in T, m < limit
        PROVE  m + 1 \in T
    <3>1. PICK f : Is(f, m)
      BY <2>2
    <3> DEFINE g == [n \in 0..(m + 1) |-> IF n = m + 1 THEN step[m + 1][f[m]] ELSE f[n]]
    <3>2. m \in 0..m /\ m + 1 \in 1..limit /\ f[m] \in S
      BY <2>2, <3>1
    <3>3. step[m + 1][f[m]] \in S
      BY <3>2
    <3>4. g \in [0..(m + 1) -> S] /\ g[0] = base
      BY <2>2, <3>1, <3>3
    <3>5. ASSUME NEW n \in 1..(m + 1)
          PROVE  g[n] = step[n][g[n - 1]]
      <4>1. g[n - 1] = f[n - 1]
        BY <2>2
      <4>2. CASE n = m + 1
        BY <4>1, <4>2
      <4>3. CASE n # m + 1
        <5>1. n \in 1..m
          BY <4>3
        <5> QED BY <3>1, <4>1, <5>1
      <4> QED BY <4>2, <4>3
    <3> HIDE DEF g
    <3>6. Is(g, m + 1)
      BY <3>4, <3>5
    <3>7. m + 1 \in 0..limit
      BY <2>2
    <3> QED BY <3>6, <3>7
  <2> HIDE DEF T
  <2>3. \A n \in 0..limit : n \in T
    BY <2>1, <2>2, UpTo
  <2> QED BY <2>3
<1> QED BY <1>1
--------------------------------------------------------------------------------
(* The search for a surface and the move of a candidate.                   *)

(* A search that finds anything finds the first place.                     *)
LEMMA FirstPlaceFound ==
  ASSUME NEW S, NEW cands \in Seq(S), NEW surface, NEW from \in Nat \ {0},
         PlacesOf(surface, cands, from) # {}
  PROVE  /\ FirstPlace(surface, cands, from) \in from..Len(cands)
         /\ cands[FirstPlace(surface, cands, from)] = surface
         /\ \A l \in PlacesOf(surface, cands, from) :
              FirstPlace(surface, cands, from) <= l
<1> DEFINE places == PlacesOf(surface, cands, from)
<1>1. places \in SUBSET Nat /\ places # {}
  BY DEF PlacesOf
<1>2. \E k \in places : \A l \in places : k <= l
  <2> HIDE DEF places
  <2> QED BY <1>1, LeastNumber
<1>3. /\ FirstPlace(surface, cands, from) \in places
      /\ \A l \in places : FirstPlace(surface, cands, from) <= l
  BY <1>2 DEF FirstPlace
<1> QED BY <1>3 DEF PlacesOf

(* move_candidate keeps the length of the list and what stands above the   *)
(* place it moves a candidate to.                                          *)
LEMMA MoveCandidateList ==
  ASSUME NEW S, NEW cands \in Seq(S),
         NEW from \in 1..Len(cands), NEW to \in 1..from
  PROVE  /\ MoveCandidate(cands, from, to) \in Seq(S)
         /\ Len(MoveCandidate(cands, from, to)) = Len(cands)
         /\ MoveCandidate(cands, from, to)[to] = cands[from]
         /\ \A k \in 1..to-1 : MoveCandidate(cands, from, to)[k] = cands[k]
<1> DEFINE moved == MoveCandidate(cands, from, to)
<1>1. /\ Len(cands) \in Nat
      /\ \A k \in 1..Len(cands) : cands[k] \in S
  OBVIOUS
<1>2. moved \in [1..Len(cands) -> S]
  BY <1>1 DEF MoveCandidate
<1>3. moved \in Seq(S) /\ Len(moved) = Len(cands)
  BY <1>1, <1>2
<1> QED BY <1>1, <1>3 DEF MoveCandidate

(* However often candidates are moved, the list stays a rearrangement of   *)
(* the one it was made from.                                               *)
LEMMA MoveCandidateRearranges ==
  ASSUME NEW S, NEW offered \in Seq(S), NEW cands \in Seq(S),
         IsRearrangement(offered, cands),
         NEW from \in 1..Len(cands), NEW to \in 1..from
  PROVE  IsRearrangement(offered, MoveCandidate(cands, from, to))
<1> DEFINE n == Len(offered)
<1> DEFINE Source(k) == IF k = to THEN from
                        ELSE IF k \in to+1..from THEN k-1 ELSE k
<1>1. PICK p \in Reorderings(n) : \A k \in 1..n : cands[k] = offered[p[k]]
  BY DEF IsRearrangement
<1>2. n \in Nat /\ Len(cands) = n
  BY DEF IsRearrangement
<1>3. \A k \in 1..n : Source(k) \in 1..n
  BY <1>2
<1>4. \A i, j \in 1..n : Source(i) = Source(j) => i = j
  BY <1>2
<1> DEFINE q == [k \in 1..n |-> p[Source(k)]]
<1>5. q \in Reorderings(n)
  <2> HIDE DEF Source, n
  <2>1. p \in [1..n -> 1..n] /\ \A i, j \in 1..n : p[i] = p[j] => i = j
    BY <1>1 DEF Reorderings
  <2>2. q \in [1..n -> 1..n]
    BY <1>3, <2>1
  <2>3. ASSUME NEW i \in 1..n, NEW j \in 1..n, q[i] = q[j]
        PROVE  i = j
    BY <1>3, <1>4, <2>1, <2>3
  <2> QED BY <2>2, <2>3 DEF Reorderings
<1>6. Len(MoveCandidate(cands, from, to)) = n
  BY <1>2, MoveCandidateList
<1>7. \A k \in 1..n : MoveCandidate(cands, from, to)[k] = cands[Source(k)]
  BY <1>2 DEF MoveCandidate
<1>8. \A k \in 1..n : MoveCandidate(cands, from, to)[k] = offered[q[k]]
  <2> HIDE DEF Source, n
  <2> QED BY <1>1, <1>3, <1>7
<1> QED BY <1>2, <1>5, <1>6, <1>8 DEF IsRearrangement

(* One turn of ReorderSegment: nothing, or the move of the first place that*)
(* holds the surface.                                                      *)
LEMMA FillSlotMoves ==
  ASSUME NEW S, NEW cands \in Seq(S), NEW surface, NEW slot \in 1..Len(cands)
  PROVE  /\ FillSlot(cands, surface, slot) \in Seq(S)
         /\ Len(FillSlot(cands, surface, slot)) = Len(cands)
         /\ \A k \in 1..slot-1 : FillSlot(cands, surface, slot)[k] = cands[k]
         /\ \/ /\ PlacesOf(surface, cands, slot) = {}
               /\ FillSlot(cands, surface, slot) = cands
            \/ \E found \in slot..Len(cands) :
                 /\ cands[found] = surface
                 /\ FillSlot(cands, surface, slot) = MoveCandidate(cands, found, slot)
                 /\ FillSlot(cands, surface, slot)[slot] = surface
<1>1. CASE PlacesOf(surface, cands, slot) = {}
  BY <1>1 DEF FillSlot
<1>2. CASE PlacesOf(surface, cands, slot) # {}
  <2> DEFINE found == FirstPlace(surface, cands, slot)
  <2>1. found \in slot..Len(cands) /\ cands[found] = surface
    BY <1>2, FirstPlaceFound
  <2>2. FillSlot(cands, surface, slot) = MoveCandidate(cands, found, slot)
    BY <1>2 DEF FillSlot
  <2> HIDE DEF found
  <2>3. found \in 1..Len(cands) /\ slot \in 1..found
    BY <2>1
  <2> QED BY <2>1, <2>2, <2>3, MoveCandidateList
<1> QED BY <1>1, <1>2

(* The turns of ReorderSegment one after the other.                        *)
LEMMA ReorderSegmentTurns ==
  ASSUME NEW S, NEW cands \in Seq(S), NEW ranked \in Seq(S)
  PROVE  \E after :
           /\ after \in [0..Smaller(Len(ranked), Len(cands)) -> Seq(S)]
           /\ after[0] = cands
           /\ \A i \in 1..Smaller(Len(ranked), Len(cands)) :
                /\ Len(after[i - 1]) = Len(cands)
                /\ after[i] = FillSlot(after[i - 1], ranked[i], i)
           /\ ReorderSegment(cands, ranked) = after[Smaller(Len(ranked), Len(cands))]
           /\ Len(ReorderSegment(cands, ranked)) = Len(cands)
<1> DEFINE limit == Smaller(Len(ranked), Len(cands))
           Lists == {c \in Seq(S) : Len(c) = Len(cands)}
           turn(c, i) == FillSlot(c, ranked[i], i)
           step == [i \in 1..limit |-> [c \in Lists |-> turn(c, i)]]
           Loop(f) == f = [i \in 0..limit |-> IF i = 0 THEN cands ELSE turn(f[i - 1], i)]
           after == CHOOSE f : Loop(f)
<1>1. limit \in Nat /\ limit <= Len(cands) /\ cands \in Lists
  BY DEF Smaller
<1>2. ASSUME NEW i \in 1..limit, NEW c \in Lists
      PROVE  turn(c, i) \in Lists
  <2>1. i \in 1..Len(c)
    BY <1>1
  <2> QED BY <2>1, FillSlotMoves
<1> HIDE DEF limit, turn
<1>3. PICK f : IsLoop(f, limit, Lists, cands, step)
  <2>1. step \in Steps(limit, Lists)
    BY <1>2 DEF Steps
  <2> HIDE DEF step, Lists
  <2> QED BY <1>1, <2>1, Recursion
<1>4. ASSUME NEW i \in 1..limit
      PROVE  f[i] = turn(f[i - 1], i) /\ f[i - 1] \in Lists
  <2>1. i - 1 \in 0..limit
    BY <1>1
  <2> HIDE DEF Lists
  <2> QED BY <1>3, <2>1 DEF IsLoop
<1>5. Loop(f)
  <2>1. \A i \in 0..limit : f[i] = IF i = 0 THEN cands ELSE turn(f[i - 1], i)
    BY <1>1, <1>3, <1>4 DEF IsLoop
  <2> QED BY <1>3, <2>1 DEF IsLoop
<1>6. Loop(after)
  BY <1>5
<1>7. ReorderSegment(cands, ranked) = after[limit]
  BY DEF ReorderSegment, limit, turn
<1> HIDE DEF after
<1>8. after[0] = cands /\ \A i \in 1..limit : after[i] = turn(after[i - 1], i)
  <2>1. \A i \in 0..limit : after[i] = IF i = 0 THEN cands ELSE turn(after[i - 1], i)
    BY <1>6
  <2> QED BY <1>1, <2>1
<1> DEFINE T == {i \in 0..limit : after[i] \in Lists}
<1>9. \A i \in 0..limit : i \in T
  <2>1. 0 \in T
    BY <1>1, <1>8
  <2>2. ASSUME NEW i \in 0..limit, i \in T, i < limit
        PROVE  i + 1 \in T
    <3>1. i + 1 \in 1..limit /\ after[i + 1] = turn(after[i], i + 1)
      BY <1>1, <1>8, <2>2
    <3> QED BY <1>2, <2>2, <3>1
  <2> HIDE DEF T
  <2> QED BY <1>1, <2>1, <2>2, UpTo
<1>10. after \in [0..limit -> Seq(S)]
  <2>1. after = [i \in 0..limit |-> IF i = 0 THEN cands ELSE turn(after[i - 1], i)]
    BY <1>6
  <2>2. after = [i \in 0..limit |-> after[i]]
    BY <2>1
  <2> QED BY <1>9, <2>2
<1>11. Len(after[limit]) = Len(cands)
  BY <1>1, <1>9
<1>12. \A i \in 1..limit : Len(after[i - 1]) = Len(cands)
  BY <1>1, <1>9
<1> QED BY <1>7, <1>8, <1>10, <1>11, <1>12 DEF limit, turn

--------------------------------------------------------------------------------
(* The scores.                                                             *)

(* ArgMax returns the first place of the best score.                       *)
LEMMA ArgMaxFirstBest ==
  ASSUME NEW scores \in Seq(Int) \ {<<>>}
  PROVE  /\ ArgMax(scores) \in 1..Len(scores)
         /\ \A i \in 1..Len(scores) :
              /\ scores[i] <= scores[ArgMax(scores)]
              /\ i < ArgMax(scores) => scores[i] < scores[ArgMax(scores)]
<1> DEFINE n == Len(scores)
           better(b, i) == IF scores[i] > scores[b] THEN i ELSE b
           step == [i \in 1..n |-> [b \in 1..n |-> better(b, i)]]
           Loop(f) == f = [i \in 0..n |-> IF i = 0 THEN 1 ELSE better(f[i - 1], i)]
           best == CHOOSE f : Loop(f)
<1>1. n \in Nat \ {0} /\ \A i \in 1..n : scores[i] \in Int
  <2>1. n # 0
    OBVIOUS
  <2> QED BY <2>1
<1> HIDE DEF n
<1>2. PICK f : IsLoop(f, n, 1..n, 1, step)
  <2>1. step \in Steps(n, 1..n)
    BY <1>1 DEF Steps
  <2> DEFINE Places == 1..n
  <2>2. 1 \in Places /\ step \in Steps(n, Places)
    BY <1>1, <2>1
  <2> HIDE DEF step, Places
  <2>3. \E f : IsLoop(f, n, Places, 1, step)
    BY <1>1, <2>2, Recursion
  <2> QED BY <2>3 DEF Places
<1>3. Loop(f)
  <2>1. ASSUME NEW i \in 1..n
        PROVE  f[i] = better(f[i - 1], i)
    <3>1. i - 1 \in 0..n /\ f[i - 1] \in 1..n
      BY <1>1, <1>2 DEF IsLoop
    <3> QED BY <1>2, <3>1 DEF IsLoop
  <2> HIDE DEF better
  <2>2. \A i \in 0..n : f[i] = IF i = 0 THEN 1 ELSE better(f[i - 1], i)
    BY <1>1, <1>2, <2>1 DEF IsLoop
  <2> QED BY <1>2, <2>2 DEF IsLoop
<1>4. Loop(best)
  BY <1>3
<1>5. ArgMax(scores) = best[n]
  BY DEF ArgMax, n
<1> HIDE DEF best
<1>6. best[0] = 1 /\ \A i \in 1..n : best[i] = better(best[i - 1], i)
  <2> HIDE DEF better
  <2>1. \A i \in 0..n : best[i] = IF i = 0 THEN 1 ELSE better(best[i - 1], i)
    BY <1>4
  <2> QED BY <1>1, <2>1
<1> DEFINE BestOf(b, i) == /\ b \in 1..n
                           /\ \A k \in 1..i : scores[k] <= scores[b]
                           /\ \A k \in 1..n : k < b => scores[k] < scores[b]
           T == {i \in 0..n : BestOf(best[i], i)}
<1>7. \A i \in 0..n : i \in T
  <2>1. 0 \in T
    BY <1>1, <1>6
  <2>2. ASSUME NEW i \in 0..n, i \in T, i < n
        PROVE  i + 1 \in T
    <3> DEFINE b == best[i]
               c == best[i + 1]
    <3>1. i + 1 \in 1..n /\ c = better(b, i + 1) /\ BestOf(b, i)
      BY <1>1, <1>6, <2>2
    <3> HIDE DEF b, c
    <3>2. BestOf(c, i + 1)
      <4>1. CASE scores[i + 1] > scores[b]
        <5>1. c = i + 1
          BY <3>1, <4>1
        <5>2. \A k \in 1..(i + 1) : scores[k] <= scores[c]
          BY <1>1, <3>1, <4>1, <5>1
        <5>3. \A k \in 1..n : k < c => scores[k] < scores[c]
          BY <1>1, <3>1, <4>1, <5>1
        <5> QED BY <3>1, <5>1, <5>2, <5>3
      <4>2. CASE ~ (scores[i + 1] > scores[b])
        BY <1>1, <3>1, <4>2
      <4> QED BY <4>1, <4>2
    <3> QED BY <3>1, <3>2 DEF c
  <2> HIDE DEF T
  <2> QED BY <1>1, <2>1, <2>2, UpTo
<1>8. BestOf(best[n], n)
  BY <1>1, <1>7
<1> QED BY <1>5, <1>8 DEF n

(* The place of a candidate comes before that of another if it has the     *)
(* better score, or the same and Mozc had it before.                       *)
Before(scores, i, j) == scores[i] > scores[j] \/ (scores[i] = scores[j] /\ i < j)

(* ByScore lists every place once, in that order: no two places have as    *)
(* many others ahead of them, so each number of others is some place's.    *)
LEMMA ByScoreSorts ==
  ASSUME NEW n \in Nat, NEW scores \in [1..n -> Int], NEW places \in SUBSET (1..n)
  PROVE  /\ Cardinality(places) \in Nat
         /\ ByScore(scores, places) \in [1..Cardinality(places) -> places]
         /\ \A i \in places :
              \E k \in 1..Cardinality(places) : ByScore(scores, places)[k] = i
         /\ \A j, k \in 1..Cardinality(places) : j < k =>
              Before(scores, ByScore(scores, places)[j], ByScore(scores, places)[k])
<1> DEFINE count == Cardinality(places)
           Ahead(i) == {j \in places : Before(scores, j, i)}
           rank(i) == Cardinality(Ahead(i))
           pick(k) == CHOOSE i \in places : rank(i) = k - 1
           order == ByScore(scores, places)
<1>1. IsFiniteSet(places) /\ count \in Nat
  <2>1. IsFiniteSet(1..n)
    BY FS_Interval
  <2>2. IsFiniteSet(places)
    BY <2>1, FS_Subset
  <2> QED BY <2>2, FS_CardinalityType
<1>2. ASSUME NEW i \in places
      PROVE  /\ IsFiniteSet(Ahead(i)) /\ rank(i) \in Nat
             /\ i \notin Ahead(i) /\ Ahead(i) \subseteq places
  <2>1. Ahead(i) \subseteq places /\ i \notin Ahead(i)
    BY DEF Before
  <2>2. IsFiniteSet(Ahead(i))
    BY <1>1, <2>1, FS_Subset
  <2> QED BY <2>1, <2>2, FS_CardinalityType
<1>3. \A i \in places : rank(i) \in Nat
  <2> HIDE DEF rank
  <2> QED BY <1>2
<1>4. ASSUME NEW i \in places
      PROVE  rank(i) + 1 \in 1..count
  <2>1. /\ IsFiniteSet(places \ {i})
        /\ Cardinality(places \ {i}) = count - 1
    BY <1>1, FS_RemoveElement
  <2>2. Ahead(i) \subseteq places \ {i}
    BY <1>2
  <2>3. rank(i) <= count - 1
    <3> HIDE DEF Ahead
    <3> QED BY <2>1, <2>2, FS_Subset
  <2> HIDE DEF rank
  <2> QED BY <1>3, <1>1, <2>3
<1>5. ASSUME NEW i \in places, NEW j \in places, Before(scores, i, j)
      PROVE  rank(i) < rank(j)
  <2>0. \A l \in places : Before(scores, l, i) => Before(scores, l, j)
    BY <1>5 DEF Before
  <2>1. Ahead(i) \subseteq Ahead(j) \ {i} /\ i \in Ahead(j)
    BY <1>2, <1>5, <2>0
  <2>2. /\ IsFiniteSet(Ahead(j) \ {i})
        /\ Cardinality(Ahead(j) \ {i}) = rank(j) - 1
    <3> HIDE DEF Ahead
    <3> QED BY <1>2, <2>1, FS_RemoveElement
  <2>3. rank(i) <= rank(j) - 1
    <3> HIDE DEF Ahead
    <3> QED BY <2>1, <2>2, FS_Subset
  <2> HIDE DEF rank
  <2> QED BY <1>3, <2>3
<1>6. \A i, j \in places : i # j => Before(scores, i, j) \/ Before(scores, j, i)
  BY DEF Before
<1> HIDE DEF rank
<1>7. \A i, j \in places : rank(i) = rank(j) => i = j
  BY <1>3, <1>5, <1>6
<1>8. \A i, j \in places : rank(i) < rank(j) => Before(scores, i, j)
  <2> SUFFICES ASSUME NEW i \in places, NEW j \in places, rank(i) < rank(j)
               PROVE  Before(scores, i, j)
    OBVIOUS
  <2>1. i # j
    BY <1>3
  <2>2. ~ Before(scores, j, i)
    BY <1>3, <1>5
  <2> QED BY <1>6, <2>1, <2>2
<1>9. ASSUME NEW k \in 1..count
      PROVE  \E i \in places : rank(i) = k - 1
  <2> DEFINE numbered == [i \in places |-> rank(i) + 1]
  <2>1. numbered \in Injection(places, 1..count)
    <3>1. numbered \in [places -> 1..count]
      BY <1>4
    <3>2. \A i, j \in places : numbered[i] = numbered[j] => i = j
      BY <1>3, <1>7
    <3> HIDE DEF numbered
    <3> QED BY <3>1, <3>2 DEF Injection, IsInjective
  <2>2. IsFiniteSet(1..count) /\ Cardinality(1..count) = count
    BY <1>1, FS_Interval
  <2>3. numbered \in Surjection(places, 1..count)
    <3> HIDE DEF numbered
    <3> QED BY <2>1, <2>2, FS_Injection
  <2>4. \E i \in places : numbered[i] = k
    <3> HIDE DEF numbered
    <3> QED BY <2>3 DEF Surjection
  <2>5. \A i \in places : numbered[i] = rank(i) + 1
    OBVIOUS
  <2> HIDE DEF numbered
  <2>6. PICK i \in places : numbered[i] = k
    BY <2>4
  <2>7. rank(i) + 1 = k /\ rank(i) \in Nat
    BY <1>3, <2>5, <2>6
  <2>8. rank(i) = k - 1
    BY <1>9, <2>7
  <2> QED BY <2>8
<1>10. ASSUME NEW k \in 1..count
      PROVE  pick(k) \in places /\ rank(pick(k)) = k - 1
  BY <1>9
<1>11. order = [k \in 1..count |-> pick(k)]
  BY DEF ByScore, Before, rank
<1> HIDE DEF order, count, pick
<1>12. /\ order \in [1..count -> places]
       /\ \A k \in 1..count : order[k] \in places /\ rank(order[k]) = k - 1
  BY <1>10, <1>11
<1>13. ASSUME NEW i \in places
       PROVE  \E k \in 1..count : order[k] = i
  <2>1. rank(i) + 1 \in 1..count /\ rank(i) \in Nat
    BY <1>3, <1>4
  <2>2. order[rank(i) + 1] \in places /\ rank(order[rank(i) + 1]) = rank(i)
    BY <1>12, <2>1
  <2> QED BY <1>7, <2>1, <2>2
<1>14. ASSUME NEW j \in 1..count, NEW k \in 1..count, j < k
       PROVE  Before(scores, order[j], order[k])
  <2>1. /\ order[j] \in places /\ order[k] \in places
        /\ rank(order[j]) < rank(order[k])
    BY <1>1, <1>12, <1>14
  <2> QED BY <1>8, <2>1
<1> QED BY <1>1, <1>12, <1>13, <1>14 DEF order, count

(* RankedSurfaces is a list of surfaces: the final choice, then the others *)
(* by their scores.                                                        *)
Others(cands, top) == {i \in DOMAIN cands : cands[i] # top}

LEMMA RankedSurfacesList ==
  ASSUME NEW S, NEW cands \in Seq(S), NEW scores \in [1..Len(cands) -> Int],
         NEW top \in S
  PROVE  /\ Cardinality(Others(cands, top)) \in Nat
         /\ RankedSurfaces(cands, scores, top) \in Seq(S)
         /\ Len(RankedSurfaces(cands, scores, top)) = 1 + Cardinality(Others(cands, top))
         /\ RankedSurfaces(cands, scores, top)[1] = top
         /\ \A k \in 1..Cardinality(Others(cands, top)) :
              /\ ByScore(scores, Others(cands, top))[k] \in Others(cands, top)
              /\ RankedSurfaces(cands, scores, top)[k + 1]
                   = cands[ByScore(scores, Others(cands, top))[k]]
<1> DEFINE others == Others(cands, top)
           order == ByScore(scores, others)
           rest == [k \in DOMAIN order |-> cands[order[k]]]
<1>1. Len(cands) \in Nat /\ others \in SUBSET (1..Len(cands))
  BY DEF Others
<1>2. /\ Cardinality(others) \in Nat
      /\ order \in [1..Cardinality(others) -> others]
  <2> HIDE DEF others
  <2> QED BY <1>1, ByScoreSorts
<1>3. \A i \in others : cands[i] \in S
  BY <1>1
<1>4. RankedSurfaces(cands, scores, top) = <<top>> \o rest
  BY DEF RankedSurfaces, Others
<1> HIDE DEF others, order
<1> DEFINE count == Cardinality(others)
<1>5. count \in Nat /\ rest \in [1..count -> S]
  BY <1>2, <1>3
<1> HIDE DEF count
<1>6. rest \in Seq(S) /\ Len(rest) = count /\ <<top>> \in Seq(S) /\ Len(<<top>>) = 1
  BY <1>5
<1>7. \A k \in 1..count : order[k] \in others /\ rest[k] = cands[order[k]]
  BY <1>2 DEF count
<1> HIDE DEF rest
<1>8. /\ <<top>> \o rest \in Seq(S)
      /\ Len(<<top>> \o rest) = 1 + count
      /\ (<<top>> \o rest)[1] = top
      /\ \A k \in 1..count : (<<top>> \o rest)[k + 1] = rest[k]
  BY <1>5, <1>6
<1> QED BY <1>4, <1>5, <1>7, <1>8 DEF count, order, others

(* ApplyMargin, asked about Mozc's first candidate: only a candidate with  *)
(* the best score, and by the margin, comes before it.                     *)
LEMMA MarginDecides ==
  ASSUME NEW S, NEW cands \in Seq(S) \ {<<>>}, NEW scores \in [1..Len(cands) -> Int],
         NEW tau \in Int
  PROVE  /\ ArgMax(scores) \in 1..Len(cands)
         /\ \A i \in 1..Len(cands) : scores[i] <= scores[ArgMax(scores)]
         /\ ApplyMargin(cands, scores, cands[1], tau) =
              IF cands[ArgMax(scores)] # cands[1]
                   /\ scores[ArgMax(scores)] - scores[1] >= tau
              THEN [final_top1 |-> cands[ArgMax(scores)], overwritten |-> TRUE]
              ELSE [final_top1 |-> cands[1], overwritten |-> FALSE]
<1>1. Len(cands) \in Nat \ {0} /\ 1 \in 1..Len(cands)
  <2>1. Len(cands) # 0
    OBVIOUS
  <2> QED BY <2>1
<1>2. scores \in Seq(Int) \ {<<>>} /\ Len(scores) = Len(cands)
  BY <1>1
<1>3. /\ ArgMax(scores) \in 1..Len(cands)
      /\ \A i \in 1..Len(cands) : scores[i] <= scores[ArgMax(scores)]
  BY <1>2, ArgMaxFirstBest
<1>4. FirstPlace(cands[1], cands, 1) = 1
  <2>1. 1 \in PlacesOf(cands[1], cands, 1) /\ cands \in Seq(S) /\ 1 \in Nat \ {0}
    BY <1>1 DEF PlacesOf
  <2>2. /\ FirstPlace(cands[1], cands, 1) \in 1..Len(cands)
        /\ FirstPlace(cands[1], cands, 1) <= 1
    BY <2>1, FirstPlaceFound
  <2> QED BY <1>1, <2>2
<1>5. Contains(cands, cands[1]) /\ cands # <<>>
  BY <1>1 DEF Contains
<1> QED BY <1>2, <1>3, <1>4, <1>5 DEF ApplyMargin

--------------------------------------------------------------------------------
(* What ReorderSegment shows.                                              *)

(* The candidates a ranking does not name keep their order.                *)
OthersInOrder(cands, moved, ranked) ==
  \E p \in Reorderings(Len(cands)) :
    /\ \A k \in 1..Len(cands) : moved[k] = cands[p[k]]
    /\ \A j, k \in 1..Len(cands) :
         (j < k /\ {moved[j], moved[k]} \cap ToSet(ranked) = {}) => p[j] < p[k]

LEMMA MoveKeepsOthers ==
  ASSUME NEW S, NEW cands \in Seq(S), NEW ranked \in Seq(S), NEW moved \in Seq(S),
         Len(moved) = Len(cands), OthersInOrder(cands, moved, ranked),
         NEW from \in 1..Len(cands), NEW to \in 1..from,
         moved[from] \in ToSet(ranked)
  PROVE  OthersInOrder(cands, MoveCandidate(moved, from, to), ranked)
<1> DEFINE n == Len(cands)
           next == MoveCandidate(moved, from, to)
           Source(k) == IF k = to THEN from
                        ELSE IF k \in to+1..from THEN k-1 ELSE k
<1>1. PICK p \in Reorderings(n) :
        /\ \A k \in 1..n : moved[k] = cands[p[k]]
        /\ \A j, k \in 1..n :
             (j < k /\ {moved[j], moved[k]} \cap ToSet(ranked) = {}) => p[j] < p[k]
  BY DEF OthersInOrder
<1>2. p \in [1..n -> 1..n] /\ \A i, j \in 1..n : p[i] = p[j] => i = j
  BY <1>1 DEF Reorderings
<1>3. n \in Nat /\ n = Len(moved)
  OBVIOUS
<1>4. \A k \in 1..n : Source(k) \in 1..n
  BY <1>3
<1>5. \A i, j \in 1..n : /\ Source(i) = Source(j) => i = j
                         /\ i < j /\ i # to /\ j # to => Source(i) < Source(j)
  BY <1>3
<1>6. \A k \in 1..n : next[k] = moved[Source(k)]
  BY <1>3 DEF MoveCandidate
<1>7. next[to] \in ToSet(ranked)
  BY <1>3 DEF MoveCandidate
<1> DEFINE q == [k \in 1..n |-> p[Source(k)]]
<1> HIDE DEF Source, n, next
<1>8. q \in Reorderings(n)
  <2>1. q \in [1..n -> 1..n]
    BY <1>2, <1>4
  <2>2. ASSUME NEW i \in 1..n, NEW j \in 1..n, q[i] = q[j]
        PROVE  i = j
    BY <1>2, <1>4, <1>5, <2>2
  <2> QED BY <2>1, <2>2 DEF Reorderings
<1>9. \A k \in 1..n : next[k] = cands[q[k]]
  BY <1>1, <1>4, <1>6
<1>10. ASSUME NEW j \in 1..n, NEW k \in 1..n, j < k,
              {next[j], next[k]} \cap ToSet(ranked) = {}
       PROVE  q[j] < q[k]
  <2>1. j # to /\ k # to
    BY <1>7, <1>10
  <2>2. Source(j) < Source(k) /\ Source(j) \in 1..n /\ Source(k) \in 1..n
    BY <1>4, <1>5, <1>10, <2>1
  <2>3. {moved[Source(j)], moved[Source(k)]} \cap ToSet(ranked) = {}
    BY <1>6, <1>10
  <2> QED BY <1>1, <2>2, <2>3
<1> QED BY <1>8, <1>9, <1>10 DEF OthersInOrder, n, next

LEMMA ReorderSegmentKeepsOthers ==
  ASSUME NEW S, NEW cands \in Seq(S), NEW ranked \in Seq(S)
  PROVE  OthersInOrder(cands, ReorderSegment(cands, ranked), ranked)
<1> DEFINE limit == Smaller(Len(ranked), Len(cands))
<1>1. PICK after :
        /\ after \in [0..limit -> Seq(S)]
        /\ after[0] = cands
        /\ \A i \in 1..limit : /\ Len(after[i - 1]) = Len(cands)
                               /\ after[i] = FillSlot(after[i - 1], ranked[i], i)
        /\ ReorderSegment(cands, ranked) = after[limit]
  BY ReorderSegmentTurns
<1>2. limit \in Nat /\ limit <= Len(cands) /\ limit <= Len(ranked)
  BY DEF Smaller
<1> HIDE DEF limit
<1> DEFINE T == {i \in 0..limit : OthersInOrder(cands, after[i], ranked)}
<1>3. 0 \in T
  <2> DEFINE same == [k \in 1..Len(cands) |-> k]
  <2>1. same \in Reorderings(Len(cands))
    BY DEF Reorderings
  <2>2. OthersInOrder(cands, cands, ranked)
    BY <2>1 DEF OthersInOrder
  <2> QED BY <1>1, <1>2, <2>2
<1>4. ASSUME NEW i \in 0..limit, i \in T, i < limit
      PROVE  i + 1 \in T
  <2> DEFINE now == after[i]
             s == i + 1
             surface == ranked[s]
  <2>1. /\ now \in Seq(S) /\ Len(now) = Len(cands)
        /\ after[s] = FillSlot(now, surface, s)
        /\ s \in 1..limit /\ s \in 1..Len(now) /\ s \in 1..Len(ranked)
    <3>1. s \in 1..limit /\ s - 1 = i
      BY <1>2, <1>4
    <3> QED BY <1>1, <1>2, <3>1
  <2>2. surface \in ToSet(ranked)
    BY <2>1 DEF ToSet
  <2>3. OthersInOrder(cands, now, ranked)
    BY <1>4
  <2> HIDE DEF now, s, surface
  <2>4. CASE FillSlot(now, surface, s) = now
    BY <2>1, <2>3, <2>4 DEF s
  <2>5. ASSUME NEW found \in s..Len(now), now[found] = surface,
               FillSlot(now, surface, s) = MoveCandidate(now, found, s)
        PROVE  s \in T
    <3>1. found \in 1..Len(cands) /\ s \in 1..found
      BY <2>1, <2>5
    <3>2. OthersInOrder(cands, MoveCandidate(now, found, s), ranked)
      BY <2>1, <2>2, <2>3, <2>5, <3>1, MoveKeepsOthers
    <3> QED BY <2>1, <2>5, <3>2
  <2> QED BY <2>1, <2>4, <2>5, FillSlotMoves DEF s
<1>5. \A i \in 0..limit : i \in T
  <2> HIDE DEF T
  <2> QED BY <1>2, <1>3, <1>4, UpTo
<1> QED BY <1>1, <1>2, <1>5

(* No candidate is lost by a move.                                         *)
LEMMA MoveCandidateLosesNone ==
  ASSUME NEW S, NEW cands \in Seq(S), NEW from \in 1..Len(cands), NEW to \in 1..from,
         NEW k \in 1..Len(cands)
  PROVE  \E l \in 1..Len(cands) : MoveCandidate(cands, from, to)[l] = cands[k]
<1> DEFINE Goal(j) == IF j = from THEN to ELSE IF j \in to..from-1 THEN j+1 ELSE j
<1>1. Goal(k) \in 1..Len(cands)
  OBVIOUS
<1>2. MoveCandidate(cands, from, to)[Goal(k)] = cands[k]
  <2>1. CASE k = from
    BY <2>1 DEF MoveCandidate
  <2>2. CASE k \in to..from-1
    <3>1. Goal(k) = k+1 /\ k+1 \in to+1..from /\ k+1 # to /\ k+1 \in 1..Len(cands)
      BY <2>2
    <3>2. (k+1)-1 = k
      OBVIOUS
    <3> HIDE DEF Goal
    <3> QED BY <3>1, <3>2 DEF MoveCandidate
  <2>3. CASE k \notin to..from
    BY <2>3 DEF MoveCandidate
  <2> QED BY <2>1, <2>2, <2>3
<1> QED BY <1>1, <1>2

(* A ranking that repeats nothing fits into a list that has all it names.  *)
LEMMA NoRepeatFits ==
  ASSUME NEW S, NEW cands \in Seq(S), NEW ranked \in Seq(S),
         \A i, j \in 1..Len(ranked) : ranked[i] = ranked[j] => i = j,
         \A i \in 1..Len(ranked) : \E k \in 1..Len(cands) : cands[k] = ranked[i]
  PROVE  Len(ranked) <= Len(cands)
<1> DEFINE place == [i \in 1..Len(ranked) |->
                       CHOOSE k \in 1..Len(cands) : cands[k] = ranked[i]]
<1>1. \A i \in 1..Len(ranked) : place[i] \in 1..Len(cands) /\ cands[place[i]] = ranked[i]
  OBVIOUS
<1>2. place \in [1..Len(ranked) -> 1..Len(cands)]
  BY <1>1
<1> HIDE DEF place
<1>3. place \in Injection(1..Len(ranked), 1..Len(cands))
  BY <1>1, <1>2 DEF Injection, IsInjective
<1>4. /\ IsFiniteSet(1..Len(cands))
      /\ Cardinality(1..Len(cands)) = Len(cands)
      /\ Cardinality(1..Len(ranked)) = Len(ranked)
  <2>1. ASSUME NEW n \in Nat
        PROVE  IsFiniteSet(1..n) /\ Cardinality(1..n) = n
    BY FS_Interval
  <2>2. Len(cands) \in Nat /\ Len(ranked) \in Nat
    OBVIOUS
  <2> QED BY <2>1, <2>2
<1>5. Cardinality(1..Len(ranked)) <= Cardinality(1..Len(cands))
  BY <1>3, <1>4, FS_Injection
<1> QED BY <1>4, <1>5

(* Such a ranking is what the list then begins with: no turn finds its     *)
(* surface among the places that are filled already, nor misses it below.  *)
LEMMA ReorderSegmentShows ==
  ASSUME NEW S, NEW cands \in Seq(S), NEW ranked \in Seq(S),
         \A i, j \in 1..Len(ranked) : ranked[i] = ranked[j] => i = j,
         \A i \in 1..Len(ranked) : \E k \in 1..Len(cands) : cands[k] = ranked[i]
  PROVE  /\ Len(ranked) <= Len(cands)
         /\ \A i \in 1..Len(ranked) : ReorderSegment(cands, ranked)[i] = ranked[i]
<1> DEFINE limit == Smaller(Len(ranked), Len(cands))
<1>1. Len(ranked) <= Len(cands)
  BY NoRepeatFits
<1>2. limit = Len(ranked) /\ limit \in Nat
  BY <1>1 DEF Smaller
<1>3. PICK after :
        /\ after \in [0..limit -> Seq(S)]
        /\ after[0] = cands
        /\ \A i \in 1..limit : /\ Len(after[i - 1]) = Len(cands)
                               /\ after[i] = FillSlot(after[i - 1], ranked[i], i)
        /\ ReorderSegment(cands, ranked) = after[limit]
  BY ReorderSegmentTurns
<1> HIDE DEF limit
<1> DEFINE Shown(list, i) ==
             /\ \A k \in 1..i : list[k] = ranked[k]
             /\ \A k \in 1..Len(cands) : \E l \in 1..Len(cands) : list[l] = cands[k]
           T == {i \in 0..limit : Shown(after[i], i)}
<1>4. 0 \in T
  BY <1>2, <1>3
<1>5. ASSUME NEW i \in 0..limit, i \in T, i < limit
      PROVE  i + 1 \in T
  <2> DEFINE now == after[i]
             s == i + 1
             surface == ranked[s]
  <2>1. /\ now \in Seq(S) /\ Len(now) = Len(cands)
        /\ after[s] = FillSlot(now, surface, s)
        /\ s \in 1..limit /\ s \in 1..Len(now) /\ s \in 1..Len(ranked)
    <3>1. s \in 1..limit /\ s - 1 = i
      BY <1>2, <1>5
    <3>2. now \in Seq(S) /\ i \in 0..limit
      BY <1>3
    <3>3. Len(now) = Len(cands) /\ after[s] = FillSlot(now, surface, s)
      BY <1>3, <3>1
    <3>4. Len(ranked) \in Nat /\ Len(cands) \in Nat
      OBVIOUS
    <3>5. s \in 1..Len(now) /\ s \in 1..Len(ranked)
      BY <1>1, <1>2, <3>1, <3>3, <3>4
    <3> QED BY <3>1, <3>2, <3>3, <3>5
  <2>2. Shown(now, i)
    BY <1>5
  <2>3. surface \in S
    BY <2>1
  <2> HIDE DEF now
  <2>4. PlacesOf(surface, now, s) # {}
    <3>1. PICK k \in 1..Len(cands) : cands[k] = surface
      BY <2>1
    <3>2. PICK l \in 1..Len(cands) : now[l] = surface
      BY <2>2, <3>1
    <3>3. l \notin 1..i
      BY <1>2, <2>1, <2>2, <3>2
    <3>4. l \in s..Len(now)
      BY <2>1, <3>3
    <3> QED BY <3>2, <3>4 DEF PlacesOf
  <2>5. PICK found \in s..Len(now) :
          /\ FillSlot(now, surface, s) = MoveCandidate(now, found, s)
          /\ FillSlot(now, surface, s)[s] = surface
    <3> HIDE DEF s, surface
    <3> QED BY <2>1, <2>4, FillSlotMoves
  <2>6. \A k \in 1..s-1 : after[s][k] = now[k]
    <3> HIDE DEF s, surface
    <3> QED BY <2>1, FillSlotMoves
  <2>7. \A k \in 1..s : after[s][k] = ranked[k]
    <3>1. after[s][s] = ranked[s]
      BY <2>1, <2>5
    <3>2. \A k \in 1..i : after[s][k] = ranked[k]
      BY <2>2, <2>6
    <3>3. \A k \in 1..s : k \in 1..i \/ k = s
      OBVIOUS
    <3> HIDE DEF s
    <3> QED BY <3>1, <3>2, <3>3
  <2>8. ASSUME NEW k \in 1..Len(cands)
        PROVE  \E l \in 1..Len(cands) : after[s][l] = cands[k]
    <3>1. PICK l \in 1..Len(cands) : now[l] = cands[k]
      BY <2>2
    <3>2. found \in 1..Len(now) /\ s \in 1..found /\ l \in 1..Len(now)
      BY <2>1, <2>5
    <3> HIDE DEF s, surface
    <3>3. \E m \in 1..Len(now) : MoveCandidate(now, found, s)[m] = now[l]
      BY <2>1, <3>2, MoveCandidateLosesNone
    <3> QED BY <2>1, <2>5, <3>1, <3>3
  <2>9. s \in 0..limit
    BY <2>1
  <2> HIDE DEF s
  <2>10. s \in T
    BY <2>7, <2>8, <2>9
  <2> QED BY <2>10 DEF s
<1>6. \A i \in 0..limit : i \in T
  <2> HIDE DEF T
  <2> QED BY <1>2, <1>4, <1>5, UpTo
<1>7. \A k \in 1..limit : ReorderSegment(cands, ranked)[k] = ranked[k]
  <2>1. limit \in T
    <3> HIDE DEF T
    <3> QED BY <1>2, <1>6
  <2>2. \A k \in 1..limit : after[limit][k] = ranked[k]
    BY <2>1
  <2> HIDE DEF T
  <2> QED BY <1>3, <2>2
<1> QED BY <1>1, <1>2, <1>7

(* The first ranked surface comes first, if the list has it, whatever the  *)
(* others are.                                                             *)
LEMMA ReorderSegmentFirst ==
  ASSUME NEW S, NEW cands \in Seq(S), NEW ranked \in Seq(S) \ {<<>>},
         NEW place \in 1..Len(cands), ranked[1] = cands[place]
  PROVE  ReorderSegment(cands, ranked)[1] = ranked[1]
<1> DEFINE limit == Smaller(Len(ranked), Len(cands))
<1>1. PICK after :
        /\ after \in [0..limit -> Seq(S)]
        /\ after[0] = cands
        /\ \A i \in 1..limit : /\ Len(after[i - 1]) = Len(cands)
                               /\ after[i] = FillSlot(after[i - 1], ranked[i], i)
        /\ ReorderSegment(cands, ranked) = after[limit]
  BY ReorderSegmentTurns
<1>2. limit \in Nat \ {0} /\ limit <= Len(cands)
  <2>1. Len(ranked) # 0
    OBVIOUS
  <2> QED BY <2>1 DEF Smaller
<1> HIDE DEF limit
<1> DEFINE T == {i \in 0..limit : i > 0 => after[i][1] = ranked[1]}
<1>3. ASSUME NEW i \in 0..limit, i \in T, i < limit
      PROVE  i + 1 \in T
  <2> DEFINE now == after[i]
             s == i + 1
             surface == ranked[s]
  <2>1. /\ now \in Seq(S) /\ Len(now) = Len(cands)
        /\ after[s] = FillSlot(now, surface, s)
        /\ s \in 1..limit /\ s \in 1..Len(now)
    <3>1. s \in 1..limit /\ s - 1 = i
      BY <1>2, <1>3
    <3> QED BY <1>1, <1>2, <3>1
  <2> HIDE DEF now
  <2>2. CASE i = 0
    <3>1. s = 1 /\ now = cands /\ surface = cands[place]
      BY <1>1, <2>2 DEF now
    <3>2. place \in PlacesOf(surface, now, s)
      BY <3>1 DEF PlacesOf
    <3>3. FillSlot(now, surface, s)[s] = surface
      <4> HIDE DEF s, surface
      <4> QED BY <2>1, <3>2, FillSlotMoves
    <3> QED BY <2>1, <3>1, <3>3
  <2>3. CASE i # 0
    <3>1. 1 \in 1..s-1 /\ now[1] = ranked[1]
      BY <1>3, <2>3 DEF now
    <3>2. FillSlot(now, surface, s)[1] = now[1]
      <4> HIDE DEF s, surface
      <4> QED BY <2>1, <3>1, FillSlotMoves
    <3> QED BY <2>1, <3>1, <3>2
  <2> QED BY <2>2, <2>3
<1>4. \A i \in 0..limit : i \in T
  <2>1. 0 \in T
    BY <1>2
  <2> HIDE DEF T
  <2> QED BY <1>2, <1>3, <2>1, UpTo
<1> QED BY <1>1, <1>2, <1>4
================================================================================
