-------------------------- MODULE RerankSystem_proofs --------------------------
(***************************************************************************)
(* What holds of the rewriter for every set of threads, every set of       *)
(* conversions, every peer and every setting of its limits, and of the     *)
(* history RerankOutcomes keeps of its calls; then what holds of it with   *)
(* the daemon of the repository, for every scoring, margin and cap,        *)
(* however often the daemon is stopped and calls are given up.             *)
(***************************************************************************)
EXTENDS RerankSystem, RerankOutcomes, ListLemmas

--------------------------------------------------------------------------------
(* Types.                                                                  *)

(* What a Rewrite may rely on where it stands.                             *)
FrameOK(t) ==
  /\ pc[t] # "idle" => /\ request[t] # None
                       /\ segs[t] # <<>>
                       /\ TargetCandidates(t) # <<>>
  /\ (pc[t] = "idle" /\ request[t] # None) => verdict[t] # "none"
  /\ pc[t] \notin {"idle", "cap"} => nbest[t] # <<>>
  /\ pc[t] \in {"apply", "reorder"} => result[t] # None
  /\ task[t] = "ok" => result[t] # None
  /\ task[t] # "none" => pc[t] \in {"waiting", "joining"}
  /\ slot[t] # 0

TypeInv == TypeOK /\ \A t \in Threads : FrameOK(t)

LEMMA Limits ==
  /\ CandCap \in Nat \ {0} /\ DegradedCap \in Nat \ {0}
  /\ DegradeAfter \in Nat \ {0} /\ ContextChars \in Nat \ {0}
  /\ DegradedChars \in Nat \ {0}
BY LimitsAssumption

LEMMA TypeInit == Init => TypeInv
BY Limits DEF Init, TypeInv, TypeOK, FrameOK, MaxTier

LEMMA NoteTypes ==
  ASSUME TypeOK, NoteTimeout \/ NoteSuccess
  PROVE  /\ degrade_tier' \in 0..MaxTier
         /\ consecutive_timeouts' \in 0..DegradeAfter
         /\ consecutive_ok' \in 0..DegradeAfter
BY Limits DEF TypeOK, NoteTimeout, NoteSuccess, Counted, Smaller, MaxTier

(* The turn of the loop in ReorderSegment either leaves the segment alone  *)
(* or moves a candidate from below up to the slot.                         *)
LEMMA SlotMove ==
  ASSUME TypeInv, NEW t \in Threads, FillsSlot(t)
  PROVE  \/ UNCHANGED <<segs, changed>>
         \/ \E found \in slot[t]+1..Len(TargetCandidates(t)) :
              /\ TargetCandidates(t)[found] # TargetCandidates(t)[slot[t]]
              /\ segs' = [segs EXCEPT ![t][Target(t)] =
                                       MoveCandidate(TargetCandidates(t), found, slot[t])]
              /\ changed' = [changed EXCEPT ![t] = TRUE]
<1> DEFINE cands == TargetCandidates(t)
           surface == result[t].ranked[slot[t]]
           found == FirstPlace(surface, cands, slot[t])
<1>1. CASE ~FoundBelow(surface, cands, slot[t])
  BY <1>1 DEF FillsSlot
<1>2. CASE FoundBelow(surface, cands, slot[t])
  <2>1. cands \in Seq(Surfaces) /\ slot[t] \in Nat \ {0}
    BY DEF TypeInv, TypeOK, FrameOK, FillsSlot, TargetCandidates, Target
  <2>2. PlacesOf(surface, cands, slot[t]) # {} /\ found > slot[t]
    BY <1>2 DEF FoundBelow
  <2>3. /\ found \in slot[t]..Len(cands)
        /\ cands[found] = surface
        /\ \A l \in PlacesOf(surface, cands, slot[t]) : found <= l
    BY <2>1, <2>2, FirstPlaceFound
  <2>4. found \in slot[t]+1..Len(cands) /\ slot[t] \in slot[t]..Len(cands)
    BY <2>1, <2>2, <2>3
  <2>5. cands[slot[t]] # surface
    BY <2>1, <2>2, <2>3, <2>4 DEF PlacesOf
  <2>6. /\ segs' = [segs EXCEPT ![t][Target(t)] = MoveCandidate(cands, found, slot[t])]
        /\ changed' = [changed EXCEPT ![t] = TRUE]
    BY <1>2 DEF FillsSlot
  <2> QED BY <2>3, <2>4, <2>5, <2>6
<1> QED BY <1>1, <1>2

(* The candidates sent are a prefix of the segment's, and some are.        *)
LEMMA PrefixSent ==
  ASSUME NEW list \in Seq(Surfaces) \ {<<>>}, NEW cap \in Nat \ {0}
  PROVE  SubSeq(list, 1, Smaller(cap, Len(list))) \in Seq(Surfaces) \ {<<>>}
<1> DEFINE n == Smaller(cap, Len(list))
<1>1. n \in 1..Len(list)
  BY DEF Smaller
<1> HIDE DEF n
<1>2. SubSeq(list, 1, n) \in Seq(Surfaces) /\ Len(SubSeq(list, 1, n)) = n
  BY <1>1, SubSeqProperties
<1>3. SubSeq(list, 1, n) # <<>>
  BY <1>1, <1>2
<1> QED BY <1>2, <1>3 DEF n

(* A rewriter whose peer may give any well-formed answer takes all steps   *)
(* of one whose peer gives some of them.                                   *)
PeerEnds(t) == TaskFails(t) \/ \E reply \in HookResults : TaskAnswers(t, reply)

OpenNext ==
  \E t \in Threads : User(t) \/ Proceeds(t) \/ WaitTimesOut(t) \/ PeerEnds(t)

LEMMA NextIsOpen == [Next]_vars => [OpenNext]_vars
<1>1. Replies \subseteq HookResults
  BY SetsAssumption
<1>2. \A t \in Threads : TaskEnds(t) => PeerEnds(t)
  BY <1>1 DEF TaskEnds, PeerEnds
<1> QED BY <1>2 DEF Next, OpenNext

LEMMA TypeStep == TypeInv /\ [OpenNext]_vars => TypeInv'
<1> USE DEF TypeInv
<1> SUFFICES ASSUME TypeInv, [OpenNext]_vars PROVE TypeInv'
  OBVIOUS
<1>1. CASE UNCHANGED vars
  BY <1>1 DEF TypeOK, FrameOK, vars, degrade, frame, TargetCandidates, Target
<1> SUFFICES ASSUME NEW t \in Threads,
                    User(t) \/ Proceeds(t) \/ WaitTimesOut(t) \/ PeerEnds(t)
             PROVE  TypeInv'
  BY <1>1 DEF OpenNext
<1> USE DEF TypeOK, FrameOK, TargetCandidates, Target
<1>2. ASSUME NEW r \in Requests, RewriteDeclines(t, r)
      PROVE  TypeInv'
  BY <1>2, SetsAssumption DEF RewriteDeclines, TakesConversion, Conversions, degrade, frame
<1>3. ASSUME NEW r \in Requests, RewriteBegins(t, r)
      PROVE  TypeInv'
  BY <1>3, SetsAssumption DEF RewriteBegins, TakesConversion, Declines, Conversions, degrade, frame
<1>4. ASSUME NEW pick \in Picks(t), Finish(t, pick)
      PROVE  TypeInv'
  <2>1. log' \in LogLines \cup {None} /\ pending' \in PendingLogs \cup {None}
    <3>1. CASE Enabled /\ LogEnabled /\ pending # None
      <4>1. pending \in PendingLogs /\ request[t] \in Requests
        BY <1>4, <3>1 DEF Finish
      <4>2. Chosen(t, pick) \in Surfaces
        BY <1>4, <4>1 DEF Picks, Chosen, PendingLogs
      <4>3. verdict[t] \in {"declined", "skipped", "failed", "reranked"}
        BY <1>4 DEF Finish
      <4>4. /\ log' = [pending |-> pending, chosen |-> Chosen(t, pick),
                       committed |-> request[t], verdict |-> verdict[t]]
            /\ pending' = None
        BY <1>4, <3>1 DEF Finish
      <4> QED BY <4>1, <4>2, <4>3, <4>4 DEF LogLines
    <3>2. CASE ~(Enabled /\ LogEnabled /\ pending # None)
      BY <1>4, <3>2 DEF Finish
    <3> QED BY <3>1, <3>2
  <2>2. TypeOK'
    BY <1>4, <2>1 DEF Finish, ConversionEnds, degrade, frame
  <2>3. \A u \in Threads : FrameOK(u)'
    BY <1>4 DEF Finish, ConversionEnds, frame
  <2> QED BY <2>2, <2>3
<1>5. CASE Clear(t)
  BY <1>5, SetsAssumption DEF Clear, ConversionEnds, degrade, frame
<1>6. CASE ReadsCap(t)
  <2>1. TargetCandidates(t) \in Seq(Surfaces) \ {<<>>}
    BY <1>6 DEF ReadsCap
  <2>2. EffectiveCandCap \in Nat \ {0}
    BY Limits DEF EffectiveCandCap, Smaller
  <2>3. nbest' = [nbest EXCEPT ![t] =
                    SubSeq(TargetCandidates(t), 1,
                           Smaller(EffectiveCandCap, Len(TargetCandidates(t))))]
    BY <1>6 DEF ReadsCap
  <2>4. nbest' \in [Threads -> Seq(Surfaces)] /\ nbest'[t] # <<>>
    BY <2>1, <2>2, <2>3, PrefixSent
  <2>5. TypeOK'
    BY <1>6, <2>4 DEF ReadsCap, degrade
  <2>6. \A u \in Threads : FrameOK(u)'
    BY <1>6, <2>3, <2>4 DEF ReadsCap
  <2> QED BY <2>5, <2>6
<1>7. CASE ReadsContext(t)
  BY <1>7, Limits DEF ReadsContext, EffectiveContextChars, degrade, frame
<1>8. CASE GuardSkips(t)
  <2>1. pending' \in PendingLogs
    <3>1. nbest[t] \in Seq(Surfaces) \ {<<>>} /\ request[t] \in Conversions
      BY <1>8, SetsAssumption DEF GuardSkips
    <3>2. nbest[t][1] \in Surfaces
      BY <3>1
    <3> QED BY <1>8, <3>1, <3>2 DEF GuardSkips, PendingLog, PendingLogs, Conversions
  <2>2. TypeOK'
    <3>1. /\ UNCHANGED <<degrade_tier, consecutive_timeouts, consecutive_ok>>
          /\ UNCHANGED <<request, segs, task, changed>> /\ log' = None
      BY <1>8 DEF GuardSkips, degrade
    <3>2. Returns(t, "skipped")
      BY <1>8 DEF GuardSkips
    <3> QED BY <2>1, <3>1, <3>2 DEF Returns
  <2>3. \A u \in Threads : FrameOK(u)'
    BY <1>8 DEF GuardSkips, Returns
  <2> QED BY <2>2, <2>3
<1>9. CASE CallStarts(t)
  BY <1>9 DEF CallStarts, degrade, frame
<1>10. ASSUME NEW reply \in HookResults, TaskAnswers(t, reply)
       PROVE  TypeInv'
  BY <1>10, SetsAssumption DEF TaskAnswers, degrade, frame
<1>11. CASE TaskFails(t)
  BY <1>11 DEF TaskFails, degrade, frame
<1>12. CASE WaitTimesOut(t)
  BY <1>12, NoteTypes DEF WaitTimesOut, frame
<1>13. CASE JoinsTask(t)
  <2>1. TypeOK'
    BY <1>13 DEF JoinsTask, Returns, degrade
  <2>2. \A u \in Threads : FrameOK(u)'
    BY <1>13 DEF JoinsTask, Returns
  <2> QED BY <2>1, <2>2
<1>14. CASE CallFails(t)
  <2>1. /\ degrade_tier' \in 0..MaxTier
        /\ consecutive_timeouts' \in 0..DegradeAfter
        /\ consecutive_ok' \in 0..DegradeAfter
    BY <1>14, NoteTypes DEF CallFails
  <2>2. TypeOK'
    BY <1>14, <2>1 DEF CallFails, Returns
  <2>3. \A u \in Threads : FrameOK(u)'
    BY <1>14 DEF CallFails, Returns
  <2> QED BY <2>2, <2>3
<1>15. CASE CallSucceeds(t)
  BY <1>15, NoteTypes DEF CallSucceeds, frame
<1>16. CASE AppliesResult(t)
  <2>1. Unjunked(result[t], nbest[t]) \in HookResults
    <3>1. result[t] \in HookResults /\ nbest[t] \in Seq(Surfaces) \ {<<>>}
      BY <1>16 DEF AppliesResult
    <3>2. nbest[t][1] \in Surfaces
      BY <3>1
    <3> QED BY <3>1, <3>2 DEF Unjunked, HookResults
  <2> QED BY <1>16, <2>1, SetsAssumption DEF AppliesResult, degrade, frame
<1>17. CASE FillsSlot(t)
  <2>1. CASE UNCHANGED <<segs, changed>>
    BY <1>17, <2>1 DEF FillsSlot, degrade, frame
  <2>2. ASSUME NEW found \in 1..Len(TargetCandidates(t)), slot[t] <= found,
               segs' = [segs EXCEPT ![t][Target(t)] =
                                      MoveCandidate(TargetCandidates(t), found, slot[t])],
               changed' = [changed EXCEPT ![t] = TRUE]
        PROVE  TypeInv'
    <3> DEFINE moved == MoveCandidate(TargetCandidates(t), found, slot[t])
    <3>1. /\ segs[t] \in Seq(Seq(Surfaces)) /\ Target(t) \in 1..Len(segs[t])
          /\ TargetCandidates(t) \in Seq(Surfaces)
      BY <1>17 DEF FillsSlot
    <3>2. moved \in Seq(Surfaces) /\ Len(moved) = Len(TargetCandidates(t))
      BY <2>2, <3>1, MoveCandidateList
    <3>3. /\ segs'[t] = [segs[t] EXCEPT ![Target(t)] = moved]
          /\ segs'[t] \in Seq(Seq(Surfaces)) /\ Len(segs'[t]) = Len(segs[t])
          /\ segs'[t][Target(t)] = moved
      BY <2>2, <3>1, <3>2, ExceptSeq
    <3>4. segs' \in [Threads -> Seq(Seq(Surfaces))]
      BY <2>2, <3>3
    <3>5. moved # <<>>
      BY <2>2, <3>2
    <3> HIDE DEF moved
    <3>6. TypeOK'
      <4>1. /\ UNCHANGED <<degrade_tier, consecutive_timeouts, consecutive_ok>>
            /\ UNCHANGED <<pending, pc, request, nbest, ctx, result, task, verdict>>
            /\ log' = None
        BY <1>17 DEF FillsSlot, degrade
      <4>2. slot' \in [Threads -> Nat]
        BY <1>17 DEF FillsSlot
      <4>3. changed' \in [Threads -> BOOLEAN]
        BY <2>2
      <4> QED BY <3>4, <4>1, <4>2, <4>3
    <3>7. FrameOK(t)'
      <4>1. segs'[t] # <<>> /\ segs'[t][Len(segs'[t])] # <<>>
        BY <3>1, <3>3, <3>5
      <4>2. slot'[t] # 0 /\ UNCHANGED <<pc, request, nbest, result, task, verdict>>
        BY <1>17 DEF FillsSlot
      <4> QED BY <4>1, <4>2
    <3>8. ASSUME NEW u \in Threads, u # t
          PROVE  FrameOK(u)'
      <4>1. segs'[u] = segs[u] /\ slot'[u] = slot[u]
        BY <1>17, <2>2, <3>8 DEF FillsSlot
      <4> QED BY <1>17, <4>1 DEF FillsSlot, degrade, frame
    <3> QED BY <3>6, <3>7, <3>8
  <2>3. CASE \E found \in slot[t]+1..Len(TargetCandidates(t)) :
               /\ segs' = [segs EXCEPT ![t][Target(t)] =
                                      MoveCandidate(TargetCandidates(t), found, slot[t])]
               /\ changed' = [changed EXCEPT ![t] = TRUE]
    <3>1. slot[t] \in Nat
      OBVIOUS
    <3>2. PICK found \in slot[t]+1..Len(TargetCandidates(t)) :
                 /\ segs' = [segs EXCEPT ![t][Target(t)] =
                                 MoveCandidate(TargetCandidates(t), found, slot[t])]
                 /\ changed' = [changed EXCEPT ![t] = TRUE]
      BY <2>3
    <3>3. found \in 1..Len(TargetCandidates(t)) /\ slot[t] <= found
      BY <3>1
    <3> HIDE DEF TypeInv, TypeOK, FrameOK, TargetCandidates, Target
    <3> QED BY <2>2, <3>2, <3>3
  <2> QED BY <1>17, <2>1, <2>3, SlotMove
<1>18. CASE StoresPending(t)
  <2>1. pending' \in PendingLogs
    <3>1. result[t] \in HookResults /\ request[t] \in Conversions
      BY <1>18, SetsAssumption DEF StoresPending
    <3> QED BY <1>18, <3>1 DEF StoresPending, PendingLog, PendingLogs, HookResults, Conversions
  <2>2. TypeOK'
    BY <1>18, <2>1 DEF StoresPending, Returns, degrade
  <2>3. \A u \in Threads : FrameOK(u)'
    BY <1>18, <2>1 DEF StoresPending, Returns
  <2> QED BY <2>2, <2>3
<1> QED
  BY <1>2, <1>3, <1>4, <1>5, <1>6, <1>7, <1>8, <1>9, <1>10, <1>11, <1>12,
     <1>13, <1>14, <1>15, <1>16, <1>17, <1>18 DEF User, Proceeds, PeerEnds

LEMMA TypeInvariant == Spec => []TypeInv
BY TypeInit, TypeStep, NextIsOpen, PTL DEF Spec

(* Every variable keeps its type: in particular no action reads a result,  *)
(* a candidate or a pending log that is not there.                         *)
THEOREM TypeCorrect == Spec => []TypeOK
<1>1. TypeInv => TypeOK
  BY DEF TypeInv
<1> QED BY <1>1, TypeInvariant, PTL

(* A call never outlives the Rewrite whose frame it writes into.           *)
THEOREM CallStaysWithinRewrite == Spec => []CallWithinRewrite
<1>1. TypeInv => CallWithinRewrite
  BY DEF TypeInv, FrameOK, CallWithinRewrite
<1> QED BY <1>1, TypeInvariant, PTL

--------------------------------------------------------------------------------
(* The order of the candidates.                                            *)

LastOffered(t) == Offered(t)[Len(Offered(t))]

(* Only the last segment is ever reordered, only in the loop, and each move*)
(* leaves a difference above the slot the loop has reached.                *)
OrderOK(t) ==
  request[t] # None =>
    /\ Len(segs[t]) = Len(Offered(t))
    /\ \A i \in 1..Len(segs[t])-1 : segs[t][i] = Offered(t)[i]
    /\ segs[t] # <<>> => IsRearrangement(LastOffered(t), TargetCandidates(t))
    /\ pc[t] \notin {"idle", "joining"} => verdict[t] = "none"
    /\ pc[t] \notin {"idle", "reorder"} => ~changed[t]
    /\ verdict[t] \in {"declined", "skipped", "failed"} => ~changed[t]
    /\ ~changed[t] => segs[t] = Offered(t)
    /\ changed[t] => /\ segs[t] # <<>>
                     /\ \E j \in 1..Len(TargetCandidates(t)) :
                          /\ pc[t] = "reorder" => j < slot[t]
                          /\ TargetCandidates(t)[j] # LastOffered(t)[j]

OrderInv == \A t \in Threads : OrderOK(t)

LEMMA SameListRearranged ==
  ASSUME NEW S, NEW cands \in Seq(S)
  PROVE  IsRearrangement(cands, cands)
<1> DEFINE p == [k \in 1..Len(cands) |-> k]
<1>1. p \in Reorderings(Len(cands))
  BY DEF Reorderings
<1> QED BY <1>1 DEF IsRearrangement

LEMMA OrderInit == Init => OrderInv
BY DEF Init, OrderInv, OrderOK

LEMMA OrderTaken ==
  ASSUME TypeInv, OrderInv, NEW t \in Threads, NEW r \in Requests,
         TakesConversion(t, r), pc' = pc \/ pc' = [pc EXCEPT ![t] = "cap"],
         verdict' \in {[verdict EXCEPT ![t] = "declined"], [verdict EXCEPT ![t] = "none"]},
         pc'[t] # "idle" => verdict'[t] = "none",
         slot' = slot
  PROVE  OrderInv'
<1>1. request'[t] = r /\ segs'[t] = r.segs /\ changed'[t] = FALSE
  BY DEF TypeInv, TypeOK, TakesConversion
<1>2. r.segs \in Seq(Seq(Surfaces)) /\ r # None
  BY SetsAssumption DEF Conversions
<1>3. r.segs # <<>> => IsRearrangement(r.segs[Len(r.segs)], r.segs[Len(r.segs)])
  BY <1>2, SameListRearranged
<1>4. OrderOK(t)'
  BY <1>1, <1>2, <1>3 DEF OrderOK, Offered, LastOffered, TargetCandidates, Target
<1>5. ASSUME NEW u \in Threads, u # t
      PROVE  OrderOK(u)'
  BY <1>5 DEF OrderInv, OrderOK, Offered, LastOffered, TargetCandidates, Target,
              TakesConversion, TypeInv, TypeOK
<1> QED BY <1>4, <1>5 DEF OrderInv

(* A move at slot to of the last segment.                                  *)
LEMMA OrderMoved ==
  ASSUME TypeInv, OrderInv, NEW t \in Threads, FillsSlot(t),
         NEW found \in slot[t]+1..Len(TargetCandidates(t)),
         TargetCandidates(t)[found] # TargetCandidates(t)[slot[t]],
         segs' = [segs EXCEPT ![t][Target(t)] =
                                MoveCandidate(TargetCandidates(t), found, slot[t])],
         changed' = [changed EXCEPT ![t] = TRUE]
  PROVE  OrderInv'
<1> DEFINE cands == TargetCandidates(t)
           moved == MoveCandidate(cands, found, slot[t])
           s == slot[t]
<1>1. /\ segs[t] \in Seq(Seq(Surfaces)) /\ segs[t] # <<>>
      /\ cands \in Seq(Surfaces) /\ s \in Nat \ {0}
      /\ pc[t] = "reorder" /\ request[t] # None
  BY DEF TypeInv, TypeOK, FrameOK, FillsSlot, TargetCandidates, Target
<1>2. found \in 1..Len(cands) /\ s \in 1..found /\ s \in 1..Len(cands)
  BY <1>1
<1>3. /\ moved \in Seq(Surfaces) /\ Len(moved) = Len(cands)
      /\ moved[s] = cands[found]
      /\ \A k \in 1..s-1 : moved[k] = cands[k]
  BY <1>1, <1>2, MoveCandidateList
<1>4. /\ segs'[t] = [segs[t] EXCEPT ![Target(t)] = moved]
      /\ Len(segs'[t]) = Len(segs[t]) /\ segs'[t] # <<>>
      /\ TargetCandidates(t)' = moved
      /\ \A i \in 1..Len(segs[t])-1 : segs'[t][i] = segs[t][i]
  <2>1. segs'[t] = [segs[t] EXCEPT ![Target(t)] = moved]
    BY DEF TypeInv, TypeOK
  <2>2. Target(t) \in 1..Len(segs[t])
    BY <1>1 DEF Target
  <2> QED BY <1>1, <1>3, <2>1, <2>2, ExceptSeq DEF TargetCandidates, Target
<1>5. OrderOK(t)'
  <2>1. /\ Len(segs[t]) = Len(Offered(t))
        /\ \A i \in 1..Len(segs[t])-1 : segs[t][i] = Offered(t)[i]
        /\ IsRearrangement(LastOffered(t), cands)
        /\ verdict[t] = "none"
        /\ ~changed[t] => segs[t] = Offered(t)
        /\ changed[t] => \E j \in 1..Len(cands) :
                            j < s /\ cands[j] # LastOffered(t)[j]
    BY <1>1 DEF OrderInv, OrderOK
  <2>2. LastOffered(t) \in Seq(Surfaces)
    <3>1. Offered(t) \in Seq(Seq(Surfaces)) /\ Offered(t) # <<>>
      BY <1>1, <2>1, SetsAssumption DEF Offered, TypeInv, TypeOK, Conversions
    <3> QED BY <3>1 DEF LastOffered
  <2>3. IsRearrangement(LastOffered(t), moved)
    BY <1>1, <1>2, <2>1, <2>2, MoveCandidateRearranges
  <2>4. \E j \in 1..Len(cands) : j < s+1 /\ moved[j] # LastOffered(t)[j]
    <3>1. CASE changed[t]
      <4>1. PICK j \in 1..Len(cands) : j < s /\ cands[j] # LastOffered(t)[j]
        BY <2>1, <3>1
      <4>2. j < s+1 /\ moved[j] = cands[j]
        BY <1>1, <1>3, <4>1
      <4> QED BY <4>1, <4>2
    <3>2. CASE ~changed[t]
      <4>1. cands = LastOffered(t)
        BY <2>1, <3>2 DEF LastOffered, TargetCandidates, Target
      <4> QED BY <1>1, <1>2, <1>3, <4>1
    <3> QED BY <3>1, <3>2 DEF TypeInv, TypeOK
  <2>5. /\ request'[t] = request[t] /\ Offered(t)' = Offered(t)
        /\ LastOffered(t)' = LastOffered(t)
        /\ pc'[t] = "reorder" /\ verdict'[t] = "none" /\ slot'[t] = s+1
        /\ changed'[t] = TRUE
    BY <1>1, <2>1 DEF FillsSlot, Offered, LastOffered, TypeInv, TypeOK
  <2>6. /\ Len(segs'[t]) = Len(Offered(t)')
        /\ \A i \in 1..Len(segs'[t])-1 : segs'[t][i] = Offered(t)'[i]
    BY <1>4, <2>1, <2>5
  <2>7. IsRearrangement(LastOffered(t)', TargetCandidates(t)')
    BY <1>4, <2>3, <2>5
  <2>8. \E j \in 1..Len(TargetCandidates(t)') :
          /\ pc'[t] = "reorder" => j < slot'[t]
          /\ TargetCandidates(t)'[j] # LastOffered(t)'[j]
    BY <1>3, <1>4, <2>4, <2>5
  <2> QED BY <1>4, <2>5, <2>6, <2>7, <2>8 DEF OrderOK
<1>6. ASSUME NEW u \in Threads, u # t
      PROVE  OrderOK(u)'
  <2>1. /\ segs'[u] = segs[u] /\ changed'[u] = changed[u] /\ slot'[u] = slot[u]
        /\ UNCHANGED <<pc, request, verdict>>
    BY <1>6 DEF FillsSlot, TypeInv, TypeOK
  <2>2. OrderOK(u)
    BY DEF OrderInv
  <2>3. /\ Offered(u)' = Offered(u) /\ LastOffered(u)' = LastOffered(u)
        /\ TargetCandidates(u)' = TargetCandidates(u)
    BY <2>1 DEF Offered, LastOffered, TargetCandidates, Target
  <2> QED BY <2>1, <2>2, <2>3 DEF OrderOK
<1> QED BY <1>5, <1>6 DEF OrderInv

(* A step of one thread that moves no candidate.                           *)
Quiet(t) ==
  /\ UNCHANGED <<request, segs, changed>>
  /\ \A u \in Threads \ {t} :
       pc'[u] = pc[u] /\ verdict'[u] = verdict[u] /\ slot'[u] = slot[u]
  /\ pc'[t] \notin {"idle", "joining"} => verdict'[t] = "none"
  /\ pc'[t] \notin {"idle", "reorder"} => ~changed[t]
  /\ verdict'[t] \in {"declined", "skipped", "failed"} => ~changed[t]
  /\ (pc'[t] = "reorder" /\ changed[t]) =>
       pc[t] = "reorder" /\ slot'[t] \in {slot[t], slot[t] + 1}

LEMMA OrderQuiet ==
  ASSUME TypeInv, OrderInv, NEW t \in Threads, Quiet(t)
  PROVE  OrderInv'
<1>1. ASSUME NEW u \in Threads \ {t}
      PROVE  OrderOK(u)'
  BY DEF Quiet, OrderInv, OrderOK, Offered, LastOffered, TargetCandidates, Target
<1>2. OrderOK(t)'
  <2> SUFFICES ASSUME request[t] # None PROVE OrderOK(t)'
    BY DEF OrderOK, Quiet
  <2>1. OrderOK(t) /\ slot[t] \in Nat
    BY DEF OrderInv, TypeInv, TypeOK
  <2>2. /\ Offered(t)' = Offered(t) /\ LastOffered(t)' = LastOffered(t)
        /\ segs'[t] = segs[t] /\ TargetCandidates(t)' = TargetCandidates(t)
    BY DEF Quiet, Offered, LastOffered, TargetCandidates, Target
  <2>3. changed'[t] =>
          \E j \in 1..Len(TargetCandidates(t)) :
             /\ pc'[t] = "reorder" => j < slot'[t]
             /\ TargetCandidates(t)[j] # LastOffered(t)[j]
    <3> SUFFICES ASSUME changed[t]
                 PROVE  \E j \in 1..Len(TargetCandidates(t)) :
                          /\ pc'[t] = "reorder" => j < slot'[t]
                          /\ TargetCandidates(t)[j] # LastOffered(t)[j]
      BY DEF Quiet
    <3>1. PICK j \in 1..Len(TargetCandidates(t)) :
                 /\ pc[t] = "reorder" => j < slot[t]
                 /\ TargetCandidates(t)[j] # LastOffered(t)[j]
      BY <2>1 DEF OrderOK
    <3>2. pc'[t] = "reorder" => j < slot'[t]
      BY <2>1, <3>1 DEF Quiet
    <3> QED BY <3>1, <3>2
  <2> QED BY <2>1, <2>2, <2>3 DEF OrderOK, Quiet
<1> QED BY <1>1, <1>2 DEF OrderInv

LEMMA OrderStep == TypeInv /\ OrderInv /\ [OpenNext]_vars => OrderInv'
<1> SUFFICES ASSUME TypeInv, OrderInv, [OpenNext]_vars PROVE OrderInv'
  OBVIOUS
<1>1. CASE UNCHANGED vars
  BY <1>1 DEF OrderInv, OrderOK, Offered, LastOffered, TargetCandidates, Target,
              vars, frame
<1> SUFFICES ASSUME NEW t \in Threads,
                    User(t) \/ Proceeds(t) \/ WaitTimesOut(t) \/ PeerEnds(t)
             PROVE  OrderInv'
  BY <1>1 DEF OpenNext
<1>2. ASSUME NEW r \in Requests, RewriteDeclines(t, r) \/ RewriteBegins(t, r)
      PROVE  OrderInv'
  <2>1. /\ TakesConversion(t, r)
        /\ pc' = pc \/ pc' = [pc EXCEPT ![t] = "cap"]
        /\ verdict' \in {[verdict EXCEPT ![t] = "declined"],
                         [verdict EXCEPT ![t] = "none"]}
        /\ slot' = slot
    BY <1>2 DEF RewriteDeclines, RewriteBegins, frame
  <2>2. pc'[t] # "idle" => verdict'[t] = "none"
    BY <1>2 DEF RewriteDeclines, RewriteBegins, TakesConversion, TypeInv, TypeOK
  <2> QED BY <2>1, <2>2, OrderTaken
<1>3. CASE ConversionEnds(t) /\ UNCHANGED <<pc, frame>>
  <2>1. request'[t] = None
    BY <1>3 DEF ConversionEnds, TypeInv, TypeOK
  <2>2. ASSUME NEW u \in Threads, u # t
        PROVE  OrderOK(u)'
    BY <1>3, <2>2 DEF OrderInv, OrderOK, Offered, LastOffered, TargetCandidates,
                      Target, ConversionEnds, TypeInv, TypeOK, frame
  <2> QED BY <2>1, <2>2 DEF OrderInv, OrderOK
<1>4. CASE FillsSlot(t)
  <2>1. CASE UNCHANGED <<segs, changed>>
    <3>1. OrderOK(t) /\ request[t] # None
      BY <1>4 DEF FillsSlot, TypeInv, FrameOK, OrderInv
    <3>2. Quiet(t)
      BY <1>4, <2>1, <3>1 DEF FillsSlot, Quiet, OrderOK, TypeInv, TypeOK
    <3> QED BY <3>2, OrderQuiet
  <2>2. CASE \E found \in slot[t]+1..Len(TargetCandidates(t)) :
               /\ TargetCandidates(t)[found] # TargetCandidates(t)[slot[t]]
               /\ segs' = [segs EXCEPT ![t][Target(t)] =
                             MoveCandidate(TargetCandidates(t), found, slot[t])]
               /\ changed' = [changed EXCEPT ![t] = TRUE]
    BY <1>4, <2>2, OrderMoved
  <2> QED BY <1>4, <2>1, <2>2, SlotMove
<1>5. CASE /\ ~ \E r \in Requests : RewriteDeclines(t, r) \/ RewriteBegins(t, r)
           /\ ~ (ConversionEnds(t) /\ UNCHANGED <<pc, frame>>)
           /\ ~FillsSlot(t)
  <2> SUFFICES Quiet(t)
    BY OrderQuiet
  <2>1. ~ (\E pick \in Picks(t) : Finish(t, pick)) /\ ~Clear(t)
    BY <1>5 DEF Finish, Clear
  <2>2. OrderOK(t) /\ FrameOK(t)
    BY DEF OrderInv, TypeInv
  <2>3. CASE ReadsCap(t) \/ ReadsContext(t) \/ CallStarts(t) \/ CallSucceeds(t)
    BY <2>2, <2>3 DEF ReadsCap, ReadsContext, CallStarts, CallSucceeds,
                      Quiet, OrderOK, FrameOK, frame, TypeInv, TypeOK
  <2>4. ASSUME NEW how \in {"skipped", "failed", "reranked"}, Returns(t, how),
               UNCHANGED <<request, segs, changed>>,
               how # "reranked" => pc[t] \notin {"idle", "reorder"},
               pc[t] # "idle"
        PROVE  Quiet(t)
    BY <2>2, <2>4 DEF Returns, Quiet, OrderOK, FrameOK, TypeInv, TypeOK
  <2>5. CASE PeerEnds(t)
    BY <2>2, <2>5 DEF PeerEnds, TaskFails, TaskAnswers,
                      Quiet, OrderOK, FrameOK, frame, TypeInv, TypeOK
  <2>6. CASE WaitTimesOut(t) \/ AppliesResult(t)
    BY <2>2, <2>6 DEF WaitTimesOut, AppliesResult,
                      Quiet, OrderOK, FrameOK, frame, TypeInv, TypeOK
  <2>7. CASE GuardSkips(t) \/ JoinsTask(t) \/ CallFails(t) \/ StoresPending(t)
    BY <2>4, <2>7 DEF GuardSkips, JoinsTask, CallFails, StoresPending
  <2> QED BY <1>5, <2>1, <2>3, <2>5, <2>6, <2>7 DEF User, Proceeds
<1> QED BY <1>2, <1>3, <1>4, <1>5

LEMMA OrderInvariant == Spec => []OrderInv
BY OrderInit, OrderStep, NextIsOpen, TypeInvariant, PTL DEF Spec

(* No candidate is lost, doubled or invented, and no other segment is      *)
(* touched, whatever the peer answers.                                     *)
THEOREM CandidatesAreKept == Spec => []CandidatesKept
<1>1. TypeInv /\ OrderInv => CandidatesKept
  <2> SUFFICES ASSUME TypeInv, OrderInv, NEW t \in Threads, request[t] # None,
                      NEW i \in 1..Len(segs[t])
               PROVE  /\ Len(segs[t]) = Len(Offered(t))
                      /\ IF i = Len(segs[t])
                         THEN IsRearrangement(Offered(t)[i], segs[t][i])
                         ELSE segs[t][i] = Offered(t)[i]
    BY DEF CandidatesKept, OrderInv, OrderOK
  <2>1. segs[t] \in Seq(Seq(Surfaces)) /\ OrderOK(t)
    BY DEF TypeInv, TypeOK, OrderInv
  <2>2. segs[t] # <<>>
    BY <2>1
  <2> QED BY <2>1, <2>2 DEF OrderOK, LastOffered, TargetCandidates, Target
<1> QED BY <1>1, TypeInvariant, OrderInvariant, PTL

(* A Rewrite that got no answer in time, or asked for none, leaves Mozc's  *)
(* order.                                                                  *)
THEOREM FailSafe == Spec => []FailSafeOrder
<1>1. TypeInv /\ OrderInv => FailSafeOrder
  BY DEF TypeInv, TypeOK, OrderInv, OrderOK, FailSafeOrder
<1> QED BY <1>1, TypeInvariant, OrderInvariant, PTL

(* Rewrite returns true exactly if the user will see another order.        *)
THEOREM ReturnIsTruthful == Spec => []ReturnTellsChange
<1>1. TypeInv /\ OrderInv => ReturnTellsChange
  <2> SUFFICES ASSUME TypeInv, OrderInv, NEW t \in Threads, request[t] # None
               PROVE  changed[t] <=> segs[t] # Offered(t)
    BY DEF ReturnTellsChange
  <2>1. OrderOK(t) /\ changed[t] \in BOOLEAN
    BY DEF OrderInv, TypeInv, TypeOK
  <2>2. changed[t] => TargetCandidates(t) # LastOffered(t)
    BY <2>1 DEF OrderOK
  <2>3. segs[t] = Offered(t) => TargetCandidates(t) = LastOffered(t)
    BY DEF TargetCandidates, Target, LastOffered
  <2> QED BY <2>1, <2>2, <2>3 DEF OrderOK
<1> QED BY <1>1, TypeInvariant, OrderInvariant, PTL

--------------------------------------------------------------------------------
(* Switching off.                                                          *)

(* The tier that switches the calls off, and the threads whose call may    *)
(* still be counted when it is reached: under the guard those that had     *)
(* read a context before, without it those that had passed                 *)
(* DegradeDisabled.                                                        *)
OffTier == IF GuardOn THEN 3 ELSE MaxTier

MayCall ==
  {t \in Threads : IF GuardOn
                   THEN pc[t] = "waiting" \/ (pc[t] = "guard" /\ ctx[t] # 0)
                   ELSE pc[t] \in {"cap", "context", "guard", "waiting"}}

(* The thread whose timeout switched the calls off is not among them, and  *)
(* each of them counts once: too few are left to change the tier again.    *)
OffInv ==
  (SwitchedOff /\ Cardinality(Threads) <= DegradeAfter) =>
    /\ degrade_tier = OffTier
    /\ consecutive_timeouts + Cardinality(MayCall) < Cardinality(Threads)
    /\ consecutive_ok + Cardinality(MayCall) < Cardinality(Threads)

LEMMA Threads_Finite ==
  /\ IsFiniteSet(Threads) /\ Cardinality(Threads) \in Nat
  /\ IsFiniteSet(MayCall) /\ Cardinality(MayCall) \in Nat
<1>1. IsFiniteSet(Threads)
  BY SetsAssumption
<1>2. MayCall \subseteq Threads
  BY DEF MayCall
<1>3. IsFiniteSet(MayCall)
  BY <1>1, <1>2, FS_Subset
<1> QED BY <1>1, <1>3, FS_CardinalityType

LEMMA OffInit == Init => OffInv
BY DEF Init, OffInv, SwitchedOff, MaxTier

(* A step that notes no outcome lets no thread in.                         *)
LEMMA OffQuiet ==
  ASSUME TypeInv, OffInv, UNCHANGED degrade,
         SwitchedOff => MayCall' \subseteq MayCall
  PROVE  OffInv'
<1> SUFFICES ASSUME SwitchedOff, Cardinality(Threads) <= DegradeAfter
             PROVE  OffInv'
  BY DEF OffInv, SwitchedOff, degrade
<1>1. Cardinality(MayCall') \in Nat /\ Cardinality(MayCall') <= Cardinality(MayCall)
  BY Threads_Finite, FS_Subset, FS_CardinalityType
<1>2. consecutive_timeouts \in Nat /\ consecutive_ok \in Nat
  BY Limits DEF TypeInv, TypeOK
<1> QED BY <1>1, <1>2, Threads_Finite DEF OffInv, SwitchedOff, degrade

(* The step that notes an outcome takes its thread out.                    *)
LEMMA OffNoted ==
  ASSUME TypeInv, OffInv, NEW t \in Threads, NoteTimeout \/ NoteSuccess,
         t \in MayCall, MayCall' = MayCall \ {t}
  PROVE  /\ OffInv'
         /\ (SwitchedOff /\ Cardinality(Threads) <= DegradeAfter) => SwitchedOff'
<1>1. /\ Cardinality(MayCall') \in Nat
      /\ Cardinality(MayCall') = Cardinality(MayCall) - 1
      /\ Cardinality(MayCall) <= Cardinality(Threads)
  BY Threads_Finite, FS_RemoveElement, FS_CardinalityType, FS_Subset DEF MayCall
<1>2. /\ consecutive_timeouts \in Nat /\ consecutive_ok \in Nat
      /\ degrade_tier \in 0..4 /\ DegradeAfter \in Nat \ {0}
  BY Limits DEF TypeInv, TypeOK, MaxTier
<1>3. CASE SwitchedOff /\ Cardinality(Threads) <= DegradeAfter
  <2>1. /\ consecutive_timeouts + 1 < DegradeAfter
        /\ consecutive_ok + 1 < DegradeAfter
    BY <1>1, <1>2, <1>3, Threads_Finite DEF OffInv
  <2>2. /\ degrade_tier' = degrade_tier
        /\ consecutive_timeouts' \in {0, consecutive_timeouts + 1}
        /\ consecutive_ok' \in {0, consecutive_ok + 1}
    BY <1>2, <2>1 DEF NoteTimeout, NoteSuccess, Counted, Smaller
  <2> QED BY <1>1, <1>2, <1>3, <2>2, Threads_Finite DEF OffInv, SwitchedOff
<1>4. CASE ~SwitchedOff /\ SwitchedOff'
  <2>1. NoteTimeout /\ degrade_tier' = degrade_tier + 1
    BY <1>2, <1>4 DEF NoteTimeout, NoteSuccess, SwitchedOff, MaxTier
  <2>2. consecutive_timeouts' = 0 /\ consecutive_ok' = 0
    BY <1>2, <2>1 DEF NoteTimeout
  <2>3. degrade_tier' = OffTier
    BY <1>2, <1>4, <2>1 DEF SwitchedOff, OffTier, MaxTier
  <2> QED BY <1>1, <1>4, <2>2, <2>3, Threads_Finite DEF OffInv
<1> QED BY <1>3, <1>4 DEF OffInv

LEMMA OffStep ==
  TypeInv /\ OffInv /\ [Next]_vars =>
    /\ OffInv'
    /\ (SwitchedOff /\ Cardinality(Threads) <= DegradeAfter) => SwitchedOff'
<1> SUFFICES ASSUME TypeInv, OffInv, [Next]_vars
             PROVE  /\ OffInv'
                    /\ (SwitchedOff /\ Cardinality(Threads) <= DegradeAfter)
                         => SwitchedOff'
  OBVIOUS
<1>1. CASE UNCHANGED degrade /\ (SwitchedOff => MayCall' \subseteq MayCall)
  BY <1>1, OffQuiet DEF SwitchedOff, degrade
<1>2. CASE UNCHANGED vars
  BY <1>1, <1>2 DEF vars, frame, MayCall
<1> SUFFICES ASSUME NEW t \in Threads,
                    User(t) \/ Proceeds(t) \/ WaitTimesOut(t) \/ TaskEnds(t)
             PROVE  /\ OffInv'
                    /\ (SwitchedOff /\ Cardinality(Threads) <= DegradeAfter)
                         => SwitchedOff'
  BY <1>2 DEF Next
<1>3. CASE WaitTimesOut(t) \/ CallFails(t) \/ CallSucceeds(t)
  <2>1. NoteTimeout \/ NoteSuccess
    BY <1>3 DEF WaitTimesOut, CallFails, CallSucceeds
  <2>2. t \in MayCall
    BY <1>3 DEF WaitTimesOut, CallFails, CallSucceeds, MayCall
  <2>3. /\ \A u \in Threads \ {t} : pc'[u] = pc[u] /\ ctx'[u] = ctx[u]
        /\ pc'[t] \in {"joining", "idle", "apply"}
    BY <1>3 DEF WaitTimesOut, CallFails, CallSucceeds, Returns, frame, TypeInv, TypeOK
  <2>4. MayCall' = MayCall \ {t}
    BY <2>3 DEF MayCall
  <2> QED BY <2>1, <2>2, <2>4, OffNoted
<1>4. CASE (\E r \in Requests : RewriteBegins(t, r)) \/ ReadsCap(t) \/ ReadsContext(t)
             \/ CallStarts(t)
  <2>1. UNCHANGED degrade
    BY <1>4 DEF RewriteBegins, ReadsCap, ReadsContext, CallStarts
  <2>2. \A u \in Threads \ {t} : pc'[u] = pc[u] /\ ctx'[u] = ctx[u]
    BY <1>4 DEF RewriteBegins, ReadsCap, ReadsContext, CallStarts, frame, TypeInv, TypeOK
  <2>3. ASSUME SwitchedOff, t \in MayCall'
        PROVE  t \in MayCall
    <3>1. CASE GuardOn
      <4>1. CASE \E r \in Requests : RewriteBegins(t, r)
        BY <2>3, <3>1, <4>1 DEF RewriteBegins, MayCall, TypeInv, TypeOK
      <4>2. CASE ReadsCap(t)
        BY <2>3, <3>1, <4>2 DEF ReadsCap, MayCall, TypeInv, TypeOK
      <4>3. CASE ReadsContext(t)
        BY <2>3, <3>1, <4>3
           DEF ReadsContext, EffectiveContextChars, SwitchedOff, MayCall, TypeInv, TypeOK
      <4>4. CASE CallStarts(t)
        BY <2>3, <3>1, <4>4 DEF CallStarts, RerankSkips, HasContext, MayCall, TypeInv, TypeOK
      <4> QED BY <1>4, <4>1, <4>2, <4>3, <4>4
    <3>2. CASE ~GuardOn
      BY <1>4, <2>3, <3>2
         DEF RewriteBegins, Declines, DegradeDisabled, ReadsCap, ReadsContext,
             CallStarts, SwitchedOff, MayCall, TypeInv, TypeOK
    <3> QED BY <3>1, <3>2, FlagsAssumption
  <2>4. SwitchedOff => MayCall' \subseteq MayCall
    BY <2>2, <2>3 DEF MayCall
  <2> QED BY <1>1, <2>1, <2>4
<1>5. CASE /\ UNCHANGED degrade
           /\ \A u \in Threads \ {t} : pc'[u] = pc[u] /\ ctx'[u] = ctx[u]
           /\ \/ pc'[t] = pc[t] /\ ctx'[t] = ctx[t]
              \/ pc'[t] \in {"idle", "reorder"}
  <2>1. MayCall' \subseteq MayCall
    BY <1>5 DEF MayCall
  <2> QED BY <1>1, <1>5, <2>1
<1>6. CASE (\E r \in Requests : RewriteDeclines(t, r))
           \/ (\E pick \in Picks(t) : Finish(t, pick)) \/ Clear(t)
  BY <1>5, <1>6 DEF RewriteDeclines, Finish, Clear, frame
<1>7. CASE TaskEnds(t)
  BY <1>5, <1>7 DEF TaskEnds, TaskFails, TaskAnswers, frame
<1>8. CASE GuardSkips(t) \/ JoinsTask(t) \/ StoresPending(t)
  BY <1>5, <1>8 DEF GuardSkips, JoinsTask, StoresPending, Returns, TypeInv, TypeOK
<1>9. CASE AppliesResult(t) \/ FillsSlot(t)
  BY <1>5, <1>9 DEF AppliesResult, FillsSlot, TypeInv, TypeOK
<1> QED BY <1>3, <1>4, <1>6, <1>7, <1>8, <1>9 DEF User, Proceeds

LEMMA OffInvariant == Spec => []OffInv
<1>1. TypeInv /\ OffInv /\ [Next]_vars => OffInv'
  BY OffStep
<1> QED BY <1>1, OffInit, TypeInvariant, PTL DEF Spec

(* Under the guard the last tier is never reached.                         *)
THEOREM GuardNeverReachesTierFour == Spec => []GuardStopsAtTierThree
<1>1. TypeInv /\ OffInv => GuardStopsAtTierThree
  BY DEF TypeInv, TypeOK, OffInv, OffTier, SwitchedOff, GuardStopsAtTierThree, MaxTier
<1> QED BY <1>1, TypeInvariant, OffInvariant, PTL

(* Once switched off, the rewriter is never switched on again.             *)
THEOREM OnceOffAlwaysOff == Spec => OffForGood
<1>1. TypeInv /\ OffInv /\ [Next]_vars =>
        [(SwitchedOff /\ Cardinality(Threads) <= DegradeAfter) => SwitchedOff']_vars
  BY OffStep
<1> QED BY <1>1, TypeInvariant, OffInvariant, PTL DEF Spec, OffForGood

--------------------------------------------------------------------------------
(* What is sent.                                                           *)

(* What is sent of a conversion are its first candidates, as Mozc ordered  *)
(* them: the cap is read before anything is moved.                         *)
SentOK(t) ==
  (pc[t] \notin {"idle", "cap"}) =>
    /\ Len(nbest[t]) <= Len(LastOffered(t))
    /\ nbest[t] = SubSeq(LastOffered(t), 1, Len(nbest[t]))

SentInv == \A t \in Threads : SentOK(t)

LEMMA SentInit == Init => SentInv
BY DEF Init, SentInv, SentOK

LEMMA SentStep == TypeInv /\ OrderInv /\ SentInv /\ [OpenNext]_vars => SentInv'
<1> SUFFICES ASSUME TypeInv, OrderInv, SentInv, [OpenNext]_vars PROVE SentInv'
  OBVIOUS
<1>1. CASE UNCHANGED vars
  BY <1>1 DEF vars, frame, SentInv, SentOK, LastOffered, Offered
<1> SUFFICES ASSUME NEW t \in Threads,
                    User(t) \/ Proceeds(t) \/ WaitTimesOut(t) \/ PeerEnds(t)
             PROVE  SentInv'
  BY <1>1 DEF OpenNext
<1>2. TypeOK /\ FrameOK(t) /\ OrderOK(t)
  BY DEF TypeInv, OrderInv
<1>3. ASSUME pc'[t] \in {"idle", "cap"},
             \A u \in Threads \ {t} : /\ pc'[u] = pc[u] /\ nbest'[u] = nbest[u]
                                      /\ request'[u] = request[u]
      PROVE  SentInv'
  BY <1>3 DEF SentInv, SentOK, LastOffered, Offered
<1>4. ASSUME UNCHANGED <<request, nbest>>, pc[t] \notin {"idle", "cap"},
             \A u \in Threads \ {t} : pc'[u] = pc[u]
      PROVE  SentInv'
  BY <1>4 DEF SentInv, SentOK, LastOffered, Offered
<1> USE DEF TypeOK
<1>5. CASE User(t)
  BY <1>2, <1>3, <1>5 DEF User, RewriteDeclines, RewriteBegins, TakesConversion,
                          Finish, Clear, ConversionEnds, frame
<1>6. CASE GuardSkips(t) \/ JoinsTask(t) \/ CallFails(t) \/ StoresPending(t)
  BY <1>2, <1>3, <1>6 DEF GuardSkips, JoinsTask, CallFails, StoresPending, Returns
<1>7. CASE ReadsContext(t) \/ CallStarts(t) \/ CallSucceeds(t) \/ AppliesResult(t)
             \/ FillsSlot(t) \/ WaitTimesOut(t) \/ PeerEnds(t)
  BY <1>2, <1>4, <1>7 DEF ReadsContext, CallStarts, CallSucceeds, AppliesResult,
                          FillsSlot, WaitTimesOut, PeerEnds, TaskFails, TaskAnswers,
                          frame, FrameOK
<1>8. CASE ReadsCap(t)
  <2> DEFINE cut == Smaller(EffectiveCandCap, Len(LastOffered(t)))
  <2>1. /\ nbest' = [nbest EXCEPT ![t] =
                       SubSeq(TargetCandidates(t), 1,
                              Smaller(EffectiveCandCap, Len(TargetCandidates(t))))]
        /\ UNCHANGED request
        /\ \A u \in Threads \ {t} : pc'[u] = pc[u]
    BY <1>2, <1>8 DEF ReadsCap
  <2>2. TargetCandidates(t) = LastOffered(t) /\ TargetCandidates(t) \in Seq(Surfaces)
    <3>1. segs[t] = Offered(t) /\ segs[t] # <<>>
      BY <1>2, <1>8 DEF ReadsCap, OrderOK, FrameOK
    <3> QED BY <1>2, <3>1 DEF TargetCandidates, Target, LastOffered
  <2>3. Len(SubSeq(LastOffered(t), 1, cut)) = cut /\ cut <= Len(LastOffered(t))
    <3>1. EffectiveCandCap \in Nat \ {0} /\ Len(LastOffered(t)) \in Nat
      BY <2>2, Limits DEF EffectiveCandCap, Smaller
    <3>2. cut \in 0..Len(LastOffered(t))
      BY <3>1 DEF Smaller
    <3> HIDE DEF cut
    <3> QED BY <2>2, <3>1, <3>2
  <2>4. /\ nbest'[t] = SubSeq(LastOffered(t), 1, Len(nbest'[t]))
        /\ Len(nbest'[t]) <= Len(LastOffered(t))
    BY <1>2, <2>1, <2>2, <2>3
  <2>5. ASSUME NEW u \in Threads \ {t}
        PROVE  SentOK(u)'
    BY <1>2, <2>1 DEF SentInv, SentOK, LastOffered, Offered
  <2> QED BY <2>1, <2>4, <2>5 DEF SentInv, SentOK, LastOffered, Offered
<1> QED BY <1>5, <1>6, <1>7, <1>8 DEF Proceeds

--------------------------------------------------------------------------------
(* The tiers follow the outcomes of the calls.                             *)

(* The last n of a list are all o.                                         *)
LastAre(list, o, n) ==
  /\ n <= Len(list)
  /\ \A i \in Len(list) - n + 1 .. Len(list) : list[i] = o

(* Noting an outcome makes its run longer, by one and no more, up to the   *)
(* limit, and ends the run of any other.                                   *)
LEMMA Noted ==
  ASSUME NEW S, NEW list \in Seq(S), Len(list) <= DegradeAfter, NEW o \in S
  PROVE  /\ Latest(Append(list, o)) \in Seq(S)
         /\ Len(Latest(Append(list, o))) <= DegradeAfter
         /\ \A n \in Nat : LastAre(list, o, n)
              => LastAre(Latest(Append(list, o)), o, Counted(n))
         /\ \A n \in Nat : LastAre(Latest(Append(list, o)), o, n + 1)
              => LastAre(list, o, n)
         /\ \A p : p # o => \A n \in Nat \ {0} : ~ LastAre(Latest(Append(list, o)), p, n)
<1> DEFINE longer == Append(list, o)
           new == Latest(longer)
<1>1. /\ longer \in Seq(S) /\ Len(longer) = Len(list) + 1 /\ longer # <<>>
      /\ \A i \in 1..Len(list) : longer[i] = list[i]
      /\ longer[Len(list) + 1] = o
      /\ Len(list) \in Nat
  BY AppendProperties, LenProperties
<1> HIDE DEF longer
<1>2. PICK d \in {0, 1} :
        /\ new \in Seq(S) /\ Len(new) = Len(list) + 1 - d
        /\ \A i \in 1..Len(new) : new[i] = longer[i + d]
        /\ d = IF Len(list) = DegradeAfter THEN 1 ELSE 0
  <2>1. CASE Len(list) = DegradeAfter
    <3>1. new = Tail(longer)
      BY <1>1, <2>1, Limits DEF Latest
    <3>2. /\ Tail(longer) \in Seq(S) /\ Len(Tail(longer)) = Len(longer) - 1
          /\ \A i \in 1..Len(Tail(longer)) : Tail(longer)[i] = longer[i + 1]
      BY <1>1, HeadTailProperties
    <3> QED BY <1>1, <2>1, <3>1, <3>2
  <2>2. CASE Len(list) # DegradeAfter
    <3>1. new = longer
      BY <1>1, <2>2, Limits DEF Latest
    <3>2. \A i \in 1..Len(longer) : i + 0 = i
      BY <1>1
    <3> QED BY <1>1, <2>2, <3>1, <3>2
  <2> QED BY <2>1, <2>2
<1> HIDE DEF new
<1>3. /\ new \in Seq(S) /\ Len(new) \in Nat /\ Len(new) <= DegradeAfter
      /\ new[Len(new)] = o /\ Len(new) >= 1
  BY <1>1, <1>2, Limits
<1>4. ASSUME NEW n \in Nat, LastAre(list, o, n)
      PROVE  LastAre(new, o, Counted(n))
  <2>1. Counted(n) <= n + 1 /\ Counted(n) <= DegradeAfter /\ Counted(n) \in Nat
    BY Limits DEF Counted, Smaller
  <2>2. Counted(n) <= Len(new)
    BY <1>1, <1>2, <1>4, <2>1, Limits DEF LastAre
  <2>3. ASSUME NEW i \in Len(new) - Counted(n) + 1 .. Len(new)
        PROVE  new[i] = o
    <3>1. i \in 1..Len(new) /\ new[i] = longer[i + d]
      BY <1>2, <1>3, <2>1, <2>2
    <3>2. CASE i = Len(new)
      BY <1>3, <3>2
    <3>3. CASE i # Len(new)
      <4>1. /\ Len(new) - Counted(n) + 1 <= i /\ i < Len(new) /\ i >= 1
            /\ i \in Int /\ Len(new) \in Int /\ Len(list) \in Int
            /\ Counted(n) \in Int /\ d \in {0, 1}
        BY <1>1, <1>2, <1>3, <2>1, <3>1, <3>3
      <4>2. Len(new) = Len(list) + 1 - d
        BY <1>2
      <4>3. i + d \in Len(list) - n + 1 .. Len(list) /\ i + d \in 1..Len(list)
        BY <2>1, <4>1, <4>2
      <4> QED BY <1>1, <1>4, <3>1, <4>3 DEF LastAre
    <3> QED BY <3>2, <3>3
  <2> QED BY <2>2, <2>3 DEF LastAre
<1>5. ASSUME NEW n \in Nat, LastAre(new, o, n + 1)
      PROVE  LastAre(list, o, n)
  <2>1. n <= Len(list)
    BY <1>1, <1>2, <1>5 DEF LastAre
  <2>2. ASSUME NEW i \in Len(list) - n + 1 .. Len(list)
        PROVE  list[i] = o
    <3>1. /\ i - d \in Len(new) - (n + 1) + 1 .. Len(new)
          /\ i \in 1..Len(list) /\ (i - d) + d = i
      BY <1>1, <1>2, <2>1
    <3>2. new[i - d] = o /\ n + 1 <= Len(new)
      BY <1>5, <3>1 DEF LastAre
    <3>3. i - d \in 1..Len(new)
      BY <1>1, <1>2, <1>3, <3>1, <3>2
    <3>4. new[i - d] = longer[i]
      BY <1>2, <3>1, <3>3
    <3> QED BY <1>1, <3>1, <3>2, <3>4
  <2> QED BY <2>1, <2>2 DEF LastAre
<1>6. ASSUME NEW p, p # o, NEW n \in Nat \ {0}
      PROVE  ~ LastAre(new, p, n)
  BY <1>3, <1>6 DEF LastAre
<1> QED BY <1>3, <1>4, <1>5, <1>6 DEF new, longer

(* What the properties say of a whole history.                             *)
LEMMA WholeHistory ==
  ASSUME NEW S, NEW list \in Seq(S), Len(list) <= DegradeAfter, NEW o \in S
  PROVE  AllWere(o, list) <=> LastAre(list, o, DegradeAfter)
<1>1. DOMAIN list = 1..Len(list)
  BY LenProperties
<1>2. Len(list) \in Nat /\ Len(list) <= DegradeAfter /\ DegradeAfter \in Nat \ {0}
  BY LenProperties, Limits
<1>3. ASSUME AllWere(o, list)
      PROVE  LastAre(list, o, DegradeAfter)
  BY <1>1, <1>3, <1>2 DEF AllWere, LastAre, ToSet
<1>4. ASSUME LastAre(list, o, DegradeAfter)
      PROVE  AllWere(o, list)
  <2>1. DegradeAfter <= Len(list)
    BY <1>4 DEF LastAre
  <2>2. Len(list) = DegradeAfter
    BY <1>2, <2>1
  <2>3. Len(list) - DegradeAfter + 1 = 1
    BY <2>2, <1>2
  <2>4. \A i \in 1..Len(list) : list[i] = o
    BY <1>4, <2>3 DEF LastAre
  <2>5. 1 \in DOMAIN list
    BY <1>1, <1>2, <2>2
  <2> QED BY <1>1, <2>2, <2>5, <2>4 DEF AllWere, ToSet
<1> QED BY <1>3, <1>4

--------------------------------------------------------------------------------
(* The counters are runs of the history.  consecutive_timeouts starts again*)
(* at 0 when a tier is lost, so it may be shorter than the run of failures,*)
(* but not at tier 0, which no failure leads to.                           *)
HistoryInv ==
  /\ degrade_tier \in 0..MaxTier
  /\ consecutive_timeouts \in Nat /\ consecutive_ok \in Nat
  /\ recent \in Seq(Outcomes) /\ Len(recent) <= DegradeAfter
  /\ LastAre(recent, "failed", consecutive_timeouts)
  /\ LastAre(recent, "answered", consecutive_ok)
  /\ degrade_tier = 0 =>
       /\ consecutive_timeouts < DegradeAfter
       /\ \A n \in Nat : LastAre(recent, "failed", n) => n <= consecutive_timeouts

Followed ==
  /\ degrade_tier' > degrade_tier => AllWere("failed", recent')
  /\ degrade_tier' < degrade_tier => AllWere("answered", recent')

LEMMA NoneAreLast ==
  ASSUME NEW S, NEW list \in Seq(S), NEW o
  PROVE  LastAre(list, o, 0)
<1>1. Len(list) \in Nat
  BY LenProperties
<1> QED BY <1>1 DEF LastAre

LEMMA FailureNoted ==
  ASSUME HistoryInv, NoteTimeout, recent' = Latest(Append(recent, "failed"))
  PROVE  HistoryInv' /\ Followed
<1> DEFINE o == "failed"
           n == Counted(consecutive_timeouts)
<1>1. o \in Outcomes /\ "answered" # o
  BY DEF Outcomes
<1>2. recent' = Latest(Append(recent, o))
  OBVIOUS
<1> HIDE DEF o
<1>3. /\ recent' \in Seq(Outcomes) /\ Len(recent') <= DegradeAfter
      /\ LastAre(recent', o, n)
      /\ \A k \in Nat : LastAre(recent', o, k + 1) => LastAre(recent, o, k)
  <2>1. /\ recent \in Seq(Outcomes) /\ Len(recent) <= DegradeAfter
        /\ consecutive_timeouts \in Nat /\ LastAre(recent, o, consecutive_timeouts)
    BY DEF HistoryInv, o
  <2> HIDE DEF HistoryInv
  <2> QED BY <1>1, <1>2, <2>1, Noted
<1>4. LastAre(recent', o, 0) /\ LastAre(recent', "answered", 0)
  BY <1>3, NoneAreLast
<1>5. n \in Nat /\ n <= DegradeAfter /\ n <= consecutive_timeouts + 1
      /\ (n < DegradeAfter => n = consecutive_timeouts + 1)
  BY Limits DEF HistoryInv, Counted, Smaller
<1>6. /\ consecutive_ok' = 0
      /\ \/ /\ n >= DegradeAfter /\ consecutive_timeouts' = 0
            /\ degrade_tier' = degrade_tier + 1 /\ degrade_tier < MaxTier
         \/ /\ ~ (n >= DegradeAfter /\ degrade_tier < MaxTier)
            /\ consecutive_timeouts' = n /\ degrade_tier' = degrade_tier
  BY DEF NoteTimeout
<1>7. /\ degrade_tier' \in 0..MaxTier
      /\ consecutive_timeouts' \in Nat /\ consecutive_ok' \in Nat
      /\ LastAre(recent', o, consecutive_timeouts')
      /\ LastAre(recent', "answered", consecutive_ok')
  BY <1>3, <1>4, <1>5, <1>6 DEF HistoryInv, MaxTier
<1>8. ASSUME degrade_tier' = 0
      PROVE  /\ consecutive_timeouts' < DegradeAfter
             /\ \A k \in Nat : LastAre(recent', o, k) => k <= consecutive_timeouts'
  <2>1. /\ degrade_tier = 0 /\ consecutive_timeouts' = n /\ n < DegradeAfter
        /\ n = consecutive_timeouts + 1
    BY <1>5, <1>6, <1>8, Limits DEF HistoryInv, MaxTier
  <2>2. ASSUME NEW k \in Nat, LastAre(recent', o, k + 1)
        PROVE  k <= consecutive_timeouts
    <3>1. LastAre(recent, o, k)
      BY <1>3, <2>2
    <3> QED BY <2>1, <3>1 DEF HistoryInv, o
  <2>3. ASSUME NEW k \in Nat, LastAre(recent', o, k)
        PROVE  k <= n
    <3>1. CASE k = 0
      BY <1>5, <3>1
    <3>2. CASE k # 0
      <4>1. k - 1 \in Nat /\ (k - 1) + 1 = k
        BY <3>2
      <4>2. k - 1 <= consecutive_timeouts
        BY <2>2, <2>3, <4>1
      <4> QED BY <2>1, <4>1, <4>2 DEF HistoryInv
    <3> QED BY <3>1, <3>2
  <2> QED BY <2>1, <2>3
<1>9. HistoryInv'
  BY <1>3, <1>7, <1>8 DEF HistoryInv, o
<1>10. ASSUME degrade_tier' > degrade_tier
       PROVE  AllWere(o, recent')
  <2>1. n = DegradeAfter
    BY <1>5, <1>6, <1>10, Limits DEF HistoryInv
  <2> QED BY <1>1, <1>3, <2>1, WholeHistory
<1>11. ~ (degrade_tier' < degrade_tier)
  BY <1>6 DEF HistoryInv
<1> QED BY <1>9, <1>10, <1>11 DEF Followed, o

LEMMA SuccessNoted ==
  ASSUME HistoryInv, NoteSuccess, recent' = Latest(Append(recent, "answered"))
  PROVE  HistoryInv' /\ Followed
<1> DEFINE o == "answered"
           n == Counted(consecutive_ok)
<1>1. o \in Outcomes /\ "failed" # o
  BY DEF Outcomes
<1>2. recent' = Latest(Append(recent, o))
  OBVIOUS
<1> HIDE DEF o
<1>3. /\ recent' \in Seq(Outcomes) /\ Len(recent') <= DegradeAfter
      /\ LastAre(recent', o, n)
      /\ \A k \in Nat \ {0} : ~ LastAre(recent', "failed", k)
  <2>1. /\ recent \in Seq(Outcomes) /\ Len(recent) <= DegradeAfter
        /\ consecutive_ok \in Nat /\ LastAre(recent, o, consecutive_ok)
    BY DEF HistoryInv, o
  <2> HIDE DEF HistoryInv
  <2>2. /\ recent' \in Seq(Outcomes) /\ Len(recent') <= DegradeAfter
        /\ LastAre(recent', o, n)
        /\ \A p : p # o => \A k \in Nat \ {0} : ~ LastAre(recent', p, k)
    BY <1>1, <1>2, <2>1, Noted
  <2> QED BY <1>1, <2>2
<1>4. LastAre(recent', o, 0) /\ LastAre(recent', "failed", 0)
  BY <1>3, NoneAreLast
<1>5. n \in Nat /\ n <= DegradeAfter
  BY Limits DEF HistoryInv, Counted, Smaller
<1>6. /\ consecutive_timeouts' = 0
      /\ \/ /\ n >= DegradeAfter /\ consecutive_ok' = 0
            /\ degrade_tier' = degrade_tier - 1 /\ degrade_tier > 0
         \/ consecutive_ok' = n /\ degrade_tier' = degrade_tier
  BY DEF NoteSuccess
<1>7. /\ degrade_tier' \in 0..MaxTier
      /\ consecutive_timeouts' \in Nat /\ consecutive_ok' \in Nat
      /\ LastAre(recent', "failed", consecutive_timeouts')
      /\ LastAre(recent', o, consecutive_ok')
  BY <1>3, <1>4, <1>5, <1>6 DEF HistoryInv, MaxTier
<1>8. /\ consecutive_timeouts' < DegradeAfter
      /\ \A k \in Nat : LastAre(recent', "failed", k) => k <= consecutive_timeouts'
  BY <1>3, <1>6, Limits
<1>9. HistoryInv'
  BY <1>3, <1>7, <1>8 DEF HistoryInv, o
<1>10. ASSUME degrade_tier' < degrade_tier
       PROVE  AllWere(o, recent')
  <2>1. n = DegradeAfter
    BY <1>5, <1>6, <1>10, Limits DEF HistoryInv
  <2> QED BY <1>1, <1>3, <2>1, WholeHistory
<1>11. ~ (degrade_tier' > degrade_tier)
  BY <1>6 DEF HistoryInv
<1> QED BY <1>9, <1>10, <1>11 DEF Followed, o

LEMMA HistoryStep ==
  HistoryInv /\ [ObservedNext]_observed => HistoryInv' /\ [Followed]_observed
<1> SUFFICES ASSUME HistoryInv, [ObservedNext]_observed
             PROVE  HistoryInv' /\ [Followed]_observed
  OBVIOUS
<1>1. CASE Fails /\ recent' = Latest(Append(recent, "failed"))
  <2>1. NoteTimeout
    BY <1>1 DEF Fails, WaitTimesOut, CallFails
  <2> QED BY <1>1, <2>1, FailureNoted
<1>2. CASE Succeeds /\ recent' = Latest(Append(recent, "answered"))
  <2>1. NoteSuccess
    BY <1>2 DEF Succeeds, CallSucceeds
  <2> QED BY <1>2, <2>1, SuccessNoted
<1>3. ASSUME UNCHANGED <<degrade, recent>>
      PROVE  HistoryInv' /\ Followed
  BY <1>3 DEF degrade, HistoryInv, Followed, LastAre
<1>4. CASE EndsNoCall /\ UNCHANGED recent
  <2>1. PICK t \in Threads :
          \/ User(t) \/ TaskEnds(t)
          \/ ReadsCap(t) \/ ReadsContext(t) \/ GuardSkips(t) \/ CallStarts(t)
          \/ JoinsTask(t) \/ AppliesResult(t) \/ FillsSlot(t) \/ StoresPending(t)
    BY <1>4 DEF EndsNoCall
  <2>2. UNCHANGED degrade
    <3>1. CASE User(t)
      BY <3>1 DEF User, RewriteDeclines, RewriteBegins, Finish, Clear
    <3>2. CASE TaskEnds(t)
      BY <3>2 DEF TaskEnds, TaskFails, TaskAnswers
    <3>3. CASE ReadsCap(t) \/ ReadsContext(t) \/ GuardSkips(t) \/ CallStarts(t)
      BY <3>3 DEF ReadsCap, ReadsContext, GuardSkips, CallStarts
    <3>4. CASE JoinsTask(t) \/ AppliesResult(t) \/ FillsSlot(t) \/ StoresPending(t)
      BY <3>4 DEF JoinsTask, AppliesResult, FillsSlot, StoresPending
    <3> QED BY <2>1, <3>1, <3>2, <3>3, <3>4
  <2> QED BY <1>3, <1>4, <2>2
<1>5. CASE UNCHANGED observed
  BY <1>3, <1>5 DEF observed, vars
<1> QED BY <1>1, <1>2, <1>4, <1>5 DEF ObservedNext

LEMMA HistoryInit == ObservedInit => HistoryInv
<1> SUFFICES ASSUME ObservedInit PROVE HistoryInv
  OBVIOUS
<1>1. /\ degrade_tier = 0 /\ consecutive_timeouts = 0 /\ consecutive_ok = 0
      /\ recent = <<>>
  BY DEF ObservedInit, Init
<1>2. recent \in Seq(Outcomes) /\ Len(recent) = 0
  BY <1>1, EmptySeq
<1> QED BY <1>1, <1>2, NoneAreLast, Limits DEF HistoryInv, MaxTier, LastAre

(* A tier is lost only after DegradeAfter failures in a row, and won back  *)
(* only after as many answers, whichever threads made the calls.           *)
THEOREM TiersFollow == ObservedSpec => TierFollowsOutcomes
<1>1. HistoryInv /\ [ObservedNext]_observed =>
        [/\ degrade_tier' > degrade_tier => AllWere("failed", recent')
         /\ degrade_tier' < degrade_tier => AllWere("answered", recent')]_observed
  BY HistoryStep DEF Followed
<1> QED BY <1>1, HistoryInit, HistoryStep, PTL DEF ObservedSpec, TierFollowsOutcomes

(* DegradeAfter failures in a row do lose it: afterwards not all candidates*)
(* and not the whole context are sent.                                     *)
THEOREM FailuresDo == ObservedSpec => []FailuresDegrade
<1>1. HistoryInv => FailuresDegrade
  <2> SUFFICES ASSUME HistoryInv, AllWere("failed", recent), degrade_tier = 0
               PROVE  FALSE
    BY DEF FailuresDegrade, HistoryInv, MaxTier
  <2>1. LastAre(recent, "failed", DegradeAfter)
    BY WholeHistory DEF HistoryInv, Outcomes
  <2> QED BY <2>1, Limits DEF HistoryInv
<1> QED BY <1>1, HistoryInit, HistoryStep, PTL DEF ObservedSpec

--------------------------------------------------------------------------------
(* Lemmas about rankings and the candidates they name.                     *)

(* Each surface ranked from place s on stands in the list at a place of its*)
(* own, from s to n.                                                       *)
Standing(ranked, list, n, s, at) ==
  /\ at \in [s..Len(ranked) -> s..n]
  /\ \A k, l \in s..Len(ranked) : at[k] = at[l] => k = l
  /\ \A k \in s..Len(ranked) : list[at[k]] = ranked[k]

Stand(ranked, list, n, s) == \E at : Standing(ranked, list, n, s, at)

(* So the turn of ReorderSegment for slot s finds its surface, not below n,*)
(* and moves nothing that stands below n; the rest still stands.           *)
LEMMA StandingStep ==
  ASSUME NEW S, NEW list \in Seq(S), NEW ranked \in Seq(S),
         NEW n \in Nat, n <= Len(list), NEW s \in 1..Len(ranked),
         Stand(ranked, list, n, s)
  PROVE  LET found == FirstPlace(ranked[s], list, s)
         IN /\ PlacesOf(ranked[s], list, s) # {}
            /\ found \in s..n /\ list[found] = ranked[s]
            /\ Stand(ranked, MoveCandidate(list, found, s), n, s + 1)
<1> DEFINE m == Len(ranked)
           found == FirstPlace(ranked[s], list, s)
           moved == MoveCandidate(list, found, s)
<1>1. PICK at : Standing(ranked, list, n, s, at)
  BY DEF Stand
<1>2. /\ s \in Nat \ {0} /\ m \in Nat /\ s \in s..m
      /\ at \in [s..m -> s..n] /\ at[s] \in s..n /\ list[at[s]] = ranked[s]
      /\ \A k, l \in s..m : at[k] = at[l] => k = l
      /\ \A k \in s..m : list[at[k]] = ranked[k]
  BY <1>1 DEF Standing
<1>3. at[s] \in PlacesOf(ranked[s], list, s)
  BY <1>2 DEF PlacesOf
<1>4. /\ found \in s..Len(list) /\ list[found] = ranked[s] /\ found <= at[s]
  BY <1>2, <1>3, FirstPlaceFound
<1>5. found \in s..n
  BY <1>2, <1>4
<1> HIDE DEF found
(* The places as if the surface had been looked for where it was found.    *)
<1> DEFINE As(k) == IF at[k] = found THEN at[s] ELSE at[k]
           Goal(p) == IF p \in s..found-1 THEN p + 1 ELSE p
           new == [k \in s+1..m |-> Goal(As(k))]
<1>6. ASSUME NEW k \in s+1..m
      PROVE  /\ As(k) \in s..n /\ As(k) # found /\ list[As(k)] = ranked[k]
             /\ k \in s..m
  <2>1. k \in s..m /\ k # s
    BY <1>2
  <2>2. at[k] # at[s] /\ at[k] \in s..n /\ list[at[k]] = ranked[k]
    BY <1>2, <2>1
  <2> QED BY <1>2, <1>4, <2>1, <2>2
<1>7. \A k, l \in s+1..m : As(k) = As(l) => k = l
  <2> SUFFICES ASSUME NEW k \in s+1..m, NEW l \in s+1..m, As(k) = As(l)
               PROVE  k = l
    OBVIOUS
  <2>1. k \in s..m /\ l \in s..m /\ k # s /\ l # s
    BY <1>2
  <2>2. at[k] # at[s] /\ at[l] # at[s] /\ (at[k] = at[l] => k = l)
    BY <1>2, <2>1
  <2> QED BY <2>2
<1> HIDE DEF As
<1>8. ASSUME NEW p \in s..n, p # found
      PROVE  /\ Goal(p) \in s+1..n
             /\ moved[Goal(p)] = list[p]
  <2>1. CASE p \in s..found-1
    <3>1. /\ Goal(p) = p + 1 /\ p + 1 \in s+1..found /\ p + 1 # s
          /\ p + 1 \in 1..Len(list) /\ (p + 1) - 1 = p
      BY <1>2, <1>4, <2>1
    <3> HIDE DEF Goal
    <3> QED BY <1>2, <1>5, <3>1 DEF MoveCandidate
  <2>2. CASE p \notin s..found-1
    <3>1. Goal(p) = p /\ p \notin s+1..found /\ p # s /\ p \in 1..Len(list) /\ p \in s+1..n
      BY <1>2, <1>5, <1>8, <2>2
    <3> HIDE DEF Goal
    <3> QED BY <3>1 DEF MoveCandidate
  <2> QED BY <2>1, <2>2
<1>9. \A p, q \in s..n : (p # found /\ q # found /\ Goal(p) = Goal(q)) => p = q
  BY <1>2, <1>5
<1> HIDE DEF Goal, moved
<1>10. new \in [s+1..m -> s+1..n]
  BY <1>6, <1>8
<1>11. \A k, l \in s+1..m : new[k] = new[l] => k = l
  <2>1. ASSUME NEW k \in s+1..m, NEW l \in s+1..m, new[k] = new[l]
        PROVE  k = l
    <3>1. Goal(As(k)) = Goal(As(l))
      BY <2>1
    <3>2. As(k) \in s..n /\ As(l) \in s..n /\ As(k) # found /\ As(l) # found
      BY <1>6
    <3>3. As(k) = As(l)
      BY <1>9, <3>1, <3>2
    <3> QED BY <1>7, <3>3
  <2> QED BY <2>1
<1>12. \A k \in s+1..m : moved[new[k]] = ranked[k]
  BY <1>6, <1>8
<1>13. Stand(ranked, moved, n, s + 1)
  <2> HIDE DEF new
  <2>1. Standing(ranked, moved, n, s + 1, new)
    BY <1>10, <1>11, <1>12 DEF Standing
  <2> QED BY <2>1 DEF Stand
<1> QED BY <1>3, <1>4, <1>5, <1>13 DEF found, moved

(* A ranking that stands in a list is no longer than it.                   *)
LEMMA StandingFits ==
  ASSUME NEW S, NEW ranked \in Seq(S), NEW list, NEW n \in Nat,
         Stand(ranked, list, n, 1)
  PROVE  Len(ranked) <= n
<1>1. PICK at : Standing(ranked, list, n, 1, at)
  BY DEF Stand
<1>2. at \in Injection(1..Len(ranked), 1..n)
  BY <1>1 DEF Standing, Injection, IsInjective
<1>3. ASSUME NEW k \in Nat
      PROVE  IsFiniteSet(1..k) /\ Cardinality(1..k) = k
  BY FS_Interval
<1>4. Cardinality(1..Len(ranked)) <= Cardinality(1..n)
  BY <1>2, <1>3, FS_Injection
<1>5. Len(ranked) \in Nat
  OBVIOUS
<1> QED BY <1>3, <1>4, <1>5

(* RankedSurfaces names each place of the list once at most.               *)
LEMMA RankedStands ==
  ASSUME NEW S, NEW cands \in Seq(S), NEW scores \in [1..Len(cands) -> Int],
         NEW first \in 1..Len(cands)
  PROVE  LET ranked == RankedSurfaces(cands, scores, cands[first])
         IN /\ ranked \in Seq(S) \ {<<>>} /\ ranked[1] = cands[first]
            /\ Stand(ranked, cands, Len(cands), 1)
<1> DEFINE top == cands[first]
           others == Others(cands, top)
           order == ByScore(scores, others)
           count == Cardinality(others)
           ranked == RankedSurfaces(cands, scores, top)
           at == [k \in 1..Len(ranked) |-> IF k = 1 THEN first ELSE order[k - 1]]
<1>1. top \in S /\ Len(cands) \in Nat /\ others \in SUBSET (1..Len(cands))
  BY DEF Others
<1>2. first \notin others
  BY DEF Others
<1> HIDE DEF others
<1>3. \A k, l \in 1..count : k < l => Before(scores, order[k], order[l])
  BY <1>1, ByScoreSorts
<1>4. \A i \in others : ~ Before(scores, i, i)
  BY <1>1 DEF Before
<1>5. /\ count \in Nat /\ ranked \in Seq(S) /\ Len(ranked) = 1 + count
      /\ ranked[1] = top
      /\ \A k \in 1..count : order[k] \in others /\ ranked[k + 1] = cands[order[k]]
  <2> HIDE DEF top
  <2> QED BY <1>1, RankedSurfacesList DEF others
<1> HIDE DEF order, count, ranked
<1>6. \A k, l \in 1..count : order[k] = order[l] => k = l
  <2>1. \A k, l \in 1..count : k < l => order[k] # order[l]
    BY <1>3, <1>4, <1>5
  <2> QED BY <1>5, <2>1
<1>7. ASSUME NEW k \in 1..Len(ranked), k # 1
      PROVE  /\ k - 1 \in 1..count /\ (k - 1) + 1 = k
             /\ at[k] = order[k - 1] /\ at[k] \in others /\ ranked[k] = cands[at[k]]
  <2>1. k - 1 \in 1..count /\ (k - 1) + 1 = k
    BY <1>5, <1>7
  <2> QED BY <1>5, <1>7, <2>1
<1>8. at[1] = first /\ 1 \in 1..Len(ranked)
  BY <1>5
<1>9. at = [k \in 1..Len(ranked) |-> at[k]]
  OBVIOUS
<1> HIDE DEF at
<1>10. at \in [1..Len(ranked) -> 1..Len(cands)]
  <2>1. \A k \in 1..Len(ranked) : at[k] \in 1..Len(cands)
    BY <1>1, <1>7, <1>8
  <2> QED BY <1>9, <2>1
<1>11. ASSUME NEW k \in 1..Len(ranked), NEW l \in 1..Len(ranked), at[k] = at[l]
       PROVE  k = l
  <2>1. CASE k = 1 \/ l = 1
    BY <1>2, <1>7, <1>8, <1>11, <2>1
  <2>2. CASE k # 1 /\ l # 1
    <3>1. k - 1 = l - 1
      BY <1>6, <1>7, <1>11, <2>2
    <3> QED BY <3>1
  <2> QED BY <2>1, <2>2
<1>12. \A k \in 1..Len(ranked) : cands[at[k]] = ranked[k]
  BY <1>5, <1>7, <1>8
<1>13. Stand(ranked, cands, Len(cands), 1)
  BY <1>10, <1>11, <1>12 DEF Stand, Standing
<1>14. ranked # <<>>
  BY <1>5, <1>8
<1> QED BY <1>5, <1>13, <1>14 DEF ranked

(* The daemon's answer is well formed.  It names candidates it was sent,   *)
(* each once at most, and in front of all Mozc's first or one that is not  *)
(* junk and scores by the margin better.                                   *)
SoundAnswer(reply, list, scoring) ==
  /\ reply \in HookResults
  /\ reply.ranked[1] = reply.final_top1
  /\ Stand(reply.ranked, list, Len(list), 1)
  /\ reply.final_top1 # list[1] =>
       /\ reply.final_top1 \notin Junk
       /\ scoring[reply.final_top1] >= scoring[list[1]] + Tau
  /\ reply.overwritten => reply.final_top1 \notin Junk

LEMMA DaemonAnswerSound ==
  ASSUME NEW list \in Seq(Surfaces) \ {<<>>}, NEW scoring \in [Surfaces -> Int],
         NEW skips \in BOOLEAN
  PROVE  SoundAnswer(DaemonRerank(list, scoring, Tau, DaemonCap, skips, Junk),
                     list, scoring)
<1> DEFINE n == Smaller(DaemonCap, Len(list))
           cands == SubSeq(list, 1, n)
           scores == [i \in DOMAIN cands |-> scoring[cands[i]]]
           best == ArgMax(scores)
           over == Overwrites(cands, scores, best, Tau, Junk)
           first == IF over THEN best ELSE 1
           reply == DaemonRerank(list, scoring, Tau, DaemonCap, skips, Junk)
<1>1. n \in Nat \ {0} /\ n <= Len(list) /\ Len(list) \in Nat
  <2>1. DaemonCap \in Nat \ {0}
    BY DaemonAssumption
  <2>2. Len(list) \in Nat \ {0}
    <3>1. list \in Seq(Surfaces) /\ list # <<>>
      OBVIOUS
    <3> QED BY <3>1
  <2> QED BY <2>1, <2>2 DEF Smaller
<1> HIDE DEF n
<1>2. /\ cands \in Seq(Surfaces) /\ Len(cands) = n
      /\ \A i \in 1..n : cands[i] = list[i] /\ cands[i] \in Surfaces
  BY <1>1
<1> HIDE DEF cands
<1>3. /\ scores \in [1..n -> Int] /\ scores \in Seq(Int) /\ Len(scores) = n
      /\ \A i \in 1..n : scores[i] = scoring[cands[i]]
  <2>1. scores = [i \in 1..n |-> scoring[cands[i]]]
    BY <1>2
  <2>2. scores \in [1..n -> Int] /\ \A i \in 1..n : scores[i] = scoring[cands[i]]
    BY <1>2, <2>1
  <2> HIDE DEF scores
  <2> QED BY <1>1, <2>2
<1> HIDE DEF scores
<1>4. best \in 1..n
  <2>1. scores # <<>>
    BY <1>1, <1>3
  <2> QED BY <1>3, <2>1, ArgMaxFirstBest
<1> HIDE DEF best
<1>5. first \in 1..n /\ over \in BOOLEAN
  BY <1>1, <1>4 DEF Overwrites
<1>6. cands[first] # list[1] \/ over =>
        /\ cands[first] \notin Junk
        /\ scoring[cands[first]] >= scoring[list[1]] + Tau
  <2>1. 1 \in 1..n /\ Tau \in Int /\ scores[1] \in Int /\ scores[best] \in Int
    BY <1>1, <1>3, <1>4, DaemonAssumption
  <2>2. CASE over
    BY <1>2, <1>3, <1>4, <2>1, <2>2 DEF Overwrites
  <2>3. CASE ~ over
    BY <1>2, <2>1, <2>3
  <2> QED BY <2>2, <2>3
<1>7. reply = IF skips THEN MozcOrder(cands)
              ELSE [ranked |-> RankedSurfaces(cands, scores, cands[first]),
                    final_top1 |-> cands[first], overwritten |-> over]
  BY DEF DaemonRerank, n, cands, scores, best
<1> HIDE DEF over, first, reply
(* What stands in the candidates that were cut off stands in all of them.  *)
<1>8. ASSUME NEW ranked \in Seq(Surfaces), Stand(ranked, cands, n, 1)
      PROVE  Stand(ranked, list, Len(list), 1)
  <2>1. PICK at : Standing(ranked, cands, n, 1, at)
    BY <1>8 DEF Stand
  <2> DEFINE m == Len(ranked)
  <2>2. /\ at \in [1..m -> 1..n] /\ \A k, l \in 1..m : at[k] = at[l] => k = l
        /\ \A k \in 1..m : cands[at[k]] = ranked[k]
    BY <2>1 DEF Standing
  <2> HIDE DEF m
  <2>3. 1..n \subseteq 1..Len(list)
    BY <1>1
  <2>4. at \in [1..m -> 1..Len(list)] /\ \A k \in 1..m : list[at[k]] = ranked[k]
    BY <1>2, <2>2, <2>3
  <2> QED BY <2>2, <2>4 DEF Stand, Standing, m
<1>9. ASSUME skips
      PROVE  SoundAnswer(reply, list, scoring)
  <2> DEFINE same == [k \in 1..n |-> k]
  <2>1. reply = [ranked |-> cands, final_top1 |-> cands[1], overwritten |-> FALSE]
    BY <1>7, <1>9 DEF MozcOrder
  <2>2. Standing(cands, cands, n, 1, same)
    BY <1>1, <1>2 DEF Standing
  <2>3. Stand(cands, list, Len(list), 1)
    BY <1>2, <1>8, <2>2 DEF Stand
  <2>4. cands \in Seq(Surfaces) \ {<<>>} /\ cands[1] = list[1] /\ cands[1] \in Surfaces
    BY <1>1, <1>2
  <2> QED BY <2>1, <2>3, <2>4 DEF SoundAnswer, HookResults
<1>10. ASSUME ~ skips
       PROVE  SoundAnswer(reply, list, scoring)
  <2> DEFINE ranked == RankedSurfaces(cands, scores, cands[first])
  <2>1. reply = [ranked |-> ranked, final_top1 |-> cands[first], overwritten |-> over]
    BY <1>7, <1>10
  <2>2. /\ ranked \in Seq(Surfaces) \ {<<>>} /\ ranked[1] = cands[first]
        /\ Stand(ranked, cands, n, 1)
    <3>1. scores \in [1..Len(cands) -> Int] /\ first \in 1..Len(cands)
      BY <1>2, <1>3, <1>5
    <3>2. cands \in Seq(Surfaces) /\ Len(cands) = n
      BY <1>2
    <3>3. /\ ranked \in Seq(Surfaces) \ {<<>>} /\ ranked[1] = cands[first]
          /\ Stand(ranked, cands, Len(cands), 1)
      BY ONLY <3>1, <3>2, RankedStands DEF ranked
    <3> QED BY <3>2, <3>3
  <2> HIDE DEF ranked
  <2>3. Stand(ranked, list, Len(list), 1)
    BY <1>8, <2>2
  <2>4. cands[first] \in Surfaces
    BY <1>2, <1>5
  <2> QED BY <1>5, <1>6, <2>1, <2>2, <2>3, <2>4 DEF SoundAnswer, HookResults
<1> QED BY <1>9, <1>10 DEF reply

--------------------------------------------------------------------------------
(* The composition.                                                        *)

(* A connection serves the call that is running, and what is sent back on  *)
(* it answers the question of that call.                                   *)
ConnOK(t) ==
  \/ conn[t] = NoConnection
  \/ /\ task[t] = "running"
     /\ \/ conn[t] = LostConnection
        \/ conn[t].state = "asked" /\ conn[t].nbest = nbest[t]
        \/ /\ conn[t].state = "answered"
           /\ SoundAnswer(conn[t].reply, nbest[t], score[t])

(* So does the result the Rewrite then has.                                *)
ResultOK(t) ==
  (task[t] = "ok" \/ pc[t] \in {"apply", "reorder"}) =>
    SoundAnswer(result[t], nbest[t], score[t])

(* The loop of ReorderSegment: what is still to be moved stands among the  *)
(* candidates that were sent, those below are as they were offered, and    *)
(* after the first turn the first ranked surface is in front.              *)
LoopOK(t) ==
  pc[t] = "reorder" =>
    LET list == TargetCandidates(t)
        ranked == result[t].ranked
        n == Len(nbest[t])
    IN /\ n <= Len(list) /\ slot[t] <= Len(ranked) + 1
       /\ Stand(ranked, list, n, slot[t])
       /\ slot[t] > 1 => list[1] = ranked[1]
       /\ \A i \in n+1..Len(list) : list[i] = LastOffered(t)[i]

DaemonInv ==
  /\ score \in [Threads -> [Surfaces -> Int]]
  /\ conn = [t \in Threads |-> conn[t]]
  /\ \A t \in Threads : ConnOK(t) /\ ResultOK(t) /\ LoopOK(t)

SystemInv == TypeInv /\ OrderInv /\ SentInv /\ DaemonInv

(* Every step of the system is a step of the rewriter, whose peer answers  *)
(* the question of its running call soundly, or none to it.                *)
HeardNext ==
  \E t \in Threads :
    \/ User(t) \/ Proceeds(t) \/ WaitTimesOut(t) \/ TaskFails(t)
    \/ \E reply : /\ SoundAnswer(reply, nbest[t], score[t])
                  /\ TaskAnswers(t, reply)

LEMMA StepMaps == SystemInv /\ [SystemNext]_systemVars => [HeardNext]_vars
<1> SUFFICES ASSUME SystemInv, [SystemNext]_systemVars PROVE [HeardNext]_vars
  OBVIOUS
<1>1. CASE UNCHANGED systemVars \/ DaemonStops \/ DaemonStarts
  BY <1>1 DEF systemVars, DaemonStops, DaemonStarts
<1>2. ASSUME NEW t \in Threads, Converts(t)
      PROVE  HeardNext
  BY <1>2 DEF Converts, HeardNext
<1>3. ASSUME NEW t \in Threads, Hears(t)
      PROVE  HeardNext
  <2>1. conn[t].state = "answered" /\ TaskAnswers(t, conn[t].reply)
    BY <1>3 DEF Hears
  <2>2. conn[t] # NoConnection /\ conn[t] # LostConnection /\ conn[t].state # "asked"
    BY <2>1 DEF NoConnection, LostConnection
  <2>3. SoundAnswer(conn[t].reply, nbest[t], score[t])
    BY <2>2 DEF SystemInv, DaemonInv, ConnOK
  <2> QED BY <2>1, <2>3 DEF HeardNext
<1>4. ASSUME NEW t \in Threads, GivesUp(t)
      PROVE  HeardNext
  BY <1>4 DEF GivesUp, HeardNext
<1>5. ASSUME NEW t \in Threads, Asks(t) \/ Handles(t)
      PROVE  UNCHANGED vars
  BY <1>5 DEF Asks, Handles
<1> QED BY <1>1, <1>2, <1>3, <1>4, <1>5 DEF SystemNext

LEMMA HeardIsOpen == [HeardNext]_vars => [OpenNext]_vars
BY DEF HeardNext, OpenNext, PeerEnds, SoundAnswer

LEMMA SystemInitInv == SystemInit => SystemInv
<1> SUFFICES ASSUME SystemInit PROVE SystemInv
  OBVIOUS
<1>1. TypeInv /\ OrderInv /\ SentInv
  BY TypeInit, OrderInit, SentInit DEF SystemInit
<1>2. DaemonInv
  BY DEF SystemInit, Init, DaemonInv, ConnOK, ResultOK, LoopOK, NoScore
<1> QED BY <1>1, <1>2 DEF SystemInv

(* What a thread's part of the invariant reads.                            *)
Untouched(t) ==
  /\ pc'[t] = pc[t] /\ task'[t] = task[t] /\ result'[t] = result[t]
  /\ nbest'[t] = nbest[t] /\ slot'[t] = slot[t] /\ segs'[t] = segs[t]
  /\ request'[t] = request[t]

LEMMA Stays ==
  ASSUME NEW t, Untouched(t), ConnOK(t), ResultOK(t), LoopOK(t), score'[t] = score[t]
  PROVE  /\ conn'[t] = conn[t] => ConnOK(t)'
         /\ ResultOK(t)' /\ LoopOK(t)'
BY DEF Untouched, ConnOK, ResultOK, LoopOK, SoundAnswer, TargetCandidates, Target,
       LastOffered, Offered

(* While a call runs, its Rewrite waits: it has no result yet and moves    *)
(* nothing, but it has candidates it sent.                                 *)
LEMMA WaitingRewrite ==
  ASSUME SystemInv, NEW t \in Threads, task[t] = "running"
  PROVE  /\ pc[t] \in {"waiting", "joining"}
         /\ nbest[t] \in Seq(Surfaces) \ {<<>>}
BY DEF SystemInv, TypeInv, TypeOK, FrameOK

(* The steps of the daemon and of the client's end of a connection.        *)
LEMMA LinkStep ==
  ASSUME SystemInv, NEW t \in Threads,
         Asks(t) \/ Hears(t) \/ GivesUp(t) \/ Handles(t)
  PROVE  DaemonInv'
<1>1. DaemonInv
  BY DEF SystemInv
<1>2. \A u \in Threads \ {t} : /\ Untouched(u) /\ conn'[u] = conn[u]
                               /\ score'[u] = score[u]
  <2>1. CASE Asks(t) \/ Handles(t)
    BY <1>1, <2>1 DEF Asks, Handles, vars, frame, Untouched, DaemonInv
  <2>2. CASE Hears(t) \/ GivesUp(t)
    BY <1>1, <2>2 DEF Hears, GivesUp, TaskAnswers, TaskFails, frame, Untouched,
                      DaemonInv, SystemInv, TypeInv, TypeOK
  <2> QED BY <2>1, <2>2
<1>3. \A u \in Threads \ {t} : ConnOK(u)' /\ ResultOK(u)' /\ LoopOK(u)'
  BY <1>1, <1>2, Stays DEF DaemonInv
<1>4. task[t] = "running"
  BY <1>1 DEF Asks, Hears, TaskAnswers, GivesUp, TaskFails, Handles, DaemonInv, ConnOK,
              NoConnection
<1>5. pc[t] \in {"waiting", "joining"} /\ nbest[t] \in Seq(Surfaces) \ {<<>>}
  BY <1>4, WaitingRewrite
<1>6. /\ conn' = [u \in Threads |-> conn'[u]]
      /\ Asks(t) \/ Hears(t) \/ GivesUp(t) => score' = score
  BY <1>1 DEF Asks, Hears, GivesUp, Handles, DaemonInv
<1>7. CASE Asks(t)
  <2>1. /\ conn'[t].state = "asked" /\ conn'[t].nbest = nbest[t]
        /\ pc' = pc /\ task' = task /\ nbest' = nbest
    BY <1>1, <1>7 DEF Asks, vars, frame, DaemonInv
  <2>2. ConnOK(t)' /\ ResultOK(t)' /\ LoopOK(t)'
    BY <1>4, <1>5, <2>1 DEF ConnOK, ResultOK, LoopOK
  <2> QED BY <1>1, <1>3, <1>6, <1>7, <2>2 DEF DaemonInv
<1>8. CASE Hears(t)
  <2>1. conn[t].state = "answered" /\ TaskAnswers(t, conn[t].reply)
        /\ conn'[t] = NoConnection
    BY <1>1, <1>8 DEF Hears, DaemonInv
  <2>2. SoundAnswer(conn[t].reply, nbest[t], score[t])
    BY <1>1, <2>1 DEF DaemonInv, ConnOK, NoConnection, LostConnection
  <2>3. /\ result'[t] = conn[t].reply /\ nbest' = nbest /\ score' = score /\ pc' = pc
    BY <1>6, <1>8, <2>1 DEF TaskAnswers, SystemInv, TypeInv, TypeOK
  <2>4. ConnOK(t)' /\ ResultOK(t)' /\ LoopOK(t)'
    BY <1>5, <2>1, <2>2, <2>3 DEF ConnOK, ResultOK, LoopOK, SoundAnswer
  <2> QED BY <1>1, <1>3, <1>6, <1>8, <2>4 DEF DaemonInv
<1>9. CASE GivesUp(t)
  <2>1. /\ conn'[t] = NoConnection /\ task'[t] = "failed" /\ pc' = pc
    BY <1>1, <1>9 DEF GivesUp, TaskFails, DaemonInv, SystemInv, TypeInv, TypeOK
  <2>2. ConnOK(t)' /\ ResultOK(t)' /\ LoopOK(t)'
    BY <1>5, <2>1 DEF ConnOK, ResultOK, LoopOK
  <2> QED BY <1>1, <1>3, <1>6, <1>9, <2>2 DEF DaemonInv
<1>10. CASE Handles(t)
  <2>1. conn[t].nbest = nbest[t]
    BY <1>1, <1>10 DEF Handles, DaemonInv, ConnOK, NoConnection, LostConnection
  <2>2. PICK s \in Scorings(nbest[t]) :
          LET all == [x \in Surfaces |-> IF x \in DOMAIN s THEN s[x] ELSE 0]
          IN /\ score' = [score EXCEPT ![t] = all]
             /\ conn' = [conn EXCEPT ![t] =
                  [state |-> "answered",
                   reply |-> DaemonRerank(nbest[t], all, Tau, DaemonCap,
                                          DaemonSkips(conn[t]), Junk)]]
    BY <1>10, <2>1 DEF Handles
  <2> DEFINE all == [x \in Surfaces |-> IF x \in DOMAIN s THEN s[x] ELSE 0]
             skips == DaemonSkips(conn[t])
             reply == DaemonRerank(nbest[t], all, Tau, DaemonCap, skips, Junk)
  <2>3. all \in [Surfaces -> Int]
    <3>1. Scores \subseteq Int /\ s \in [ToSet(nbest[t]) -> Scores]
      BY DaemonAssumption DEF Scorings
    <3> DEFINE D == ToSet(nbest[t])
    <3>2. s \in [D -> Scores] /\ DOMAIN s = D
      BY <3>1
    <3> HIDE DEF D
    <3>3. \A x \in D : s[x] \in Int
      BY <3>1, <3>2
    <3>4. ASSUME NEW x \in Surfaces
          PROVE  (IF x \in DOMAIN s THEN s[x] ELSE 0) \in Int
      BY <3>2, <3>3
    <3> QED BY <3>4
  <2>4. score'[t] = all /\ conn'[t] = [state |-> "answered", reply |-> reply]
    BY <1>1, <2>2 DEF DaemonInv
  <2>5. score' \in [Threads -> [Surfaces -> Int]]
    BY <1>1, <2>2, <2>3 DEF DaemonInv
  <2>6. skips \in BOOLEAN
    BY DEF DaemonSkips
  <2> HIDE DEF all, skips
  <2>7. SoundAnswer(reply, nbest[t], all)
    BY <1>5, <2>3, <2>6, DaemonAnswerSound
  <2>8. pc' = pc /\ task' = task /\ nbest' = nbest
    BY <1>10 DEF Handles, vars, frame
  <2> HIDE DEF reply
  <2>9. /\ conn'[t].state = "answered" /\ conn'[t].reply = reply
        /\ task'[t] = "running" /\ pc'[t] \in {"waiting", "joining"}
    BY <1>4, <1>5, <2>4, <2>8
  <2>10. SoundAnswer(conn[t].reply, nbest[t], score[t])'
    BY <2>4, <2>7, <2>8, <2>9 DEF SoundAnswer
  <2>11. ConnOK(t)' /\ ResultOK(t)' /\ LoopOK(t)'
    BY <2>9, <2>10 DEF ConnOK, ResultOK, LoopOK
  <2> QED BY <1>3, <1>6, <2>5, <2>11 DEF DaemonInv
<1> QED BY <1>7, <1>8, <1>9, <1>10

(* The daemon stops and starts.                                            *)
LEMMA DaemonStep ==
  ASSUME SystemInv, DaemonStops \/ DaemonStarts
  PROVE  DaemonInv'
<1>1. /\ \A t \in Threads : Untouched(t)
      /\ UNCHANGED <<score, task>>
  BY DEF DaemonStops, DaemonStarts, vars, frame, Untouched
<1>2. \A t \in Threads : conn'[t] = conn[t] \/ (conn[t].state = "asked"
                                                /\ conn'[t] = LostConnection)
  BY DEF DaemonStops, DaemonStarts
<1>3. conn' = [t \in Threads |-> conn'[t]]
  BY DEF DaemonStops, DaemonStarts, SystemInv, DaemonInv
<1>4. ASSUME NEW t \in Threads
      PROVE  ConnOK(t)' /\ ResultOK(t)' /\ LoopOK(t)'
  <2>1. ConnOK(t) /\ ResultOK(t) /\ LoopOK(t)
    BY DEF SystemInv, DaemonInv
  <2>2. ResultOK(t)' /\ LoopOK(t)' /\ (conn'[t] = conn[t] => ConnOK(t)')
    BY <1>1, <2>1, Stays
  <2>3. conn[t].state = "asked" /\ conn'[t] = LostConnection => ConnOK(t)'
    BY <1>1, <2>1 DEF ConnOK, NoConnection
  <2> QED BY <1>2, <2>2, <2>3
<1> QED BY <1>1, <1>3, <1>4 DEF SystemInv, DaemonInv

(* One turn of the loop.                                                   *)
LEMMA TurnStep ==
  ASSUME SystemInv, NEW t \in Threads, FillsSlot(t)
  PROVE  LoopOK(t)'
<1> DEFINE list == TargetCandidates(t)
           ranked == result[t].ranked
           n == Len(nbest[t])
           s == slot[t]
           found == FirstPlace(ranked[s], list, s)
           moved == MoveCandidate(list, found, s)
<1>1. /\ pc[t] = "reorder" /\ s <= Smaller(Len(ranked), Len(list))
      /\ UNCHANGED <<pc, request, nbest, result>>
      /\ slot' = [slot EXCEPT ![t] = s + 1]
      /\ IF FoundBelow(ranked[s], list, s)
         THEN segs' = [segs EXCEPT ![t][Target(t)] = moved]
         ELSE UNCHANGED segs
  BY DEF FillsSlot, ReorderLimit
<1>2. /\ n <= Len(list) /\ Stand(ranked, list, n, s)
      /\ s > 1 => list[1] = ranked[1]
      /\ \A i \in n+1..Len(list) : list[i] = LastOffered(t)[i]
  BY <1>1 DEF SystemInv, DaemonInv, LoopOK
<1>3. /\ slot \in [Threads -> Nat] /\ segs \in [Threads -> Seq(Seq(Surfaces))]
      /\ segs[t] \in Seq(Seq(Surfaces)) /\ Target(t) \in 1..Len(segs[t])
      /\ list \in Seq(Surfaces) /\ n \in Nat /\ s \in Nat \ {0}
  <2>1. TypeOK /\ FrameOK(t)
    BY DEF SystemInv, TypeInv
  <2>2. slot \in [Threads -> Nat] /\ segs \in [Threads -> Seq(Seq(Surfaces))]
        /\ nbest[t] \in Seq(Surfaces) /\ segs[t] # <<>> /\ s # 0
    BY <1>1, <2>1 DEF TypeOK, FrameOK
  <2> QED BY <2>2 DEF TargetCandidates, Target
<1>4. ranked \in Seq(Surfaces)
  BY <1>1 DEF SystemInv, TypeInv, TypeOK, FrameOK, HookResults
<1>5. s \in 1..Len(ranked) /\ s <= Len(ranked) /\ s \in 1..Len(list)
  BY <1>1, <1>3, <1>4 DEF Smaller
<1>6. /\ PlacesOf(ranked[s], list, s) # {}
      /\ found \in s..n /\ list[found] = ranked[s]
      /\ Stand(ranked, moved, n, s + 1)
  <2> HIDE DEF list, ranked, n, s
  <2> QED BY <1>2, <1>3, <1>4, <1>5, StandingStep
<1>7. found \in 1..Len(list) /\ s \in 1..found
  BY <1>2, <1>3, <1>6
<1>8. /\ moved \in Seq(Surfaces) /\ Len(moved) = Len(list) /\ moved[s] = ranked[s]
      /\ \A k \in 1..s-1 : moved[k] = list[k]
  <2> HIDE DEF list, ranked, n, s, found
  <2> QED BY <1>3, <1>6, <1>7, MoveCandidateList DEF moved
<1>9. \A i \in n+1..Len(list) : moved[i] = list[i]
  <2> SUFFICES ASSUME NEW i \in n+1..Len(list) PROVE moved[i] = list[i]
    OBVIOUS
  <2>1. i \in 1..Len(list) /\ i # s /\ i \notin s+1..found
    BY <1>3, <1>6
  <2> QED BY <2>1 DEF MoveCandidate
<1>10. TargetCandidates(t)' = moved
  <2>1. CASE FoundBelow(ranked[s], list, s)
    <3>1. segs'[t] = [segs[t] EXCEPT ![Target(t)] = moved]
      BY <1>1, <1>3, <2>1
    <3>2. Len(segs'[t]) = Len(segs[t]) /\ segs'[t][Target(t)] = moved
      BY <1>3, <1>8, <3>1, ExceptSeq
    <3> QED BY <3>2 DEF TargetCandidates, Target
  <2>2. CASE ~ FoundBelow(ranked[s], list, s)
    <3>1. found = s
      BY <1>3, <1>6, <2>2 DEF FoundBelow
    <3>2. \A k \in 1..Len(list) : moved[k] = list[k]
      BY <1>3, <3>1 DEF MoveCandidate
    <3>3. moved = list
      <4>1. /\ list = [k \in 1..Len(list) |-> list[k]]
            /\ moved = [k \in 1..Len(list) |-> moved[k]]
        BY <1>3 DEF MoveCandidate
      <4> HIDE DEF list, moved
      <4> QED BY <3>2, <4>1
    <3>4. TargetCandidates(t)' = list
      BY <1>1, <2>2 DEF TargetCandidates, Target
    <3> QED BY <3>3, <3>4
  <2> QED BY <2>1, <2>2
<1> HIDE DEF moved, found
<1>11. moved[1] = ranked[1]
  <2>1. CASE s = 1
    BY <1>8, <2>1
  <2>2. CASE s > 1
    BY <1>2, <1>3, <1>8, <2>2
  <2> QED BY <1>3, <2>1, <2>2
<1>12. slot'[t] = s + 1
  BY <1>1, <1>3
<1>13. LastOffered(t)' = LastOffered(t)
  BY <1>1 DEF LastOffered, Offered
<1>14. s + 1 <= Len(ranked) + 1
  BY <1>3, <1>4, <1>5
<1> QED
  BY <1>1, <1>2, <1>6, <1>8, <1>9, <1>10, <1>11, <1>12, <1>13, <1>14 DEF LoopOK

(* The loop starts with what was sent in front, as it was offered.         *)
LEMMA LoopStarts ==
  ASSUME SystemInv, NEW t \in Threads, AppliesResult(t)
  PROVE  /\ result'[t] = result[t] /\ LoopOK(t)'
<1> DEFINE list == TargetCandidates(t)
           ranked == result[t].ranked
           n == Len(nbest[t])
<1>1. /\ pc[t] = "apply" /\ SoundAnswer(result[t], nbest[t], score[t])
      /\ request[t] # None /\ OrderOK(t) /\ SentOK(t)
      /\ result \in [Threads -> HookResults \cup {None}]
      /\ slot \in [Threads -> Nat] /\ pc \in [Threads -> {"idle", "cap", "context",
            "guard", "waiting", "joining", "apply", "reorder"}]
      /\ nbest[t] \in Seq(Surfaces)
      /\ segs[t] # <<>> /\ segs[t] \in Seq(Seq(Surfaces))
  BY DEF AppliesResult, SystemInv, DaemonInv, ResultOK, TypeInv, TypeOK, FrameOK,
         OrderInv, SentInv
<1>2. Unjunked(result[t], nbest[t]) = result[t]
  BY <1>1 DEF Unjunked, SoundAnswer
<1>3. /\ result'[t] = result[t] /\ slot'[t] = 1 /\ pc'[t] = "reorder"
      /\ UNCHANGED <<segs, request, nbest>>
  BY <1>1, <1>2 DEF AppliesResult
<1>4. list = LastOffered(t)
  BY <1>1 DEF OrderOK, TargetCandidates, Target, LastOffered
<1>5. n <= Len(list) /\ n \in Nat /\ nbest[t] = SubSeq(list, 1, n)
  BY <1>1, <1>4 DEF SentOK
<1>6. list \in Seq(Surfaces)
  BY <1>1 DEF TargetCandidates, Target
<1>7. \A i \in 1..n : nbest[t][i] = list[i]
  BY <1>5, <1>6
<1>8. Stand(ranked, nbest[t], n, 1) /\ ranked \in Seq(Surfaces)
  BY <1>1 DEF SoundAnswer, HookResults
<1>9. Stand(ranked, list, n, 1)
  <2>1. PICK at : Standing(ranked, nbest[t], n, 1, at)
    BY <1>8 DEF Stand
  <2> HIDE DEF list, n, ranked
  <2>2. \A k \in 1..Len(ranked) : list[at[k]] = ranked[k]
    BY <1>7, <2>1 DEF Standing
  <2>3. Standing(ranked, list, n, 1, at)
    BY <2>1, <2>2 DEF Standing
  <2> QED BY <2>3 DEF Stand
<1>10. 1 <= Len(ranked) + 1
  BY <1>8
<1>11. /\ TargetCandidates(t)' = list /\ LastOffered(t)' = LastOffered(t)
  BY <1>3 DEF TargetCandidates, Target, LastOffered, Offered
<1>12. LoopOK(t)'
  BY <1>3, <1>4, <1>5, <1>9, <1>10, <1>11 DEF LoopOK
<1> QED BY <1>3, <1>12

(* The steps of the converter thread.                                      *)
LEMMA ConvertsStep ==
  ASSUME SystemInv, NEW t \in Threads, Converts(t)
  PROVE  DaemonInv'
<1>1. /\ DaemonInv /\ TypeOK /\ FrameOK(t)
      /\ ConnOK(t) /\ ResultOK(t) /\ LoopOK(t)
  BY DEF SystemInv, TypeInv, DaemonInv
<1>2. /\ conn' = conn
      /\ score' = IF pc'[t] = "idle" THEN [score EXCEPT ![t] = NoScore] ELSE score
      /\ score' \in [Threads -> [Surfaces -> Int]]
      /\ \A u \in Threads \ {t} : score'[u] = score[u]
      /\ pc'[t] # "idle" => score'[t] = score[t]
  BY <1>1 DEF Converts, DaemonInv, NoScore
<1>3. \A u \in Threads \ {t} : Untouched(u)
  <2>1. CASE User(t)
    BY <1>1, <2>1 DEF User, RewriteDeclines, RewriteBegins, TakesConversion, Finish,
                      Clear, ConversionEnds, frame, Untouched, TypeOK
  <2>2. CASE GuardSkips(t) \/ JoinsTask(t) \/ CallFails(t) \/ StoresPending(t)
    BY <1>1, <2>2 DEF GuardSkips, JoinsTask, CallFails, StoresPending, Returns,
                      Untouched, TypeOK
  <2>3. CASE ReadsCap(t) \/ ReadsContext(t) \/ CallStarts(t) \/ CallSucceeds(t)
               \/ AppliesResult(t) \/ WaitTimesOut(t)
    BY <1>1, <2>3 DEF ReadsCap, ReadsContext, CallStarts, CallSucceeds,
                      AppliesResult, WaitTimesOut, frame, Untouched, TypeOK
  <2>4. CASE FillsSlot(t)
    BY <1>1, <2>4 DEF FillsSlot, Untouched, TypeOK
  <2> QED BY <2>1, <2>2, <2>3, <2>4 DEF Converts, Proceeds
<1>4. \A u \in Threads \ {t} : ConnOK(u)' /\ ResultOK(u)' /\ LoopOK(u)'
  BY <1>1, <1>2, <1>3, Stays DEF DaemonInv
<1>5. ASSUME ConnOK(t)' /\ ResultOK(t)' /\ LoopOK(t)'
      PROVE  DaemonInv'
  BY <1>1, <1>2, <1>4, <1>5 DEF DaemonInv
(* A thread that has no call has no connection.                            *)
<1>6. task[t] # "running" => conn[t] = NoConnection
  BY <1>1 DEF ConnOK
<1>7. ASSUME task[t] # "running", task'[t] # "ok", pc'[t] \notin {"apply", "reorder"}
      PROVE  DaemonInv'
  BY <1>2, <1>5, <1>6, <1>7 DEF ConnOK, ResultOK, LoopOK
<1>8. CASE User(t)
  BY <1>1, <1>7, <1>8 DEF User, RewriteDeclines, RewriteBegins, TakesConversion,
                          Finish, Clear, FrameOK, TypeOK
<1>9. CASE ReadsCap(t) \/ ReadsContext(t) \/ CallStarts(t)
  BY <1>1, <1>7, <1>9 DEF ReadsCap, ReadsContext, CallStarts, FrameOK, TypeOK
<1>10. CASE GuardSkips(t) \/ JoinsTask(t) \/ CallFails(t) \/ StoresPending(t)
  BY <1>1, <1>7, <1>10 DEF GuardSkips, JoinsTask, CallFails, StoresPending, Returns,
                           FrameOK, TypeOK
<1>11. CASE CallSucceeds(t)
  <2>1. /\ task[t] = "ok" /\ pc'[t] = "apply" /\ task'[t] = "none"
        /\ UNCHANGED <<result, nbest>>
    BY <1>1, <1>11 DEF CallSucceeds, frame, TypeOK
  <2>2. ConnOK(t)' /\ ResultOK(t)' /\ LoopOK(t)'
    BY <1>1, <1>2, <1>6, <2>1 DEF ConnOK, ResultOK, LoopOK, SoundAnswer
  <2> QED BY <1>5, <2>2
<1>12. CASE WaitTimesOut(t)
  <2>1. /\ task[t] = "running" /\ pc'[t] = "joining"
        /\ UNCHANGED <<result, nbest, task>>
    BY <1>1, <1>12 DEF WaitTimesOut, frame, TypeOK
  <2>2. ConnOK(t)' /\ ResultOK(t)' /\ LoopOK(t)'
    BY <1>1, <1>2, <2>1 DEF ConnOK, ResultOK, LoopOK, SoundAnswer
  <2> QED BY <1>5, <2>2
<1>13. CASE AppliesResult(t)
  <2>1. /\ pc[t] = "apply" /\ pc'[t] = "reorder" /\ UNCHANGED <<nbest, task>>
        /\ task[t] = "none"
    BY <1>1, <1>13 DEF AppliesResult, FrameOK, TypeOK
  <2>2. result'[t] = result[t] /\ LoopOK(t)'
    BY <1>13, LoopStarts
  <2>3. ConnOK(t)' /\ ResultOK(t)'
    BY <1>1, <1>2, <1>6, <2>1, <2>2 DEF ConnOK, ResultOK, SoundAnswer
  <2> QED BY <1>5, <2>2, <2>3
<1>14. CASE FillsSlot(t)
  <2>1. /\ pc[t] = "reorder" /\ UNCHANGED <<pc, nbest, task, result>>
        /\ task[t] = "none"
    BY <1>1, <1>14 DEF FillsSlot, FrameOK, TypeOK
  <2>2. LoopOK(t)'
    BY <1>14, TurnStep
  <2>3. ConnOK(t)' /\ ResultOK(t)'
    BY <1>1, <1>2, <1>6, <2>1 DEF ConnOK, ResultOK, SoundAnswer
  <2> QED BY <1>5, <2>2, <2>3
<1> QED BY <1>8, <1>9, <1>10, <1>11, <1>12, <1>13, <1>14 DEF Converts, Proceeds

LEMMA SystemStep == SystemInv /\ [SystemNext]_systemVars => SystemInv'
<1> SUFFICES ASSUME SystemInv, [SystemNext]_systemVars PROVE SystemInv'
  OBVIOUS
<1>1. TypeInv' /\ OrderInv' /\ SentInv'
  BY StepMaps, HeardIsOpen, TypeStep, OrderStep, SentStep DEF SystemInv
<1>2. DaemonInv'
  <2>1. CASE UNCHANGED systemVars
    BY <2>1 DEF systemVars, vars, frame, SystemInv, DaemonInv, ConnOK, ResultOK, LoopOK,
                SoundAnswer, TargetCandidates, Target, LastOffered, Offered
  <2> QED BY <2>1, DaemonStep, LinkStep, ConvertsStep DEF SystemNext
<1> QED BY <1>1, <1>2 DEF SystemInv

LEMMA SystemInvariant == SystemSpec => []SystemInv
BY SystemInitInv, SystemStep, PTL DEF SystemSpec

--------------------------------------------------------------------------------
(* What follows.                                                           *)

(* Whatever is given up and whenever the daemon is stopped, a Rewrite is   *)
(* only ever given a ranking of candidates it sent itself.                 *)
THEOREM AnswersAreToOwnQuestion == SystemSpec => []AnswersOwnQuestion
<1>1. SystemInv => AnswersOwnQuestion
  <2> SUFFICES ASSUME SystemInv, NEW t \in Threads, pc[t] \in {"apply", "reorder"},
                      NEW x \in ToSet(result[t].ranked)
               PROVE  x \in ToSet(nbest[t])
    BY DEF AnswersOwnQuestion
  <2> DEFINE ranked == result[t].ranked
  <2>1. ranked \in Seq(Surfaces) /\ Stand(ranked, nbest[t], Len(nbest[t]), 1)
    BY DEF SystemInv, DaemonInv, ResultOK, SoundAnswer, HookResults
  <2>2. PICK at : Standing(ranked, nbest[t], Len(nbest[t]), 1, at)
    BY <2>1 DEF Stand
  <2>3. nbest[t] \in Seq(Surfaces)
    BY DEF SystemInv, TypeInv, TypeOK
  <2>4. PICK k \in 1..Len(ranked) : ranked[k] = x
    BY <2>1 DEF ToSet
  <2>5. at[k] \in 1..Len(nbest[t]) /\ nbest[t][at[k]] = x
    BY <2>2, <2>4 DEF Standing
  <2> QED BY <2>3, <2>5 DEF ToSet
<1> QED BY <1>1, SystemInvariant, PTL

(* What was not sent is not moved.                                         *)
THEOREM CutOffCandidatesStay == SystemSpec => []PastCapUntouched
<1>1. SystemInv => PastCapUntouched
  <2> SUFFICES ASSUME SystemInv, NEW t \in Threads, pc[t] = "reorder",
                      NEW i \in Len(nbest[t]) + 1 .. Len(TargetCandidates(t))
               PROVE  TargetCandidates(t)[i] = Offered(t)[Target(t)][i]
    BY DEF PastCapUntouched, Reordered
  <2>1. TargetCandidates(t)[i] = LastOffered(t)[i]
    BY DEF SystemInv, DaemonInv, LoopOK
  <2>2. Target(t) = Len(Offered(t))
    BY DEF SystemInv, TypeInv, FrameOK, OrderInv, OrderOK, Target
  <2> QED BY <2>1, <2>2 DEF LastOffered
<1> QED BY <1>1, SystemInvariant, PTL

(* Another candidate comes before Mozc's first only if it was sent, is not *)
(* junk and scores by the margin better; the log is told which one it is.  *)
THEOREM MarginDecidesTheFirst == SystemSpec => []MozcFirstUnlessMargin
<1>1. SystemInv => MozcFirstUnlessMargin
  <2> SUFFICES ASSUME SystemInv, NEW t \in Threads, Reordered(t)
               PROVE  /\ result[t].final_top1 = FirstNow(t)
                      /\ FirstNow(t) # MozcFirst(t) =>
                           /\ FirstNow(t) \in ToSet(nbest[t]) \ Junk
                           /\ score[t][FirstNow(t)] >= score[t][MozcFirst(t)] + Tau
    BY DEF MozcFirstUnlessMargin
  <2> DEFINE list == TargetCandidates(t)
             ranked == result[t].ranked
             n == Len(nbest[t])
  <2>1. /\ pc[t] = "reorder" /\ slot[t] > Smaller(Len(ranked), Len(list))
        /\ SoundAnswer(result[t], nbest[t], score[t])
        /\ n <= Len(list) /\ (slot[t] > 1 => list[1] = ranked[1])
    BY DEF Reordered, ReorderLimit, SystemInv, DaemonInv, ResultOK, LoopOK
  <2>2. /\ slot[t] \in Nat /\ nbest[t] \in Seq(Surfaces) \ {<<>>}
        /\ request[t] # None /\ SentOK(t) /\ OrderOK(t)
        /\ list \in Seq(Surfaces)
    <3>1. /\ TypeOK /\ FrameOK(t) /\ SentOK(t) /\ OrderOK(t)
      BY DEF SystemInv, TypeInv, OrderInv, SentInv
    <3>2. segs[t] \in Seq(Seq(Surfaces)) /\ segs[t] # <<>>
      BY <2>1, <3>1 DEF TypeOK, FrameOK
    <3>3. list \in Seq(Surfaces)
      BY <3>2 DEF TargetCandidates, Target
    <3> QED BY <2>1, <3>1, <3>3 DEF TypeOK, FrameOK
  <2>3. /\ ranked \in Seq(Surfaces) \ {<<>>} /\ ranked[1] = result[t].final_top1
        /\ Stand(ranked, nbest[t], n, 1)
    BY <2>1 DEF SoundAnswer, HookResults
  <2>4. Len(ranked) <= n
    BY <2>2, <2>3, StandingFits
  <2>5. Len(ranked) \in Nat \ {0} /\ Len(list) \in Nat /\ n \in Nat \ {0}
    <3> HIDE DEF ranked, list
    <3>1. ranked # <<>> /\ ranked \in Seq(Surfaces) /\ nbest[t] # <<>>
      BY <2>2, <2>3
    <3> QED BY <2>2, <3>1
  <2>6. slot[t] > 1
    BY <2>1, <2>2, <2>4, <2>5 DEF Smaller
  <2>7. FirstNow(t) = ranked[1] /\ FirstNow(t) = result[t].final_top1
    BY <2>1, <2>3, <2>6 DEF FirstNow
  <2>8. nbest[t][1] = MozcFirst(t)
    <3>1. nbest[t] = SubSeq(LastOffered(t), 1, n) /\ n <= Len(LastOffered(t))
      BY <2>1, <2>2 DEF SentOK
    <3>2. LastOffered(t) \in Seq(Surfaces)
      <4>1. Offered(t) \in Seq(Seq(Surfaces)) /\ Offered(t) # <<>>
        BY <2>1, <2>2, SetsAssumption
           DEF OrderOK, Offered, SystemInv, TypeInv, TypeOK, FrameOK, Conversions
      <4> QED BY <4>1 DEF LastOffered
    <3>3. Target(t) = Len(Offered(t))
      BY <2>2 DEF OrderOK, Target
    <3>4. nbest[t][1] = LastOffered(t)[1]
      BY <2>5, <3>1, <3>2
    <3> QED BY <3>3, <3>4 DEF MozcFirst, LastOffered
  <2>9. FirstNow(t) \in ToSet(nbest[t])
    <3>1. PICK at : Standing(ranked, nbest[t], n, 1, at)
      BY <2>3 DEF Stand
    <3>2. 1 \in 1..Len(ranked)
      BY <2>5
    <3>3. at[1] \in 1..n /\ nbest[t][at[1]] = ranked[1]
      BY <3>1, <3>2 DEF Standing
    <3> QED BY <2>2, <2>7, <3>3 DEF ToSet
  <2> QED BY <2>1, <2>7, <2>8, <2>9 DEF SoundAnswer
<1> QED BY <1>1, SystemInvariant, PTL

(* The system implements the rewriter, if the answers left open there are  *)
(* at least the well-formed ones that rank no more surfaces than Mozc ever *)
(* offers: a step of the link or of the daemon is a step of that peer, or  *)
(* none to the rewriter.                                                   *)
THEOREM SystemImplementsRewriter ==
  ASSUME \A reply \in HookResults :
           (\E r \in Requests : /\ r.segs # <<>>
                                /\ Len(reply.ranked) <= Len(r.segs[Len(r.segs)]))
             => reply \in Replies
  PROVE  SystemSpec => RewriterSpec
<1>1. SystemInv /\ [SystemNext]_systemVars => [Next]_vars
  <2> SUFFICES ASSUME SystemInv, HeardNext PROVE Next
    BY StepMaps
  <2>1. ASSUME NEW t \in Threads, NEW reply, SoundAnswer(reply, nbest[t], score[t]),
               TaskAnswers(t, reply)
        PROVE  TaskEnds(t)
    <3> DEFINE offered == LastOffered(t)
    <3>1. /\ reply \in HookResults /\ reply.ranked \in Seq(Surfaces)
          /\ Stand(reply.ranked, nbest[t], Len(nbest[t]), 1)
      BY <2>1 DEF SoundAnswer, HookResults
    <3>2. /\ pc[t] \in {"waiting", "joining"} /\ Len(nbest[t]) \in Nat
          /\ nbest[t] \in Seq(Surfaces)
      BY <2>1, WaitingRewrite DEF TaskAnswers
    <3>3. /\ request[t] \in Requests /\ Offered(t) # <<>>
          /\ Len(nbest[t]) <= Len(offered)
          /\ Len(offered) \in Nat
      <4>1. request[t] \in Requests /\ Offered(t) # <<>>
            /\ Len(nbest[t]) <= Len(offered)
        BY <3>2 DEF SystemInv, TypeInv, TypeOK, FrameOK, OrderInv, OrderOK, SentInv, SentOK
      <4>2. Offered(t) \in Seq(Seq(Surfaces))
        BY <4>1, SetsAssumption DEF Offered, Conversions
      <4> QED BY <4>1, <4>2 DEF LastOffered
    <3>4. Len(reply.ranked) <= Len(nbest[t]) /\ Len(reply.ranked) \in Nat
      BY <3>1, <3>2, StandingFits
    <3>5. Len(reply.ranked) <= Len(offered)
      <4> HIDE DEF offered
      <4> QED BY <3>2, <3>3, <3>4
    <3>6. reply \in Replies
      BY <3>1, <3>3, <3>5 DEF LastOffered, Offered
    <3> QED BY <2>1, <3>6 DEF TaskEnds
  <2> QED BY <2>1 DEF HeardNext, Next, TaskEnds
<1>2. SystemInit => Init
  BY DEF SystemInit
<1> QED BY <1>1, <1>2, SystemInvariant, PTL DEF SystemSpec, RewriterSpec, Spec

================================================================================
