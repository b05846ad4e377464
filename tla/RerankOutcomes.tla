---------------------------- MODULE RerankOutcomes ----------------------------
(***************************************************************************)
(* RerankRewriter with an observer: the outcomes of the calls since it was *)
(* constructed, the last DegradeAfter of them, in the order the calls took *)
(* pending_mutex_ to note them.  What the tiers promise is said of this    *)
(* history; the counters of the code are how it keeps the promise.         *)
(***************************************************************************)
EXTENDS RerankRewriter, SequencesExt

VARIABLE recent    \* the last outcomes

Outcomes == {"failed", "answered"}

observed == <<vars, recent>>

Latest(list) == IF Len(list) > DegradeAfter THEN Tail(list) ELSE list

Fails == \E t \in Threads : WaitTimesOut(t) \/ CallFails(t)
Succeeds == \E t \in Threads : CallSucceeds(t)
EndsNoCall ==
  \E t \in Threads :
    \/ User(t) \/ TaskEnds(t)
    \/ ReadsCap(t) \/ ReadsContext(t) \/ GuardSkips(t) \/ CallStarts(t)
    \/ JoinsTask(t) \/ AppliesResult(t) \/ FillsSlot(t) \/ StoresPending(t)

ObservedInit == Init /\ recent = <<>>

ObservedNext ==
  \/ Fails /\ recent' = Latest(Append(recent, "failed"))
  \/ Succeeds /\ recent' = Latest(Append(recent, "answered"))
  \/ EndsNoCall /\ UNCHANGED recent

ObservedSpec == ObservedInit /\ [][ObservedNext]_observed

--------------------------------------------------------------------------------
(* A tier is lost only when the last DegradeAfter calls all failed, and    *)
(* won back only when they all succeeded, whatever happened in between and *)
(* whichever threads made them (NoteTimeout, NoteSuccess: each outcome     *)
(* ends the other's run).                                                  *)
AllWere(outcome, list) ==
  Len(list) = DegradeAfter /\ ToSet(list) = {outcome}

TierFollowsOutcomes ==
  [][/\ degrade_tier' > degrade_tier => AllWere("failed", recent')
     /\ degrade_tier' < degrade_tier => AllWere("answered", recent')]_observed

(* It is lost then, too: after DegradeAfter failures in a row the tier is  *)
(* never 0, where all candidates and the whole context are sent.           *)
FailuresDegrade == AllWere("failed", recent) => degrade_tier > 0
================================================================================
