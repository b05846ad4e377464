---------------------------- MODULE RerankRewriter ----------------------------
(***************************************************************************)
(* RerankRewriter (mozc_compat/rerank_rewriter.{h,cc}): the rewriter that  *)
(* asks a local model, through the loopback daemon or through a hook       *)
(* command, to reorder the candidates of a conversion.                     *)
(*                                                                         *)
(* Each thread of the converter runs one conversion at a time: Rewrite,    *)
(* then Finish when the user commits it, or Clear when it is dropped.  A   *)
(* Rewrite is split where it takes or releases pending_mutex_ and where it *)
(* waits for its asynchronous call, the places another thread, the call or *)
(* the clock can come in between.                                          *)
(*                                                                         *)
(* What the peer answers is left open here (Replies): what is proved of    *)
(* this module holds for every daemon and every hook command.  Module      *)
(* RerankSystem composes it with the daemon of the repository.             *)
(*                                                                         *)
(* An operator just above another and named for it and a change is a       *)
(* faulty variant of that one, used to test the properties (README).       *)
(***************************************************************************)
EXTENDS Candidates, FiniteSets

CONSTANTS
  Threads,        \* converter threads that share the rewriter
  Surfaces,       \* candidate surfaces
  Junk,           \* the surfaces IsJunkSurface rejects
  Requests,       \* the conversions the threads may ask for
  Replies,        \* the well-formed responses the peer may send
  Enabled,        \* enabled_
  LogEnabled,     \* log_path_ is not empty
  HookMode,       \* hook_cmd_ is not empty: a command answers, not the daemon
  GuardOn,        \* MOZC_RERANK_GUARD
  StrictGuard,    \* MOZC_RERANK_GUARD_MODE is not "safety"
  CandCap,        \* cand_cap_, 30 by default
  DegradedCap,    \* the cap from tier 1 on, 15
  ContextChars,   \* context_chars_, 50 by default
  DegradedChars,  \* the context left at tier 2, 20
  DegradeAfter,   \* calls in a row that change the tier, 5
  None            \* no conversion, no result, no pending log, no log line

MaxTier == 4

(* A reading is known by its length in codepoints and by its presence in   *)
(* kEligibleReadings; textAt is how many codepoints before the cursor the  *)
(* nearest letter, kana or kanji of the cleaned context stands, 0 if none. *)
Readings == [len : Nat, listed : BOOLEAN]

Conversions == [reading : Readings, textAt : Nat, segs : Seq(Seq(Surfaces))]

(* ParseHookResponse accepts no response without a ranked surface.         *)
HookResults == [ranked : Seq(Surfaces) \ {<<>>}, final_top1 : Surfaces,
                overwritten : BOOLEAN]

(* pending_log_ while has_pending_log_ is set, None otherwise.             *)
PendingLogs == [reading : Readings, nbest : Seq(Surfaces),
                final_top1 : Surfaces, overwritten : BOOLEAN]

(* A line of the conversion log; committed and verdict observe which       *)
(* conversion was committed and are not written.                           *)
LogLines == [pending : PendingLogs, chosen : Surfaces, committed : Requests,
             verdict : {"declined", "skipped", "failed", "reranked"}]

ASSUME SetsAssumption ==
  /\ IsFiniteSet(Threads)
  /\ Junk \subseteq Surfaces
  /\ Requests \subseteq Conversions
  /\ Replies \subseteq HookResults
  /\ None \notin Requests \cup HookResults \cup PendingLogs

ASSUME FlagsAssumption ==
  {Enabled, LogEnabled, HookMode, GuardOn, StrictGuard} \subseteq BOOLEAN

ASSUME LimitsAssumption ==
  /\ {CandCap, DegradedCap, DegradeAfter} \subseteq Nat \ {0}
  /\ {ContextChars, DegradedChars} \subseteq Nat \ {0}

VARIABLES
  degrade_tier, consecutive_timeouts, consecutive_ok,
  pending,   \* the pending log
  log,       \* the line the last step appended to the conversion log
  pc,        \* where each thread's Rewrite stands
  request,   \* the conversion the thread works on, as Mozc offered it
  segs,      \* the candidate lists of its conversion segments
  nbest,     \* the candidates it sends
  ctx,       \* the context length it was given
  task,      \* its std::async call
  result,    \* the HookResult on its stack, written by the call
  slot,      \* the loop index of ReorderSegment, from 1
  changed,   \* what Rewrite returns
  verdict    \* observer: how the last Rewrite ended

degrade == <<degrade_tier, consecutive_timeouts, consecutive_ok>>
frame   == <<nbest, ctx, result, slot>>
vars == <<degrade, pending, log, pc, request, segs, frame, task, changed, verdict>>

--------------------------------------------------------------------------------
(* The parts of a conversion.                                              *)
Target(t) == Len(segs[t])
TargetCandidates(t) == segs[t][Target(t)]

TypeOK ==
  /\ degrade_tier \in 0..MaxTier
  /\ consecutive_timeouts \in 0..DegradeAfter
  /\ consecutive_ok \in 0..DegradeAfter
  /\ pending \in PendingLogs \cup {None}
  /\ log \in LogLines \cup {None}
  /\ pc \in [Threads -> {"idle", "cap", "context", "guard", "waiting",
                         "joining", "apply", "reorder"}]
  /\ request \in [Threads -> Requests \cup {None}]
  /\ segs \in [Threads -> Seq(Seq(Surfaces))]
  /\ nbest \in [Threads -> Seq(Surfaces)]
  /\ ctx \in [Threads -> Nat]
  /\ task \in [Threads -> {"none", "running", "ok", "failed"}]
  /\ result \in [Threads -> HookResults \cup {None}]
  /\ slot \in [Threads -> Nat]
  /\ changed \in [Threads -> BOOLEAN]
  /\ verdict \in [Threads -> {"none", "declined", "skipped", "failed", "reranked"}]

Init ==
  /\ degrade_tier = 0 /\ consecutive_timeouts = 0 /\ consecutive_ok = 0
  /\ pending = None
  /\ log = None
  /\ pc = [t \in Threads |-> "idle"]
  /\ request = [t \in Threads |-> None]
  /\ segs = [t \in Threads |-> <<>>]
  /\ nbest = [t \in Threads |-> <<>>]
  /\ ctx = [t \in Threads |-> 0]
  /\ task = [t \in Threads |-> "none"]
  /\ result = [t \in Threads |-> None]
  /\ slot = [t \in Threads |-> 1]
  /\ changed = [t \in Threads |-> FALSE]
  /\ verdict = [t \in Threads |-> "none"]

--------------------------------------------------------------------------------
(* Degrading.  A counter is only ever compared with DegradeAfter, so it is *)
(* kept no further than that: this is the bound on both counters.          *)
Counted(n) == Smaller(n + 1, DegradeAfter)

NoteTimeoutKeepsOk ==
  LET climbs == Counted(consecutive_timeouts) >= DegradeAfter /\ degrade_tier < MaxTier
  IN /\ consecutive_timeouts' = IF climbs THEN 0 ELSE Counted(consecutive_timeouts)
     /\ degrade_tier' = IF climbs THEN degrade_tier + 1 ELSE degrade_tier
     /\ UNCHANGED consecutive_ok

NoteTimeoutOneMore ==
  /\ consecutive_ok' = 0
  /\ consecutive_timeouts' = Counted(consecutive_timeouts)
  /\ degrade_tier' = IF consecutive_timeouts + 1 > DegradeAfter
                        /\ degrade_tier < MaxTier
                     THEN degrade_tier + 1 ELSE degrade_tier

NoteTimeout ==
  LET n == Counted(consecutive_timeouts)
      climbs == n >= DegradeAfter /\ degrade_tier < MaxTier
  IN /\ consecutive_ok' = 0
     /\ consecutive_timeouts' = IF climbs THEN 0 ELSE n
     /\ degrade_tier' = IF climbs THEN degrade_tier + 1 ELSE degrade_tier

NoteSuccessBelowZero ==
  /\ consecutive_timeouts' = 0
  /\ consecutive_ok' = IF Counted(consecutive_ok) >= DegradeAfter THEN 0
                       ELSE Counted(consecutive_ok)
  /\ degrade_tier' = IF Counted(consecutive_ok) >= DegradeAfter
                     THEN degrade_tier - 1 ELSE degrade_tier

NoteSuccessNoUpgrade ==
  /\ consecutive_timeouts' = 0
  /\ consecutive_ok' = Counted(consecutive_ok)
  /\ UNCHANGED degrade_tier

NoteSuccess ==
  LET n == Counted(consecutive_ok)
      recovers == n >= DegradeAfter /\ degrade_tier > 0
  IN /\ consecutive_timeouts' = 0
     /\ consecutive_ok' = IF recovers THEN 0 ELSE n
     /\ degrade_tier' = IF recovers THEN degrade_tier - 1 ELSE degrade_tier

EffectiveCandCap ==
  IF degrade_tier >= 1 THEN Smaller(CandCap, DegradedCap) ELSE CandCap

EffectiveContextCharsNoTierThree ==
  IF degrade_tier >= 2 THEN DegradedChars ELSE ContextChars

EffectiveContextChars ==
  IF degrade_tier >= 3 THEN 0
  ELSE IF degrade_tier >= 2 THEN DegradedChars
  ELSE ContextChars

DegradeNeverDisables == FALSE

DegradeDisabled == degrade_tier >= MaxTier

(* The usage guard: the model is asked only about a reading longer than    *)
(* two characters, on the allowlist unless the mode is "safety", after a   *)
(* context with linguistic content within the n characters it is clipped   *)
(* to.                                                                     *)
HasContext(r, n) == r.textAt \in 1..n

RerankSkips(r, n) ==
  /\ GuardOn
  /\ \/ r.reading.len <= 2
     \/ ~HasContext(r, n)
     \/ StrictGuard /\ ~r.reading.listed

--------------------------------------------------------------------------------
(* Rewrite.                                                                *)
(* A new conversion, as Mozc hands it over: the early returns (rewriter or *)
(* tier switched off, no segment, no candidate, no reading) ...            *)
Declines(r) ==
  \/ ~Enabled
  \/ r.segs = <<>>
  \/ DegradeDisabled
  \/ r.segs # <<>> /\ r.segs[Len(r.segs)] = <<>>
  \/ r.reading.len = 0

TakesConversion(t, r) ==
  /\ pc[t] = "idle"
  /\ request' = [request EXCEPT ![t] = r]
  /\ segs' = [segs EXCEPT ![t] = r.segs]
  /\ changed' = [changed EXCEPT ![t] = FALSE]

(* Rewrite returns; its stack frame goes away.                             *)
Returns(t, how) ==
  /\ pc' = [pc EXCEPT ![t] = "idle"]
  /\ nbest' = [nbest EXCEPT ![t] = <<>>]
  /\ ctx' = [ctx EXCEPT ![t] = 0]
  /\ result' = [result EXCEPT ![t] = None]
  /\ slot' = [slot EXCEPT ![t] = 1]
  /\ verdict' = [verdict EXCEPT ![t] = how]

RewriteDeclines(t, r) ==
  /\ TakesConversion(t, r)
  /\ Declines(r)
  /\ verdict' = [verdict EXCEPT ![t] = "declined"]
  /\ log' = None
  /\ UNCHANGED <<degrade, pending, frame, task, pc>>

(* ... or a Rewrite of the last conversion segment begins.                 *)
RewriteBegins(t, r) ==
  /\ TakesConversion(t, r)
  /\ ~Declines(r)
  /\ pc' = [pc EXCEPT ![t] = "cap"]
  /\ verdict' = [verdict EXCEPT ![t] = "none"]
  /\ log' = None
  /\ UNCHANGED <<degrade, pending, frame, task>>

ReadsCap(t) ==
  /\ pc[t] = "cap"
  /\ nbest' = [nbest EXCEPT ![t] =
       SubSeq(TargetCandidates(t), 1,
              Smaller(EffectiveCandCap, Len(TargetCandidates(t))))]
  /\ pc' = [pc EXCEPT ![t] = "context"]
  /\ log' = None
  /\ UNCHANGED <<degrade, pending, request, segs, ctx, result, slot, task,
                 changed, verdict>>

ReadsContext(t) ==
  /\ pc[t] = "context"
  /\ ctx' = [ctx EXCEPT ![t] = EffectiveContextChars]
  /\ pc' = [pc EXCEPT ![t] = "guard"]
  /\ log' = None
  /\ UNCHANGED <<degrade, pending, request, segs, nbest, result, slot, task,
                 changed, verdict>>

(* The fields of pending_log_ that are assigned under pending_mutex_.      *)
PendingLog(t, top, over) ==
  [reading |-> request[t].reading, nbest |-> nbest[t], final_top1 |-> top,
   overwritten |-> over]

(* The guard skips the call and leaves Mozc's order, with a pending log.   *)
GuardSkips(t) ==
  /\ pc[t] = "guard"
  /\ RerankSkips(request[t], ctx[t])
  /\ pending' = PendingLog(t, nbest[t][1], FALSE)
  /\ Returns(t, "skipped")
  /\ log' = None
  /\ UNCHANGED <<degrade, request, segs, task, changed>>

(* CallHookWithTimeout: the call runs in a task of its own.                *)
CallStarts(t) ==
  /\ pc[t] = "guard"
  /\ ~RerankSkips(request[t], ctx[t])
  /\ task' = [task EXCEPT ![t] = "running"]
  /\ result' = [result EXCEPT ![t] = None]
  /\ pc' = [pc EXCEPT ![t] = "waiting"]
  /\ log' = None
  /\ UNCHANGED <<degrade, pending, request, segs, nbest, ctx, slot, changed,
                 verdict>>

(* The task writes the response into the caller's frame, or fails: no      *)
(* connection, a socket timeout, an exit code, an unusable response.       *)
TaskAnswers(t, reply) ==
  /\ task[t] = "running"
  /\ task' = [task EXCEPT ![t] = "ok"]
  /\ result' = [result EXCEPT ![t] = reply]
  /\ log' = None
  /\ UNCHANGED <<degrade, pending, pc, request, segs, nbest, ctx, slot,
                 changed, verdict>>

TaskFails(t) ==
  /\ task[t] = "running"
  /\ task' = [task EXCEPT ![t] = "failed"]
  /\ log' = None
  /\ UNCHANGED <<degrade, pending, pc, request, segs, frame, changed, verdict>>

(* wait_for runs out: the timeout is noted and Rewrite is about to return  *)
(* false, but the future of std::async joins its task when it goes away.   *)
WaitTimesOut(t) ==
  /\ pc[t] = "waiting"
  /\ task[t] = "running"
  /\ NoteTimeout
  /\ pc' = [pc EXCEPT ![t] = "joining"]
  /\ verdict' = [verdict EXCEPT ![t] = "failed"]
  /\ log' = None
  /\ UNCHANGED <<pending, request, segs, frame, task, changed>>

JoinsAnsweredTask(t) ==
  /\ pc[t] = "joining"
  /\ task[t] = "ok"
  /\ task' = [task EXCEPT ![t] = "none"]
  /\ Returns(t, "failed")
  /\ log' = None
  /\ UNCHANGED <<degrade, pending, request, segs, changed>>

JoinsAndUsesAnswer(t) ==
  /\ pc[t] = "joining"
  /\ task[t] # "running"
  /\ task' = [task EXCEPT ![t] = "none"]
  /\ pc' = [pc EXCEPT ![t] = IF task[t] = "ok" THEN "apply" ELSE "idle"]
  /\ log' = None
  /\ UNCHANGED <<degrade, pending, request, segs, frame, changed, verdict>>

JoinsTask(t) ==
  /\ pc[t] = "joining"
  /\ task[t] # "running"
  /\ task' = [task EXCEPT ![t] = "none"]
  /\ Returns(t, "failed")
  /\ log' = None
  /\ UNCHANGED <<degrade, pending, request, segs, changed>>

CallFails(t) ==
  /\ pc[t] = "waiting"
  /\ task[t] = "failed"
  /\ NoteTimeout
  /\ task' = [task EXCEPT ![t] = "none"]
  /\ Returns(t, "failed")
  /\ log' = None
  /\ UNCHANGED <<pending, request, segs, changed>>

CallSucceeds(t) ==
  /\ pc[t] = "waiting"
  /\ task[t] = "ok"
  /\ NoteSuccess
  /\ task' = [task EXCEPT ![t] = "none"]
  /\ pc' = [pc EXCEPT ![t] = "apply"]
  /\ log' = None
  /\ UNCHANGED <<pending, request, segs, frame, changed, verdict>>

(* A junk surface that the peer promoted is refused: Mozc's order again.   *)
Unjunked(res, sent) ==
  IF res.overwritten /\ res.final_top1 \in Junk
  THEN [res EXCEPT !.overwritten = FALSE, !.final_top1 = sent[1], !.ranked = sent]
  ELSE res

AppliesResult(t) ==
  /\ pc[t] = "apply"
  /\ result' = [result EXCEPT ![t] = Unjunked(result[t], nbest[t])]
  /\ slot' = [slot EXCEPT ![t] = 1]
  /\ pc' = [pc EXCEPT ![t] = "reorder"]
  /\ log' = None
  /\ UNCHANGED <<degrade, pending, request, segs, nbest, ctx, task, changed,
                 verdict>>

(* ReorderSegment, one turn of its loop: the next ranked surface is moved  *)
(* up to its slot from where it is found, if it is found below.            *)
ReorderLimit(t) == Smaller(Len(result[t].ranked), Len(TargetCandidates(t)))

FoundHereOrBelow(surface, cands, target) == PlacesOf(surface, cands, target) # {}

FoundBelow(surface, cands, target) ==
  /\ PlacesOf(surface, cands, target) # {}
  /\ FirstPlace(surface, cands, target) > target

FillsSlot(t) ==
  /\ pc[t] = "reorder"
  /\ slot[t] <= ReorderLimit(t)
  /\ LET cands   == TargetCandidates(t)
         surface == result[t].ranked[slot[t]]
         found   == FirstPlace(surface, cands, slot[t])
     IN IF FoundBelow(surface, cands, slot[t])
        THEN /\ segs' = [segs EXCEPT ![t][Target(t)] =
                                       MoveCandidate(cands, found, slot[t])]
             /\ changed' = [changed EXCEPT ![t] = TRUE]
        ELSE UNCHANGED <<segs, changed>>
  /\ slot' = [slot EXCEPT ![t] = slot[t] + 1]
  /\ log' = None
  /\ UNCHANGED <<degrade, pending, pc, request, nbest, ctx, result, task, verdict>>

StoresPending(t) ==
  /\ pc[t] = "reorder"
  /\ slot[t] > ReorderLimit(t)
  /\ pending' = PendingLog(t, result[t].final_top1, result[t].overwritten)
  /\ Returns(t, "reranked")
  /\ log' = None
  /\ UNCHANGED <<degrade, request, segs, task, changed>>

--------------------------------------------------------------------------------
(* Finish: the user has committed the conversion, having picked the pick'th*)
(* candidate of conversion_segment(0), which Mozc then holds in front.  A  *)
(* line is written if a pending log is there to take.  The line's fields   *)
(* committed and verdict observe what was committed, and are not written.  *)
Chosen(t, pick) ==
  IF segs[t] = <<>> \/ segs[t][1] = <<>> THEN pending.final_top1
  ELSE segs[t][1][pick]

Picks(t) ==
  IF segs[t] = <<>> \/ segs[t][1] = <<>> THEN {1} ELSE 1..Len(segs[t][1])

ConversionEnds(t) ==
  /\ request' = [request EXCEPT ![t] = None]
  /\ segs' = [segs EXCEPT ![t] = <<>>]
  /\ changed' = [changed EXCEPT ![t] = FALSE]
  /\ verdict' = [verdict EXCEPT ![t] = "none"]

Finish(t, pick) ==
  /\ pc[t] = "idle"
  /\ request[t] # None
  /\ IF Enabled /\ LogEnabled /\ pending # None
     THEN /\ log' = [pending |-> pending, chosen |-> Chosen(t, pick),
                     committed |-> request[t], verdict |-> verdict[t]]
          /\ pending' = None
     ELSE UNCHANGED pending /\ log' = None
  /\ ConversionEnds(t)
  /\ UNCHANGED <<degrade, pc, frame, task>>

(* Clear: the conversion is dropped, and the pending log with it.          *)
Clear(t) ==
  /\ pc[t] = "idle"
  /\ request[t] # None
  /\ pending' = None
  /\ ConversionEnds(t)
  /\ log' = None
  /\ UNCHANGED <<degrade, pc, frame, task>>

--------------------------------------------------------------------------------
(* The user starts, commits and drops conversions when he likes.           *)
User(t) ==
  \/ \E r \in Requests : RewriteDeclines(t, r) \/ RewriteBegins(t, r)
  \/ \E pick \in Picks(t) : Finish(t, pick)
  \/ Clear(t)

(* The converter thread's own steps; its clock is WaitTimesOut.            *)
Proceeds(t) ==
  \/ ReadsCap(t) \/ ReadsContext(t) \/ GuardSkips(t) \/ CallStarts(t)
  \/ JoinsTask(t) \/ CallFails(t) \/ CallSucceeds(t)
  \/ AppliesResult(t) \/ FillsSlot(t) \/ StoresPending(t)

TaskEnds(t) == TaskFails(t) \/ \E reply \in Replies : TaskAnswers(t, reply)

Next ==
  \E t \in Threads :
    User(t) \/ Proceeds(t) \/ WaitTimesOut(t) \/ TaskEnds(t)

Spec == Init /\ [][Next]_vars

(* A converter thread is scheduled and its clock runs.  The daemon's socket*)
(* carries receive and send timeouts (TcpExchange), so that call ends; a   *)
(* hook command runs under std::system, and nothing makes it end.          *)
Fairness ==
  \A t \in Threads : /\ WF_vars(Proceeds(t))
                     /\ WF_vars(WaitTimesOut(t))
                     /\ ~HookMode => WF_vars(TaskEnds(t))

FairSpec == Spec /\ Fairness

--------------------------------------------------------------------------------
(* Properties.                                                             *)
Offered(t) == request[t].segs

(* Whatever the peer answers, a conversion keeps its segments, the ones    *)
(* before the last as Mozc made them, and the last segment keeps exactly   *)
(* its candidates: ReorderSegment only ever moves one (Rewrite, 472-552).  *)
CandidatesKept ==
  \A t \in Threads : request[t] # None =>
    /\ Len(segs[t]) = Len(Offered(t))
    /\ \A i \in 1..Len(segs[t]) :
         IF i = Len(segs[t]) THEN IsRearrangement(Offered(t)[i], segs[t][i])
         ELSE segs[t][i] = Offered(t)[i]

(* Fail-safe: a Rewrite that declined, was stopped by the guard, timed out *)
(* or got no usable answer leaves Mozc's order and says so, even if an     *)
(* answer came in after the timeout had been noted.                        *)
FailSafeOrder ==
  \A t \in Threads :
    (request[t] # None /\ verdict[t] \in {"declined", "skipped", "failed"}) =>
      segs[t] = Offered(t) /\ ~changed[t]

(* Rewrite returns true exactly when it has changed the order Mozc offered *)
(* (the loop of ReorderSegment never undoes one of its own moves).         *)
ReturnTellsChange ==
  \A t \in Threads :
    request[t] # None => (changed[t] <=> segs[t] # Offered(t))

(* The asynchronous call never outlives the Rewrite whose stack frame it   *)
(* writes its HookResult into, although the wait for it may have run out.  *)
CallWithinRewrite ==
  \A t \in Threads : task[t] # "none" => pc[t] \in {"waiting", "joining"}

(* With the usage guard on, as by default, tier 4 is never reached: tier 3 *)
(* clears the context, the guard then skips every call, and only a call in *)
(* flight can still count.  (DegradeAfter + 1 threads could have enough of *)
(* them.)                                                                  *)
GuardStopsAtTierThree ==
  (GuardOn /\ Cardinality(Threads) <= DegradeAfter) => degrade_tier < MaxTier

(* No tier brings back the calls that tier 3 under the guard, or tier 4,   *)
(* has switched off: the rewriter stays Mozc-only until it is restarted.   *)
SwitchedOff == degrade_tier >= IF GuardOn THEN 3 ELSE MaxTier

OffForGood ==
  [][(SwitchedOff /\ Cardinality(Threads) <= DegradeAfter) => SwitchedOff']_vars

(* Every Rewrite returns, if the call it waits for ends.                   *)
RewriteReturns == \A t \in Threads : pc[t] # "idle" ~> pc[t] = "idle"

(* The rewriter recovers: if from some time on no call fails or times out, *)
(* and calls are still made, the tier goes back to 0 for good.             *)
NoCallFails == [][\A t \in Threads : ~WaitTimesOut(t) /\ ~CallFails(t)]_vars

Recovers ==
  (<>NoCallFails /\ []<>(\E t \in Threads : pc[t] = "waiting")) =>
    <>[](degrade_tier = 0)

(* Line 103 of the repository's README: what is converted is what the log  *)
(* keeps, so the line Finish appends has the reading that is committed and *)
(* candidates of it.  Not so: a Rewrite that fails stores no pending log   *)
(* and drops none (539), and Finish takes the one an earlier Rewrite left. *)
LineTellsOfCommitted ==
  log # None =>
    /\ log.pending.reading = log.committed.reading
    /\ LET offered == log.committed.segs[Len(log.committed.segs)]
       IN log.pending.nbest = SubSeq(offered, 1, Len(log.pending.nbest))
================================================================================
