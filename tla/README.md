# Mozc-Ai in TLA+

Mozc-Ai adds two rewriters to the Mozc Japanese input method. The
*reranker* asks a local model to reorder the candidates of a conversion. The *AI
rewriter* appends candidates that a language model has produced in the
background. Both run inside the converter, on the path of a key press, so the
same question stands behind both: whatever the model, the network and the other
threads do, the user's candidates survive, the converter gets an answer, and what
is shown belongs to what was typed.

The modules here model that code. TLC checks them on small instances, and TLAPS
proves all invariants of the reranker, of its ranking, of the system it forms with
its daemon, of the exchanges, of the cache, of the worker and of the AI rewriter for
every value of their constants; and for every text that client and daemon read back what
the other writes, that the C++ cleaning of the context does what the daemon's regular
expressions do, and that what the client's guard lets through the daemon does not skip.
`PROJECT.json` lists the runs, the faulty variants, the source lines behind every
definition, the hazards and the findings.

## The system

### Components

| component | source | state | operations | modules |
|---|---|---|---|---|
| RerankRewriter | `mozc_compat/rerank_rewriter.{h,cc}` | degrade tier, two counters, the pending log, all under `pending_mutex_`; per call a stack frame and a `std::async` task | `Rewrite`, `Finish`, `Clear` | `Candidates`, `RerankRewriter`, `RerankOutcomes` |
| margin and ranking | `mozc_compat/rerank_margin.h` | none | `ArgMax`, `ApplyMargin`, `RankedSurfaces` | `RerankOrder` |
| usage guard | `mozc_compat/rerank_guard.cc` | none | `RerankSkipReason`, the junk test | `RerankGuard` |
| context clip | `mozc_compat/context_clip.cc` | none | `CleanContext`, `NormalizeReading` | `ContextClip`, `RerankGuard` |
| loopback client | `TcpExchange`, `CallDaemon` in `rerank_rewriter.cc` | one socket per call | connect, send a line, receive a line; `EscapeJson`, `ParseHookResponse` | `TcpExchange`, `JsonText` |
| hook client | `CallHook` in `rerank_rewriter.cc` | two temporary files | write, `std::system`, read | `RerankRewriter`, `JsonText` (partly) |
| reranker configuration | `LoadPolicyFile`, `LoadConfigFromEnv`, `ParseDaemonAddr` in `rerank_rewriter.cc` | none once loaded | load | `RerankConfig`, `Endpoints` |
| rerank daemon | `runtime/rerank_daemon.py` | the ONNX session, a thread per connection | one response line per request line | `RerankOrder`, `RerankSystem`; its text rules in `ContextClip`, `RerankGuard` |
| AICandidateCache | `src/ai/ai_candidate_cache.{h,cc}` | entries with creation and expiry time, hit and miss counters, under `mutex_` | `Get`, `Put`, `Clear`, `Prune`, `Contains`, `ResetStats` | `FreshMap`, `AICandidateCache` |
| AIWorker | `src/ai/ai_worker.{h,cc}` | queue under `queue_mutex_` with a condition variable, `running_`, `backend_ready_`, a thread | `Start`, `Stop`, `EnqueueRequest`, the loop | `RequestLine`, `AIWorker` |
| AIRewriter | `src/rewriter/ai_rewriter.{h,cc}` (and the copy under `mozc_compat/`) | cache, worker, `initialized_`, failures, context history | `Rewrite`, `Clear` | `AIRewriter` (partly) |
| AI backends | `src/ai/*_backend.cc` | endpoint, model | `Initialize`, `Generate` over HTTP | `HttpExchange`, `JsonText`, `Endpoints` (partly) |
| AIConfigManager | `src/ai/ai_config.{h,cc}` | the configuration, under `mutex_` | `Load`, `SaveToJson`, `GetConfig` | `AIConfig` (partly) |
| AILogger | `src/ai/ai_logger.{h,cc}` | the log path | append a line | none |
| scripts, installer, smoke client, model data | `scripts/`, `installer/`, `runtime_smoke_client.cc`, `runtime/model/` | none at run time | | none |

### Interactions

* The converter calls `Rewrite` for each conversion, then `Finish` if the user
  commits it or `Clear` if it is dropped. Several threads may share a rewriter.
* `RerankRewriter::Rewrite` reads its limits under the mutex, asks the guard,
  starts a task for the call, waits for it with a timeout, and **joins** it before
  it returns, because the future's destructor does. It applies the ranking move by
  move and leaves a pending log that `Finish` turns into a line.
* The task opens a connection of its own to the daemon, or runs the hook command.
  The daemon applies the guard and the margin rule again, in Python.
* `AIRewriter::Rewrite` looks into the cache, enqueues a request at the worker if
  nothing is there, and appends what it has found. The worker's thread calls the
  backend and puts the result into the same cache, which the rewriter owns.

### What is hard

* **Timeouts and late answers.** A call that has timed out still writes its result.
* **Interleavings.** Outcomes of several calls are counted in one place, the tier is
  read twice by one `Rewrite`, two threads initialize the AI rewriter at once,
  `running_` is cleared outside the worker's mutex.
* **Loops that edit the list they search**: `ReorderSegment`, `InsertCandidates`.
* **State that outlives its cause**: the pending log after a failed `Rewrite`,
  `backend_ready_` after a restart, a tier that starves its own recovery.
* **A timeout per operation** bounds no call: every send, receive and poll starts it
  anew.
* **Answers cut short**: by a timeout, a limit or a peer that goes away, in the middle
  of a line or of a text.
* **Texts scanned by hand**: JSON, addresses and settings are found by searching for
  what they look like, by code that another program or a user writes for.
* **Limits**: the candidate cap, the queue, the cache with limits a file can set.
* **Rules written twice**: the margin, the guard and the cleaning of the context, in
  C++ as loops and in Python with regular expressions; the second works on what the
  first has left.

`PROJECT.json` lists each of these as a hazard at its line, with the properties
that would notice it going wrong or the reason why none does yet.

### What makes each component correct

* reranker: candidates are only rearranged; a failure of any kind leaves Mozc's
  order; the return value is truthful; a task never outlives the frame it writes to;
  `Rewrite` returns; the tier follows the outcomes and recovers; the first candidate
  gives way only to a margin; an answer belongs to the question asked.
* cache: never more than the limit, no eviction without need, no wrong, old or
  expired value.
* worker: no lost wakeup, no request unaccounted for, first in first out, silence
  after `Stop`, and `Stop` returns.
* AI rewriter: candidates are only appended, once each; one cache for all; the next
  conversion finds what the worker stored for it; `Rewrite` never waits for the worker.
* clients: an answer is whole or there is none; the reranker's call has an end;
  `Generate` returns once the server has fallen silent.
* scanners: what this code writes it reads back; the two ports agree; a cleaned
  context has nothing left to clean, so that the daemon sees what the client sent.
* configuration: a file cut short gives the settings it holds, and the defaults for
  the rest.

## The modules

| module | models | variables and actions |
|---|---|---|
| `Candidates` | `move_candidate`, the search of `ReorderSegment`, what a rearrangement is | operators |
| `RerankRewriter` | `Rewrite`, `Finish`, `Clear` for any number of threads; the peer may answer anything well formed | one step per lock taken or wait; `degrade_tier`, `pending` and the counters are the members, `pc`, `task`, `result`, `slot` a thread's frame |
| `RerankOutcomes` | the rewriter with a history of the outcomes of its calls | adds `recent` |
| `RerankOrder` | `ApplyMargin`, `RankedSurfaces`, the daemon's `rerank`, `ReorderSegment` as a function | operators |
| `RerankSystem` | the rewriter, its connections and the daemon | `Asks`, `Hears`, `GivesUp`, `Handles`, `DaemonStops`, `DaemonStarts` |
| `FreshMap` | what the cache promises: a map that may forget and never makes a value up | `Store`, `Forget`, `Look` |
| `AICandidateCache` | the cache, operation by operation, with a clock | `Get`, `Put`, `Clear`, `Prune`, `ResetStats`, `Tick` |
| `RequestLine` | what the worker promises: a queue that may drop its oldest, served one at a time | `Submit`, `Take`, `GiveUp`, `Serve`, `Finish` |
| `AIWorker` | the worker's thread split at its mutex, at its atomics and at the backend; `Stop` in three steps | `pc` is the thread, `owner` is `Stop`, `signalled` the condition variable |
| `TcpExchange` | one exchange with the daemon, byte by byte and tick by tick | `stage`, `sent`, `buf` are the call; `wire`, `gone` the other side; `waited`, `spent` the time of an operation and of the call |
| `HttpExchange` | `Generate` of the Ollama and the OpenAI compatible backend, by socket or WinHTTP | `at`, `posted`, `heard`, `candidates` are the call; `answer`, `told`, `hushed`, `closed` the server; `idle` the current wait |
| `Texts` | `find`, `find_first_not_of`, a loop that copies and replaces (`Scan`) | operators on sequences of symbols |
| `ContextClip` | `CleanContext` loop by loop, and the daemon's regular expressions | operators |
| `RerankGuard` | guard, junk test and `NormalizeReading`, and the daemon's | operators |
| `JsonText` | `EscapeJson`, the `Extract` functions, `ParseHookResponse`; `UnescapeJson`, `ParseResponse` of the backends | operators |
| `Endpoints` | `ParseDaemonAddr`, `ParseEndpoint`, `ParseApiEndpoint` | operators |
| `RerankConfig` | `LoadPolicyFile`, `LoadConfigFromEnv` | operators |
| `AIConfig` | `SaveToJson`, `Load` | operators |
| `AIRewriter` | `AIRewriter::Rewrite` by several threads over a `FreshMap` and a `RequestLine` | `cache_` numbers the caches created so far, `using` is the cache a thread is in a call of |
| `MC...` | instances for TLC; `MCParts` runs one client, the other, or the cache, `MCTexts` grows texts | sets of conversions, answers, limits and pieces of text |
| `ListLemmas` | induction, loops, and what the operators on candidate lists return | lemmas |
| `..._proofs` | theorems about `RerankRewriter` with `RerankOutcomes` and `RerankSystem` (`RerankSystem_proofs`), `RerankOrder` (as `MCRerankOrder` applies it), `TcpExchange`, `HttpExchange`, `JsonText`, `Endpoints`, `AIConfig` and `RerankConfig` (`Exchanges_proofs`), `ContextClip`, `RerankGuard` and the texts of `MCTexts` (`Texts_proofs`), `AICandidateCache`, `AIWorker`, `AIRewriter` | |

Composition: `RerankSystem` extends `RerankRewriter` and `RerankOrder`, and its
property `RewriterSpec` says that it implements the former. `AIRewriter`
instantiates `FreshMap` and `RequestLine` and takes their steps. `AICandidateCache`
implements `FreshMap` (`KeepsFreshMap`) and `AIWorker` implements `RequestLine`
(`ServesInOrder`), each through a refinement mapping. `ContextClip` and `JsonText` are
written with `Texts`, `RerankGuard` extends `ContextClip`.

### Faulty variants

An operator that stands just above another and is named for it and a change
(`NoteTimeoutKeepsOk` above `NoteTimeout`) is that operator with a plausible mistake:
a missing reset, a dropped check, a wrong order. No specification uses it. Put in
the place of the right one, it makes the property that `PROJECT.json` pairs it with
fail; that is how we know that the property can fail at all.

### Abstractions

* In `RerankRewriter` a reading is its length and whether it is on the allowlist, and a
  context the distance of the nearest letter from the cursor: what the guard makes of
  them. How it does is `RerankGuard`.
* A text is a sequence of symbols: a character that its scanner tells from others, a
  kind of characters it treats alike, or a word it compares as a whole. The header of
  each module says which.
* Surfaces, keys, values and requests are model values.
* A `HookResult` is any that `ParseHookResponse` accepts. The model behind the
  daemon gives any scores.
* In `RerankSystem` a connection that fails in any way is a failed call; the ways are
  in `TcpExchange`. Time there passes while a call waits, in ticks.
* The server of `HttpExchange` answers with a text of two characters, or an error,
  broken off anywhere, and may send bytes of no use for as long as it likes.
* The cache reads its clock once per operation. `EvictOldest` chooses among entries
  of the same age in the order of a hash table, that is, any.
* In `AIRewriter`, a call of a destroyed cache returns anything. An exception during
  initialization is a failed initialization. A worker whose thread could not be
  started is never ready, so it is left out.
* The predicate of `wait_for`, the mutex given back and taken again are steps of
  their own. Wakeups may be spurious.

## The runs

| run | module, size | distinct states | question |
|---|---|---|---|
| `rewriter` | `MCRerankRewriter`, 1 thread, 3 surfaces, 8 conversions, every ranking | 45 589 | candidates kept, fail-safe, truthful return, tier stops at 3 under the guard; every `Rewrite` returns, the tier recovers |
| `outcomes` | `MCRerankOutcomes`, 2 threads, limit 5 as in the code | 210 262 | the tier follows the last five outcomes, and once off the rewriter stays off |
| `order` | `MCRerankOrder`, lists of up to 4 candidates, 4 scores | 67 200 | margin, ranking and moves against what the user sees; daemon and hook agree |
| `system` | `MCRerankSystem` | 45 573 | the same end to end, with lost connections, calls given up and a daemon that restarts |
| `worker` | `MCAIWorker`, 4 requests, queue of 2 | 15 976 | wakeups, `Stop`, accounting, refinement of `RequestLine`, progress |
| `ai_rewriter` | `MCAIRewriter`, 2 threads, 2 inputs, queue of 1 | 109 849 | one cache, the next conversion finds its results, candidates only appended, `Rewrite` never waits |
| `parts` | `MCParts`: requests of 2 bytes, responses of up to 2, timeouts of 1 and 2 ticks; a cache of 3 keys, limits -1..2, times to live -1..1, clock to 3 | 45 846 | answers whole or none, an end to the reranker's call, `Generate` returns once the server is silent; limit, eviction, refinement of `FreshMap` |
| `texts` | `MCTexts`, texts of up to 3 to 8 pieces for each scanner, and files cut short anywhere | 282 831 | the ports agree, cleaned is clean, texts, addresses and settings come back |
| `hook_blocks`, `stale_line`, `order_unasked`, `cache_replaced` | | | end with a counterexample, see Findings |

### Bounds

* Three surfaces give a candidate above, one below and one past the cap; four in
  `order` also give two that are tied and two that are not.
* `DegradeAfter` is 1 in `rewriter` so that all tiers are reached with every shape
  of conversion; that one success more or less does not matter there is the price. It is
  5 in `outcomes`, where the runs of outcomes are the question.
* Four requests overflow a queue of two while the worker holds one, and again later.
  Any number of starts and stops is allowed.
* The cache's clock stops at 3, more than twice the longest time to live; three keys
  exceed the largest limit. `MaxLookups` bounds the counters only.
* `ai_rewriter` allows one failed initialization (`MaxInitFailures` is 3 in the code),
  after which the rewriter gives up: the state in which every `Rewrite` still takes
  `init_mutex_`. A second attempt after a failure is explored by `cache_replaced`
  alone, up to the state it stops at. Two added candidates and one of history are
  enough for the limits to be exceeded.

* `parts`, the clients: with two bytes each way a send and a receive can be partial, with
  two ticks an operation can wait and still succeed. The budget of the call is proved for
  any numbers; the run shows that it is reached.
* `texts`: the sizes are what each rule needs to meet itself twice: seven pieces hold a
  link inside a link, or an `[edit]` whose loss makes a link of what is around it
  (`[[[edit]]]`), six two `[edit]`, eight a heading and half of the next, five an address with scheme,
  host, port, slash and one more. That the ports agree and that what is written comes
  back is proved for every text; the run shows that each rule is met. The guard only
  looks at which kinds occur and how many characters there are, so three are enough; the
  context may have four there (50 in the code). The settings' files have their full length. The port limit
  is 10 instead of 65535.

### Fairness

* A thread of the program that can take a step takes one, in time (weak fairness).
* The reranker's call ends: the daemon's socket has timeouts for connect, send and
  receive. It is not assumed of a hook command, and `hook_blocks` shows why.
* A backend's `Generate` takes its next step when it can, and time passes
  (`HttpFairness`). Nothing is asked of the server, so `GenerateReturns` speaks of
  one that no longer sends bytes of no use (`hushed`): with one that does for ever,
  `poll` starts the timeout anew for ever. Name resolution is assumed to return; neither
  `gethostbyname` nor WinHTTP, whose timeout is set to 0, gives it a limit.
* The worker's backend returns, by the above, and a notified thread wakes up. Nothing is
  assumed of the one-second timeout of `wait_for`: no property needs it, so it is not
  what hides a lost wakeup.
* In `AIRewriter`, a thread gets `init_mutex_` if it is given back again and again
  (strong fairness): after a failed start every `Rewrite` takes it. Nothing is
  assumed of the worker, since `Rewrite` must not depend on it.

### Findings

Each of these is a run that TLC ends with a counterexample.

* `hook_blocks`: with a hook command that does not end, a `Rewrite` whose wait has
  timed out never returns; the future's destructor joins the task.
* `stale_line`: a conversion whose call failed is logged with the reading and the
  candidates of the one before. The failing paths leave `pending_log_` alone
  (`rerank_rewriter.cc:539`), and `Finish` writes what is there; line 103 of the
  repository's README says that the log keeps what is converted. One thread is enough.
* `order_unasked`: without the margin Mozc's first candidate stays, but those behind it
  are sorted by score all the same (`rerank_margin.h:67`, `rerank_daemon.py:195`). Line 50 of
  the repository's README says that the order changes only if the margin is met.
  `RestByScore` therefore speaks of answers that meet it.
* `cache_replaced`: without a backend `initialized_` stays false, and the next
  `Rewrite` assigns `cache_` again while another thread may be in `cache_->Get`.

Others are plain from the source once seen, and no run repeats them.

* `backend_ready_` is never reset (`ai_worker.cc:135`), so a worker that is restarted
  and whose backend does not initialize still says that it is ready (`ai_worker.h:55`).
* With the guard on, tier 3 is already Mozc-only and tier 4 is never reached
  (`GuardStopsAtTierThree`, `OffForGood`), although the header numbers the tiers up to
  "4=Mozc-only".
* With `include_context_in_key` the next conversion looks under another key than the one
  the result was stored under, as `docs/ANALYSIS_HANDOFF.md` warns, so
  `NextConversionFinds` is about the default.
* `LoadPolicyFile` gives `SimpleAtod` 32 characters that must be a number as a whole
  (`rerank_rewriter.cc:378`), so a policy as anyone would write it, with a comma behind the
  value, sets nothing. Hence the padding of the policy in `texts`.
* `MOZC_RERANK_TAU` is read and logged; the margin in force is the daemon's own.
* The two cleanings differ on `[[]]`, `[[|a]]`, `[[a|]]`, also when such a link is only
  left after a mark inside it is dropped (`[[[edit]]]`), on `<ref` with another
  character behind it, and on a run of four "=" beside a link or reference
  (`====[[=]]`): the regular expression takes the four for a heading of their own, the
  loop leaves them to a later one. They also differ because `\d`, `\s` and the case of
  letters are Unicode's in Python: the daemon drops `[１]` and numbers in
  other digits, `[edit]` with other white space or an i of Turkish, and bullets next to
  other white space; the client keeps them. Guard and `NormalizeReading` differ on × and ÷,
  on unusual white space, and on sound marks that stand alone: half width ones, and
  U+3099 and U+309A, which NFKC joins to the kana before them. `PortsAgree` names each
  of these (`OddLink`, `OddRef`, `OddHeading`, `OddNumber`, `OddEdit`, `OddBullet`, the
  symbols "times", "nbsp" and `SoundMarks`) and holds of all other texts that the
  symbols can write. What else NFKC joins or changes, as accents or Hangul, is no symbol
  of the model.
* A surface with a control character, or one that equals a key of the answer, comes
  back changed, and an AI text that ends in a backslash runs on past its closing quote:
  the exceptions `TextsComeBack` names. A string setting whose value was edited into
  something else takes the next key for its value; `SettingsComeBack` is about the files
  this code writes, whole or cut short.

## The proofs

A module `M_proofs` proves of the specification in `M`, from the assumptions
named there and from nothing else but a hypothesis a theorem states itself. No bound of
a run is among them: constants like `MaxCandidates`, which make a run finite, may have
any value in the theorems.

| module | theorem | property |
|---|---|---|
| `RerankSystem_proofs` | `TypeCorrect` | `TypeOK` |
| | `CallStaysWithinRewrite` | `CallWithinRewrite` |
| | `CandidatesAreKept` | `CandidatesKept` |
| | `FailSafe` | `FailSafeOrder` |
| | `ReturnIsTruthful` | `ReturnTellsChange` |
| | `GuardNeverReachesTierFour` | `GuardStopsAtTierThree` |
| | `OnceOffAlwaysOff` | `OffForGood` |
| | `TiersFollow` | `TierFollowsOutcomes` |
| | `FailuresDo` | `FailuresDegrade` |
| | `MarginDecidesTheFirst` | `MozcFirstUnlessMargin` |
| | `CutOffCandidatesStay` | `PastCapUntouched` |
| | `AnswersAreToOwnQuestion` | `AnswersOwnQuestion` |
| | `SystemImplementsRewriter` | `RewriterSpec`, the refinement of `RerankRewriter` |
| `RerankOrder_proofs` | `UnrankedKeepMozcsOrder` | `UnrankedKeepOrder` |
| | `RankingComesFirst` | `RankingIsShown` |
| | `FirstBeatsMozcByMargin` | `FirstNeedsMargin` |
| | `RestIsSortedStably` | `RestByScore`, of answers that meet the margin |
| | `DaemonDecidesLikeHook` | `DaemonAgreesWithHook` |
| `Exchanges_proofs` | `TcpTypeCorrect` | `TcpTypeOK` |
| | `AnswersAreWhole` | `WholeFirstLine` |
| | `CallHasAnEnd` | `CallWithinBudget` |
| | `NoPieceOfAText` | `CandidatesAreWhole` |
| | `EscapedReadsBack` | part of `TextsComeBack`, for every text |
| | `RequestIsOneLine` | |
| | `StringComesBack` | part of `TextsComeBack`, wherever the string stands |
| | `RankedSurfacesComeBack` | part of `TextsComeBack`, for every list of surfaces |
| | `AnswersOfTheDaemonComeBack` | part of `TextsComeBack`, for every answer |
| | `SurfacesComeBack` | part of `TextsComeBack`: `SurfaceComesBack` of every text |
| | `UnescapedReadsBack` | |
| | `PromptsComeBack` | part of `TextsComeBack`, for every prompt |
| | `AddressesComeApart` | part of `TextsComeBack`: `AddressComesApart` of every text |
| | `SettingsReadBack` | part of `SettingsComeBack`: `ReadsBackFor` of any settings, cut anywhere |
| | `PolicyReads` | part of `SettingsComeBack`: `PolicyReadFor` with any padding, cut anywhere |
| `Texts_proofs` | `TextsCleanedAlike` | part of `PortsAgree`: `CleansAlikeFor` of every text |
| | `TextsCleanedWell` | `CleansWellFor` of every text |
| | `SurfacesJunkAlike` | part of `PortsAgree`: `JunkAlikeFor` of every surface |
| | `GuardLetsThrough` | part of `PortsAgree`: `GuardsAlikeFor` of every reading and plain context |
| | `BackendTextsComeBack` | part of `TextsComeBack`: `AnswerComesBack` of every text |
| | `SentContextsAreClean` | `CleanedIsClean` |
| | `PortsDoAlike` | `PortsAgree` |
| | `TextsDoComeBack` | `TextsComeBack` |
| | `SettingsDoComeBack` | `SettingsComeBack` |
| `AICandidateCache_proofs` | `CacheTypeCorrect` | `TypeOK` |
| | `PutCostsOldest` | `OldestGoesFirst` |
| | `CacheIsFreshMap` | `KeepsFreshMap`, the refinement of `FreshMap` |
| `AIWorker_proofs` | `WorkerTypeCorrect` | `TypeOK` |
| | `NoWakeupIsLost` | `NoLostWakeup` |
| | `StopLeavesNothing` | `StoppedIsQuiet` |
| | `EveryRequestCounted` | `CountsAddUp` |
| | `WorkerIsRequestLine` | `ServesInOrder`, the refinement of `RequestLine` |
| `AIRewriter_proofs` | `OneCacheForAll` | `CacheOutlivesItsUsers` |
| | `MozcKeepsItsCandidates` | `MozcCandidatesKept` |
| | `NextConversionFindsResult` | `NextConversionFinds` |

**RerankRewriter** (`SetsAssumption`, `FlagsAssumption`, `LimitsAssumption`: any number
of threads, any conversions, any peer, any limits). Four inductive invariants. Each
step is proved for a peer that may give any well-formed answer (`OpenNext`), so that
`RerankSystem` can use it too.

* `TypeInv` adds to `TypeOK` what a thread's frame holds at each place: a request and
  a result where they are used, a slot inside the list, a task only while `Rewrite`
  waits or joins. Without it the loop's indices are not known to lie in the list.
  `CallWithinRewrite` is one of its parts.
* `OrderInv` says how far a `Rewrite` has come with its list: before the loop it is
  Mozc's; in the loop it is a rearrangement of Mozc's and `changed` is true exactly
  if it differs. The hard step is that a move never undoes an earlier one: the
  slots filled so far are left alone, and the candidate moved into a slot differs from the
  one that stood there.
* `OffInv` counts the calls that may still note an outcome once the tier has
  switched calls off. Tier 4 under the guard needs `DegradeAfter` failures after tier
  3, and at that point no more calls are in flight than there are threads, less the one that just
  failed. Hence the hypothesis `Cardinality(Threads) <= DegradeAfter`, without
  which the statement is false.

* `SentInv`: from the place where the cap is read, the candidates sent are a prefix of
  what Mozc offered, whatever the tier does meanwhile.

**ListLemmas**. No prover here instantiates an operator, so induction is said of sets:
a set of numbers that has 0 and with each number the next has all up to the limit
(`UpTo`). A loop (`IsLoop`) is a function that begins with its base and takes a step of a
given function at each place; `Recursion` shows that there is one. With it a recursive
function of the model (`ArgMax`, `ReorderSegment`, the loop of `InsertCandidates`) is what
its equation says, and an invariant of the loop is a set for `UpTo`. The order of a
stable sort is counted: the k-th place is the one k - 1 others come before
(`ByScoreSorts`). The lemmas about `move_candidate` follow from the
rearrangement as a bijection.

**RerankOrder** (`OrderAssumption`: a positive number of candidates, integer scores and
margin). `AnswerInv` and `AppliedInv` say that the answer was computed from what was offered,
and what is applied from the answer; the rest is about the operators. After k turns the loop
of `ReorderSegment` has the first k ranked surfaces in front and the next ones
behind them, so the search finds each (`ReorderSegmentShows`), and an unranked
candidate is only ever passed by ranked ones (`ReorderSegmentKeepsOthers`).

**RerankSystem** (`DaemonAssumption` in addition: integer scores and margin, a positive
cap; with 0 the daemon answers with an error). `DaemonInv` has three parts for each thread.

* `ConnOK`: there is a connection only while the call runs, what is asked on it is the question
  of that call, and what is answered a sound answer to it (`SoundAnswer`, by
  `DaemonAnswerSound` for every scoring). Calls that are given up or lost close theirs.
* `ResultOK`: so is the result the `Rewrite` has.
* `LoopOK`: in the loop, each surface still to be ranked stands at a place of its own among
  the candidates that were sent, from the slot on (`Stand`). That is what keeps the search
  from finding one that was not sent although surfaces may repeat, and each turn keeps it
  (`StandingStep`).

`StepMaps` gives the refinement: a step of the system is one of the rewriter whose peer
answers soundly, or none. The hypothesis of `SystemImplementsRewriter` is that the peer left open in
`RerankRewriter` may give each well-formed answer that ranks no more surfaces than Mozc
offers; the run's instance satisfies it.

**RerankOutcomes** (in `RerankSystem_proofs`, `LimitsAssumption`). `HistoryInv`: each counter
is at most the run of its outcome at the end of the history, and at tier 0 the failure
counter is as long as the run of failures. The two properties compare two neighbouring states, so the lemma `Noted`
first says what each of the four ways to note an outcome does to tier, counters and
history.

**TcpExchange** (`TcpAssumption`). `AnswerInv`: nothing is received before all of the
request was sent, what is received stays within the cap, and an answer holds a newline;
bytes that arrive behind it do not move the first line (`FirstLineStays`, from the least
number of a set). `BudgetInv` counts the operations that have ended: each but the
connect has moved at least one byte and none has waited longer than the timeout, so
`spent` is at most that number of timeouts and the wait the call is in.

**HttpExchange** (`HttpAssumption`). `WholeInv`: what is heard is a first part of one of
the two answers, and the one with a text is only given to a request that was sent whole. A
first part in which the opening and the closing quote both stand has the whole text
between them (`TextIsWhole`).

**JsonText**. A scanner is a function over the places of a text that either ends or looks at
a later place. `WalkEnds` shows that there is such a function, from the end of the text back.
What it returns of an escaped text is followed along the places that the written characters
have in the text read (`StandsAt`, `StandsEscaped`), so that it does not matter what stands
before and behind. `EscapedReadsBack` and `RequestIsOneLine` are about all texts: no
escape leaves a newline, and the line's own is its last symbol. `StringComesBack` leaves out
the control characters that have no letter, and `RankedSurfacesComeBack` all of them, since the
scanner of arrays keeps the letter behind a backslash: of a tab it makes a t. Quotes, backslashes,
brackets and keys in a surface come back, because a key is found at its first place and the
array begins right behind it.

For the other values of an answer (`AnswersOfTheDaemonComeBack`) an object is taken for what it
is, its members joined by commas: if a key is in no member before its own, its first
place is there, and what follows the colon is the value (`MemberComesBack`). Hence the hypothesis that no surface
contains a word of the answer; `SurfaceComesBack` has the same exception. The candidates of a backend's answer
are pieces of the lines that were read (`BackendTextsComeBack`), which gives their number, their
length and that nothing is around them.

**Endpoints**. Texts that are joined come apart again at their lengths (`JoinedComesApart`), and
a scanner that looks for a mark finds the end of the first text if no mark is in it and the
second begins with one (`FirstOfJoined`).
`AddressesComeApart` goes through the shapes of a URL (`IsUrl`) with them; for
`ParseDaemonAddr`, which splits at the last colon, the greatest such place is taken.

**AIConfig** and **RerankConfig**. Where a key stands in a file is known from how the file is
written: `FlattenStands` and `LineIs` show that the line of a setting is in it once and its
key nowhere else, for any settings that are `Writable`: a string is no key, and where it names a
backend or a level, one that `Named` keeps. Of a file cut short at any place, what is left of that
line stands where it stood (`LineStandsCut`). So each scanner finds the key there or not at all, and
behind it the value, a first part of it, or nothing (`StringIs`, `IntIs`, `BoolIs`). A string
needs its closing quote and a switch its word in front of the next comma or brace; a cut
number is the only piece of a value that is taken, which is what `ReadsBackFor` says
(`SettingsReadBack`). The policy is followed the same way, with the 32 characters that
`LoadPolicyFile` takes behind a colon: a comma among them makes them no number (`OddIsNone`),
spaces do not (`PolicyNumberIs`). `PolicyReads` is about the two limits in `Policy`, with any
number of spaces behind each.

**ContextClip** (`Texts_proofs`). The cleaning is five loops, each against a regular expression,
with bullets, white space and the clip behind them.

* At one place: all words that match from there end where the loop ends, or none
  matches and the loop copies. Then loop and expression replace the same
  (`Instead`), and for a link by the same.
* Digits, white space and letters that only the expressions know: if no match holds one
  (`OddNumber`, `OddEdit`, `OddBullet`), the expression is the one over ASCII
  (`AsciiNumber`, `AsciiEdit`, `AsciiBullet`), and that is what the loops are compared with.
* Over the text: what a `Scan` builds is followed from the end of the text (`Downwards`),
  so two that do the same at each place build the same (`UnmarkedAlike`). Headings and
  runs of "=" need more: where the expression takes four "=" for a heading and the loop does
  not, the loop for runs of "=" takes them later, which is the same unless
  something between them goes meanwhile (`OddHeading`).
* Bullets: the expression takes the space in front along, the loop leaves it; after
  white space is collapsed both are one space (`BulletsAlike`, `RunsAlike`).

`TextsCleanedWell` follows what is no longer in the text after each loop: no pair of "="
after `EqRun`, no pair of spaces after `SpaceRun`, no end of a sentence after
`LastSentence`. Such a text the daemon's expressions leave as it is, but for a space that
a clip has left in front.

**RerankGuard**. `GuardLetsThrough` uses the above: the daemon sees the context that was sent,
hence a letter in it, if there is one, unless the daemon's clip cuts it off; so the
limit may be up to the daemon's 50. It speaks of contexts without markup, as the run does:
with markup left in the text, the second cleaning may take away what the guard has seen.

**MCTexts**. `TextsInv`: a text is a sequence over the symbols of the pieces of its subject
(`Letters`, `GuardKinds`, `ReadingKinds`, `WrittenSymbols`). It is inductive, since a piece
is such a sequence itself. With it the theorems above give three of the invariants; the sizes
do not matter, so they hold of texts of any length. `FilesInv`, that the text of a file is a first
part of it, gives the fourth with `SettingsReadBack` and `PolicyReads`.

**AICandidateCache** (`CacheAssumption`; limits and times to live may be any
integers). `SizeWithinLimit` is inductive because `Put` makes room before it stores:
pruning and evicting (`RoomEntries`) leave entries as they are or drop them, and drop at
most one that was good, the oldest of a full cache. A limit of 0 still lets one entry in,
and a negative one, a huge number in the code, is no limit; the property says so. For
`FreshMap`, an entry that has expired or gone is forgotten.

**AIWorker** (`WorkerAssumption`). `Control` ties the thread's place to what it holds:
it has the mutex while it checks, falls asleep and decides, so neither `EnqueueRequest` nor
`Stop` can come between the check and the sleep, and a notification finds the thread before
the check or asleep. `StoppedIsQuiet` follows from what each place holds, the
accounting from the lemma `RoomIsMade` on the queue that drops its oldest. The refinement
is shown step by step: each step of the worker is a step of `RequestLine` or
leaves its variables alone.

**AIRewriter** (`RewriterAssumption`). `InitInv`: as long as no initialization has
failed, there is a cache only once `initialized_` is set, or while the holder of
`init_mutex_` is past creating it. So nobody creates a second one. `MozcCandidatesKept`
follows from an invariant of the loop of `InsertCandidates` (`Extends`): Mozc's list is a
prefix, and each candidate behind it is fit and unlike all before it. `NextConversionFinds`
needs `InitInv`, since a cache that was replaced answers anything, and `SharedInv`: what the
cache holds for an input, and what the worker has yet to store, is a result of that input.

Only model-checked: liveness (`RewriteReturns`, `Recovers`, `RequestIsTaken`, `StopReturns`,
`GenerateReturns`), which is beyond the prover. Every invariant and action property that a passing
run checks is a theorem.

## Not modelled

* The hook's request and response files, named by the process id only. Whether two
  threads of a Mozc process call the hook at once is not in this code.
* `ClipContextPrev`, `AIConfigManager::Reload` and `LoadFromJson`: nothing calls them. The
  directories the settings lie in.
* The conversion of UTF-8, the words of the prompts, the statistics and latencies of the AI
  rewriter and the worker, thread priorities.
* Of the backends: chunked replies (Ollama sends a reply that is not streamed with its
  length), the Groq backend, which is a placeholder, and the mock.
* Of the daemon's `rerank`: empty candidates, which it drops, and the error it answers if the
  reading or the list is empty (a failed call). Its other errors are failed calls too.
* Failures of the C++ runtime: `std::async` that cannot start a thread, and a call that
  throws (`fut.get` would pass it on); in `AIRewriter`, `worker_` set by a `Start` that
  throws.
* Name resolution, which takes no time here (see Fairness).
* `AILogger`, the scripts, the installer, the smoke client and the model's data: no other
  component's state depends on them.

## Plan

The order was by what a user feels: the reranker, its order and its daemon; the AI cache,
worker and rewriter; then the exchanges, the texts and the configuration; then
the theorems. What is left:

1. `HookExchange`: the two temporary files of the hook, with the threads of one process.
2. Two converter threads and the pending log: which line is right when they commit in
   another order than they began is a decision the code does not state yet.
