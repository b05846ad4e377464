------------------------------ MODULE RerankConfig -----------------------------
(***************************************************************************)
(* Where the reranker's limits come from: the defaults, the policy file    *)
(* (LoadPolicyFile) and the environment (LoadConfigFromEnv), both of       *)
(* mozc_compat/rerank_rewriter.cc.                                         *)
(*                                                                         *)
(* A symbol is a character or a key; tau is counted in tenths.             *)
(***************************************************************************)
EXTENDS Texts, SequencesExt

DefaultLimits ==
  [tau |-> 25, cand_cap |-> 30, timeout_ms |-> 200, max_len |-> 128, context_chars |-> 50]

Digit == [d \in {"0", "1", "2", "3", "5", "8"} |->
            CASE d = "0" -> 0 [] d = "1" -> 1 [] d = "2" -> 2
              [] d = "3" -> 3 [] d = "5" -> 5 [] OTHER -> 8]
Number(digits) ==
  LET n[i \in 0..Len(digits)] == IF i = 0 THEN 0 ELSE 10 * n[i - 1] + Digit[digits[i]]
  IN n[Len(digits)]
White == {Space, "nl", "tab"}

(* absl::SimpleAtoi and SimpleAtod: the whole text is a number, but for the*)
(* white space around it.  None is a text that is not.                     *)
None == -1
SimpleAtoi(text) ==
  LET digits == Trim(text, White)
  IN IF digits # <<>> /\ \A i \in DOMAIN digits : digits[i] \in DOMAIN Digit
     THEN Number(digits) ELSE None

SimpleAtod(text) ==
  LET number == Trim(text, White)
      point == FirstOf(number, 1, {"."})
      whole == SubSeq(number, 1, point - 1)
      part == From(number, point + 1)
  IN IF /\ whole \o part # <<>>
        /\ \A i \in DOMAIN (whole \o part) : (whole \o part)[i] \in DOMAIN Digit
     THEN 10 * Number(whole) + (IF part = <<>> THEN 0 ELSE Digit[part[1]])
     ELSE None

--------------------------------------------------------------------------------
(* What a key of the policy says, in tenths: the Window characters behind  *)
(* the colon are a number, or the key says nothing.                        *)
Window == 32
PolicyNumber(json, key) ==
  LET pos == Find(json, <<"quote", key, "quote">>, 1)
      colon == IF pos = 0 THEN 0 ELSE Find(json, <<":">>, pos + 3)
      value == PastAll(json, colon + 1, White)
  IN IF colon = 0 THEN None
     ELSE SimpleAtod(SubSeq(json, value, Min({value + Window - 1, Len(json)})))

(* A limit is taken if it is more than 0, without its fraction.            *)
Limit(json, key, old) ==
  LET v == PolicyNumber(json, key) IN IF v > 0 THEN v \div 10 ELSE old

LoadPolicyFile(limits, json) ==
  LET tau == PolicyNumber(json, "tau")
  IN [tau |-> IF tau = None THEN limits.tau ELSE tau,
      cand_cap |-> Limit(json, "cand_cap", limits.cand_cap),
      timeout_ms |-> Limit(json, "timeout_ms", limits.timeout_ms),
      max_len |-> Limit(json, "max_len", limits.max_len),
      context_chars |-> Limit(json, "context_clip_max_chars", limits.context_chars)]

(* The environment, a text for each variable, empty if it is not set, over *)
(* the policy.                                                             *)
Positive(text, old) == LET n == SimpleAtoi(text) IN IF n > 0 THEN n ELSE old

LoadConfigFromEnv(env, json) ==
  LET policy == IF env.policy THEN LoadPolicyFile(DefaultLimits, json)
                ELSE DefaultLimits
      tau == SimpleAtod(env.tau)
  IN [enabled |-> env.enabled \in {"", "true"},
      daemon_addr |-> IF env.daemon_addr = "" THEN "127.0.0.1:17890" ELSE env.daemon_addr,
      limits |-> [policy EXCEPT !.tau = IF tau = None THEN @ ELSE tau,
                                !.cand_cap = Positive(env.cand_cap, @),
                                !.timeout_ms = Positive(env.timeout_ms, @)]]
--------------------------------------------------------------------------------
(* What the policy sets is what was written or nothing, but for a number   *)
(* the file ends in; with whole numbers in it every limit stays positive,  *)
(* whatever the environment says.                                          *)
Whole(number, default) == {default, SimpleAtod(number)}
PolicyReadFor(written, json, envs) ==
  LET limits == LoadPolicyFile(DefaultLimits, json)
      EndsIn(v) == \E n \in 1..Len(v) :
        v[n] = At(json, Len(json)) /\ limits.tau = SimpleAtod(SubSeq(v, 1, n))
  IN /\ limits.tau \in Whole(written.tau, DefaultLimits.tau) \/ EndsIn(written.tau)
     /\ \A env \in envs :
          LET used == LoadConfigFromEnv(env, json).limits
          IN used.cand_cap > 0 /\ used.timeout_ms > 0
================================================================================
