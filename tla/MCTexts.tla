-------------------------------- MODULE MCTexts --------------------------------
(***************************************************************************)
(* The texts the scanners are checked on.  A text grows, by one piece of   *)
(* those its subject has, up to the subject's size, or along a file that a *)
(* program or a user has written: then every state is a file cut short.    *)
(***************************************************************************)
EXTENDS RerankGuard, JsonText, Endpoints

Rerank == INSTANCE RerankConfig
AI == INSTANCE AIConfig

VARIABLES subject, text
vars == <<subject, text>>

(* The context may have 4 characters.                                      *)
MaxChars == 4
MaxLine == 2

Single(symbols) == {<<c>> : c \in symbols}
Pieces == [
  edit |-> Single({"[", "edit", "dotless", Space, "nbsp", "]"}),
  heading |-> Single({"=", "a", Space}),
  link |-> Single({"[", "]", "|", "a", "edit"}),
  ref |-> {<<"<", "ref">>, CloseTag} \cup Single({">", Space, "a"}),
  number |-> Single({"[", "1", "digit", "]", "edit"}),
  bullet |-> Single({"*", Space, "a", "wide", "nbsp"}),
  sentence |-> Single({"stop", Space, "a", "nl", "="}),
  kinds |-> Single(Linguistic \cup HalfWidth \cup
                   {"times", "alpha", "1", "digit", "stop", Space, "wide", "nbsp"}),
  reading |-> Single({"hiragana", "katakana", "hw_kana", "hw_mark", "voicing", "wide"}),
  surface |-> Single({"a", "n", "quote", "bslash", "nl", "ctl", "]", "colon", "final_top1"}),
  answer |-> Single({"a", "n", "quote", "bslash", "nl", "1", ".", Space}),
  address |-> Single({"http://", "https://", "h", ":", "1", "0", "/"})]

Size == [edit |-> 6, heading |-> 8, link |-> 7, ref |-> 6, number |-> 6, bullet |-> 6,
         sentence |-> 5, kinds |-> 3, reading |-> 4, surface |-> 4, answer |-> 5,
         address |-> 5]

Pad(n) == [i \in 1..n |-> Space]
UserTexts == [
  backend_type |-> "groq", log_level |-> "warn",
  ollama_endpoint |-> "http://server:11434", ollama_model |-> "gemma3:4b",
  groq_api_key_env |-> "MY_GROQ_KEY", groq_model |-> "llama3-8b-8192",
  api_endpoint |-> "https://server/v1", api_model |-> "deepseek-reasoner",
  api_key_env |-> "MY_API_KEY"]
Changed == [key \in AI!Keys |->
  CASE AI!Kind(key) = "bool" -> ~AI!GetDefaultConfig[key]
    [] AI!Kind(key) = "int" -> <<"8", "3">>
    [] AI!Kind(key) = "string" -> UserTexts[key]]

PolicyValues == [tau |-> <<"1", ".", "5">>, cand_cap |-> <<"2", "0">>]
Policy(pad) ==
  <<"lbrace", "quote", "tau", "quote", ":", Space>> \o PolicyValues.tau \o pad
  \o <<"comma", "nl", "quote", "cand_cap", "quote", ":", Space>> \o PolicyValues.cand_cap
  \o pad \o <<"nl", "rbrace", "nl">>

Files == [defaults |-> AI!Serialize(AI!GetDefaultConfig),
          changed |-> AI!Serialize(Changed),
          policy |-> Policy(<<>>), padded_policy |-> Policy(Pad(32))]

FileNames == {"defaults", "changed", "policy", "padded_policy"}

Init == subject \in DOMAIN Pieces \cup FileNames /\ text = <<>>

Grow ==
  /\ subject \in DOMAIN Pieces
  /\ \E piece \in Pieces[subject] : text' = text \o piece
  /\ Len(text) < Size[subject]
  /\ UNCHANGED subject
Continue ==
  /\ subject \in FileNames /\ Len(text) < Len(Files[subject])
  /\ text' = Append(text, Files[subject][Len(text) + 1])
  /\ UNCHANGED subject

Next == Grow \/ Continue
Spec == Init /\ [][Next]_vars

--------------------------------------------------------------------------------
Contexts == {"edit", "heading", "link", "ref", "number", "bullet", "sentence"}
LongReading == <<"hiragana", "hiragana", "hiragana">>
Envs == [enabled : {""}, daemon_addr : {""}, policy : {TRUE}, tau : {<<>>},
         cand_cap : {<<>>, <<"0">>, <<"a">>, <<"5">>}, timeout_ms : {<<>>, <<"0">>}]

(* The C++ cleaning and guard do what the daemon's do, which they are a    *)
(* port of: the same context but for odd marks, links, headings and        *)
(* references (each an Odd operator of ContextClip), the same candidates   *)
(* junk but for unusual white space, and no request the client's guard lets*)
(* through is skipped by the daemon but for sound marks (context_clip.cc,  *)
(* rerank_guard.cc, rerank_daemon.py).                                     *)
PortsAgree ==
  /\ subject \in Contexts => CleansAlikeFor(text, MaxChars)
  /\ subject = "kinds" => JunkAlikeFor(text) /\ GuardsAlikeFor(LongReading, text, MaxChars)
  /\ subject = "reading" => GuardsAlikeFor(text, <<"kanji">>, MaxChars)

(* The context that is sent is one sentence without markup that was        *)
(* replaced, as long as it may be, and stays as it is when the daemon      *)
(* cleans it again (CleanContext).                                         *)
CleanedIsClean == subject \in Contexts => CleansWellFor(text, MaxChars)

(* A text that was put into JSON and read by this code's scanners comes    *)
(* back: a surface from the daemon, an answer from a server, an address    *)
(* from the settings (EscapeJson, the Extract functions, ParseResponse,    *)
(* ParseEndpoint).                                                         *)
TextsComeBack ==
  /\ subject = "surface" => SurfaceComesBack(text)
  /\ subject = "answer" => AnswerComesBack(text, MaxLine)
  /\ subject = "address" => AddressComesApart(text)

(* Settings come back from their file, and a file cut short gives none that*)
(* nobody wrote, but for a number it ends in (ai_config.cc, LoadPolicyFile *)
(* and LoadConfigFromEnv).                                                 *)
SettingsComeBack ==
  /\ subject = "defaults" => AI!ReadsBackFor(AI!GetDefaultConfig, text)
  /\ subject = "changed" => AI!ReadsBackFor(Changed, text)
  /\ subject = "defaults" /\ text = <<>> => AI!NextStartFor(AI!Missing)
  /\ subject \in {"policy", "padded_policy"} => Rerank!PolicyReadFor(PolicyValues, text, Envs)
================================================================================
