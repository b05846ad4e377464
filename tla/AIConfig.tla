-------------------------------- MODULE AIConfig -------------------------------
(***************************************************************************)
(* The settings of the AI part and their file (src/ai/ai_config.cc): what  *)
(* SaveToJson writes, and what Load makes of a file another process is     *)
(* still writing, or of one that a user has cut short.                     *)
(*                                                                         *)
(* A symbol is a character, some of them by name (quote, comma, lbrace,    *)
(* rbrace, nl), a key, or a string's text, which holds no quote (Serialize *)
(* escapes nothing) and is not the name of a key.                          *)
(*                                                                         *)
(* An operator just above another and named for it and a change is a       *)
(* faulty variant of that one, used to test the properties (README).       *)
(***************************************************************************)
EXTENDS Texts, SequencesExt

(* The settings in the order Serialize writes them, with their kind and    *)
(* their default, numbers as digits.                                       *)
Settings == <<
  <<"enabled", "bool", TRUE>>,
  <<"backend_type", "string", "deepseek">>,
  <<"ollama_endpoint", "string", "http://localhost:11434">>,
  <<"ollama_model", "string", "gemma3:1b">>,
  <<"groq_api_key_env", "string", "GROQ_API_KEY">>,
  <<"groq_model", "string", "mixtral-8x7b-32768">>,
  <<"api_endpoint", "string", "https://api.deepseek.com/v1">>,
  <<"api_model", "string", "deepseek-chat">>,
  <<"api_key_env", "string", "DEEPSEEK_API_KEY">>,
  <<"connect_timeout_ms", "int", <<"5", "0", "0", "0">>>>,
  <<"request_timeout_ms", "int", <<"1", "5", "0", "0", "0">>>>,
  <<"max_wait_ms", "int", <<"1", "6", "0", "0", "0">>>>,
  <<"warmup_timeout_ms", "int", <<"6", "0", "0", "0", "0">>>>,
  <<"cache_ttl_seconds", "int", <<"6", "0">>>>,
  <<"cache_max_entries", "int", <<"1", "0", "0">>>>,
  <<"cache_include_context", "bool", FALSE>>,
  <<"history_size", "int", <<"5">>>>,
  <<"history_expire_min", "int", <<"5">>>>,
  <<"log_level", "string", "info">>,
  <<"log_ai_communication", "bool", FALSE>>,
  <<"disable_ai", "bool", FALSE>>,
  <<"use_mock", "bool", FALSE>> >>

Keys == {Settings[i][1] : i \in DOMAIN Settings}
Setting(key) == CHOOSE i \in DOMAIN Settings : Settings[i][1] = key
Kind(key) == Settings[Setting(key)][2]
GetDefaultConfig == [key \in Keys |-> Settings[Setting(key)][3]]

--------------------------------------------------------------------------------
Value(kind, value) ==
  CASE kind = "bool" -> <<IF value THEN "true" ELSE "false">>
    [] kind = "string" -> <<"quote", value, "quote">>
    [] kind = "int" -> value

Line(config, i) ==
  LET key == Settings[i][1]
  IN <<"quote", key, "quote", ":", Space>> \o Value(Settings[i][2], config[key])
     \o (IF i = Len(Settings) THEN <<"nl">> ELSE <<"comma", "nl">>)

Serialize(config) ==
  <<"lbrace", "nl">> \o FlattenSeq([i \in DOMAIN Settings |-> Line(config, i)])
  \o <<"rbrace", "nl">>

--------------------------------------------------------------------------------
Digits == {"0", "1", "2", "3", "4", "5", "6", "7", "8", "9", "-"}
NoText == ""
Colon(json, key) ==
  LET pos == Find(json, <<"quote", key, "quote">>, 1)
  IN IF pos = 0 THEN 0 ELSE Find(json, <<":">>, pos)

(* A string's text is one symbol, so the quotes stand around one.          *)
GetString(json, key, default) ==
  LET colon == Colon(json, key)
      open == IF colon = 0 THEN 0 ELSE Find(json, <<"quote">>, colon)
      close == IF open = 0 THEN 0 ELSE Find(json, <<"quote">>, open + 1)
  IN CASE close = 0 -> default
       [] close = open + 1 -> NoText
       [] OTHER -> json[open + 1]

GetInt(json, key, default) ==
  LET colon == Colon(json, key)
      first == PastAll(json, colon, {":", Space})
      digits == SubSeq(json, first, PastAll(json, first, Digits) - 1)
  IN IF colon = 0 \/ digits = <<>> THEN default ELSE digits

(* true or false before the next comma or brace; the words are looked for  *)
(* in the whole rest of the file.                                          *)
GetBoolAnywhere(json, key, default) ==
  LET colon == Colon(json, key)
      yes == Find(json, <<"true">>, colon)
      no == Find(json, <<"false">>, colon)
  IN CASE colon # 0 /\ yes # 0 -> TRUE
       [] colon # 0 /\ yes = 0 /\ no # 0 -> FALSE
       [] OTHER -> default
GetBool(json, key, default) ==
  LET colon == Colon(json, key)
      end == FirstOf(json, colon, {"comma", "rbrace"})
      Before(word) == LET at == Find(json, <<word>>, colon) IN at # 0 /\ at < end
  IN CASE colon # 0 /\ Before("true") -> TRUE
       [] colon # 0 /\ ~Before("true") /\ Before("false") -> FALSE
       [] OTHER -> default

(* What is no name of a backend or of a level counts as the default one.   *)
Named(key, value) ==
  CASE key = "backend_type" /\ value \notin {"disabled", "groq", "ollama"} -> "deepseek"
    [] key = "log_level" /\ value \notin {"trace", "debug", "warn", "error"} -> "info"
    [] OTHER -> value

Get(json, key, default) ==
  CASE Kind(key) = "bool" -> GetBool(json, key, default)
    [] Kind(key) = "string" -> Named(key, GetString(json, key, default))
    [] Kind(key) = "int" -> GetInt(json, key, default)

Parse(json) == [key \in Keys |-> Get(json, key, GetDefaultConfig[key])]

(* Load: a file that is there is read, one that is not is written with the *)
(* settings the process has.                                               *)
Missing == <<"missing">>
Load(config, file) == IF file = Missing THEN config ELSE Parse(file)
FileAfterLoad(config, file) == IF file = Missing THEN Serialize(config) ELSE file

--------------------------------------------------------------------------------
(* The whole file gives back the settings it was saved from, and any first *)
(* part of it gives every setting as it was saved, or its default, or a    *)
(* number cut short: never a piece of another setting.                     *)
ReadsBackFor(config, file) ==
  LET read == Parse(file)
  IN /\ file = Serialize(config) => read = config
     /\ \A key \in Keys :
          \/ read[key] \in {config[key], GetDefaultConfig[key]}
          \/ Kind(key) = "int" /\ IsPrefix(read[key], config[key])

(* The next start finds the settings of this one, the first one's too.     *)
NextStartFor(file) ==
  Load(GetDefaultConfig, FileAfterLoad(GetDefaultConfig, file))
    = Load(GetDefaultConfig, file)
================================================================================
