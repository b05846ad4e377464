------------------------------ MODULE RerankGuard ------------------------------
(***************************************************************************)
(* The usage guard, twice: mozc_compat/rerank_guard.cc, which the client   *)
(* asks before a call and of the candidate it would put first, and its     *)
(* counterpart in runtime/rerank_daemon.py, which the daemon asks again of *)
(* the reading and the context it normalizes and cleans again.             *)
(*                                                                         *)
(* A symbol is a kind of characters both sides treat alike: "prolonged" is *)
(* the sound mark U+30FC, "phonetic" U+31F0-31FF, "hw_kana", "hw_mark" and *)
(* "hw_point" U+FF66-FF9D, FF9E-FF9F and FF61-FF65, "times" the two signs  *)
(* between the Latin letters, "alpha" a letter of another script, and      *)
(* "voicing" the marks U+3099 and 309A, which join the kana before them.   *)
(* The kana are those that have a voiced form.                             *)
(*                                                                         *)
(* An operator just above another and named for it and a change is a       *)
(* faulty variant of that one, used to test the properties (README).       *)
(***************************************************************************)
EXTENDS ContextClip

Kana == {"katakana", "prolonged", "hw_kana"}
Linguistic == Kana \cup {"hiragana", "voicing", "phonetic", "kanji", "kyujitai", "latin"}
HalfWidth == {"hw_kana", "hw_mark", "hw_point"}
SoundMarks == {"hw_mark", "voicing"}
Some(s, kinds) == \E i \in DOMAIN s : s[i] \in kinds
All(s, kinds) == \A i \in DOMAIN s : s[i] \in kinds

(* NormalizeReading: full width letters and signs are made narrow, and     *)
(* katakana hiragana.  The daemon's is NFKC, which also widens half width  *)
(* kana and makes one of a kana and its sound mark.                        *)
Hiragana(c) == IF c = "katakana" THEN "hiragana" ELSE c
NormalizeReading(s) ==
  [i \in DOMAIN s |-> IF s[i] = "wide" THEN Space ELSE Hiragana(s[i])]

NfkcStep(s, i) ==
  CASE s[i] \in {"hiragana", "katakana", "hw_kana"} ->
         Replace(IF At(s, i + 1) \in SoundMarks THEN i + 2 ELSE i + 1,
                 <<IF s[i] = "hw_kana" THEN "katakana" ELSE s[i]>>)
    [] s[i] = "hw_mark" -> Replace(i + 1, <<"voicing">>)
    [] s[i] \in {"wide", "nbsp"} -> Replace(i + 1, <<Space>>)
    [] OTHER -> Copy(s, i)
DaemonNormalizeReading(s) ==
  LET nfkc == Scan(s, NfkcStep) IN [i \in DOMAIN nfkc |-> Hiragana(nfkc[i])]

--------------------------------------------------------------------------------
HasLinguisticContent(s) == Some(s, Linguistic \cup {"times"})

ContextEmptyOrSymbol(s) ==
  All(s, SpaceLike \cup {"nl", "cr"}) \/ ~HasLinguisticContent(s)

IsJunkSurfaceAnyWidth(s) ==
  \/ s = <<>> \/ Some(s, {"kyujitai"})
  \/ Some(s, Kana) /\ All(s, Kana \cup SpaceLike)
IsJunkSurface(s) ==
  \/ s = <<>> \/ Some(s, {"kyujitai"})
  \/ All(s, HalfWidth)
  \/ Some(s, Kana) /\ All(s, Kana \cup SpaceLike)

RerankSkipReason(reading, context, eligible, guards, strict) ==
  CASE ~guards -> ""
    [] guards /\ Len(reading) <= 2 -> "reading_too_short"
    [] guards /\ Len(reading) > 2 /\ ContextEmptyOrSymbol(context) ->
         "context_empty_or_symbol"
    [] OTHER -> IF strict /\ ~eligible THEN "reading_not_eligible" ELSE ""

--------------------------------------------------------------------------------
(* The daemon: str.isalpha counts all letters, str.isspace all white space.*)
DaemonHasLinguisticContent(s) == Some(s, Linguistic \cup {"alpha", "hw_mark"})

DaemonIsJunkSurface(s) ==
  \/ s = <<>> \/ Some(s, {"kyujitai"})
  \/ All(s, HalfWidth)
  \/ Some(s, Kana) /\ All(s, Kana \cup SpaceLike \cup {"nl", "cr", "nbsp"})

DaemonSkipReason(reading, context) ==
  CASE Len(reading) <= 2 -> "reading_too_short"
    [] Len(reading) > 2 /\ ~DaemonHasLinguisticContent(context) ->
         "context_empty_or_symbol"
    [] OTHER -> ""

--------------------------------------------------------------------------------
(* The same candidates are junk to both, but for unusual white space.      *)
JunkAlikeFor(surface) ==
  ~Some(surface, {"nl", "cr", "nbsp"}) =>
    (IsJunkSurface(surface) <=> DaemonIsJunkSurface(surface))

(* What the client's guard lets through the daemon does not skip, unless a *)
(* sound mark shortens the reading there or the context's only letter is   *)
(* the sign both count differently.                                        *)
GuardsAlikeFor(raw_reading, text, max_chars) ==
  LET reading == NormalizeReading(raw_reading)
      context == CleanContext(text, max_chars)
  IN /\ RerankSkipReason(reading, context, TRUE, TRUE, TRUE) = ""
     /\ ~Some(raw_reading, SoundMarks) /\ ~Some(text, {"times"})
     => DaemonSkipReason(DaemonNormalizeReading(reading),
                         DaemonCleanContext(context, DaemonMaxChars)) = ""
================================================================================
