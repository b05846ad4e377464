------------------------------ MODULE ContextClip ------------------------------
(***************************************************************************)
(* The cleaning of the text before the cursor: CleanContext                *)
(* (mozc_compat/context_clip.cc), written as loops, and clean_context of   *)
(* the daemon (runtime/rerank_daemon.py), written with regular expressions.*)
(* The client sends what its own leaves, and the daemon cleans that again. *)
(*                                                                         *)
(* A symbol is a character, but "edit" and "ref" are these words in either *)
(* case ("edit" also the Japanese one), "*" is any bullet, "1" a digit of  *)
(* ASCII, "a" a letter, "wide" the ideographic space, "stop" the end of a  *)
(* sentence.  Only the regular expressions know "digit", a digit of another*)
(* width or script, "nbsp", any other white space, and "dotless", the word *)
(* edit with an i of Turkish.                                              *)
(*                                                                         *)
(* An operator just above another and named for it and a change is a       *)
(* faulty variant of that one, used to test the properties (README).       *)
(***************************************************************************)
EXTENDS Texts

SpaceLike == {Space, "tab", "wide"}
SentEnd == {"stop"}

Flattened(s) ==
  [i \in DOMAIN s |-> IF s[i] \in {"cr", "nl", "tab"} THEN Space ELSE s[i]]

(* CleanContext, loop by loop.                                             *)
WikiEdit(s, i) ==
  LET word == PastAll(s, i + 1, SpaceLike)
      close == PastAll(s, word + 1, SpaceLike)
  IN IF s[i] = "[" /\ At(s, word) = "edit" /\ At(s, close) = "]"
     THEN Replace(close + 1, <<>>) ELSE Copy(s, i)

WikiHeading(s, i) ==
  LET title == PastAll(s, i, {"="})
      close == FirstOf(s, title, {"=", "nl"})
      after == PastAll(s, close, {"="})
  IN IF title - i >= 2 /\ after - close >= 2
     THEN Replace(after, <<Space>>) ELSE Copy(s, i)

WikiLink(s, i) ==
  LET close == FirstOf(s, i + 2, {"]"})
      pipe == FirstOf(s, i + 2, {"|", "]"})
      label == IF At(s, pipe) = "|" THEN pipe + 1 ELSE i + 2
  IN IF StartsAt(s, <<"[", "[">>, i) /\ StartsAt(s, <<"]", "]">>, close)
     THEN Replace(close + 2, SubSeq(s, label, close - 1)) ELSE Copy(s, i)

CloseTag == <<"<", "/", "ref", ">">>

WikiRef(s, i) ==
  LET number == PastAll(s, i + 1, {"1"})
      open == FirstOf(s, i + 2, {">"})
      close == Find(s, CloseTag, open + 1)
  IN CASE s[i] = "[" /\ number > i + 1 /\ At(s, number) = "]" ->
            Replace(number + 1, <<>>)
       [] /\ StartsAt(s, <<"<", "ref">>, i)
          /\ At(s, i + 2) \in SpaceLike \cup {">", "/"}
          /\ close # 0 -> Replace(close + 4, <<>>)
       [] OTHER -> Copy(s, i)

EqRun(s, i) ==
  LET after == PastAll(s, i, {"="})
  IN IF after - i >= 2 THEN Replace(after, <<Space>>) ELSE Copy(s, i)

Bullets(s, i) ==
  LET after == PastAll(s, i, {"*"})
  IN IF /\ after > i
        /\ i = 1 \/ At(s, i - 1) \in SpaceLike
        /\ At(s, after) \in SpaceLike \cup {"end"}
     THEN Replace(after, <<Space>>) ELSE Copy(s, i)

SpaceRun(s, i) ==
  LET after == PastAll(s, i, SpaceLike)
  IN IF after > i THEN Replace(after, <<Space>>) ELSE Copy(s, i)

CollapsedSpaces(s) == Trim(Scan(s, SpaceRun), {Space})

WithoutMarkupBulletsLast(s) ==
  Scan(CollapsedSpaces(Scan(Scan(Scan(Scan(Scan(s, WikiEdit), WikiHeading),
                                      WikiLink), WikiRef), EqRun)), Bullets)
WithoutMarkup(s) ==
  CollapsedSpaces(Scan(Scan(Scan(Scan(Scan(Scan(s, WikiEdit), WikiHeading),
                                           WikiLink), WikiRef), EqRun), Bullets))

LastSentence(s) ==
  LET ends == {i \in DOMAIN s : s[i] \in SentEnd} \cup {0}
  IN TrimLeft(From(s, Max(ends) + 1), {Space, "wide"})

Clipped(s, max_chars) ==
  IF max_chars > 0 /\ Len(s) > max_chars
  THEN From(s, Len(s) - max_chars + 1) ELSE s

CleanContext(text, max_chars) ==
  Clipped(LastSentence(WithoutMarkup(Flattened(text))), max_chars)

--------------------------------------------------------------------------------
(* The daemon.  re.sub replaces, from the left, the longest word at a place*)
(* that matches, if one does; the patterns are such that this is what they *)
(* prefer.                                                                 *)
Instead(s, i, ends, out) ==
  IF ends = {} THEN Copy(s, i) ELSE Replace(Max(ends) + 1, out)
AllIn(w, from, to, symbols) == \A i \in from..to : At(w, i) \in symbols

(* \s, \d and \w, which take all of Unicode (the kinds of RerankGuard are  *)
(* among the letters).                                                     *)
RegexSpace == SpaceLike \cup {"nl", "cr", "nbsp"}
RegexDigit == {"1", "digit"}
RegexWord ==
  RegexDigit \cup {"a", "edit", "dotless", "ref", "latin", "alpha", "kanji", "kyujitai",
                  "hiragana", "katakana", "prolonged", "phonetic", "hw_kana", "hw_mark"}

(* _WIKI_EDIT = \[\s*(?:edit|..)\s*\]                                      *)
IsEdit(w) ==
  /\ Len(w) >= 3 /\ w[1] = "[" /\ w[Len(w)] = "]"
  /\ \E e \in 2..(Len(w) - 1) :
       /\ w[e] \in {"edit", "dotless"}
       /\ AllIn(w, 2, e - 1, RegexSpace) /\ AllIn(w, e + 1, Len(w) - 1, RegexSpace)
EditSub(s, i) ==
  Instead(s, i, {j \in i..Len(s) : IsEdit(SubSeq(s, i, j))}, <<>>)

(* _WIKI_HEADING = ={2,}[^=\n]*={2,}                                       *)
IsHeading(w) ==
  \E a \in 2..Len(w), b \in 1..(Len(w) - 1) :
    /\ a < b
    /\ AllIn(w, 1, a, {"="}) /\ AllIn(w, b, Len(w), {"="})
    /\ \A i \in (a + 1)..(b - 1) : w[i] \notin {"=", "nl"}
HeadingSub(s, i) ==
  Instead(s, i, {j \in i..Len(s) : IsHeading(SubSeq(s, i, j))}, <<Space>>)

(* _WIKI_LINK = \[\[(?:[^|\]]+\|)?([^\]]+)\]\], replaced by its group: the *)
(* target and the bar belong to it unless both it and the label would be   *)
(* something.                                                              *)
IsLink(w) ==
  /\ Len(w) >= 5
  /\ StartsAt(w, <<"[", "[">>, 1) /\ StartsAt(w, <<"]", "]">>, Len(w) - 1)
  /\ \A i \in 3..(Len(w) - 2) : w[i] # "]"

LinkGroup(w) ==
  LET bar == FirstOf(w, 3, {"|"})
  IN SubSeq(w, IF bar \in 4..(Len(w) - 3) THEN bar + 1 ELSE 3, Len(w) - 2)
LinkSub(s, i) ==
  LET ends == {j \in i..Len(s) : IsLink(SubSeq(s, i, j))}
  IN Instead(s, i, ends, LinkGroup(SubSeq(s, i, Max(ends))))

(* _WIKI_REF = \[\d+\]|<ref\b[^>]*>.*?</ref>; no word goes on behind <ref. *)
IsNumber(w) ==
  /\ Len(w) >= 3 /\ w[1] = "[" /\ w[Len(w)] = "]"
  /\ AllIn(w, 2, Len(w) - 1, RegexDigit)
IsRef(w) ==
  \/ IsNumber(w)
  \/ /\ StartsAt(w, <<"<", "ref">>, 1) /\ At(w, 3) \notin RegexWord
     /\ LET open == FirstOf(w, 3, {">"})
        IN Find(w, CloseTag, open + 1) = Len(w) - 3 /\ Len(w) >= 7
RefSub(s, i) == Instead(s, i, {j \in i..Len(s) : IsRef(SubSeq(s, i, j))}, <<>>)

(* _EQ_RUN = ={2,} and _MULTI_SPACE                                        *)
IsEqRun(w) == Len(w) >= 2 /\ AllIn(w, 1, Len(w), {"="})
EqRunSub(s, i) ==
  Instead(s, i, {j \in i..Len(s) : IsEqRun(SubSeq(s, i, j))}, <<Space>>)
IsSpaceRun(w) == AllIn(w, 1, Len(w), SpaceLike)
SpaceRunSub(s, i) ==
  Instead(s, i, {j \in i..Len(s) : IsSpaceRun(SubSeq(s, i, j))}, <<Space>>)

(* _BULLET_MARK = (?:^|\s)[..]+(?=\s|$) takes the space before it along.   *)
BulletMark(s, i) ==
  LET first == IF s[i] \in RegexSpace THEN i + 1 ELSE i
      after == PastAll(s, first, {"*"})
  IN IF /\ i = 1 \/ s[i] \in RegexSpace
        /\ after > first
        /\ At(s, after) \in RegexSpace \cup {"end"}
     THEN Replace(after, <<Space>>) ELSE Copy(s, i)

(* clean_context's own limit, with which rerank calls it.                  *)
DaemonMaxChars == 50

DaemonCleanContext(text, max_chars) ==
  LET plain == Scan(Scan(Scan(Scan(Scan(Flattened(text), EditSub), HeadingSub),
                              LinkSub), RefSub), EqRunSub)
      value == Trim(Scan(Scan(plain, BulletMark), SpaceRunSub), {Space, "wide"})
      sentence == LastSentence(value)
  IN IF Len(sentence) <= max_chars THEN sentence
     ELSE From(sentence, Len(sentence) - max_chars + 1)

--------------------------------------------------------------------------------
(* Links the two read differently: without a label or a target.            *)
OddLink(s) ==
  \/ Find(s, <<"[", "[", "]">>, 1) # 0
  \/ Find(s, <<"[", "[", "|">>, 1) # 0
  \/ Find(s, <<"|", "]">>, 1) # 0

(* Marks that only the regular expressions take for one: of an edit with   *)
(* other white space or an i of Turkish, of a number in other digits, the  *)
(* opening of a reference, a bullet next to other white space.             *)
OddEdit(s) ==
  \E i, j \in DOMAIN s :
    /\ IsEdit(SubSeq(s, i, j))
    /\ \E k \in i..j : s[k] \in {"nl", "cr", "nbsp", "dotless"}
OddNumber(s) ==
  \E i, j \in DOMAIN s : IsNumber(SubSeq(s, i, j)) /\ \E k \in i..j : s[k] = "digit"
OddRef(s) ==
  \E i \in DOMAIN s :
    /\ StartsAt(s, <<"<", "ref">>, i)
    /\ At(s, i + 2) \notin SpaceLike \cup {">", "/", "end"} \cup RegexWord
OddBullet(s) ==
  \E i \in DOMAIN s :
    s[i] \in {"nl", "cr", "nbsp"} /\ "*" \in {At(s, i - 1), At(s, i + 1)}

Markup == {"[", "]", "|", "=", "*", "<", ">"}
Plain(s) == \A i \in DOMAIN s : s[i] \notin Markup

(* Runs of "=" that head nothing: the regular expression takes four of them*)
(* for a heading, the loop leaves them to EqRun, which matters if links or *)
(* references are taken away beside them in between.                       *)
OddHeading(s) ==
  /\ \E i \in DOMAIN s : s[i] \in {"[", "<"}
  /\ \E i \in DOMAIN s :
       StartsAt(s, <<"=", "=", "=", "=">>, i) /\ WikiHeading(s, i).next = i + 1

(* Said of the port (context_clip.cc:2 and 209) and not so: it replaces as *)
(* the regular expressions do.  It does, but for what is odd in the text as*)
(* the loop that meets it finds it.                                        *)
CleansAlikeFor(s, max_chars) ==
  LET flat == Flattened(s)
      edited == Scan(flat, WikiEdit)
      headed == Scan(edited, WikiHeading)
      linked == Scan(headed, WikiLink)
      plain == Scan(Scan(linked, WikiRef), EqRun)
  IN /\ ~OddEdit(flat) /\ ~OddHeading(edited) /\ ~OddLink(headed)
     /\ ~OddNumber(linked) /\ ~OddRef(linked) /\ ~OddBullet(plain)
     => CleanContext(s, max_chars) = DaemonCleanContext(s, max_chars)

(* What is sent is one sentence without its end, no longer than it may be, *)
(* with single spaces and no run of "=", and the daemon, which cleans it   *)
(* again, leaves it as it is but for a space the clip has left in front,   *)
(* unless there is markup in it still.                                     *)
SpareSpace(s) == \E i \in DOMAIN s : s[i] = Space /\ At(s, i + 1) \in {Space, "end"}

CleansWellFor(s, max_chars) ==
  LET context == CleanContext(s, max_chars)
  IN /\ Len(context) <= max_chars
     /\ \A i \in DOMAIN context : context[i] \notin SentEnd \cup {"nl", "tab", "wide"}
     /\ Find(context, <<"=", "=">>, 1) = 0
     /\ ~SpareSpace(context)
     /\ Plain(context) /\ Len(context) <= DaemonMaxChars =>
          DaemonCleanContext(context, DaemonMaxChars) = TrimLeft(context, {Space})
================================================================================
