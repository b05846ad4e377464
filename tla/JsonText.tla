------------------------------- MODULE JsonText --------------------------------
(***************************************************************************)
(* JSON as this code writes and reads it, by scanning for what it looks    *)
(* for: EscapeJson, the Extract functions and ParseHookResponse of         *)
(* mozc_compat/rerank_rewriter.cc, against the daemon's json.dumps, and    *)
(* EscapeJson, UnescapeJson and ParseResponse of the backends in src/ai,   *)
(* against a server that writes JSON.                                      *)
(*                                                                         *)
(* A symbol is a character; "ctl" is a control character without a letter  *)
(* of its own and "u0001" the code that stands for it; the words of the    *)
(* answers ("ranked_surfaces", "true", ...), "." and characters that are   *)
(* spelled out ("comma", "quote", "lbrace", ...) are one symbol each.      *)
(*                                                                         *)
(* An operator just above another and named for it and a change is a       *)
(* faulty variant of that one, used to test the properties (README).       *)
(***************************************************************************)
EXTENDS Texts, Functions

Letter == [quote |-> "quote", bslash |-> "bslash", nl |-> "n", cr |-> "r",
           tab |-> "t", ctl |-> "u0001"]
Mapped(f, c) == IF c \in DOMAIN f THEN f[c] ELSE c

EscapedStep(s, i) ==
  IF s[i] \in DOMAIN Letter THEN Replace(i + 1, <<"bslash", Letter[s[i]]>>)
  ELSE Copy(s, i)
EscapeJson(s) == Scan(s, EscapedStep)

(* The backends' EscapeJson leaves control characters as they are.         *)
AIEscapedStep(s, i) == IF s[i] = "ctl" THEN Copy(s, i) ELSE EscapedStep(s, i)
AIEscapeJson(s) == Scan(s, AIEscapedStep)

(* What a JSON library reads in the string.                                *)
DecodedStep(s, i) ==
  IF s[i] = "bslash" /\ i < Len(s)
  THEN Replace(i + 2, <<CHOOSE c \in DOMAIN Letter : Letter[c] = s[i + 1]>>)
  ELSE Copy(s, i)
Decoded(s) == Scan(s, DecodedStep)

Quoted(s) == <<"quote">> \o s \o <<"quote">>
Joined(texts) ==
  LET from[i \in 1..(Len(texts) + 1)] ==
        IF i > Len(texts) THEN <<>>
        ELSE (IF i = 1 THEN <<>> ELSE <<"comma">>) \o texts[i] \o from[i + 1]
  IN from[1]
Strings(texts) == <<"[">> \o Joined(texts) \o <<"]">>
Member(key, value) == Quoted(<<key>>) \o <<"colon">> \o value
Object(members) == <<"lbrace">> \o Joined(members) \o <<"rbrace">>
EscapedAll(texts) == [i \in DOMAIN texts |-> Quoted(EscapeJson(texts[i]))]

--------------------------------------------------------------------------------
(* The line CallDaemon sends and the file WriteRequestJson writes; a       *)
(* newline ends the former.                                                *)
RequestLine(reading, context, nbest) ==
  Object(<<Member("reading", Quoted(EscapeJson(reading))),
           Member("context_prev", Quoted(EscapeJson(context))),
           Member("nbest", Strings(EscapedAll(nbest)))>>) \o <<"nl">>

(* The daemon's answer.                                                    *)
ResponseLine(ranked, rerank_top1, final_top1, overwritten) ==
  Object(<<Member("ok", <<"true">>),
           Member("ranked_surfaces", Strings(EscapedAll(ranked))),
           Member("rerank_top1", Quoted(EscapeJson(rerank_top1))),
           Member("final_top1", Quoted(EscapeJson(final_top1))),
           Member("overwritten", <<IF overwritten THEN "true" ELSE "false">>)>>)

(* Where the value of a key begins, 0 if the key or what must follow it is *)
(* not there.                                                              *)
JsonSpace == {Space, "nl", "cr", "tab"}
Behind(json, key, mark) ==
  LET pos == Find(json, Quoted(<<key>>), 1)
      at == IF pos = 0 THEN 0 ELSE Find(json, <<mark>>, pos + 3)
  IN IF at = 0 THEN 0 ELSE at + 1
ValueOf(json, key) ==
  LET pos == Behind(json, key, "colon")
  IN IF pos = 0 THEN 0 ELSE PastAll(json, pos, JsonSpace)

(* A quoted string from pos on: its characters up to the quote that ends   *)
(* it, those behind a backslash as letters has them, and the place behind. *)
StringFrom(json, pos, letters) ==
  LET rest[i \in pos..(Len(json) + 2)] ==
        CASE i > Len(json) -> [text |-> <<>>, next |-> 0]
          [] i <= Len(json) /\ At(json, i) = "quote" -> [text |-> <<>>, next |-> i + 1]
          [] OTHER ->
               LET escaped == json[i] = "bslash"
                   after == rest[IF escaped THEN i + 2 ELSE i + 1]
               IN [text |-> (IF ~escaped THEN <<json[i]>>
                             ELSE IF i = Len(json) THEN <<>>
                             ELSE <<Mapped(letters, json[i + 1])>>) \o after.text,
                   next |-> after.next]
  IN rest[pos]

ControlLetters == [n |-> "nl", r |-> "cr", t |-> "tab"]
NoLetters == [e \in {} |-> e]

(* Nothing if the key is not there, its value is no string or has no end.  *)
ExtractJsonString(json, key) ==
  LET pos == ValueOf(json, key)
      value == StringFrom(json, pos + 1, ControlLetters)
  IN IF pos = 0 \/ At(json, pos) # "quote" \/ value.next = 0 THEN <<>>
     ELSE value.text

ExtractJsonBool(json, key) ==
  LET pos == ValueOf(json, key) IN pos # 0 /\ At(json, pos) = "true"

(* The items of the array, up to the "]", the end of the text, or whatever *)
(* is no string; the backslash is dropped and what follows it is kept.     *)
ItemsFromQuoteToQuote(json, pos) ==
  LET items[i \in pos..(Len(json) + 1)] ==
        LET at == PastAll(json, i, JsonSpace \cup {"comma"})
            close == Find(json, <<"quote">>, at + 1)
        IN IF At(json, at) # "quote" \/ close = 0 THEN <<>>
           ELSE <<SubSeq(json, at + 1, close - 1)>> \o items[close + 1]
  IN items[pos]
ItemsFrom(json, pos) ==
  LET items[i \in pos..(Len(json) + 1)] ==
        LET at == PastAll(json, i, JsonSpace \cup {"comma"})
            item == StringFrom(json, at + 1, NoLetters)
        IN IF At(json, at) # "quote" \/ item.next = 0 THEN <<>>
           ELSE <<item.text>> \o items[item.next]
  IN items[pos]

ExtractJsonStringArray(json, key) ==
  LET pos == Behind(json, key, "[") IN IF pos = 0 THEN <<>> ELSE ItemsFrom(json, pos)

(* Without a ranked surface the call has failed.                           *)
ParseHookResponse(json) ==
  LET ranked == ExtractJsonStringArray(json, "ranked_surfaces")
      final == ExtractJsonString(json, "final_top1")
  IN [ok |-> ranked # <<>>, ranked_surfaces |-> ranked,
      rerank_top1 |-> ExtractJsonString(json, "rerank_top1"),
      final_top1 |-> IF final = <<>> /\ ranked # <<>> THEN ranked[1] ELSE final,
      overwritten |-> ExtractJsonBool(json, "overwritten")]

--------------------------------------------------------------------------------
(* The backends.                                                           *)
UnescapedStep(s, i) ==
  LET mark == [n |-> "nl", r |-> "cr", t |-> "tab", quote |-> "quote", bslash |-> "bslash"]
  IN IF s[i] = "bslash" /\ At(s, i + 1) \in DOMAIN mark
     THEN Replace(i + 2, <<mark[s[i + 1]]>>) ELSE Copy(s, i)
UnescapeJson(s) == Scan(s, UnescapedStep)

(* BuildRequestBody, for Ollama.                                           *)
RequestBody(prompt) ==
  Object(<<Member("model", Quoted(<<"m">>)),
           Member("prompt", Quoted(AIEscapeJson(prompt))),
           Member("stream", <<"false">>)>>)

(* The body of the server's answer, and what ParseResponse takes for its   *)
(* text: it ends at a quote with no backslash just before it.              *)
AnswerBody(content) ==
  Object(<<Member("response", Quoted(EscapeJson(content))),
           Member("done", <<"true">>)>>)

Opening == Quoted(<<"response">>) \o <<"colon", "quote">>
ContentOf(body) ==
  LET start == Find(body, Opening, 1) + Len(Opening)
      ends == {j \in start..Len(body) :
                 /\ body[j] = "quote"
                 /\ j = start \/ body[j - 1] # "bslash"}
  IN IF start = Len(Opening) \/ ends = {} THEN <<>>
     ELSE UnescapeJson(SubSeq(body, start, Min(ends) - 1))

(* ParseCandidatesFromContent: the lines of the text, without what is      *)
(* around them and the number in front, three at most; MaxLine is the      *)
(* longest that is taken.                                                  *)
LineStep(s, i) ==
  LET end == FirstOf(s, i, {"nl"})
  IN Replace(IF end > Len(s) THEN end ELSE end + 1, <<SubSeq(s, i, end - 1)>>)
LinesOf(s) == Scan(s, LineStep)

Unnumbered(line) ==
  IF Len(line) > 2 /\ line[1] = "1" /\ line[2] = "."
  THEN LET value == From(line, 3)
       IN IF \A i \in DOMAIN value : value[i] \in {Space, "tab"} THEN value
          ELSE TrimLeft(value, {Space, "tab"})
  ELSE line

CandidatesOf(content, MaxLine) ==
  LET lines == LinesOf(content)
      values == [i \in DOMAIN lines |-> Unnumbered(Trim(lines[i], JsonSpace))]
      FitStep(v, i) ==
        IF Len(v[i]) \in 1..MaxLine THEN Copy(v, i) ELSE Replace(i + 1, <<>>)
      fit == Scan(values, FitStep)
  IN SubSeq(fit, 1, Min({3, Len(fit)}))

ParseResponse(body, MaxLine) == CandidatesOf(ContentOf(body), MaxLine)

--------------------------------------------------------------------------------
(* The words a surface may be that the scanners look for.                  *)
Words == {"ranked_surfaces", "rerank_top1", "final_top1", "overwritten"}

(* What the client writes is one line, and the daemon reads the texts in it*)
(* as they were; what the daemon answers comes back as the client wrote it *)
(* if no surface has a control character or is a word of the answer.       *)
SurfaceComesBack(s) ==
  LET line == RequestLine(s, s, <<s, <<"b">>>>)
      json == ResponseLine(<<s, <<"b">>>>, s, s, TRUE)
      answer == ParseHookResponse(json)
  IN /\ Find(line, <<"nl">>, 1) = Len(line)
     /\ Decoded(EscapeJson(s)) = s
     /\ s # <<>> /\ (\A i \in DOMAIN s : s[i] \notin {"nl", "cr", "tab", "ctl"} \cup Words)
        => answer = [ok |-> TRUE, ranked_surfaces |-> <<s, <<"b">>>>,
                     rerank_top1 |-> s, final_top1 |-> s, overwritten |-> TRUE]

(* A prompt without a control character is in its request as it was.  The  *)
(* text of an answer comes back unless it has one, or a backslash that the *)
(* quote seems to belong to; its candidates are lines of it, at most three,*)
(* with nothing around them.                                               *)
AnswerComesBack(content, MaxLine) ==
  LET got == ParseResponse(AnswerBody(content), MaxLine)
  IN /\ "ctl" \notin Range(content) =>
          /\ ExtractJsonString(RequestBody(content), "prompt") = content
          /\ At(content, Len(content)) # "bslash" => got = CandidatesOf(content, MaxLine)
     /\ Len(got) <= 3
     /\ \A i \in DOMAIN got :
          /\ got[i] # <<>> /\ Len(got[i]) <= MaxLine
          /\ got[i][Len(got[i])] \notin JsonSpace
          /\ "nl" \notin Range(got[i])
================================================================================
