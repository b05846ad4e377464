------------------------------ MODULE HttpExchange -----------------------------
(***************************************************************************)
(* Generate of the backends that ask a server: OllamaBackend, by a socket  *)
(* (SendHttpRequestPosix) or by WinHTTP (SendHttpRequestWindows), and      *)
(* OpenAICompatibleBackend, by WinHTTP (elsewhere it always fails), once   *)
(* they are initialized.  The server may refuse, answer with an error, stop*)
(* in the middle of an answer, go away, or send a byte now and then that is*)
(* of no use, as long as it likes.                                         *)
(*                                                                         *)
(* The answer is a sequence of symbols: the status line, the blank line    *)
(* that ends the header, the opening of the text, two characters of it, the*)
(* quote that closes it, and the rest.                                     *)
(*                                                                         *)
(* An operator just above another and named for it and a change is a       *)
(* faulty variant of that one, used to test the properties (README).       *)
(***************************************************************************)
EXTENDS Integers, Sequences

CONSTANTS
  BodySize,           \* bytes of the request
  RequestTimeout,     \* timeout_ms and connect_timeout_ms, in ticks
  ConnectTimeout

ASSUME HttpAssumption ==
  BodySize \in Nat \ {0} /\ RequestTimeout \in Nat \ {0} /\ ConnectTimeout \in Nat \ {0}

Backends == {"ollama_posix", "ollama_windows", "openai_posix", "openai_windows"}
Content == <<"c1", "c2">>
Answer == <<"200", "blank", "open", "c1", "c2", "quote", "rest">>
ErrorAnswer == <<"500", "blank", "error">>

VARIABLES
  backend,        \* the backend that generates
  at,             \* where its Generate stands
  posted,         \* bytes of the request that were sent
  answer,         \* what the server answers, <<>> before it does
  told,           \* how much of it the server has sent
  heard,          \* how much of it the backend has read
  hushed,         \* the server sends nothing more of no use
  closed,         \* the server has closed the connection
  idle,           \* ticks the current wait has lasted
  candidates      \* the text of the result, <<>> if Generate has failed

httpVars ==
  <<backend, at, posted, answer, told, heard, hushed, closed, idle, candidates>>

HttpTypeOK ==
  /\ backend \in Backends
  /\ at \in {"dialing", "posting", "reading", "returned"}
  /\ posted \in 0..BodySize
  /\ answer \in {<<>>, Answer, ErrorAnswer}
  /\ told \in 0..Len(answer) /\ heard \in 0..told
  /\ hushed \in BOOLEAN /\ closed \in BOOLEAN
  /\ idle \in 0..RequestTimeout \cup 0..ConnectTimeout

HttpInit ==
  /\ backend \in Backends
  /\ at = "dialing" /\ posted = 0
  /\ answer = <<>> /\ told = 0 /\ heard = 0
  /\ hushed = FALSE /\ closed = FALSE
  /\ idle = 0 /\ candidates = <<>>

--------------------------------------------------------------------------------
(* What was read, and the text ParseResponse finds in it: nothing without  *)
(* its opening or the quote that closes it.  OpenAICompatibleBackend also  *)
(* wants the status to be 200.                                             *)
Response == SubSeq(answer, 1, heard)
Has(symbol) == \E i \in DOMAIN Response : Response[i] = symbol
Place(symbol) == CHOOSE i \in DOMAIN Response : Response[i] = symbol
ParsedUpToEnd ==
  IF Has("open")
  THEN SubSeq(Response, Place("open") + 1,
              IF Has("quote") THEN Place("quote") - 1 ELSE Len(Response))
  ELSE <<>>
Parsed ==
  IF Has("open") /\ Has("quote")
  THEN SubSeq(Response, Place("open") + 1, Place("quote") - 1) ELSE <<>>

Return(result) ==
  /\ at' = "returned" /\ candidates' = result
  /\ UNCHANGED <<backend, posted, answer, told, heard, hushed, closed, idle>>

Dial ==
  /\ at = "dialing" /\ ~closed /\ backend # "openai_posix"
  /\ at' = "posting" /\ idle' = 0
  /\ UNCHANGED <<backend, posted, answer, told, heard, hushed, closed, candidates>>

DialFails ==
  /\ at = "dialing"
  /\ closed \/ idle = ConnectTimeout \/ backend = "openai_posix"
  /\ Return(<<>>)

(* WinHttpSendRequest sends all of the body.  The socket does not block:   *)
(* its one send may take a part, and the rest is never sent.               *)
Post ==
  /\ at = "posting"
  /\ posted' \in (IF backend = "ollama_posix" THEN 1..BodySize ELSE {BodySize})
  /\ at' = "reading" /\ idle' = 0
  /\ UNCHANGED <<backend, answer, told, heard, hushed, closed, candidates>>

PostFails == at = "posting" /\ Return(<<>>)

Read ==
  /\ at = "reading" /\ heard < told
  /\ \E n \in (heard + 1)..told : heard' = n
  /\ idle' = 0
  /\ UNCHANGED <<backend, at, posted, answer, told, hushed, closed, candidates>>

(* The end of the answer, an error and the end of the waiting are alike:   *)
(* what has come so far is the response.  Only before WinHTTP has the      *)
(* header do they fail the request; it also knows where the answer ends,   *)
(* the socket waits for the end of the connection.                         *)
Result ==
  IF \/ backend # "ollama_posix" /\ ~Has("blank")
     \/ backend = "openai_windows" /\ Has("500")
  THEN <<>> ELSE Parsed

ReadEndsNoTimeout == at = "reading" /\ closed /\ Return(Result)
ReadEnds ==
  /\ at = "reading"
  /\ \/ closed \/ (heard = told /\ idle = RequestTimeout)
     \/ backend # "ollama_posix" /\ answer # <<>> /\ heard = Len(answer)
  /\ Return(Result)

--------------------------------------------------------------------------------
(* The server answers a request that has come whole, and may refuse one at *)
(* any time.                                                               *)
Choose ==
  /\ at = "reading" /\ answer = <<>> /\ ~closed
  /\ answer' \in {ErrorAnswer} \cup (IF posted = BodySize THEN {Answer} ELSE {})
  /\ UNCHANGED <<backend, at, posted, told, heard, hushed, closed, idle, candidates>>

Tell ==
  /\ at = "reading" /\ told < Len(answer) /\ ~closed
  /\ told' = told + 1
  /\ UNCHANGED <<backend, at, posted, answer, heard, hushed, closed, idle, candidates>>

(* A byte of no use (of the header, or blanks around the answer) and poll  *)
(* waits the whole time again.                                             *)
Trickle ==
  /\ at = "reading" /\ ~hushed /\ ~closed /\ idle > 0
  /\ idle' = 0
  /\ UNCHANGED <<backend, at, posted, answer, told, heard, hushed, closed, candidates>>

Hush ==
  /\ ~hushed /\ at # "returned" /\ hushed' = TRUE
  /\ UNCHANGED <<backend, at, posted, answer, told, heard, closed, idle, candidates>>

Close ==
  /\ ~closed /\ at # "returned" /\ closed' = TRUE
  /\ UNCHANGED <<backend, at, posted, answer, told, heard, hushed, idle, candidates>>

Pass ==
  /\ ~closed /\ heard = told
  /\ \/ at = "dialing" /\ idle < ConnectTimeout
     \/ at = "reading" /\ idle < RequestTimeout
  /\ idle' = idle + 1
  /\ UNCHANGED <<backend, at, posted, answer, told, heard, hushed, closed, candidates>>

BackendStep ==
  Dial \/ DialFails \/ Post \/ PostFails \/ Read \/ ReadEnds
ServerStep == Choose \/ Tell \/ Trickle \/ Hush \/ Close

HttpNext == BackendStep \/ ServerStep \/ Pass

(* The thread that generates runs on, and time passes.  Nothing is asked of*)
(* the server.                                                             *)
HttpFairness == WF_httpVars(BackendStep) /\ WF_httpVars(Pass)
HttpSpec == HttpInit /\ [][HttpNext]_httpVars /\ HttpFairness

--------------------------------------------------------------------------------
(* Although neither a timeout in the middle of an answer nor a request sent*)
(* in part is noticed, Generate never gives a piece of a text: its         *)
(* candidates are from the whole text of an answer to the whole request    *)
(* (ParseResponse).                                                        *)
CandidatesAreWhole ==
  candidates # <<>> => posted = BodySize /\ answer = Answer /\ candidates = Content

(* Generate returns once the server has stopped to send bytes of no use:   *)
(* only that, as poll gives each recv the whole timeout, can keep it.      *)
GenerateReturns == hushed ~> at = "returned"
================================================================================
