---------------------------- MODULE Exchanges_proofs ----------------------------
(***************************************************************************)
(* What holds of the two clients for every timeout and every size of what  *)
(* they send, whatever the other side does: TcpExchange, with every cap on *)
(* the response, and HttpExchange; and what holds for every text that is   *)
(* written and read back: JsonText, addresses, and the files of settings   *)
(* and of the policy, whole or cut short.                                  *)
(*                                                                         *)
(* A scanner of JsonText is a function defined by recursion on the places  *)
(* of a text.  That it exists is shown first (WalkEnds), from the end of   *)
(* the text; what it returns is then shown along the places that the       *)
(* characters written have in the text read.                               *)
(*                                                                         *)
(* Of a file that is cut short it is known where each key stands           *)
(* (StandsCut): once, or no more when it is cut before it.  What a scanner *)
(* finds behind the key is then the value, a first part of it, or nothing. *)
(***************************************************************************)
EXTENDS TcpExchange, HttpExchange, MCTexts, ListLemmas

--------------------------------------------------------------------------------
(* Lemmas about lines.                                                     *)

(* What comes after a line does not change the line.                       *)
LEMMA FirstLineStays ==
  ASSUME NEW s \in Seq(Byte), NEW rest \in Seq(Byte), HasLine(s)
  PROVE  FirstLine(s) = FirstLine(s \o rest)
<1> DEFINE Ends(t, i) == t[i] = "nl" /\ \A j \in 1..(i - 1) : t[j] # "nl"
<1> DEFINE whole == s \o rest
<1>1. /\ whole \in Seq(Byte) /\ Len(whole) = Len(s) + Len(rest)
      /\ DOMAIN s = 1..Len(s) /\ DOMAIN whole = 1..Len(whole)
      /\ Len(s) \in Nat /\ Len(rest) \in Nat
      /\ \A i \in 1..Len(s) : whole[i] = s[i]
  BY ConcatProperties, LenProperties
<1>2. PICK end \in 1..Len(s) : Ends(s, end)
  <2> DEFINE T == {i \in 1..Len(s) : s[i] = "nl"}
  <2>1. T \in SUBSET Nat /\ T # {}
    BY <1>1 DEF HasLine
  <2>2. PICK k \in T : \A l \in T : k <= l
    BY <2>1, LeastNumber
  <2>3. \A j \in 1..(k - 1) : s[j] # "nl"
    BY <1>1, <2>2
  <2> QED BY <2>2, <2>3
<1>3. Ends(whole, end) /\ end \in DOMAIN whole
  BY <1>1, <1>2
<1>4. ASSUME NEW i \in DOMAIN s, Ends(s, i)
      PROVE  i = end
  BY <1>1, <1>2, <1>4
<1>5. ASSUME NEW i \in DOMAIN whole, Ends(whole, i)
      PROVE  i = end
  BY <1>1, <1>3, <1>5
<1> DEFINE First(t) == CHOOSE i \in DOMAIN t : Ends(t, i)
<1>6. First(s) = end
  BY <1>1, <1>2, <1>4
<1>7. First(whole) = end
  BY <1>3, <1>5
<1>8. SubSeq(s, 1, end - 1) = SubSeq(whole, 1, end - 1)
  <2>1. CASE end = 1
    BY <2>1, SubSeqEmpty
  <2>2. CASE end # 1
    <3>1. 1 \in 1..Len(s) /\ end - 1 \in 1..Len(s)
      BY <1>1, <2>2
    <3> QED BY <3>1, SubSeqOfConcat1
  <2> QED BY <2>1, <2>2
<1> QED BY <1>6, <1>7, <1>8 DEF FirstLine

--------------------------------------------------------------------------------
(* Types.                                                                  *)

LEMMA TypeStep == TcpTypeOK /\ [TcpNext]_tcpVars => TcpTypeOK'
<1> SUFFICES ASSUME TcpTypeOK, [TcpNext]_tcpVars PROVE TcpTypeOK'
  OBVIOUS
<1> USE TcpAssumption DEF TcpTypeOK, Ended
<1>1. CASE ConnectFails \/ SendFails \/ ReceiveFails
  <2>1. Fail
    BY <1>1 DEF ConnectFails, SendFails, ReceiveFails
  <2> QED BY <2>1 DEF Fail
<1>2. CASE Connect
  BY <1>2 DEF Connect
<1>3. CASE GoAway
  <2>1. gone' \in BOOLEAN
    BY <1>3, Zenon DEF GoAway
  <2> QED BY <1>3, <2>1 DEF GoAway
<1>4. CASE Send
  BY <1>4 DEF Send
<1>5. CASE Receive
  <2>1. PICK n \in 1..Len(wire) :
               /\ buf' = buf \o SubSeq(wire, 1, n)
               /\ wire' = SubSeq(wire, n + 1, Len(wire))
    BY <1>5 DEF Receive
  <2>2. SubSeq(wire, 1, n) \in Seq(Byte) /\ wire' \in Seq(Byte)
    BY <2>1
  <2>3. buf' \in Seq(Byte)
    BY <2>1, <2>2
  <2>4. stage' \in {"receiving"} \cup Ended
    BY <1>5 DEF Receive, StageAfter
  <2> QED BY <1>5, <2>2, <2>3, <2>4 DEF Receive
<1>6. CASE Say
  BY <1>6 DEF Say
<1>7. CASE Wait
  BY <1>7 DEF Wait
<1>8. CASE UNCHANGED tcpVars
  BY <1>8 DEF tcpVars
<1> QED BY <1>1, <1>4, <1>5, <1>6, <1>7, <1>8, <1>2, <1>3 DEF TcpNext

(* The exchange is well-typed: it never sends more than the request, nor   *)
(* waits longer than the timeout in one operation.                         *)
THEOREM TcpTypeCorrect == TcpSpec => []TcpTypeOK
<1>1. TcpInit => TcpTypeOK
  <2> SUFFICES ASSUME TcpInit PROVE TcpTypeOK
    OBVIOUS
  <2>1. gone \in BOOLEAN
    BY Zenon DEF TcpInit
  <2> QED BY <2>1, TcpAssumption, EmptySeq DEF TcpInit, TcpTypeOK, Ended
<1> QED BY <1>1, TypeStep, PTL DEF TcpSpec

--------------------------------------------------------------------------------
(* What the answer rests on: nothing is received before all was sent, and  *)
(* what was received is looked at after every chunk.                       *)
AnswerInv ==
  /\ stage \in {"receiving", "answered"} => sent = RequestSize
  /\ stage \in {"connecting", "sending"} => buf = <<>>
  /\ stage \in {"receiving", "answered"} => Len(buf) <= MaxSize
  /\ stage = "answered" => HasLine(buf)

LEMMA AnswerStep == TcpTypeOK /\ AnswerInv /\ [TcpNext]_tcpVars => AnswerInv'
<1> SUFFICES ASSUME TcpTypeOK, AnswerInv, [TcpNext]_tcpVars PROVE AnswerInv'
  OBVIOUS
<1> USE TcpAssumption DEF TcpTypeOK, Ended, AnswerInv
<1>1. CASE Connect \/ ConnectFails \/ SendFails \/ ReceiveFails \/ GoAway \/ Say \/ Wait
  BY <1>1 DEF Connect, ConnectFails, SendFails, ReceiveFails, GoAway, Say, Wait,
              Fail, HasLine
<1>2. CASE Send
  BY <1>2, EmptySeq DEF Send
<1>3. CASE Receive
  BY <1>3 DEF Receive, StageAfter
<1>4. CASE UNCHANGED tcpVars
  BY <1>4 DEF tcpVars, HasLine
<1> QED BY <1>1, <1>2, <1>3, <1>4 DEF TcpNext

(* An answer is the whole first line of what the daemon said, within the   *)
(* cap, to a request sent whole, however the bytes were cut into chunks.   *)
THEOREM AnswersAreWhole == TcpSpec => []WholeFirstLine
<1>1. TcpInit => AnswerInv
  BY TcpAssumption, EmptySeq DEF TcpInit, AnswerInv
<1>2. TcpTypeOK /\ AnswerInv => WholeFirstLine
  BY FirstLineStays DEF TcpTypeOK, AnswerInv, WholeFirstLine
<1> QED BY <1>1, <1>2, AnswerStep, TcpTypeCorrect, PTL DEF TcpSpec

--------------------------------------------------------------------------------
(* What a call has waited is at most a timeout for every operation that has*)
(* ended, each of which moved at least a byte, and the wait it is in.      *)
Operations == IF stage = "connecting" THEN 0 ELSE 1 + sent + Len(buf)

BudgetInv ==
  IF stage \in Ended THEN CallWithinBudget
  ELSE spent <= Timeout * Operations + waited

LEMMA Multiples ==
  ASSUME NEW a \in Nat, NEW b \in Nat, a < b
  PROVE  Timeout * a + Timeout <= Timeout * b
<1>1. Timeout \in Nat
  BY TcpAssumption
<1>2. b = a + 1 + (b - a - 1) /\ b - a - 1 \in Nat
  OBVIOUS
<1>3. \A c \in Nat : Timeout * (a + 1 + c) = Timeout * a + Timeout + Timeout * c
  BY <1>1
<1>4. \A c \in Nat : Timeout * c >= 0
  BY <1>1
<1>5. Timeout * b = Timeout * a + Timeout + Timeout * (b - a - 1)
  BY <1>2, <1>3
<1>6. Timeout * a \in Int /\ Timeout * b \in Int /\ Timeout * (b - a - 1) \in Int
  BY <1>1, <1>2
<1> QED BY <1>1, <1>2, <1>4, <1>5, <1>6

(* An operation that ends well: time stands still, waited starts again, and*)
(* there are more operations to show for it.                               *)
LEMMA OperationEnds ==
  ASSUME TcpTypeOK, BudgetInv, stage \notin Ended,
         NEW done \in Nat, Operations < done, Operations \in Nat
  PROVE  spent <= Timeout * done
<1>1. Timeout * Operations + Timeout <= Timeout * done
  BY Multiples
<1>2. spent <= Timeout * Operations + waited /\ waited <= Timeout
  BY DEF BudgetInv, TcpTypeOK
<1>3. /\ Timeout * Operations \in Int /\ Timeout * done \in Int
      /\ Timeout \in Int /\ waited \in Int /\ spent \in Int
  BY TcpAssumption DEF TcpTypeOK
<1> QED BY <1>1, <1>2, <1>3

LEMMA BudgetStep ==
  TcpTypeOK /\ AnswerInv /\ BudgetInv /\ [TcpNext]_tcpVars => BudgetInv'
<1> SUFFICES ASSUME TcpTypeOK, AnswerInv, BudgetInv, [TcpNext]_tcpVars
             PROVE  BudgetInv'
  OBVIOUS
<1> DEFINE all == 1 + RequestSize + MaxSize + 1
<1>1. /\ TcpTypeOK' /\ all \in Nat /\ Timeout \in Nat
      /\ Len(buf) \in Nat /\ Len(buf') \in Nat
      /\ Operations \in Nat /\ Operations' \in Nat
      /\ stage \notin Ended => Operations < all
  <2>1. TcpTypeOK'
    BY TypeStep
  <2>2. Len(buf) \in Nat /\ Len(buf') \in Nat
    BY <2>1 DEF TcpTypeOK
  <2>3. stage \notin Ended => Len(buf) <= MaxSize
    BY <2>2, EmptySeq, TcpAssumption DEF TcpTypeOK, AnswerInv, Ended
  <2> QED BY <2>1, <2>2, <2>3, TcpAssumption DEF TcpTypeOK, Operations
<1>2. ASSUME Fail, stage \notin Ended
      PROVE  BudgetInv'
  BY <1>1, <1>2, OperationEnds DEF Fail, BudgetInv, CallWithinBudget, Ended
<1>3. ASSUME stage \notin Ended, stage' \notin Ended, waited' = 0, spent' = spent,
             Operations < Operations'
      PROVE  BudgetInv'
  <2>1. spent <= Timeout * Operations'
    BY <1>1, <1>3, OperationEnds
  <2>2. Timeout * Operations' \in Int
    BY <1>1
  <2> QED BY <1>3, <2>1, <2>2 DEF BudgetInv
<1>4. CASE ConnectFails \/ SendFails \/ ReceiveFails
  BY <1>2, <1>4 DEF ConnectFails, SendFails, ReceiveFails, Ended
<1>5. CASE Connect
  <2>1. Operations < Operations'
    BY <1>1, <1>5 DEF Connect, Operations, TcpTypeOK
  <2> QED BY <1>3, <1>5, <2>1 DEF Connect, Ended
<1>6. CASE Send
  <2>1. Operations < Operations'
    BY <1>1, <1>6, TcpAssumption DEF Send, Operations, TcpTypeOK
  <2>2. stage \notin Ended /\ stage' \notin Ended
    BY <1>6 DEF Send, Ended
  <2> QED BY <1>3, <1>6, <2>1, <2>2 DEF Send
<1>7. CASE Receive
  <2>1. PICK n \in 1..Len(wire) : buf' = buf \o SubSeq(wire, 1, n)
    BY <1>7 DEF Receive
  <2>2. Len(buf) < Len(buf')
    <3>1. SubSeq(wire, 1, n) \in Seq(Byte) /\ Len(SubSeq(wire, 1, n)) = n
      BY <2>1 DEF TcpTypeOK
    <3> QED BY <2>1, <3>1, ConcatProperties DEF TcpTypeOK
  <2>3. CASE stage' \in Ended
    BY <1>1, <1>7, <2>3, OperationEnds
       DEF Receive, BudgetInv, CallWithinBudget, Ended
  <2>4. CASE stage' \notin Ended
    <3>1. Operations < Operations'
      BY <1>1, <1>7, <2>2, <2>4
         DEF Receive, StageAfter, Operations, Ended, TcpTypeOK
    <3> QED BY <1>3, <1>7, <2>4, <3>1 DEF Receive, Ended
  <2> QED BY <2>3, <2>4
<1>8. CASE Wait
  <2>1. Operations' = Operations /\ stage' \notin Ended /\ stage \notin Ended
    BY <1>8 DEF Wait, Operations
  <2>2. Timeout * Operations \in Int /\ spent \in Int /\ waited \in Int
    BY <1>1 DEF TcpTypeOK
  <2> QED BY <1>8, <2>1, <2>2 DEF Wait, BudgetInv
<1>9. CASE GoAway \/ Say \/ UNCHANGED tcpVars
  <2>1. UNCHANGED <<stage, sent, buf, waited, spent>>
    BY <1>9 DEF GoAway, Say, tcpVars
  <2> QED BY <2>1 DEF BudgetInv, Operations, CallWithinBudget
<1> QED BY <1>4, <1>5, <1>6, <1>7, <1>8, <1>9 DEF TcpNext

(* Although each operation starts its timeout anew, the call has an end: it*)
(* takes no more timeouts than there are bytes to send and to receive under*)
(* the cap, and two.                                                       *)
THEOREM CallHasAnEnd == TcpSpec => []CallWithinBudget
<1>1. TcpInit => BudgetInv
  BY TcpAssumption DEF TcpInit, BudgetInv, Operations, Ended
<1>2. TcpInit => AnswerInv
  BY TcpAssumption, EmptySeq DEF TcpInit, AnswerInv
<1>3. TcpTypeOK /\ AnswerInv /\ BudgetInv => CallWithinBudget
  <2> SUFFICES ASSUME TcpTypeOK, AnswerInv, BudgetInv, stage \notin Ended
               PROVE  CallWithinBudget
    BY DEF BudgetInv
  <2> DEFINE all == 1 + RequestSize + MaxSize + 1
  <2>1. Len(buf) \in Nat /\ Len(buf) <= MaxSize
    BY EmptySeq, TcpAssumption DEF TcpTypeOK, AnswerInv, Ended
  <2>2. all \in Nat /\ Operations \in Nat /\ Operations < all
    BY <2>1, TcpAssumption DEF TcpTypeOK, Operations
  <2> QED BY <2>2, OperationEnds DEF CallWithinBudget
<1> QED BY <1>1, <1>2, <1>3, AnswerStep, BudgetStep, TcpTypeCorrect, PTL DEF TcpSpec

--------------------------------------------------------------------------------
(* What ParseResponse finds in the first part of an answer.                *)

LEMMA TextIsWhole ==
  ASSUME answer \in {<<>>, Answer, ErrorAnswer}, heard \in 0..Len(answer),
         Parsed # <<>>
  PROVE  answer = Answer /\ Parsed = Content
<1>1. Answer = <<"200", "blank", "open", "c1", "c2", "quote", "rest">>
  BY DEF Answer
<1>2. Has("open") /\ Has("quote")
  BY DEF Parsed
<1>3. /\ Response = SubSeq(answer, 1, heard) /\ Len(answer) \in Nat
      /\ heard \in Nat /\ heard <= Len(answer)
  BY <1>1 DEF Response, ErrorAnswer
<1>4. /\ DOMAIN Response = 1..heard
      /\ \A i \in 1..heard : Response[i] = answer[i]
  BY <1>3
<1>5. answer # <<>> /\ answer # ErrorAnswer
  <2>1. PICK i \in 1..heard : answer[i] = "quote"
    BY <1>2, <1>4 DEF Has
  <2>2. answer # <<>>
    BY <1>3, <2>1
  <2>3. ASSUME answer = ErrorAnswer
        PROVE  FALSE
    BY <1>3, <2>1, <2>3 DEF ErrorAnswer
  <2> QED BY <2>2, <2>3
<1>6. answer = Answer
  BY <1>5
<1>7. /\ Len(answer) = 7
      /\ answer[1] = "200" /\ answer[2] = "blank" /\ answer[3] = "open"
      /\ answer[4] = "c1" /\ answer[5] = "c2" /\ answer[6] = "quote"
      /\ answer[7] = "rest"
  BY <1>1, <1>6
<1>8. ASSUME NEW i \in 1..heard
      PROVE  i \in 1..7 /\ (Response[i] = "open" <=> i = 3)
                        /\ (Response[i] = "quote" <=> i = 6)
  BY <1>3, <1>4, <1>7
<1>9. 3 \in 1..heard /\ 6 \in 1..heard
  BY <1>2, <1>4, <1>8 DEF Has
<1>10. Place("open") = 3 /\ Place("quote") = 6
  BY <1>4, <1>8, <1>9 DEF Place
<1>11. Parsed = SubSeq(Response, 4, 5)
  BY <1>2, <1>10 DEF Parsed
<1>12. /\ Len(SubSeq(Response, 4, 5)) = 2
       /\ SubSeq(Response, 4, 5)[1] = "c1" /\ SubSeq(Response, 4, 5)[2] = "c2"
       /\ SubSeq(Response, 4, 5) \in Seq({"c1", "c2"})
  <2>1. Response[4] = "c1" /\ Response[5] = "c2"
    BY <1>3, <1>4, <1>7, <1>9
  <2>2. \A i \in 4..5 : Response[i] \in {"c1", "c2"}
    BY <2>1
  <2>3. /\ SubSeq(Response, 4, 5) \in Seq({"c1", "c2"})
        /\ Len(SubSeq(Response, 4, 5)) = 5 - 4 + 1
        /\ \A i \in 1..(5 - 4 + 1) : SubSeq(Response, 4, 5)[i] = Response[4 + i - 1]
    BY <2>2, SubSeqProperties
  <2> QED BY <2>1, <2>3
<1>13. SubSeq(Response, 4, 5) = Content
  <2>1. /\ Content \in Seq({"c1", "c2"}) /\ Len(Content) = 2
        /\ Content[1] = "c1" /\ Content[2] = "c2"
    BY DEF Content
  <2> QED BY <1>12, <2>1, SeqEqual
<1> QED BY <1>6, <1>11, <1>13

--------------------------------------------------------------------------------
(* The whole text only ever comes from an answer to the whole request: the *)
(* server chooses it when it has read all, and nothing is posted after.    *)
WholeInv ==
  /\ at \in {"dialing", "posting", "reading", "returned"}
  /\ answer \in {<<>>, Answer, ErrorAnswer}
  /\ told \in 0..Len(answer) /\ heard \in 0..told
  /\ at \in {"dialing", "posting"} => answer = <<>>
  /\ answer = Answer => posted = BodySize
  /\ candidates # <<>> => at = "returned"
  /\ CandidatesAreWhole

LEMMA AnswerFacts ==
  /\ Len(<<>>) = 0 /\ Len(Answer) = 7 /\ Len(ErrorAnswer) = 3
  /\ Answer # <<>> /\ ErrorAnswer # <<>> /\ Answer # ErrorAnswer
  BY DEF Answer, ErrorAnswer

LEMMA WholeStep == WholeInv /\ [HttpNext]_httpVars => WholeInv'
<1> SUFFICES ASSUME WholeInv, [HttpNext]_httpVars PROVE WholeInv'
  OBVIOUS
<1> USE AnswerFacts DEF WholeInv, CandidatesAreWhole
<1>1. ASSUME NEW result, Return(result), at # "returned",
             result # <<>> => answer = Answer /\ result = Content
      PROVE  WholeInv'
  BY <1>1 DEF Return
<1>2. CASE DialFails \/ PostFails
  <2>1. Return(<<>>) /\ at # "returned"
    BY <1>2 DEF DialFails, PostFails
  <2> QED BY <1>1, <2>1
<1>3. CASE ReadEnds
  <2>1. Return(Result) /\ at # "returned"
    BY <1>3 DEF ReadEnds
  <2>2. Result # <<>> => Parsed # <<>> /\ Result = Parsed
    BY DEF Result
  <2>3. heard \in 0..Len(answer)
    OBVIOUS
  <2> QED BY <1>1, <2>1, <2>2, <2>3, TextIsWhole
<1>4. CASE Dial
  BY <1>4 DEF Dial
<1>5. CASE Post
  BY <1>5 DEF Post
<1>6. CASE Read
  BY <1>6 DEF Read
<1>7. CASE Choose
  BY <1>7 DEF Choose
<1>8. CASE Tell
  BY <1>8 DEF Tell
<1>9. CASE Trickle \/ Hush \/ Close \/ Pass
  BY <1>9 DEF Trickle, Hush, Close, Pass
<1>10. CASE UNCHANGED httpVars
  BY <1>10 DEF httpVars
<1> QED BY <1>2, <1>3, <1>4, <1>5, <1>6, <1>7, <1>8, <1>9, <1>10
           DEF HttpNext, BackendStep, ServerStep

(* Generate never gives a piece of a text, though it looks neither at how  *)
(* much of the request it could send nor at why an answer has ended.       *)
THEOREM NoPieceOfAText == HttpSpec => []CandidatesAreWhole
<1>1. HttpInit => WholeInv
  BY AnswerFacts DEF HttpInit, WholeInv, CandidatesAreWhole
<1>2. WholeInv => CandidatesAreWhole
  BY DEF WholeInv
<1> QED BY <1>1, <1>2, WholeStep, PTL DEF HttpSpec

--------------------------------------------------------------------------------
(* A walk over the places of a text that at some of them ends and at the   *)
(* others goes on further right has a result, built from the end.          *)
IsWalk(lo, hi, V, Ends, end, step, next) ==
  /\ lo \in Int /\ hi \in Int /\ lo <= hi /\ hi \in Ends
  /\ end \in [lo..hi -> V] /\ step \in [lo..hi -> [V -> V]]
  /\ next \in [lo..hi -> lo..hi] /\ \A i \in lo..hi : i \notin Ends => i < next[i]
IsWalked(f, lo, hi, V, Ends, end, step, next) ==
  /\ f \in [lo..hi -> V]
  /\ \A i \in lo..hi : f[i] = IF i \in Ends THEN end[i] ELSE step[i][f[next[i]]]

(* Such a walk has a result.                                              *)
LEMMA WalkEnds ==
  ASSUME NEW lo, NEW hi, NEW V, NEW Ends, NEW end, NEW step, NEW next,
         IsWalk(lo, hi, V, Ends, end, step, next)
  PROVE  \E f : IsWalked(f, lo, hi, V, Ends, end, step, next)
<1> DEFINE Value(f, i) == IF i \in Ends THEN end[i] ELSE step[i][f[next[i]]]
           Right(f, m) == \A i \in hi-m..hi : f[i] = Value(f, i)
           T == {m \in 0..hi-lo : \E f \in [lo..hi -> V] : Right(f, m)}
<1>1. /\ lo \in Int /\ hi \in Int /\ lo <= hi /\ hi \in Ends
      /\ end \in [lo..hi -> V] /\ step \in [lo..hi -> [V -> V]]
      /\ next \in [lo..hi -> lo..hi] /\ \A i \in lo..hi : i \notin Ends => i < next[i]
  BY DEF IsWalk
<1>2. ASSUME NEW f \in [lo..hi -> V], NEW i \in lo..hi
      PROVE  Value(f, i) \in V
  <2>1. next[i] \in lo..hi /\ f[next[i]] \in V /\ end[i] \in V /\ step[i] \in [V -> V]
    BY <1>1
  <2>2. step[i][f[next[i]]] \in V
    BY <2>1
  <2> QED BY <2>1, <2>2
<1>3. 0 \in T
  <2>1. end \in [lo..hi -> V] /\ Right(end, 0) /\ 0 \in 0..hi-lo
    BY <1>1
  <2> HIDE DEF Right
  <2> QED BY <2>1
<1>4. ASSUME NEW m \in 0..hi-lo, m \in T, m < hi-lo
      PROVE  m + 1 \in T
  <2>1. PICK f \in [lo..hi -> V] : Right(f, m)
    BY <1>4
  <2> DEFINE k == hi-m-1
             new == Value(f, k)
             g == [f EXCEPT ![k] = new]
  <2>2. k \in lo..hi /\ hi-(m+1) = k /\ hi-m = k+1 /\ m + 1 \in 0..hi-lo
    BY <1>1, <1>4
  <2> HIDE DEF k
  <2>3. new = Value(f, k) /\ new \in V
    BY <1>2, <2>2
  <2> HIDE DEF new
  <2>4. /\ g \in [lo..hi -> V] /\ g[k] = new
        /\ \A i \in lo..hi : i # k => g[i] = f[i]
    BY <2>2, <2>3
  <2> HIDE DEF g
  <2>5. ASSUME NEW i \in k..hi
        PROVE  g[i] = Value(g, i)
    <3>1. i \in lo..hi /\ next[i] \in lo..hi /\ (i \notin Ends => next[i] # k)
      BY <1>1, <2>2
    <3>2. i \notin Ends => g[next[i]] = f[next[i]]
      BY <2>4, <3>1
    <3>3. CASE i = k
      BY <2>3, <2>4, <3>2, <3>3
    <3>4. CASE i # k
      <4>1. i \in hi-m..hi
        BY <1>1, <2>2, <3>4
      <4>2. f[i] = Value(f, i)
        BY <2>1, <4>1
      <4>3. g[i] = f[i]
        BY <2>4, <3>1, <3>4
      <4> QED BY <3>2, <4>2, <4>3
    <3> QED BY <3>3, <3>4
  <2>6. Right(g, m + 1)
    <3> HIDE DEF Value
    <3> QED BY <2>2, <2>5
  <2> HIDE DEF Right
  <2> QED BY <2>2, <2>4, <2>6
<1>5. hi-lo \in T
  <2> HIDE DEF T
  <2>1. hi-lo \in Nat /\ hi-lo \in 0..hi-lo
    BY <1>1
  <2>2. \A m \in 0..hi-lo : m \in T
    BY <1>3, <1>4, <2>1, UpTo
  <2> QED BY <2>1, <2>2
<1>6. PICK f \in [lo..hi -> V] : Right(f, hi-lo)
  BY <1>5
<1>7. hi-(hi-lo) = lo
  BY <1>1
<1>8. \A i \in lo..hi : f[i] = Value(f, i)
  <2> HIDE DEF Value
  <2> QED BY <1>6, <1>7
<1> QED BY <1>8 DEF IsWalked

(* One that at every place appends something.                              *)
IsJoin(n, S, out, next) ==
  /\ n \in Nat /\ out \in [1..n -> Seq(S)]
  /\ next \in [1..n -> 1..n+1] /\ \A i \in 1..n : i < next[i]
IsJoined(rest, n, S, out, next) ==
  /\ rest \in [1..n+1 -> Seq(S)] /\ rest[n+1] = <<>>
  /\ \A i \in 1..n : rest[i] = out[i] \o rest[next[i]]

(* A loop that at every place appends something has a result.             *)
LEMMA JoinEnds ==
  ASSUME NEW n, NEW S, NEW out, NEW next, IsJoin(n, S, out, next)
  PROVE  \E rest : IsJoined(rest, n, S, out, next)
<1> DEFINE V == Seq(S)
           end == [i \in 1..n+1 |-> <<>>]
           to == [i \in 1..n+1 |-> IF i = n+1 THEN n+1 ELSE next[i]]
           step == [i \in 1..n+1 |-> IF i = n+1 THEN [v \in V |-> v]
                                     ELSE [v \in V |-> out[i] \o v]]
<1>1. /\ n \in Nat /\ out \in [1..n -> V]
      /\ next \in [1..n -> 1..n+1] /\ \A i \in 1..n : i < next[i]
  BY DEF IsJoin
<1>2. \A i \in 1..n+1 : i # n+1 => i \in 1..n
  BY <1>1
<1>3. to \in [1..n+1 -> 1..n+1] /\ \A i \in 1..n+1 : i \notin {n+1} => i < to[i]
  BY <1>1, <1>2
<1>4. end \in [1..n+1 -> V]
  OBVIOUS
<1>5. step \in [1..n+1 -> [V -> V]]
  <2>1. ASSUME NEW i \in 1..n
        PROVE  [v \in V |-> out[i] \o v] \in [V -> V]
    <3>1. out[i] \in Seq(S)
      BY <1>1
    <3>2. \A v \in Seq(S) : out[i] \o v \in Seq(S)
      BY <3>1
    <3> QED BY <3>2
  <2>2. [v \in V |-> v] \in [V -> V]
    OBVIOUS
  <2> HIDE DEF V
  <2> QED BY <1>2, <2>1, <2>2
<1>6. IsWalk(1, n+1, V, {n+1}, end, step, to)
  <2> HIDE DEF V, end, step, to
  <2> QED BY <1>1, <1>3, <1>4, <1>5 DEF IsWalk
<1>7. PICK rest : IsWalked(rest, 1, n+1, V, {n+1}, end, step, to)
  <2> HIDE DEF V, end, step, to
  <2> QED BY <1>6, WalkEnds
<1>8. /\ rest \in [1..n+1 -> V]
      /\ \A i \in 1..n+1 : rest[i] = IF i \in {n+1} THEN end[i] ELSE step[i][rest[to[i]]]
  <2> HIDE DEF V, end, step, to
  <2> QED BY <1>7 DEF IsWalked
<1>9. rest[n+1] = <<>>
  <2>1. n+1 \in 1..n+1 /\ n+1 \in {n+1} /\ end[n+1] = <<>>
    BY <1>1
  <2> HIDE DEF V, end, step, to
  <2> QED BY <1>8, <2>1
<1>10. ASSUME NEW i \in 1..n
       PROVE  rest[i] = out[i] \o rest[next[i]]
  <2>1. i \in 1..n+1 /\ i # n+1 /\ next[i] \in 1..n+1 /\ rest[next[i]] \in V
    BY <1>1, <1>8
  <2>2. rest[i] = step[i][rest[next[i]]]
    BY <1>8, <2>1
  <2>3. step[i] = [v \in V |-> out[i] \o v]
    BY <2>1
  <2> HIDE DEF V, step
  <2> QED BY <2>1, <2>2, <2>3
<1> QED BY <1>8, <1>9, <1>10 DEF IsJoined

(* Induction from the end of a text, said of the set of places.            *)
LEMMA Downwards ==
  ASSUME NEW n \in Nat, NEW H, n + 1 \in H,
         \A i \in 1..n : (\A j \in (i + 1)..(n + 1) : j \in H) => i \in H
  PROVE  \A i \in 1..n+1 : i \in H
<1> SUFFICES ASSUME NEW i \in 1..n+1, i \notin H PROVE FALSE
  OBVIOUS
<1> DEFINE Out == {k \in 0..n : n + 1 - k \notin H}
<1>1. PICK k \in Out : \A l \in Out : k <= l
  <2>1. Out \in SUBSET Nat /\ n + 1 - i \in Out
    OBVIOUS
  <2> HIDE DEF Out
  <2> QED BY <2>1, LeastNumber
<1>2. k \in 1..n /\ n + 1 - k \in 1..n
  BY <1>1
<1>3. ASSUME NEW j \in (n + 1 - k + 1)..(n + 1)
      PROVE  j \in H
  <2>1. n + 1 - j \in 0..n /\ n + 1 - (n + 1 - j) = j /\ n + 1 - j < k
    BY <1>2
  <2> QED BY <1>1, <2>1
<1> QED BY <1>1, <1>2, <1>3

(* What is left of a text from a place on.                                 *)
LEMMA RestOfText ==
  ASSUME NEW S, NEW s \in Seq(S)
  PROVE  /\ From(s, 1) = s /\ From(s, Len(s) + 1) = <<>>
         /\ \A i \in 1..Len(s) : From(s, i) = <<s[i]>> \o From(s, i + 1)
<1>1. From(s, 1) = s
  BY SubSeqFull DEF From
<1>2. From(s, Len(s) + 1) = <<>>
  BY SubSeqEmpty DEF From
<1>3. ASSUME NEW i \in 1..Len(s)
      PROVE  From(s, i) = <<s[i]>> \o From(s, i + 1)
  <2>1. Len(s) \in i..Len(s)
    OBVIOUS
  <2> QED BY <2>1, SubSeqRecursiveFirst DEF From
<1> QED BY <1>1, <1>2, <1>3

(* The steps of a loop over a text of n symbols: each appends symbols of V *)
(* and goes on further right.                                              *)
AreSteps(steps, n, V) ==
  /\ n \in Nat /\ DOMAIN steps = 1..n
  /\ \A i \in 1..n : steps[i].out \in Seq(V) /\ steps[i].next \in (i + 1)..(n + 1)
(* What the loop has still to append from each place on.                   *)
IsRest(rest, steps, n, V) ==
  /\ rest \in [1..n+1 -> Seq(V)] /\ rest[n + 1] = <<>>
  /\ \A i \in 1..n : rest[i] = steps[i].out \o rest[steps[i].next]

(* Such a loop ends, and builds what it has to append from the first place.*)
LEMMA BuiltJoins ==
  ASSUME NEW n, NEW V, NEW steps, AreSteps(steps, n, V)
  PROVE  \E rest : IsRest(rest, steps, n, V) /\ Built(steps, n) = rest[1]
<1> DEFINE Loop(f) == f = [i \in 1..(n + 1) |->
                             IF i > n THEN <<>>
                             ELSE steps[i].out \o f[steps[i].next]]
           rest == CHOOSE f : Loop(f)
           out == [i \in 1..n |-> steps[i].out]
           next == [i \in 1..n |-> steps[i].next]
<1>1. /\ n \in Nat
      /\ \A i \in 1..n : steps[i].out \in Seq(V) /\ steps[i].next \in (i + 1)..(n + 1)
  BY DEF AreSteps
<1>2. Built(steps, n) = rest[1]
  BY DEF Built
<1>3. out \in [1..n -> Seq(V)] /\ next \in [1..n -> 1..n+1] /\ \A i \in 1..n : i < next[i]
  BY <1>1
<1>4. PICK f : IsJoined(f, n, V, out, next)
  <2> HIDE DEF out, next
  <2>1. IsJoin(n, V, out, next)
    BY <1>1, <1>3 DEF IsJoin
  <2> QED BY <2>1, JoinEnds
<1>5. /\ f \in [1..n+1 -> Seq(V)] /\ f[n+1] = <<>>
      /\ \A i \in 1..n : f[i] = steps[i].out \o f[steps[i].next]
  BY <1>4 DEF IsJoined
<1>6. Loop(f)
  <2>1. \A i \in 1..n+1 : i = n+1 \/ i \in 1..n
    BY <1>1
  <2>2. n + 1 > n /\ \A i \in 1..n : ~ (i > n)
    BY <1>1
  <2>3. \A i \in 1..n+1 : f[i] = IF i > n THEN <<>>
                             ELSE steps[i].out \o f[steps[i].next]
    BY <1>5, <2>1, <2>2
  <2>4. f = [i \in 1..n+1 |-> f[i]]
    BY <1>5
  <2> QED BY <2>3, <2>4
<1>7. Loop(rest)
  <2> HIDE DEF Loop
  <2> QED BY <1>6
<1> HIDE DEF rest
<1>8. /\ rest[n+1] = <<>>
      /\ \A i \in 1..n : rest[i] = steps[i].out \o rest[steps[i].next]
      /\ rest = [i \in 1..n+1 |-> rest[i]]
  <2>1. n + 1 > n /\ n + 1 \in 1..n+1 /\ \A i \in 1..n : ~ (i > n) /\ i \in 1..n+1
    BY <1>1
  <2>2. \A i \in 1..n+1 : rest[i] = IF i > n THEN <<>>
                             ELSE steps[i].out \o rest[steps[i].next]
    BY <1>7
  <2> QED BY <1>7, <2>1, <2>2
<1> HIDE DEF Loop
<1>9. \A i \in 1..n+1 : rest[i] = f[i]
  <2> DEFINE H == {i \in 1..n+1 : rest[i] = f[i]}
  <2>1. n + 1 \in H
    BY <1>1, <1>5, <1>8
  <2>2. ASSUME NEW i \in 1..n, \A j \in (i + 1)..(n + 1) : j \in H
        PROVE  i \in H
    <3>1. steps[i].next \in H
      BY <1>1, <2>2
    <3>2. rest[steps[i].next] = f[steps[i].next] /\ i \in 1..n+1
      BY <1>1, <3>1
    <3> QED BY <1>5, <1>8, <3>2
  <2> HIDE DEF H
  <2>3. \A i \in 1..n+1 : i \in H
    BY <1>1, <2>1, <2>2, Downwards
  <2> QED BY <2>3 DEF H
<1>10. rest \in [1..n+1 -> Seq(V)]
  BY <1>5, <1>8, <1>9
<1> QED BY <1>2, <1>8, <1>10 DEF IsRest

(* The text a loop builds, and no other function is what it has to append. *)
LEMMA RestIsOne ==
  ASSUME NEW n, NEW V, NEW steps, AreSteps(steps, n, V), NEW rest, IsRest(rest, steps, n, V)
  PROVE  Built(steps, n) = rest[1] /\ rest[1] \in Seq(V)
<1>1. PICK f : IsRest(f, steps, n, V) /\ Built(steps, n) = f[1]
  BY BuiltJoins
<1>2. n \in Nat /\ \A i \in 1..n : steps[i].next \in (i + 1)..(n + 1)
  BY DEF AreSteps
<1> DEFINE H == {i \in 1..n+1 : rest[i] = f[i]}
<1>3. n + 1 \in H
  BY <1>1, <1>2 DEF IsRest
<1>4. ASSUME NEW i \in 1..n, \A j \in (i + 1)..(n + 1) : j \in H
      PROVE  i \in H
  <2>1. steps[i].next \in H
    BY <1>2, <1>4
  <2>2. rest[steps[i].next] = f[steps[i].next] /\ i \in 1..n+1
    BY <1>2, <2>1
  <2> QED BY <1>1, <2>2 DEF IsRest
<1>5. 1 \in H
  <2> HIDE DEF H
  <2>1. \A i \in 1..n+1 : i \in H
    BY <1>2, <1>3, <1>4, Downwards
  <2> QED BY <1>2, <2>1
<1> QED BY <1>1, <1>5 DEF IsRest

(* A loop that copies every symbol builds the text it reads.               *)
LEMMA CopiesBuild ==
  ASSUME NEW S, NEW s \in Seq(S), NEW steps, DOMAIN steps = 1..Len(s),
         \A i \in 1..Len(s) : steps[i] = Copy(s, i)
  PROVE  Built(steps, Len(s)) = s
<1> DEFINE n == Len(s)
           rest == [i \in 1..n+1 |-> From(s, i)]
<1>1. n \in Nat
  OBVIOUS
<1>2. \A i \in 1..n : steps[i].out = <<s[i]>> /\ steps[i].next = i + 1 /\ s[i] \in S
  BY DEF Copy
<1>3. AreSteps(steps, n, S)
  <2>1. ASSUME NEW i \in 1..n
        PROVE  steps[i].out \in Seq(S) /\ steps[i].next \in (i + 1)..(n + 1)
    <3>1. <<s[i]>> \in Seq(S) /\ i + 1 \in (i + 1)..(n + 1)
      BY <1>1, <1>2
    <3> QED BY <1>2, <3>1
  <2> QED BY <1>1, <2>1 DEF AreSteps
<1>4. \A i \in 1..n+1 : From(s, i) \in Seq(S)
  <2>1. ASSUME NEW i \in 1..n+1
        PROVE  SubSeq(s, i, n) \in Seq(S)
    BY <1>1
  <2> QED BY <2>1 DEF From
<1>5. IsRest(rest, steps, n, S)
  <2>1. rest \in [1..n+1 -> Seq(S)]
    BY <1>4
  <2>2. rest[n+1] = <<>> /\ rest[1] = s
    BY <1>1, RestOfText
  <2>3. ASSUME NEW i \in 1..n
        PROVE  rest[i] = steps[i].out \o rest[steps[i].next]
    <3>1. i \in 1..n+1 /\ i + 1 \in 1..n+1
      BY <1>1
    <3>2. From(s, i) = <<s[i]>> \o From(s, i + 1)
      BY RestOfText
    <3> QED BY <1>2, <3>1, <3>2
  <2> QED BY <2>1, <2>2, <2>3 DEF IsRest
<1>6. Built(steps, n) = rest[1]
  BY <1>3, <1>5, RestIsOne
<1> QED BY <1>1, <1>6, RestOfText

(* A loop over the end of a text builds what one over the whole text has   *)
(* to append from there on.                                                *)
LEMMA RestOfEnd ==
  ASSUME NEW n, NEW V, NEW steps, AreSteps(steps, n, V), NEW k \in Nat,
         NEW more, NEW rest, IsRest(rest, more, k + n, V),
         \A i \in 1..n : /\ more[k + i].out = steps[i].out
                         /\ more[k + i].next = k + steps[i].next
  PROVE  Built(steps, n) = rest[k + 1]
<1> DEFINE f == [i \in 1..n+1 |-> rest[k + i]]
<1>1. n \in Nat /\ \A i \in 1..n : steps[i].next \in (i + 1)..(n + 1)
  BY DEF AreSteps
<1>2. /\ rest \in [1..k+n+1 -> Seq(V)] /\ rest[k+n+1] = <<>>
      /\ \A i \in 1..k+n : rest[i] = more[i].out \o rest[more[i].next]
  BY DEF IsRest
<1>3. \A i \in 1..n+1 : k + i \in 1..k+n+1 /\ rest[k + i] \in Seq(V)
  BY <1>1, <1>2
<1>4. ASSUME NEW i \in 1..n
      PROVE  f[i] = steps[i].out \o f[steps[i].next]
  <2>1. k + i \in 1..k+n /\ i \in 1..n+1 /\ steps[i].next \in 1..n+1
    BY <1>1
  <2>2. rest[k + i] = more[k + i].out \o rest[more[k + i].next]
    BY <1>2, <2>1
  <2> QED BY <2>1, <2>2
<1>5. f[n + 1] = <<>>
  BY <1>1, <1>2
<1>6. f \in [1..n+1 -> Seq(V)]
  BY <1>3
<1> HIDE DEF f
<1>7. IsRest(f, steps, n, V)
  BY <1>4, <1>5, <1>6 DEF IsRest
<1>8. Built(steps, n) = f[1]
  BY <1>7, RestIsOne
<1> QED BY <1>1, <1>8 DEF f
(* What EscapeJson makes of a character.                                   *)
Escaped(c) == IF c \in DOMAIN Letter THEN <<"bslash", Letter[c]>> ELSE <<c>>
Escapes == {"bslash"} \cup {Letter[c] : c \in DOMAIN Letter}

(* EscapeJson builds its text character by character.                     *)
LEMMA EscapeJsonJoins ==
  ASSUME NEW S, NEW s \in Seq(S)
  PROVE  \E rest \in [1..Len(s)+1 -> Seq((S \ DOMAIN Letter) \cup Escapes)] :
           /\ rest[Len(s)+1] = <<>>
           /\ \A i \in 1..Len(s) : rest[i] = Escaped(s[i]) \o rest[i+1]
           /\ EscapeJson(s) = rest[1]
<1> DEFINE n == Len(s)
           A == (S \ DOMAIN Letter) \cup Escapes
           steps == [i \in 1..n |-> EscapedStep(s, i)]
<1>1. n \in Nat /\ \A i \in 1..n : s[i] \in S
  OBVIOUS
<1>2. \A i \in 1..n : steps[i].out = Escaped(s[i]) /\ steps[i].next = i + 1
  BY DEF EscapedStep, Escaped, Replace, Copy
<1>3. EscapeJson(s) = Built(steps, n)
  BY DEF EscapeJson, Scan
<1>4. DOMAIN steps = 1..n
  OBVIOUS
<1> HIDE DEF n, steps
<1>5. ASSUME NEW i \in 1..n
      PROVE  Escaped(s[i]) \in Seq(A)
  <2>1. CASE s[i] \in DOMAIN Letter
    <3>1. "bslash" \in A /\ Letter[s[i]] \in A
      BY <2>1 DEF Escapes
    <3> HIDE DEF A
    <3> QED BY <2>1, <3>1 DEF Escaped
  <2>2. CASE s[i] \notin DOMAIN Letter
    <3>1. s[i] \in A
      BY <1>1, <2>2
    <3> HIDE DEF A
    <3> QED BY <2>2, <3>1 DEF Escaped
  <2> QED BY <2>1, <2>2
<1> HIDE DEF A
<1>6. AreSteps(steps, n, A)
  <2>1. \A i \in 1..n : i + 1 \in (i + 1)..(n + 1)
    BY <1>1
  <2> QED BY <1>1, <1>2, <1>4, <1>5, <2>1 DEF AreSteps
<1>7. PICK rest : IsRest(rest, steps, n, A) /\ Built(steps, n) = rest[1]
  BY <1>6, BuiltJoins
<1> QED BY <1>2, <1>3, <1>7 DEF IsRest, n, A

(* A text stands in another from a place on.                               *)
StandsAt(json, pos, u) ==
  /\ pos \in Nat \ {0} /\ pos + Len(u) <= Len(json) + 1
  /\ \A k \in 1..Len(u) : json[pos - 1 + k] = u[k]

(* The parts of a text that stands somewhere stand one behind the other.  *)
LEMMA PartsStand ==
  ASSUME NEW S, NEW x \in Seq(S), NEW u \in Seq(S), NEW T, NEW json \in Seq(T),
         NEW pos, StandsAt(json, pos, x \o u)
  PROVE  StandsAt(json, pos, x) /\ StandsAt(json, pos + Len(x), u)
<1>1. /\ Len(x \o u) = Len(x) + Len(u) /\ Len(x) \in Nat /\ Len(u) \in Nat
      /\ \A k \in 1..Len(x) : (x \o u)[k] = x[k]
      /\ \A k \in 1..Len(u) : (x \o u)[Len(x) + k] = u[k]
  OBVIOUS
<1>2. /\ pos \in Nat \ {0} /\ pos + Len(x \o u) <= Len(json) + 1
      /\ \A k \in 1..Len(x \o u) : json[pos - 1 + k] = (x \o u)[k]
  BY DEF StandsAt
<1>3. ASSUME NEW k \in 1..Len(x)
      PROVE  json[pos - 1 + k] = x[k]
  <2>1. k \in 1..Len(x \o u)
    BY <1>1
  <2>2. json[pos - 1 + k] = (x \o u)[k]
    BY ONLY <1>2, <2>1
  <2> QED BY ONLY <1>1, <2>2
<1>4. ASSUME NEW k \in 1..Len(u)
      PROVE  json[pos + Len(x) - 1 + k] = u[k]
  <2>1. Len(x) + k \in 1..Len(x \o u) /\ pos - 1 + (Len(x) + k) = pos + Len(x) - 1 + k
    BY <1>1, <1>2
  <2> QED BY <1>1, <1>2, <2>1
<1>5. Len(json) \in Nat
  OBVIOUS
<1> QED BY <1>1, <1>2, <1>3, <1>4, <1>5 DEF StandsAt

(* Where the characters of a text stand once it is escaped.                *)
StandsEscaped(json, place, s) ==
  /\ place \in [1..Len(s)+1 -> Nat \ {0}]
  /\ \A i \in 1..Len(s) :
       /\ place[i + 1] <= Len(json) + 1
       /\ s[i] \in DOMAIN Letter =>
            /\ json[place[i]] = "bslash" /\ json[place[i] + 1] = Letter[s[i]]
            /\ place[i + 1] = place[i] + 2
       /\ s[i] \notin DOMAIN Letter =>
            json[place[i]] = s[i] /\ place[i + 1] = place[i] + 1

(* Where an escaped text stands, each of its characters has its place.    *)
LEMMA EscapedStands ==
  ASSUME NEW S, NEW s \in Seq(S), NEW T, NEW json \in Seq(T), NEW pos,
         StandsAt(json, pos, EscapeJson(s))
  PROVE  \E place : /\ StandsEscaped(json, place, s)
                    /\ place[1] = pos /\ place[Len(s)+1] = pos + Len(EscapeJson(s))
<1> DEFINE n == Len(s)
           A == (S \ DOMAIN Letter) \cup Escapes
<1>1. PICK rest \in [1..n+1 -> Seq(A)] :
        /\ rest[n+1] = <<>>
        /\ \A i \in 1..n : rest[i] = Escaped(s[i]) \o rest[i+1]
        /\ EscapeJson(s) = rest[1]
  BY EscapeJsonJoins
<1>2. n \in Nat /\ pos \in Nat
  BY DEF StandsAt
<1>3. ASSUME NEW i \in 1..n
      PROVE  /\ Escaped(s[i]) \in Seq(A) /\ Len(Escaped(s[i])) \in Nat
             /\ s[i] \in DOMAIN Letter =>
                  Escaped(s[i]) = <<"bslash", Letter[s[i]]>> /\ Len(Escaped(s[i])) = 2
             /\ s[i] \notin DOMAIN Letter =>
                  Escaped(s[i]) = <<s[i]>> /\ Len(Escaped(s[i])) = 1
  <2>1. s[i] \in S
    OBVIOUS
  <2>2. CASE s[i] \in DOMAIN Letter
    <3>1. "bslash" \in A /\ Letter[s[i]] \in A
      BY <2>2 DEF Escapes
    <3> HIDE DEF A
    <3> QED BY <2>2, <3>1 DEF Escaped
  <2>3. CASE s[i] \notin DOMAIN Letter
    <3>1. s[i] \in A
      BY <2>1, <2>3
    <3> HIDE DEF A
    <3> QED BY <2>3, <3>1 DEF Escaped
  <2> QED BY <2>2, <2>3
<1> DEFINE place == [i \in 1..n+1 |-> pos + Len(rest[1]) - Len(rest[i])]
<1> HIDE DEF n, A
<1>41. \A i \in 1..n+1 : rest[i] \in Seq(A)
  BY <1>1
<1>42. 1 \in 1..n+1 /\ n+1 \in 1..n+1 /\ \A i \in 1..n : i \in 1..n+1 /\ i+1 \in 1..n+1
  BY <1>2
<1>5. \A i \in 1..n+1 : place[i] = pos + Len(rest[1]) - Len(rest[i]) /\ Len(rest[i]) \in Nat
  BY <1>41
<1>43. place[1] = pos + Len(rest[1]) - Len(rest[1]) /\ Len(rest[1]) \in Nat
       /\ place[n+1] = pos + Len(rest[1]) - Len(rest[n+1]) /\ Len(rest[n+1]) = 0
  BY <1>1, <1>42, <1>5
<1>4. place[1] = pos /\ place[n+1] = pos + Len(EscapeJson(s))
  BY <1>1, <1>2, <1>43
<1> HIDE DEF place
<1>6. ASSUME NEW i \in 1..n, StandsAt(json, place[i], rest[i])
      PROVE  /\ StandsAt(json, place[i], Escaped(s[i])) /\ StandsAt(json, place[i+1], rest[i+1])
             /\ place[i+1] = place[i] + Len(Escaped(s[i]))
  <2>1. i + 1 \in 1..n+1 /\ i \in 1..n+1 /\ rest[i+1] \in Seq(A)
        /\ rest[i] = Escaped(s[i]) \o rest[i+1]
    BY <1>1, <1>41, <1>42
  <2>2. Len(rest[i]) = Len(Escaped(s[i])) + Len(rest[i+1])
    BY <1>3, <2>1
  <2>3. place[i+1] = place[i] + Len(Escaped(s[i]))
    <3>1. /\ place[i] = pos + Len(rest[1]) - Len(rest[i])
          /\ place[i+1] = pos + Len(rest[1]) - Len(rest[i+1])
          /\ Len(rest[i+1]) \in Nat /\ Len(Escaped(s[i])) \in Nat
      BY <1>3, <1>5, <2>1
    <3> QED BY <1>2, <1>43, <2>2, <3>1
  <2>4. /\ StandsAt(json, place[i], Escaped(s[i]))
        /\ StandsAt(json, place[i] + Len(Escaped(s[i])), rest[i+1])
    BY <1>3, <1>6, <2>1, PartsStand
  <2> QED BY <2>3, <2>4
<1>7. \A m \in 0..n : StandsAt(json, place[m+1], rest[m+1])
  <2> DEFINE H == {m \in 0..n : StandsAt(json, place[m+1], rest[m+1])}
  <2>1. 0 \in H
    BY <1>1, <1>2, <1>4
  <2>2. ASSUME NEW m \in 0..n, m \in H, m < n
        PROVE  m + 1 \in H
    <3>1. m + 1 \in 1..n /\ m + 1 \in 0..n
      BY <1>2, <2>2
    <3> QED BY <1>6, <2>2, <3>1
  <2> HIDE DEF H
  <2>3. \A m \in 0..n : m \in H
    BY <1>2, <2>1, <2>2, UpTo
  <2> QED BY <2>3 DEF H
<1>8. ASSUME NEW i \in 1..n+1
      PROVE  StandsAt(json, place[i], rest[i]) /\ place[i] \in Nat \ {0}
             /\ place[i] <= Len(json) + 1
  <2>1. i - 1 \in 0..n /\ (i - 1) + 1 = i
    BY <1>2
  <2>2. StandsAt(json, place[i], rest[i])
    BY <1>7, <2>1
  <2>3. place[i] \in Nat \ {0} /\ place[i] + Len(rest[i]) <= Len(json) + 1
    BY <2>2 DEF StandsAt
  <2> QED BY <1>5, <2>2, <2>3
<1>9. ASSUME NEW i \in 1..n
      PROVE  /\ place[i + 1] <= Len(json) + 1
             /\ s[i] \in DOMAIN Letter =>
                  /\ json[place[i]] = "bslash" /\ json[place[i] + 1] = Letter[s[i]]
                  /\ place[i + 1] = place[i] + 2
             /\ s[i] \notin DOMAIN Letter =>
                  json[place[i]] = s[i] /\ place[i + 1] = place[i] + 1
  <2>1. i \in 1..n+1 /\ i + 1 \in 1..n+1
    BY <1>2
  <2>2. StandsAt(json, place[i], Escaped(s[i])) /\ place[i+1] = place[i] + Len(Escaped(s[i]))
    BY <1>6, <1>8, <2>1
  <2>3. place[i] \in Nat
        /\ \A k \in 1..Len(Escaped(s[i])) : json[place[i] - 1 + k] = Escaped(s[i])[k]
    BY <2>2 DEF StandsAt
  <2>4. place[i] - 1 + 1 = place[i] /\ place[i] - 1 + 2 = place[i] + 1
    BY <2>3
  <2>5. CASE s[i] \in DOMAIN Letter
    <3>0. Len(Escaped(s[i])) = 2
      BY <1>3, <2>5
    <3>1. 1 \in 1..Len(Escaped(s[i])) /\ 2 \in 1..Len(Escaped(s[i]))
      BY <3>0
    <3>2. Escaped(s[i])[1] = "bslash" /\ Escaped(s[i])[2] = Letter[s[i]]
      BY <1>3, <2>5
    <3> QED BY <1>3, <1>8, <2>1, <2>2, <2>3, <2>4, <2>5, <3>1, <3>2
  <2>6. CASE s[i] \notin DOMAIN Letter
    <3>1. 1 \in 1..Len(Escaped(s[i])) /\ Escaped(s[i])[1] = s[i]
      BY <1>3, <2>6
    <3> QED BY <1>3, <1>8, <2>1, <2>2, <2>3, <2>4, <2>6, <3>1
  <2> QED BY <2>5, <2>6
<1>10. place \in [1..n+1 -> Nat \ {0}]
  <2>1. place = [i \in 1..n+1 |-> place[i]]
    BY DEF place
  <2> QED BY <1>8, <2>1
<1> QED BY <1>4, <1>9, <1>10 DEF StandsEscaped, n

(* The code of a character is that of no other.                            *)
LEMMA LettersDiffer ==
  ASSUME NEW c \in DOMAIN Letter
  PROVE  (CHOOSE d \in DOMAIN Letter : Letter[d] = Letter[c]) = c
<1>1. \A d \in DOMAIN Letter : Letter[d] = Letter[c] => d = c
  BY DEF Letter
<1> QED BY <1>1

(* Decoded builds its text place by place.                                *)
LEMMA DecodedJoins ==
  ASSUME NEW S, NEW s \in Seq(S)
  PROVE  \E rest :
           /\ rest[Len(s)+1] = <<>>
           /\ \A i \in 1..Len(s) :
                rest[i] = DecodedStep(s, i).out \o rest[DecodedStep(s, i).next]
           /\ Decoded(s) = rest[1]
<1> DEFINE n == Len(s)
           Coded(c) == CHOOSE d \in DOMAIN Letter : Letter[d] = c
           T == S \cup {Coded(s[i + 1]) : i \in 1..n}
           steps == [i \in 1..n |-> DecodedStep(s, i)]
<1>1. n \in Nat /\ \A i \in 1..n : s[i] \in S
  OBVIOUS
<1>2. Decoded(s) = Built(steps, n)
  BY DEF Decoded, Scan
<1>3. ASSUME NEW i \in 1..n
      PROVE  /\ DecodedStep(s, i).out \in Seq(T)
             /\ DecodedStep(s, i).next \in (i + 1)..(n + 1)
  <2>1. CASE s[i] = "bslash" /\ i < n
    <3>1. DecodedStep(s, i) = [out |-> <<Coded(s[i + 1])>>, next |-> i + 2]
      BY <2>1 DEF DecodedStep, Replace
    <3>2. Coded(s[i + 1]) \in T
      OBVIOUS
    <3>3. i + 2 \in (i + 1)..(n + 1)
      BY <1>1, <2>1
    <3> HIDE DEF T, Coded
    <3> QED BY <1>1, <3>1, <3>2, <3>3
  <2>2. CASE ~ (s[i] = "bslash" /\ i < n)
    <3>1. DecodedStep(s, i) = [out |-> <<s[i]>>, next |-> i + 1]
      BY <2>2 DEF DecodedStep, Copy
    <3>2. s[i] \in T
      BY <1>1
    <3> HIDE DEF T
    <3> QED BY <1>1, <3>1, <3>2
  <2> QED BY <2>1, <2>2
<1>4. DOMAIN steps = 1..n /\ \A i \in 1..n : steps[i] = DecodedStep(s, i)
  OBVIOUS
<1> HIDE DEF n, T, steps
<1>5. AreSteps(steps, n, T)
  BY <1>1, <1>3, <1>4 DEF AreSteps
<1>6. PICK rest : IsRest(rest, steps, n, T) /\ Built(steps, n) = rest[1]
  BY <1>5, BuiltJoins
<1> QED BY <1>2, <1>4, <1>6 DEF IsRest, n

(* An escaped text has no control character left.                          *)
LEMMA EscapeJsonHasNoControl ==
  ASSUME NEW S, NEW s \in Seq(S)
  PROVE  EscapeJson(s) \in Seq((S \ DOMAIN Letter) \cup Escapes)
<1> DEFINE n == Len(s)
           A == (S \ DOMAIN Letter) \cup Escapes
<1>1. PICK rest \in [1..n+1 -> Seq(A)] :
        /\ rest[n+1] = <<>>
        /\ \A i \in 1..n : rest[i] = Escaped(s[i]) \o rest[i+1]
        /\ EscapeJson(s) = rest[1]
  BY EscapeJsonJoins
<1>2. 1 \in 1..n+1
  OBVIOUS
<1>3. rest[1] \in Seq(A)
  <2> HIDE DEF n, A
  <2> QED BY <1>1, <1>2
<1> QED BY <1>1, <1>3

(* What a JSON library reads of an escaped text is the text.               *)
THEOREM EscapedReadsBack ==
  ASSUME NEW S, NEW s \in Seq(S)
  PROVE  Decoded(EscapeJson(s)) = s
<1> DEFINE n == Len(s)
           A == (S \ DOMAIN Letter) \cup Escapes
           e == EscapeJson(s)
<1>1. n \in Nat
  OBVIOUS
<1>2. e \in Seq(A)
  BY EscapeJsonHasNoControl
<1>3. StandsAt(e, 1, e) /\ Len(e) \in Nat
  <2> HIDE DEF A, e
  <2> QED BY <1>2 DEF StandsAt
<1>4. PICK place : /\ StandsEscaped(e, place, s)
                   /\ place[1] = 1 /\ place[n+1] = 1 + Len(e)
  <2> HIDE DEF A
  <2> QED BY <1>2, <1>3, EscapedStands
<1>5. PICK read : /\ read[Len(e)+1] = <<>> /\ Decoded(e) = read[1]
                  /\ \A j \in 1..Len(e) :
                       read[j] = DecodedStep(e, j).out \o read[DecodedStep(e, j).next]
  <2> HIDE DEF A, e
  <2> QED BY <1>2, DecodedJoins
<1>6. /\ From(s, 1) = s /\ From(s, n + 1) = <<>>
      /\ \A i \in 1..n : From(s, i) = <<s[i]>> \o From(s, i + 1)
  BY RestOfText
<1> HIDE DEF e
<1>7. ASSUME NEW i \in 1..n, read[place[i+1]] = From(s, i + 1)
      PROVE  read[place[i]] = From(s, i)
  <2>1. /\ place[i] \in Nat \ {0} /\ place[i+1] \in Nat \ {0} /\ place[i+1] <= Len(e) + 1
        /\ s[i] \in DOMAIN Letter =>
             /\ e[place[i]] = "bslash" /\ e[place[i] + 1] = Letter[s[i]]
             /\ place[i + 1] = place[i] + 2
        /\ s[i] \notin DOMAIN Letter => e[place[i]] = s[i] /\ place[i + 1] = place[i] + 1
    <3>1. i \in 1..n+1 /\ i + 1 \in 1..n+1
      BY <1>1
    <3> QED BY <1>4, <3>1 DEF StandsEscaped
  <2>2. DecodedStep(e, place[i]).out = <<s[i]>> /\ DecodedStep(e, place[i]).next = place[i+1]
    <3>1. CASE s[i] \in DOMAIN Letter
      <4>1. e[place[i]] = "bslash" /\ place[i] < Len(e) /\ place[i+1] = place[i] + 2
        BY <1>3, <2>1, <3>1
      <4>2. (CHOOSE c \in DOMAIN Letter : Letter[c] = e[place[i] + 1]) = s[i]
        BY <2>1, <3>1, LettersDiffer
      <4> QED BY <4>1, <4>2 DEF DecodedStep, Replace
    <3>2. CASE s[i] \notin DOMAIN Letter
      <4>1. e[place[i]] = s[i] /\ s[i] # "bslash" /\ place[i+1] = place[i] + 1
        BY <2>1, <3>2 DEF Letter
      <4> QED BY <4>1 DEF DecodedStep, Copy
    <3> QED BY <3>1, <3>2
  <2>3. place[i] \in 1..Len(e)
    BY <1>3, <2>1
  <2>4. read[place[i]] = <<s[i]>> \o read[place[i+1]]
    BY <1>5, <2>2, <2>3
  <2> QED BY <1>6, <1>7, <2>4
<1> DEFINE H == {m \in 0..n : read[place[n+1-m]] = From(s, n + 1 - m)}
<1>8. 0 \in H
  BY <1>1, <1>3, <1>4, <1>5, <1>6
<1>9. ASSUME NEW m \in 0..n, m \in H, m < n
      PROVE  m + 1 \in H
  <2>1. n - m \in 1..n /\ (n - m) + 1 = n + 1 - m /\ n + 1 - (m + 1) = n - m /\ m + 1 \in 0..n
    BY <1>1, <1>9
  <2> QED BY <1>7, <1>9, <2>1
<1>10. n \in H
  <2> HIDE DEF H, n
  <2>1. \A m \in 0..n : m \in H
    BY <1>1, <1>8, <1>9, UpTo
  <2> QED BY <1>1, <2>1
<1>11. n + 1 - n = 1
  BY <1>1
<1> QED BY <1>4, <1>5, <1>6, <1>10, <1>11 DEF e

(* What a quoted string is from each of its places on.                     *)
IsString(rest, json, pos, letters) ==
  \A i \in pos..Len(json)+2 :
    /\ i > Len(json) => rest[i] = [text |-> <<>>, next |-> 0]
    /\ i <= Len(json) /\ json[i] = "quote" => rest[i] = [text |-> <<>>, next |-> i + 1]
    /\ i < Len(json) /\ json[i] = "bslash" =>
         rest[i] = [text |-> <<Mapped(letters, json[i + 1])>> \o rest[i + 2].text,
                    next |-> rest[i + 2].next]
    /\ i <= Len(json) /\ json[i] \notin {"quote", "bslash"} =>
         rest[i] = [text |-> <<json[i]>> \o rest[i + 1].text, next |-> rest[i + 1].next]
    /\ rest[i].next = 0 \/ rest[i].next \in i+1..Len(json)+1

(* Every quoted string is read to some end.                               *)
LEMMA StringFromEnds ==
  ASSUME NEW T, NEW json \in Seq(T), NEW pos \in 1..Len(json)+2, NEW letters
  PROVE  \E rest : IsString(rest, json, pos, letters)
                   /\ StringFrom(json, pos, letters) = rest[pos]
<1> DEFINE n == Len(json)
           W == T \cup {Mapped(letters, c) : c \in T}
           V == [text : Seq(W), next : Nat]
           Body(f, i) ==
             CASE i > Len(json) -> [text |-> <<>>, next |-> 0]
               [] i <= Len(json) /\ At(json, i) = "quote" -> [text |-> <<>>, next |-> i + 1]
               [] OTHER ->
                    LET escaped == json[i] = "bslash"
                        after == f[IF escaped THEN i + 2 ELSE i + 1]
                    IN [text |-> (IF ~escaped THEN <<json[i]>>
                                  ELSE IF i = Len(json) THEN <<>>
                                  ELSE <<Mapped(letters, json[i + 1])>>) \o after.text,
                        next |-> after.next]
           Loop(f) == f = [i \in pos..(Len(json) + 2) |-> Body(f, i)]
           rest == CHOOSE f : Loop(f)
           Ends == {i \in pos..n+2 : i > n \/ json[i] = "quote"}
           end == [i \in pos..n+2 |-> [text |-> <<>>, next |-> IF i > n THEN 0 ELSE i + 1]]
           Piece(i) == IF json[i] # "bslash" THEN <<json[i]>>
                       ELSE IF i = n THEN <<>> ELSE <<Mapped(letters, json[i + 1])>>
           to == [i \in pos..n+2 |-> IF i \in Ends THEN i
                                     ELSE IF json[i] = "bslash" THEN i + 2 ELSE i + 1]
           step == [i \in pos..n+2 |->
                      IF i \in Ends THEN [v \in V |-> v]
                      ELSE [v \in V |-> [text |-> Piece(i) \o v.text, next |-> v.next]]]
<1>1. n \in Nat /\ pos \in Nat \ {0} /\ pos <= n + 2 /\ \A i \in 1..n : json[i] \in T
  OBVIOUS
<1>2. StringFrom(json, pos, letters) = rest[pos]
  BY DEF StringFrom
<1>3. ASSUME NEW i \in pos..n+2
      PROVE  /\ i \in Nat \ {0}
             /\ i \in Ends <=> i > n \/ json[i] = "quote"
             /\ i > n => ~ (i <= n)
             /\ i <= n => i \in 1..n /\ At(json, i) = json[i]
             /\ i \notin Ends => i \in 1..n /\ json[i] # "quote" /\ At(json, i) # "quote"
  BY <1>1 DEF At
<1> HIDE DEF n, Ends
<1>4. ASSUME NEW i \in pos..n+2, i \notin Ends
      PROVE  Piece(i) \in Seq(W)
  <2>1. i \in 1..n /\ json[i] \in T /\ (i # n => i + 1 \in 1..n)
    BY <1>1, <1>3, <1>4
  <2>2. json[i] \in W /\ (i # n => Mapped(letters, json[i + 1]) \in W)
    BY <1>1, <2>1
  <2> HIDE DEF W
  <2> QED BY <2>2
<1> HIDE DEF Piece, W
<1>5. end \in [pos..n+2 -> V]
  <2>1. \A i \in pos..n+2 : (IF i > n THEN 0 ELSE i + 1) \in Nat
    BY <1>1, <1>3
  <2> QED BY <2>1
<1>6. to \in [pos..n+2 -> pos..n+2] /\ \A i \in pos..n+2 : i \notin Ends => i < to[i]
  <2>1. \A i \in pos..n+2 : i \notin Ends => i + 1 \in pos..n+2 /\ i + 2 \in pos..n+2
    BY <1>1, <1>3
  <2> QED BY <1>3, <2>1
<1>7. step \in [pos..n+2 -> [V -> V]]
  <2>1. ASSUME NEW i \in pos..n+2, i \notin Ends
        PROVE  [v \in V |-> [text |-> Piece(i) \o v.text, next |-> v.next]] \in [V -> V]
    <3>1. Piece(i) \in Seq(W)
      BY <1>4, <2>1
    <3>2. ASSUME NEW v \in V
          PROVE  Piece(i) \o v.text \in Seq(W) /\ v.next \in Nat
      BY <3>1
    <3> QED BY <3>2
  <2>2. [v \in V |-> v] \in [V -> V]
    OBVIOUS
  <2> HIDE DEF V
  <2> QED BY <2>1, <2>2
<1>8. IsWalk(pos, n + 2, V, Ends, end, step, to)
  <2>1. n + 2 \in Ends
    BY <1>1, <1>3
  <2> HIDE DEF V, end, step, to
  <2> QED BY <1>1, <1>5, <1>6, <1>7, <2>1 DEF IsWalk
<1>9. PICK f : IsWalked(f, pos, n + 2, V, Ends, end, step, to)
  <2> HIDE DEF V, end, step, to
  <2> QED BY <1>8, WalkEnds
<1>10. /\ f \in [pos..n+2 -> V]
       /\ \A i \in pos..n+2 : f[i] = IF i \in Ends THEN end[i] ELSE step[i][f[to[i]]]
  <2> HIDE DEF V, end, step, to
  <2> QED BY <1>9 DEF IsWalked
<1>11. ASSUME NEW i \in pos..n+2
       PROVE  f[i] = Body(f, i)
  <2>1. CASE i \in Ends
    <3>1. f[i] = [text |-> <<>>, next |-> IF i > n THEN 0 ELSE i + 1]
      BY <1>10, <2>1
    <3> QED BY <1>3, <2>1, <3>1 DEF n
  <2>2. CASE i \notin Ends
    <3>1. to[i] \in pos..n+2 /\ f[to[i]] \in V
      BY <1>6, <1>10
    <3>2. f[i] = [text |-> Piece(i) \o f[to[i]].text, next |-> f[to[i]].next]
      <4>1. step[i] = [v \in V |-> [text |-> Piece(i) \o v.text, next |-> v.next]]
        BY <2>2
      <4>2. f[i] = step[i][f[to[i]]]
        BY <1>10, <2>2
      <4> HIDE DEF V, step, to
      <4> QED BY <3>1, <4>1, <4>2
    <3>3. to[i] = IF json[i] = "bslash" THEN i + 2 ELSE i + 1
      BY <2>2
    <3>4. i \in 1..n /\ ~ (i > n) /\ At(json, i) # "quote"
      BY <1>1, <1>3, <2>2
    <3> HIDE DEF to
    <3> QED BY <3>2, <3>3, <3>4 DEF n, Piece
  <2> QED BY <2>1, <2>2
<1>12. Loop(f)
  <2>1. f = [i \in pos..n+2 |-> f[i]]
    BY <1>10
  <2> HIDE DEF Body
  <2> QED BY <1>11, <2>1 DEF n
<1>13. Loop(rest)
  <2> HIDE DEF Loop
  <2> QED BY <1>12
<1> HIDE DEF rest
<1>14. \A i \in pos..n+2 : rest[i] = Body(rest, i)
  <2> HIDE DEF Body
  <2> QED BY <1>13 DEF n
<1>15. ASSUME NEW i \in pos..n+2
       PROVE  /\ i > n => rest[i] = [text |-> <<>>, next |-> 0]
              /\ i <= n /\ json[i] = "quote" => rest[i] = [text |-> <<>>, next |-> i + 1]
              /\ i < n /\ json[i] = "bslash" =>
                   rest[i] = [text |-> <<Mapped(letters, json[i + 1])>> \o rest[i + 2].text,
                              next |-> rest[i + 2].next]
              /\ i <= n /\ json[i] \notin {"quote", "bslash"} =>
                   rest[i] = [text |-> <<json[i]>> \o rest[i + 1].text, next |-> rest[i + 1].next]
              /\ i > n => rest[i].next = 0
              /\ i <= n /\ json[i] = "quote" => rest[i].next = i + 1
              /\ i <= n /\ json[i] = "bslash" => rest[i].next = rest[i + 2].next
              /\ i <= n /\ json[i] \notin {"quote", "bslash"} => rest[i].next = rest[i + 1].next
  <2>1. rest[i] = Body(rest, i)
    BY <1>14
  <2>2. CASE i > n
    BY <1>1, <1>3, <2>1, <2>2 DEF n
  <2>3. CASE i <= n /\ json[i] = "quote"
    BY <1>1, <1>3, <2>1, <2>3 DEF n
  <2>4. CASE i <= n /\ json[i] = "bslash"
    <3>1. i \in Nat /\ ~ (i > Len(json)) /\ At(json, i) # "quote"
      BY <1>1, <1>3, <2>4 DEF n
    <3>2. rest[i] = [text |-> (IF i = Len(json) THEN <<>>
                               ELSE <<Mapped(letters, json[i + 1])>>) \o rest[i + 2].text,
                     next |-> rest[i + 2].next]
      BY ONLY <2>1, <2>4, <3>1
    <3>3. i < n => i # Len(json)
      BY <1>1, <3>1 DEF n
    <3>4. rest[i].next = rest[i + 2].next
      BY ONLY <3>2
    <3>5. ~ (i > n) /\ "bslash" # "quote"
      BY ONLY <3>1 DEF n
    <3>6. i < n => rest[i] = [text |-> <<Mapped(letters, json[i + 1])>> \o rest[i + 2].text,
                              next |-> rest[i + 2].next]
      BY ONLY <3>2, <3>3
    <3> QED BY ONLY <2>4, <3>4, <3>5, <3>6
  <2>5. CASE i <= n /\ json[i] \notin {"quote", "bslash"}
    <3>1. i \in Nat /\ ~ (i > Len(json)) /\ At(json, i) # "quote"
      BY <1>1, <1>3, <2>5 DEF n
    <3>2. rest[i] = [text |-> <<json[i]>> \o rest[i + 1].text, next |-> rest[i + 1].next]
      BY ONLY <2>1, <2>5, <3>1
    <3> QED BY ONLY <2>5, <3>1, <3>2 DEF n
  <2> QED BY <1>1, <1>3, <2>2, <2>3, <2>4, <2>5
<1> DEFINE Bounded(i) == rest[i].next = 0 \/ rest[i].next \in i+1..n+1
           H == {m \in 0..n+2-pos : \A i \in n+2-m..n+2 : Bounded(i)}
<1>16. 0 \in H
  <2>1. rest[n+2] = [text |-> <<>>, next |-> 0]
    <3>1. n + 2 \in pos..n+2 /\ n + 2 > n
      BY <1>1
    <3> QED BY <1>15, <3>1
  <2>2. 0 \in 0..n+2-pos /\ \A i \in n+2-0..n+2 : i = n+2
    BY <1>1
  <2>3. Bounded(n + 2)
    BY <2>1
  <2> HIDE DEF Bounded
  <2> QED BY <2>2, <2>3
<1>17. ASSUME NEW m \in 0..n+2-pos, m \in H, m < n+2-pos
       PROVE  m + 1 \in H
  <2> DEFINE k == n+2-(m+1)
  <2>1. /\ k \in pos..n+2 /\ k \in Nat /\ m + 1 \in 0..n+2-pos
        /\ \A i \in k..n+2 : i = k \/ i \in n+2-m..n+2
        /\ k + 1 \in n+2-m..n+2 /\ (k <= n => k + 2 \in n+2-m..n+2)
    BY <1>1, <1>17
  <2>2. \A i \in n+2-m..n+2 : Bounded(i)
    BY <1>17
  <2> HIDE DEF k
  <2>3. Bounded(k)
    <3>1. CASE k > n
      <4>1. rest[k].next = 0
        BY <1>15, <2>1, <3>1
      <4> QED BY <4>1
    <3>2. CASE k <= n /\ json[k] = "quote"
      <4>1. rest[k].next = k + 1
        BY <1>15, <2>1, <3>2
      <4>2. k + 1 \in k+1..n+1
        BY <1>1, <2>1, <3>2
      <4> QED BY <4>1, <4>2
    <3>3. CASE k <= n /\ json[k] = "bslash"
      <4>1. rest[k].next = rest[k + 2].next
        BY <1>15, <2>1, <3>3
      <4>3. Bounded(k + 2)
        BY <2>1, <2>2, <3>3
      <4>2. \A j \in k+2+1..n+1 : j \in k+1..n+1
        BY <1>1, <2>1
      <4> QED BY <4>1, <4>2, <4>3
    <3>4. CASE k <= n /\ json[k] \notin {"quote", "bslash"}
      <4>1. rest[k].next = rest[k + 1].next
        BY <1>15, <2>1, <3>4
      <4>3. Bounded(k + 1)
        BY <2>1, <2>2
      <4>2. \A j \in k+1+1..n+1 : j \in k+1..n+1
        BY <1>1, <2>1
      <4> QED BY <4>1, <4>2, <4>3
    <3>5. k > n \/ k <= n
      BY <1>1, <2>1
    <3> QED BY <3>1, <3>2, <3>3, <3>4, <3>5
  <2> HIDE DEF Bounded
  <2> QED BY <2>1, <2>2, <2>3 DEF k
<1>18. n+2-pos \in H
  <2> HIDE DEF H
  <2>1. n+2-pos \in Nat /\ n+2-pos \in 0..n+2-pos
    BY <1>1
  <2>2. \A m \in 0..n+2-pos : m \in H
    BY <1>16, <1>17, <2>1, UpTo
  <2> QED BY <2>1, <2>2
<1>19. ASSUME NEW i \in pos..n+2
       PROVE  Bounded(i)
  <2>1. i \in n+2-(n+2-pos)..n+2
    BY <1>1
  <2> HIDE DEF Bounded
  <2> QED BY <1>18, <2>1
<1> QED BY <1>2, <1>15, <1>19 DEF IsString, n

(* The client reads an escaped text in quotes as it was, wherever it       *)
(* stands, if it takes each letter behind a backslash for the character    *)
(* the letter is the code of.                                              *)
LEMMA StringReadsBack ==
  ASSUME NEW S, NEW s \in Seq(S), NEW T, NEW json \in Seq(T), NEW pos, NEW letters,
         StandsAt(json, pos, EscapeJson(s) \o <<"quote">>),
         \A i \in 1..Len(s) : s[i] \in DOMAIN Letter => Mapped(letters, Letter[s[i]]) = s[i]
  PROVE  StringFrom(json, pos, letters) = [text |-> s, next |-> pos + Len(EscapeJson(s)) + 1]
<1> DEFINE n == Len(s)
           A == (S \ DOMAIN Letter) \cup Escapes
           e == EscapeJson(s)
           last == pos + Len(e)
<1>1. n \in Nat /\ Len(json) \in Nat
  OBVIOUS
<1>2. e \in Seq(A) /\ <<"quote">> \in Seq(A)
  <2>1. e \in Seq(A)
    BY EscapeJsonHasNoControl
  <2>2. "quote" \in A
    BY DEF Escapes, Letter
  <2> HIDE DEF A, e
  <2> QED BY <2>1, <2>2
<1>3. StandsAt(json, pos, e) /\ StandsAt(json, last, <<"quote">>) /\ Len(e) \in Nat
  <2>1. StandsAt(json, pos, e \o <<"quote">>)
    OBVIOUS
  <2> HIDE DEF A, e
  <2>2. Len(e) \in Nat
    BY <1>2
  <2> QED BY <1>2, <2>1, <2>2, PartsStand
<1>4. /\ pos \in Nat \ {0} /\ last \in Nat \ {0} /\ last <= Len(json) /\ json[last] = "quote"
  <2>1. /\ pos \in Nat \ {0} /\ last \in Nat \ {0} /\ last + 1 <= Len(json) + 1
        /\ \A k \in 1..1 : json[last - 1 + k] = <<"quote">>[k]
    <3> HIDE DEF e
    <3> QED BY <1>3 DEF StandsAt
  <2>2. last - 1 + 1 = last
    BY <2>1
  <2> HIDE DEF last
  <2> QED BY <1>1, <2>1, <2>2
<1>5. PICK place : /\ StandsEscaped(json, place, s) /\ place[1] = pos /\ place[n+1] = last
  <2> HIDE DEF A
  <2> QED BY <1>3, EscapedStands
<1>6. pos \in 1..Len(json)+2 /\ pos <= last
  <2> HIDE DEF e
  <2> QED BY <1>1, <1>3, <1>4
<1>7. PICK rest : IsString(rest, json, pos, letters) /\ StringFrom(json, pos, letters) = rest[pos]
  BY <1>6, StringFromEnds
<1>8. /\ From(s, 1) = s /\ From(s, n + 1) = <<>>
      /\ \A i \in 1..n : From(s, i) = <<s[i]>> \o From(s, i + 1)
  BY RestOfText
<1> HIDE DEF last, e
<1> DEFINE IsRead(i) == rest[place[i]] = [text |-> From(s, i), next |-> last + 1]
<1>9. IsRead(n + 1)
  <2>1. last \in pos..Len(json)+2
    BY <1>1, <1>4, <1>6
  <2>2. rest[last] = [text |-> <<>>, next |-> last + 1]
    BY <1>4, <1>7, <2>1 DEF IsString
  <2> QED BY <1>5, <1>8, <2>2
<1>10. ASSUME NEW i \in 1..n
       PROVE  /\ place[i] \in Nat \ {0} /\ place[i+1] \in Nat \ {0} /\ place[i+1] <= Len(json) + 1
              /\ s[i] \in DOMAIN Letter =>
                   /\ json[place[i]] = "bslash" /\ json[place[i] + 1] = Letter[s[i]]
                   /\ place[i + 1] = place[i] + 2
              /\ s[i] \notin DOMAIN Letter =>
                   json[place[i]] = s[i] /\ place[i + 1] = place[i] + 1
  <2>1. i \in 1..n+1 /\ i + 1 \in 1..n+1
    BY <1>1
  <2> QED BY <1>5, <2>1 DEF StandsEscaped
<1>11. \A m \in 0..n : pos <= place[m+1]
  <2> DEFINE H == {m \in 0..n : pos <= place[m+1]}
  <2>1. 0 \in H
    BY <1>1, <1>4, <1>5
  <2>2. ASSUME NEW m \in 0..n, m \in H, m < n
        PROVE  m + 1 \in H
    <3>1. m + 1 \in 1..n /\ m + 1 \in 0..n /\ pos <= place[m+1]
      BY <1>1, <2>2
    <3>2. /\ place[m+1] \in Nat
          /\ place[m+1+1] = place[m+1] + 2 \/ place[m+1+1] = place[m+1] + 1
      BY <1>10, <3>1
    <3> QED BY <1>4, <3>1, <3>2
  <2> HIDE DEF H
  <2>3. \A m \in 0..n : m \in H
    BY <1>1, <2>1, <2>2, UpTo
  <2> QED BY <2>3 DEF H
<1>12. ASSUME NEW i \in 1..n, IsRead(i + 1)
       PROVE  IsRead(i)
  <2>1. pos <= place[i]
    <3>1. i - 1 \in 0..n /\ (i - 1) + 1 = i
      BY <1>1
    <3> QED BY <1>11, <3>1
  <2>2. /\ place[i] \in pos..Len(json)+2
        /\ s[i] \in DOMAIN Letter => place[i] < Len(json)
        /\ place[i] <= Len(json)
    BY <1>1, <1>4, <1>10, <2>1
  <2>3. rest[place[i]] = [text |-> <<s[i]>> \o rest[place[i+1]].text,
                          next |-> rest[place[i+1]].next]
    <3>1. CASE s[i] \in DOMAIN Letter
      <4>1. rest[place[i]] =
              [text |-> <<Mapped(letters, json[place[i] + 1])>> \o rest[place[i] + 2].text,
               next |-> rest[place[i] + 2].next]
        BY <1>7, <1>10, <2>2, <3>1 DEF IsString
      <4>2. Mapped(letters, json[place[i] + 1]) = s[i]
        BY <1>10, <3>1
      <4> QED BY <1>10, <3>1, <4>1, <4>2
    <3>2. CASE s[i] \notin DOMAIN Letter
      <4>1. json[place[i]] \notin {"quote", "bslash"} /\ json[place[i]] = s[i]
            /\ place[i+1] = place[i] + 1
        BY <1>10, <3>2 DEF Letter
      <4>2. rest[place[i]] = [text |-> <<json[place[i]]>> \o rest[place[i] + 1].text,
                              next |-> rest[place[i] + 1].next]
        BY <1>7, <2>2, <4>1 DEF IsString
      <4> QED BY <4>1, <4>2
    <3> QED BY <3>1, <3>2
  <2>4. rest[place[i+1]].text = From(s, i + 1) /\ rest[place[i+1]].next = last + 1
    BY <1>12
  <2>5. From(s, i) = <<s[i]>> \o From(s, i + 1)
    BY <1>8
  <2> QED BY ONLY <2>3, <2>4, <2>5
<1> DEFINE H == {m \in 0..n : IsRead(n + 1 - m)}
<1>13. 0 \in H
  <2>1. 0 \in 0..n /\ n + 1 - 0 = n + 1
    BY <1>1
  <2> HIDE DEF IsRead
  <2> QED BY <1>9, <2>1
<1>14. ASSUME NEW m \in 0..n, m \in H, m < n
       PROVE  m + 1 \in H
  <2>1. n - m \in 1..n /\ (n - m) + 1 = n + 1 - m /\ n + 1 - (m + 1) = n - m /\ m + 1 \in 0..n
    BY <1>1, <1>14
  <2> HIDE DEF IsRead
  <2> QED BY <1>12, <1>14, <2>1
<1>15. IsRead(1)
  <2>0. n + 1 - n = 1 /\ n \in 0..n
    BY <1>1
  <2> HIDE DEF H, n, IsRead
  <2>1. \A m \in 0..n : m \in H
    BY <1>1, <1>13, <1>14, UpTo
  <2>2. n \in H
    BY <2>0, <2>1
  <2> QED BY <2>0, <2>2 DEF H
<1> QED BY <1>5, <1>7, <1>8, <1>15 DEF last, e

(* The same for a single value, whose letters the client takes for the     *)
(* control characters they stand for: a text comes back if it has none     *)
(* without a letter.                                                       *)
THEOREM StringComesBack ==
  ASSUME NEW S, NEW s \in Seq(S), \A i \in 1..Len(s) : s[i] # "ctl",
         NEW T, NEW json \in Seq(T), NEW pos,
         StandsAt(json, pos, EscapeJson(s) \o <<"quote">>)
  PROVE  StringFrom(json, pos, ControlLetters)
           = [text |-> s, next |-> pos + Len(EscapeJson(s)) + 1]
<1>1. \A c \in DOMAIN Letter : c # "ctl" => Mapped(ControlLetters, Letter[c]) = c
  BY DEF Mapped, ControlLetters, Letter
<1>2. \A i \in 1..Len(s) :
        s[i] \in DOMAIN Letter => Mapped(ControlLetters, Letter[s[i]]) = s[i]
  BY <1>1
<1> QED BY <1>2, StringReadsBack

(* The least of some numbers is one of them.                              *)
LEMMA LeastIs ==
  ASSUME NEW T \in SUBSET Nat, T # {}
  PROVE  Min(T) \in T /\ \A l \in T : Min(T) <= l
BY LeastNumber DEF Min

(* Where the scanner stands after what it steps over.                      *)
LEMMA PastAllStands ==
  ASSUME NEW T, NEW json \in Seq(T), NEW symbols, NEW i \in 1..Len(json)+1
  PROVE  /\ PastAll(json, i, symbols) \in i..Len(json)+1
         /\ i <= Len(json) /\ json[i] \notin symbols => PastAll(json, i, symbols) = i
         /\ i < Len(json) /\ json[i] \in symbols /\ json[i + 1] \notin symbols =>
              PastAll(json, i, symbols) = i + 1
<1> DEFINE P == {j \in i..Len(json) : json[j] \notin symbols} \cup {Len(json) + 1}
<1>1. Len(json) \in Nat /\ i \in Nat /\ P \in SUBSET Nat /\ P # {}
      /\ \A j \in P : j \in i..Len(json)+1
  OBVIOUS
<1>2. PastAll(json, i, symbols) = Min(P)
  BY DEF PastAll
<1>3. ASSUME i <= Len(json), json[i] \notin symbols
      PROVE  i \in P
  BY <1>1, <1>3
<1>4. ASSUME i < Len(json), json[i] \in symbols, json[i + 1] \notin symbols
      PROVE  i \notin P /\ i + 1 \in P
  BY <1>1, <1>4
<1> HIDE DEF P
<1>5. Min(P) \in P /\ \A l \in P : Min(P) <= l
  BY <1>1, LeastIs
<1>6. Min(P) \in i..Len(json)+1 /\ (i \in P => Min(P) = i)
  <2>1. Min(P) \in i..Len(json)+1 /\ (i \in P => Min(P) <= i)
    BY <1>1, <1>5
  <2> HIDE DEF P
  <2> QED BY <1>1, <2>1
<1>7. i \notin P /\ i + 1 \in P => Min(P) = i + 1
  <2>1. i \notin P => Min(P) # i
    BY <1>5
  <2> QED BY <1>1, <1>5, <1>6, <2>1
<1> QED BY <1>2, <1>3, <1>4, <1>6, <1>7

(* Texts joined with a comma.                                              *)
AreTexts(texts, A) == texts \in Seq(Seq(A))

(* What a list of texts is made of.                                       *)
LEMMA TextsAre ==
  ASSUME NEW A, NEW texts, AreTexts(texts, A)
  PROVE  Len(texts) \in Nat /\ \A i \in 1..Len(texts) : texts[i] \in Seq(A)
<1> DEFINE B == Seq(A)
<1>1. texts \in Seq(B)
  BY DEF AreTexts
<1> HIDE DEF B
<1>2. Len(texts) \in Nat /\ \A i \in 1..Len(texts) : texts[i] \in B
  BY <1>1
<1> QED BY <1>2 DEF B

(* Joined builds its text item by item.                                   *)
LEMMA JoinedJoins ==
  ASSUME NEW A, "comma" \in A, NEW texts, AreTexts(texts, A)
  PROVE  \E from \in [1..Len(texts)+1 -> Seq(A)] :
           /\ from[Len(texts)+1] = <<>>
           /\ \A i \in 1..Len(texts) :
                from[i] = ((IF i = 1 THEN <<>> ELSE <<"comma">>) \o texts[i]) \o from[i + 1]
           /\ Joined(texts) = from[1]
<1> DEFINE n == Len(texts)
           Comma(i) == IF i = 1 THEN <<>> ELSE <<"comma">>
           Loop(f) == f = [i \in 1..(Len(texts) + 1) |->
                             IF i > Len(texts) THEN <<>>
                             ELSE (Comma(i) \o texts[i]) \o f[i + 1]]
           from == CHOOSE f : Loop(f)
           out == [i \in 1..n |-> Comma(i) \o texts[i]]
           next == [i \in 1..n |-> i + 1]
<1>1. n \in Nat /\ \A i \in 1..n : texts[i] \in Seq(A)
  BY TextsAre
<1>2. Joined(texts) = from[1]
  BY DEF Joined
<1>3. \A i \in 1..n : Comma(i) \in Seq(A)
  OBVIOUS
<1> HIDE DEF n, Comma
<1>4. out \in [1..n -> Seq(A)] /\ next \in [1..n -> 1..n+1] /\ \A i \in 1..n : i < next[i]
  <2>1. \A i \in 1..n : Comma(i) \o texts[i] \in Seq(A)
    BY <1>1, <1>3
  <2> QED BY <1>1, <2>1
<1>5. PICK f : IsJoined(f, n, A, out, next)
  <2> HIDE DEF out, next
  <2>1. IsJoin(n, A, out, next)
    BY <1>1, <1>4 DEF IsJoin
  <2> QED BY <2>1, JoinEnds
<1>6. /\ f \in [1..n+1 -> Seq(A)] /\ f[n+1] = <<>>
      /\ \A i \in 1..n : f[i] = out[i] \o f[next[i]]
  <2> HIDE DEF out, next
  <2> QED BY <1>5 DEF IsJoined
<1>7. \A i \in 1..n : f[i] = (Comma(i) \o texts[i]) \o f[i + 1]
  BY <1>6
<1>8. Loop(f)
  <2>1. \A i \in 1..n+1 : i = n+1 \/ i \in 1..n
    BY <1>1
  <2>2. n + 1 > n /\ \A i \in 1..n : ~ (i > n)
    BY <1>1
  <2>3. \A i \in 1..n+1 : f[i] = IF i > n THEN <<>> ELSE (Comma(i) \o texts[i]) \o f[i + 1]
    BY <1>6, <1>7, <2>1, <2>2
  <2>4. f = [i \in 1..n+1 |-> f[i]]
    BY <1>6
  <2> QED BY <2>3, <2>4 DEF n
<1>9. Loop(from)
  <2> HIDE DEF Loop
  <2> QED BY <1>8
<1> HIDE DEF from
<1>10. /\ from[n+1] = <<>> /\ from = [i \in 1..n+1 |-> from[i]]
       /\ \A i \in 1..n : from[i] = (Comma(i) \o texts[i]) \o from[i + 1]
  <2>1. n + 1 > n /\ n + 1 \in 1..n+1 /\ \A i \in 1..n : ~ (i > n) /\ i \in 1..n+1
    BY <1>1
  <2>2. \A i \in 1..n+1 : from[i] = IF i > n THEN <<>> ELSE (Comma(i) \o texts[i]) \o from[i + 1]
    BY <1>9 DEF n
  <2>3. from = [i \in 1..n+1 |-> from[i]]
    BY <1>9 DEF n
  <2> QED BY <2>1, <2>2, <2>3
<1>11. \A i \in 1..n+1 : from[i] \in Seq(A)
  <2> DEFINE H == {m \in 0..n : from[n+1-m] \in Seq(A)}
  <2>1. 0 \in H
    <3>1. n+1-0 = n+1 /\ 0 \in 0..n /\ <<>> \in Seq(A)
      BY <1>1
    <3> QED BY <1>10, <3>1
  <2>2. ASSUME NEW m \in 0..n, m \in H, m < n
        PROVE  m + 1 \in H
    <3>1. n - m \in 1..n /\ n+1-(m+1) = n - m /\ (n-m)+1 = n+1-m /\ m + 1 \in 0..n
      BY <1>1, <2>2
    <3>2. Comma(n-m) \o texts[n-m] \in Seq(A) /\ from[n+1-m] \in Seq(A)
      BY <1>1, <1>3, <2>2, <3>1
    <3>3. from[n-m] = (Comma(n-m) \o texts[n-m]) \o from[n+1-m]
      BY <1>10, <3>1
    <3>4. from[n-m] \in Seq(A)
      BY ONLY <3>2, <3>3
    <3> QED BY <3>1, <3>4
  <2>3. \A m \in 0..n : m \in H
    <3> HIDE DEF H
    <3> QED BY <1>1, <2>1, <2>2, UpTo
  <2>4. ASSUME NEW i \in 1..n+1
        PROVE  from[i] \in Seq(A)
    <3>1. n+1-i \in 0..n /\ n+1-(n+1-i) = i
      BY <1>1
    <3> QED BY <2>3, <3>1
  <2> QED BY <2>4
<1> QED BY <1>2, <1>10, <1>11 DEF n, Comma

(* What the items of an array are from each place on.                      *)
IsItems(items, json, pos) ==
  \A i \in pos..Len(json)+1 :
    LET here == PastAll(json, i, JsonSpace \cup {"comma"})
        item == StringFrom(json, here + 1, NoLetters)
    IN items[i] = IF At(json, here) # "quote" \/ item.next = 0 THEN <<>>
                  ELSE <<item.text>> \o items[item.next]

(* Every array is read to some end.                                       *)
LEMMA ItemsFromEnds ==
  ASSUME NEW T, NEW json \in Seq(T), NEW pos \in 1..Len(json)+1
  PROVE  \E items : IsItems(items, json, pos) /\ ItemsFrom(json, pos) = items[pos]
<1> DEFINE n == Len(json)
           here(i) == PastAll(json, i, JsonSpace \cup {"comma"})
           item(i) == StringFrom(json, here(i) + 1, NoLetters)
           Body(f, i) == IF At(json, here(i)) # "quote" \/ item(i).next = 0 THEN <<>>
                         ELSE <<item(i).text>> \o f[item(i).next]
           Loop(f) == f = [i \in pos..(Len(json) + 1) |-> Body(f, i)]
           items == CHOOSE f : Loop(f)
           Ends == {i \in pos..n+1 : At(json, here(i)) # "quote" \/ item(i).next = 0}
           V == Seq({item(i).text : i \in pos..n+1})
           end == [i \in pos..n+1 |-> <<>>]
           to == [i \in pos..n+1 |-> IF i \in Ends THEN i ELSE item(i).next]
           step == [i \in pos..n+1 |->
                      IF i \in Ends THEN [v \in V |-> v]
                      ELSE [v \in V |-> <<item(i).text>> \o v]]
<1>1. n \in Nat /\ pos \in Nat \ {0} /\ pos <= n + 1
  OBVIOUS
<1>2. ItemsFrom(json, pos) = items[pos]
  BY DEF ItemsFrom
<1>3. ASSUME NEW i \in pos..n+1, At(json, here(i)) = "quote"
      PROVE  item(i).next = 0 \/ item(i).next \in i+1..n+1
  <2>1. here(i) \in i..n+1
    <3>1. i \in 1..Len(json)+1
      BY <1>1
    <3> QED BY <3>1, PastAllStands
  <2> HIDE DEF here
  <2>2. here(i) \in 1..n
    BY <1>3 DEF At
  <2>3. here(i) + 1 \in 1..n+2
    BY <1>1, <2>2
  <2>4. PICK rest : IsString(rest, json, here(i) + 1, NoLetters)
                    /\ item(i) = rest[here(i) + 1]
    BY <2>3, StringFromEnds
  <2>5. here(i) + 1 \in here(i)+1..n+2
    BY <1>1, <2>2
  <2>6. item(i).next = 0 \/ item(i).next \in here(i)+1+1..n+1
    BY <2>4, <2>5 DEF IsString
  <2>7. \A k \in here(i)+1+1..n+1 : k \in i+1..n+1
    BY <1>1, <2>1, <2>2
  <2> QED BY <2>6, <2>7
<1> HIDE DEF n, here, item
<1>4. to \in [pos..n+1 -> pos..n+1] /\ \A i \in pos..n+1 : i \notin Ends => i < to[i]
  <2>1. ASSUME NEW i \in pos..n+1, i \notin Ends
        PROVE  item(i).next \in pos..n+1 /\ i < item(i).next
    BY <1>1, <1>3, <2>1
  <2> HIDE DEF Ends
  <2> QED BY <2>1
<1>5. n + 1 \in Ends
  <2>1. n + 1 \in pos..n+1 /\ here(n+1) \in n+1..n+1
    <3>1. n + 1 \in 1..Len(json)+1 /\ n + 1 \in pos..n+1
      BY <1>1 DEF n
    <3> QED BY <3>1, PastAllStands DEF here, n
  <2>2. here(n+1) \notin DOMAIN json
    BY <1>1, <2>1 DEF n
  <2> QED BY <2>1, <2>2 DEF At
<1> HIDE DEF Ends
<1>6. end \in [pos..n+1 -> V]
  OBVIOUS
<1>7. step \in [pos..n+1 -> [V -> V]]
  <2>1. ASSUME NEW i \in pos..n+1
        PROVE  [v \in V |-> <<item(i).text>> \o v] \in [V -> V]
    <3> DEFINE U == {item(j).text : j \in pos..n+1}
    <3>1. item(i).text \in U
      OBVIOUS
    <3> HIDE DEF U
    <3>2. \A v \in Seq(U) : <<item(i).text>> \o v \in Seq(U)
      BY <3>1
    <3> QED BY <3>2 DEF U
  <2>2. [v \in V |-> v] \in [V -> V]
    OBVIOUS
  <2> HIDE DEF V
  <2> QED BY <2>1, <2>2
<1>8. IsWalk(pos, n + 1, V, Ends, end, step, to)
  <2> HIDE DEF V, end, step, to
  <2> QED BY <1>1, <1>4, <1>5, <1>6, <1>7 DEF IsWalk
<1>9. PICK f : IsWalked(f, pos, n + 1, V, Ends, end, step, to)
  <2> HIDE DEF V, end, step, to
  <2> QED BY <1>8, WalkEnds
<1>10. /\ f \in [pos..n+1 -> V]
       /\ \A i \in pos..n+1 : f[i] = IF i \in Ends THEN end[i] ELSE step[i][f[to[i]]]
  <2> HIDE DEF V, end, step, to
  <2> QED BY <1>9 DEF IsWalked
<1>11. ASSUME NEW i \in pos..n+1
       PROVE  f[i] = Body(f, i)
  <2>1. CASE i \in Ends
    <3>1. f[i] = <<>>
      BY <1>10, <2>1
    <3> QED BY <2>1, <3>1 DEF Ends
  <2>2. CASE i \notin Ends
    <3>1. f[item(i).next] \in V /\ to[i] = item(i).next
      BY <1>4, <1>10, <2>2
    <3>2. f[i] = step[i][f[to[i]]]
      BY <1>10, <2>2
    <3>3. step[i] = [v \in V |-> <<item(i).text>> \o v]
      BY <2>2
    <3>4. f[i] = <<item(i).text>> \o f[item(i).next]
      <4> HIDE DEF V, step, to
      <4> QED BY <3>1, <3>2, <3>3
    <3> QED BY <2>2, <3>4 DEF Ends
  <2> QED BY <2>1, <2>2
<1>12. Loop(f)
  <2>1. f = [i \in pos..n+1 |-> f[i]]
    BY <1>10
  <2> HIDE DEF Body
  <2> QED BY <1>11, <2>1 DEF n
<1>13. Loop(items)
  <2> HIDE DEF Loop
  <2> QED BY <1>12
<1> HIDE DEF items
<1>14. \A i \in pos..n+1 : items[i] = Body(items, i)
  <2> HIDE DEF Body
  <2> QED BY <1>13 DEF n
<1> QED BY <1>2, <1>14 DEF IsItems, here, item, n

(* The marks the scanners look for are no white space.                     *)
LEMMA MarksAreNoSpace ==
  \A c \in {"quote", "]", "true", "comma"} : c \notin JsonSpace
<1>1. \A c \in {"quote", "]", "true", "comma"} : c # Space
  BY DEF Space
<1> QED BY <1>1 DEF JsonSpace

(* A text without a character that the scanner of arrays would not read    *)
(* back.                                                                   *)
NoControl(s) == \A i \in 1..Len(s) : s[i] \notin {"nl", "cr", "tab", "ctl"}

(* What stands behind a backslash in such a text is the character itself. *)
LEMMA NoLettersReadBack ==
  ASSUME NEW S, NEW s \in Seq(S), NoControl(s), NEW i \in 1..Len(s), s[i] \in DOMAIN Letter
  PROVE  Mapped(NoLetters, Letter[s[i]]) = s[i]
<1>1. s[i] \in {"quote", "bslash"}
  BY DEF NoControl, Letter
<1> QED BY <1>1 DEF Mapped, NoLetters, Letter

(* A text in quotes.                                                      *)
LEMMA QuotedIs ==
  ASSUME NEW A, "quote" \in A, NEW e \in Seq(A)
  PROVE  Quoted(e) = <<"quote">> \o (e \o <<"quote">>) /\ Quoted(e) \in Seq(A)
<1>1. <<"quote">> \in Seq(A)
  OBVIOUS
<1>2. Quoted(e) = <<"quote">> \o (e \o <<"quote">>)
  BY <1>1, ConcatAssociative DEF Quoted
<1> QED BY <1>1, <1>2

(* An item that is read, with the comma before it if there is one.         *)
ItemStands(S, s, T, json, comma, pos, place) ==
  /\ s \in Seq(S) /\ NoControl(s) /\ json \in Seq(T)
  /\ comma = <<>> \/ comma = <<"comma">>
  /\ pos \in Nat \ {0} /\ pos <= place
  /\ StandsAt(json, place, comma \o Quoted(EscapeJson(s)))

ItemIsRead(items, s, comma, place) ==
  items[place] = <<s>> \o items[place + Len(comma \o Quoted(EscapeJson(s)))]

(* Such an item comes back, and the scanner goes on behind it.            *)
LEMMA ItemReadsBack ==
  ASSUME NEW S, NEW s, NEW T, NEW json, NEW comma, NEW pos, NEW place,
         ItemStands(S, s, T, json, comma, pos, place),
         NEW items, IsItems(items, json, pos)
  PROVE  ItemIsRead(items, s, comma, place)
<1>0. /\ s \in Seq(S) /\ NoControl(s) /\ json \in Seq(T)
      /\ comma = <<>> \/ comma = <<"comma">>
      /\ pos \in Nat \ {0} /\ pos <= place
      /\ StandsAt(json, place, comma \o Quoted(EscapeJson(s)))
  BY DEF ItemStands
<1> USE <1>0
<1> DEFINE A == S \cup Escapes \cup {"comma"}
           e == EscapeJson(s)
           q == Quoted(e)
           here == place + Len(comma)
<1>1. e \in Seq(A) /\ "quote" \in A /\ "comma" \in A
  <2>1. e \in Seq((S \ DOMAIN Letter) \cup Escapes)
    BY EscapeJsonHasNoControl
  <2>2. "quote" \in A /\ "comma" \in A
    BY DEF Escapes, Letter
  <2>3. (S \ DOMAIN Letter) \cup Escapes \subseteq A
    OBVIOUS
  <2> HIDE DEF A, e
  <2> QED BY <2>1, <2>2, <2>3
<1>2. StandsAt(json, place, comma \o q)
  OBVIOUS
<1>3. q = <<"quote">> \o (e \o <<"quote">>) /\ q \in Seq(A)
  <2> HIDE DEF A, e
  <2> QED BY <1>1, QuotedIs
<1> HIDE DEF A, e, q
<1>4. comma \in Seq(A) /\ Len(comma) \in Nat /\ Len(e) \in Nat
  <2>1. <<>> \in Seq(A) /\ <<"comma">> \in Seq(A)
    BY <1>1
  <2>2. comma \in Seq(A)
    BY <2>1
  <2> QED BY <1>1, <2>2
<1>5. StandsAt(json, place, comma) /\ StandsAt(json, here, q)
  BY <1>2, <1>3, <1>4, PartsStand
<1>6. StandsAt(json, here, <<"quote">>) /\ StandsAt(json, here + 1, e \o <<"quote">>)
  <2>1. <<"quote">> \in Seq(A) /\ e \o <<"quote">> \in Seq(A) /\ Len(<<"quote">>) = 1
    BY <1>1
  <2>2. StandsAt(json, here, <<"quote">> \o (e \o <<"quote">>))
    BY <1>3, <1>5
  <2> HIDE DEF here
  <2> QED BY <2>1, <2>2, PartsStand
<1>7. /\ place \in Nat \ {0} /\ here \in Nat \ {0} /\ here <= Len(json) /\ json[here] = "quote"
      /\ comma = <<"comma">> => json[place] = "comma" /\ here = place + 1
      /\ comma = <<>> => here = place
      /\ comma = <<>> \/ comma = <<"comma">>
  <2>1. here \in Nat \ {0} /\ here + 1 <= Len(json) + 1 /\ json[here - 1 + 1] = "quote"
    BY <1>6 DEF StandsAt
  <2>2. place \in Nat \ {0} /\ \A k \in 1..Len(comma) : json[place - 1 + k] = comma[k]
    BY <1>5 DEF StandsAt
  <2>3. comma = <<"comma">> => json[place] = "comma" /\ here = place + 1
    <3>1. place - 1 + 1 = place
      BY <2>2
    <3> QED BY <2>2, <3>1
  <2>4. comma = <<>> => here = place
    BY <2>2
  <2>5. here - 1 + 1 = here /\ here <= Len(json)
    <3> HIDE DEF here
    <3> QED BY <2>1
  <2> QED BY <2>1, <2>2, <2>3, <2>4, <2>5
<1>8. Len(comma \o q) = Len(comma) + (1 + (Len(e) + 1))
  BY <1>1, <1>3, <1>4
<1>9. place + Len(comma \o q) = here + 1 + Len(e) + 1
  <2>1. \A x, y, z \in Nat : x + (y + (1 + (z + 1))) = (x + y) + 1 + z + 1
    OBVIOUS
  <2> QED BY <1>4, <1>7, <1>8, <2>1
<1> HIDE DEF here
<1>10. PastAll(json, place, JsonSpace \cup {"comma"}) = here
  <2>1. place \in 1..Len(json)+1 /\ "quote" \notin JsonSpace \cup {"comma"}
    BY <1>7, MarksAreNoSpace
  <2>2. CASE comma = <<>>
    <3>1. place <= Len(json) /\ json[place] \notin JsonSpace \cup {"comma"}
      BY <1>7, <2>1, <2>2
    <3> QED BY <1>7, <2>1, <2>2, <3>1, PastAllStands
  <2>3. CASE comma = <<"comma">>
    <3>1. /\ place < Len(json) /\ json[place] \in JsonSpace \cup {"comma"}
          /\ json[place + 1] \notin JsonSpace \cup {"comma"}
      BY <1>7, <2>1, <2>3
    <3> QED BY <1>7, <2>1, <2>3, <3>1, PastAllStands
  <2> QED BY <1>7, <2>2, <2>3
<1>11. At(json, here) = "quote"
  BY <1>7 DEF At
<1>12. StringFrom(json, here + 1, NoLetters) = [text |-> s, next |-> here + 1 + Len(e) + 1]
  <2>1. \A i \in 1..Len(s) :
          s[i] \in DOMAIN Letter => Mapped(NoLetters, Letter[s[i]]) = s[i]
    BY NoLettersReadBack
  <2>2. StandsAt(json, here + 1, EscapeJson(s) \o <<"quote">>)
    BY <1>6 DEF e
  <2> QED BY <2>1, <2>2, StringReadsBack DEF e
<1>13. place \in pos..Len(json)+1 /\ here + 1 + Len(e) + 1 # 0
  BY <1>4, <1>7
<1>14. items[place] = <<s>> \o items[here + 1 + Len(e) + 1]
  <2> DEFINE there == PastAll(json, place, JsonSpace \cup {"comma"})
             item == StringFrom(json, there + 1, NoLetters)
  <2>1. items[place] = IF At(json, there) # "quote" \/ item.next = 0 THEN <<>>
                       ELSE <<item.text>> \o items[item.next]
    BY <1>13 DEF IsItems
  <2>2. item = [text |-> s, next |-> here + 1 + Len(e) + 1] /\ At(json, there) = "quote"
    BY ONLY <1>10, <1>11, <1>12
  <2> HIDE DEF there, item
  <2>3. item.text = s /\ item.next = here + 1 + Len(e) + 1 /\ item.next # 0
    BY ONLY <1>13, <2>2
  <2> QED BY ONLY <2>1, <2>2, <2>3
<1> QED BY <1>9, <1>14 DEF ItemIsRead, q, e

(* Texts that were escaped, each in quotes.                               *)
LEMMA EscapedAllAre ==
  ASSUME NEW S, NEW texts, AreTexts(texts, S), NEW A,
         (S \ DOMAIN Letter) \cup Escapes \subseteq A
  PROVE  /\ AreTexts(EscapedAll(texts), A) /\ Len(EscapedAll(texts)) = Len(texts)
         /\ \A i \in 1..Len(texts) : EscapedAll(texts)[i] = Quoted(EscapeJson(texts[i]))
<1> DEFINE n == Len(texts)
           B == Seq(A)
<1>1. n \in Nat /\ \A i \in 1..n : texts[i] \in Seq(S)
  BY TextsAre
<1>2. DOMAIN texts = 1..n
  <2> DEFINE C == Seq(S)
  <2>1. texts \in Seq(C)
    BY DEF AreTexts
  <2> HIDE DEF C
  <2> QED BY <2>1
<1>3. ASSUME NEW i \in 1..n
      PROVE  Quoted(EscapeJson(texts[i])) \in Seq(A)
  <2>1. EscapeJson(texts[i]) \in Seq((S \ DOMAIN Letter) \cup Escapes)
    BY <1>1, EscapeJsonHasNoControl
  <2>2. (S \ DOMAIN Letter) \cup Escapes \subseteq A /\ "quote" \in A
    BY DEF Escapes, Letter
  <2>3. EscapeJson(texts[i]) \in Seq(A)
    BY <2>1, <2>2
  <2> QED BY <2>2, <2>3, QuotedIs
<1> DEFINE q == [i \in 1..n |-> Quoted(EscapeJson(texts[i]))]
<1>4. EscapedAll(texts) = q
  BY <1>2 DEF EscapedAll
<1> HIDE DEF n
<1>5. q \in Seq(B) /\ Len(q) = n
  <2>1. \A i \in 1..n : q[i] \in B
    BY <1>3
  <2> HIDE DEF B
  <2> QED BY <1>1, <2>1
<1> QED BY <1>4, <1>5 DEF AreTexts, n

(* The items of an array come back, wherever it stands.                    *)
LEMMA ItemsReadBack ==
  ASSUME NEW S, NEW texts, AreTexts(texts, S), \A i \in 1..Len(texts) : NoControl(texts[i]),
         NEW T, NEW json \in Seq(T), NEW pos,
         StandsAt(json, pos, Joined(EscapedAll(texts)) \o <<"]">>)
  PROVE  ItemsFrom(json, pos) = texts
<1> DEFINE n == Len(texts)
           A == S \cup Escapes \cup {"comma", "]"}
           q == EscapedAll(texts)
           Comma(i) == IF i = 1 THEN <<>> ELSE <<"comma">>
<1>1. n \in Nat /\ \A i \in 1..n : texts[i] \in Seq(S) /\ NoControl(texts[i])
  BY TextsAre
<1>2. /\ AreTexts(q, A) /\ Len(q) = n
      /\ \A i \in 1..n : q[i] = Quoted(EscapeJson(texts[i]))
  <2>1. (S \ DOMAIN Letter) \cup Escapes \subseteq A
    OBVIOUS
  <2> HIDE DEF A
  <2> QED BY <2>1, EscapedAllAre
<1>3. "comma" \in A /\ <<"]">> \in Seq(A)
  OBVIOUS
<1>4. StandsAt(json, pos, Joined(q) \o <<"]">>)
  OBVIOUS
<1> HIDE DEF n, A, q
<1>5. PICK from \in [1..Len(q)+1 -> Seq(A)] :
           /\ from[Len(q)+1] = <<>>
           /\ \A i \in 1..Len(q) :
                from[i] = ((IF i = 1 THEN <<>> ELSE <<"comma">>) \o q[i]) \o from[i + 1]
           /\ Joined(q) = from[1]
  BY <1>2, <1>3, JoinedJoins
<1>6. /\ \A i \in 1..n+1 : from[i] \in Seq(A) /\ Len(from[i]) \in Nat
      /\ from[n+1] = <<>> /\ Joined(q) = from[1]
  <2>1. \A i \in 1..n+1 : from[i] \in Seq(A)
    BY <1>2, <1>5
  <2>2. \A i \in 1..n+1 : Len(from[i]) \in Nat
    BY <2>1
  <2> QED BY <1>2, <1>5, <2>1, <2>2
<1>7. ASSUME NEW i \in 1..n
      PROVE  from[i] = (Comma(i) \o q[i]) \o from[i + 1] /\ Comma(i) \o q[i] \in Seq(A)
             /\ Comma(i) \in {<<>>, <<"comma">>}
  <2>1. from[i] = (Comma(i) \o q[i]) \o from[i + 1]
    BY <1>2, <1>5
  <2>2. q[i] \in Seq(A)
    BY <1>2, TextsAre
  <2>3. Comma(i) \in Seq(A)
    BY <1>3
  <2> QED BY <2>1, <2>2, <2>3
<1> HIDE DEF Comma
<1> DEFINE place == [i \in 1..n+1 |-> pos + Len(from[1]) - Len(from[i])]
           last == pos + Len(from[1])
<1>8. 1 \in 1..n+1 /\ n + 1 \in 1..n+1 /\ \A i \in 1..n : i \in 1..n+1 /\ i + 1 \in 1..n+1
  BY <1>1
<1>9. StandsAt(json, pos, from[1]) /\ StandsAt(json, last, <<"]">>) /\ pos \in Nat \ {0}
  <2>1. from[1] \in Seq(A)
    BY <1>6, <1>8
  <2>2. StandsAt(json, pos, from[1]) /\ StandsAt(json, last, <<"]">>)
    BY <1>3, <1>4, <1>6, <2>1, PartsStand
  <2> QED BY <2>2 DEF StandsAt
<1>10. /\ place[1] = pos /\ place[n+1] = last
       /\ \A i \in 1..n+1 : place[i] = pos + Len(from[1]) - Len(from[i])
  <2>1. \A i \in 1..n+1 : place[i] = pos + Len(from[1]) - Len(from[i])
    OBVIOUS
  <2>2. Len(from[1]) \in Nat /\ Len(from[n+1]) = 0
    BY <1>6, <1>8
  <2>3. place[1] = pos + Len(from[1]) - Len(from[1]) /\ place[n+1] = pos + Len(from[1]) - 0
    BY <1>8, <2>1, <2>2
  <2>4. place[1] = pos
    BY ONLY <1>9, <2>2, <2>3
  <2>5. place[n+1] = last
    <3>1. pos + Len(from[1]) - 0 = last
      BY ONLY <1>9, <2>2
    <3> QED BY ONLY <2>3, <3>1
  <2> QED BY ONLY <2>1, <2>4, <2>5
<1> HIDE DEF place
<1>11. ASSUME NEW i \in 1..n
       PROVE  place[i+1] = place[i] + Len(Comma(i) \o q[i])
  <2>1. Len(from[i]) = Len(Comma(i) \o q[i]) + Len(from[i+1]) /\ Len(Comma(i) \o q[i]) \in Nat
    <3>1. from[i+1] \in Seq(A)
      BY <1>6, <1>8
    <3>2. from[i] = (Comma(i) \o q[i]) \o from[i + 1] /\ Comma(i) \o q[i] \in Seq(A)
      BY <1>7
    <3> DEFINE piece == Comma(i) \o q[i]
    <3> HIDE DEF piece
    <3>3. from[i] = piece \o from[i + 1] /\ piece \in Seq(A)
      BY <3>2 DEF piece
    <3>4. Len(from[i]) = Len(piece) + Len(from[i+1]) /\ Len(piece) \in Nat
      BY ONLY <3>1, <3>3, ConcatProperties
    <3> QED BY <3>4 DEF piece
  <2>2. /\ place[i] = pos + Len(from[1]) - Len(from[i])
        /\ place[i+1] = pos + Len(from[1]) - Len(from[i+1])
        /\ Len(from[1]) \in Nat /\ Len(from[i]) \in Nat /\ Len(from[i+1]) \in Nat
    BY <1>6, <1>8, <1>10
  <2> QED BY ONLY <1>9, <2>1, <2>2
<1>12. \A m \in 0..n : StandsAt(json, place[m+1], from[m+1]) /\ pos <= place[m+1]
  <2> DEFINE H == {m \in 0..n : StandsAt(json, place[m+1], from[m+1]) /\ pos <= place[m+1]}
  <2>1. 0 \in H
    <3>1. 0 \in 0..n /\ 0 + 1 = 1
      BY <1>1
    <3> QED BY <1>9, <1>10, <3>1
  <2>2. ASSUME NEW m \in 0..n, m \in H, m < n
        PROVE  m + 1 \in H
    <3>1. m + 1 \in 1..n /\ m + 1 \in 0..n
      BY <1>1, <2>2
    <3>2. /\ StandsAt(json, place[m+1], (Comma(m+1) \o q[m+1]) \o from[m+1+1])
          /\ pos <= place[m+1] /\ place[m+1] \in Nat
      BY <1>7, <2>2, <3>1 DEF StandsAt
    <3>3. from[m+1+1] \in Seq(A) /\ Comma(m+1) \o q[m+1] \in Seq(A)
          /\ Len(Comma(m+1) \o q[m+1]) \in Nat
      <4>1. from[m+1+1] \in Seq(A)
        BY <1>6, <1>8, <3>1
      <4>2. Comma(m+1) \o q[m+1] \in Seq(A)
        BY <1>7, <3>1
      <4> DEFINE piece == Comma(m+1) \o q[m+1]
      <4>3. piece \in Seq(A)
        BY <4>2
      <4> HIDE DEF piece
      <4>4. Len(piece) \in Nat
        BY ONLY <4>3, LenProperties
      <4> QED BY <4>1, <4>3, <4>4 DEF piece
    <3>4. StandsAt(json, place[m+1] + Len(Comma(m+1) \o q[m+1]), from[m+1+1])
      BY <3>2, <3>3, PartsStand
    <3>5. place[m+1+1] = place[m+1] + Len(Comma(m+1) \o q[m+1])
      BY <1>11, <3>1
    <3>6. pos <= place[m+1+1]
      <4>1. \A x, y, z \in Nat : x <= y => x <= y + z
        OBVIOUS
      <4>2. pos \in Nat
        BY <1>9
      <4> QED BY ONLY <3>2, <3>3, <3>5, <4>1, <4>2
    <3> QED BY <3>1, <3>4, <3>5, <3>6
  <2> HIDE DEF H
  <2>3. \A m \in 0..n : m \in H
    BY <1>1, <2>1, <2>2, UpTo
  <2> QED BY <2>3 DEF H
<1>13. pos \in 1..Len(json)+1 /\ last \in pos..Len(json) /\ json[last] = "]"
  <2>1. last + 1 <= Len(json) + 1 /\ json[last - 1 + 1] = "]" /\ last \in Nat
    BY <1>9 DEF StandsAt
  <2>2. Len(from[1]) \in Nat /\ Len(json) \in Nat
    BY <1>6, <1>8
  <2>3. last - 1 + 1 = last
    BY <1>9, <2>2
  <2> QED BY <1>9, <2>1, <2>2, <2>3
<1>14. PICK items : IsItems(items, json, pos) /\ ItemsFrom(json, pos) = items[pos]
  BY <1>13, ItemsFromEnds
<1>15. /\ From(texts, 1) = texts /\ From(texts, n + 1) = <<>>
       /\ \A i \in 1..n : From(texts, i) = <<texts[i]>> \o From(texts, i + 1)
  <2> DEFINE C == Seq(S)
  <2>1. texts \in Seq(C)
    BY DEF AreTexts
  <2> HIDE DEF C
  <2> QED BY <2>1, RestOfText DEF n
<1> DEFINE IsRead(i) == items[place[i]] = From(texts, i)
<1>16. IsRead(n + 1)
  <2> HIDE DEF last
  <2>1. PastAll(json, last, JsonSpace \cup {"comma"}) = last
    <3>1. last \in 1..Len(json)+1 /\ last <= Len(json) /\ json[last] \notin JsonSpace \cup {"comma"}
      BY <1>9, <1>13, MarksAreNoSpace
    <3> QED BY <3>1, PastAllStands
  <2>2. At(json, last) = "]" /\ last \in pos..Len(json)+1
    BY <1>9, <1>13 DEF At
  <2>3. items[last] = <<>>
    BY <1>14, <2>1, <2>2 DEF IsItems
  <2> QED BY <1>10, <1>15, <2>3
<1>17. ASSUME NEW i \in 1..n, IsRead(i + 1)
       PROVE  IsRead(i)
  <2>1. StandsAt(json, place[i], from[i]) /\ pos <= place[i]
    <3>1. i - 1 \in 0..n /\ (i - 1) + 1 = i
      BY <1>1
    <3> QED BY <1>12, <3>1
  <2>2. StandsAt(json, place[i], Comma(i) \o Quoted(EscapeJson(texts[i])))
    <3>1. from[i + 1] \in Seq(A)
      BY <1>6, <1>8
    <3>2. StandsAt(json, place[i], Comma(i) \o q[i])
      BY <1>7, <2>1, <3>1, PartsStand
    <3> QED BY <1>2, <3>2
  <2>3. items[place[i]]
          = <<texts[i]>> \o items[place[i] + Len(Comma(i) \o Quoted(EscapeJson(texts[i])))]
    <3>1. texts[i] \in Seq(S) /\ NoControl(texts[i]) /\ Comma(i) \in {<<>>, <<"comma">>}
      BY <1>1, <1>7
    <3>2. pos \in Nat \ {0} /\ pos <= place[i] /\ IsItems(items, json, pos)
      BY <1>9, <1>14, <2>1
    <3> DEFINE comma == Comma(i)
               s == texts[i]
               p == place[i]
    <3>3. StandsAt(json, p, comma \o Quoted(EscapeJson(s)))
      BY <2>2
    <3>4. s \in Seq(S) /\ NoControl(s) /\ (comma = <<>> \/ comma = <<"comma">>) /\ pos <= p
      BY <3>1, <3>2
    <3>5. json \in Seq(T)
      OBVIOUS
    <3> HIDE DEF comma, s, p
    <3>6. items[p] = <<s>> \o items[p + Len(comma \o Quoted(EscapeJson(s)))]
      <4>1. ItemStands(S, s, T, json, comma, pos, p)
        BY ONLY <3>2, <3>3, <3>4, <3>5 DEF ItemStands
      <4>2. IsItems(items, json, pos)
        BY <3>2
      <4>3. ItemIsRead(items, s, comma, p)
        BY ONLY <4>1, <4>2, ItemReadsBack
      <4> QED BY <4>3 DEF ItemIsRead
    <3> QED BY <3>6 DEF comma, s, p
  <2>4. items[place[i]] = <<texts[i]>> \o items[place[i+1]]
    BY <1>2, <1>11, <2>3
  <2> QED BY <1>15, <1>17, <2>4
<1> DEFINE G == {m \in 0..n : IsRead(n + 1 - m)}
<1>18. 0 \in G
  <2>1. 0 \in 0..n /\ n + 1 - 0 = n + 1
    BY <1>1
  <2> HIDE DEF IsRead
  <2> QED BY <1>16, <2>1
<1>19. ASSUME NEW m \in 0..n, m \in G, m < n
       PROVE  m + 1 \in G
  <2>1. n - m \in 1..n /\ (n - m) + 1 = n + 1 - m /\ n + 1 - (m + 1) = n - m /\ m + 1 \in 0..n
    BY <1>1, <1>19
  <2> HIDE DEF IsRead
  <2> QED BY <1>17, <1>19, <2>1
<1>20. IsRead(1)
  <2>0. n + 1 - n = 1 /\ n \in 0..n
    BY <1>1
  <2> HIDE DEF G, IsRead
  <2>1. \A m \in 0..n : m \in G
    BY <1>1, <1>18, <1>19, UpTo
  <2>2. n \in G
    BY <2>0, <2>1
  <2> QED BY <2>0, <2>2 DEF G
<1> QED BY <1>10, <1>14, <1>15, <1>20

(* The scanner's test for a word at a place.                              *)
LEMMA StartsIs ==
  ASSUME NEW S, NEW s \in Seq(S), NEW W, NEW word \in Seq(W), NEW j \in Nat \ {0}
  PROVE  StartsAt(s, word, j) <=> StandsAt(s, j, word)
<1>1. Len(s) \in Nat /\ Len(word) \in Nat
  OBVIOUS
<1> DEFINE last == j + Len(word) - 1
           part == SubSeq(s, j, last)
<1>2. last <= Len(s) <=> j + Len(word) <= Len(s) + 1
  BY <1>1
<1>3. ASSUME last <= Len(s)
      PROVE  /\ part \in Seq(S) /\ Len(part) = Len(word)
             /\ \A k \in 1..Len(word) : part[k] = s[j - 1 + k]
  <2>1. \A i \in j..last : s[i] \in S
    BY <1>1, <1>3
  <2>2. j \in Int /\ last \in Int
    BY <1>1
  <2>3. /\ part \in Seq(S) /\ Len(part) = IF j <= last THEN last - j + 1 ELSE 0
        /\ \A k \in 1..last-j+1 : part[k] = s[j + k - 1]
    BY <2>1, <2>2, SubSeqProperties
  <2>4. last - j + 1 = Len(word) /\ (j <= last <=> Len(word) # 0)
        /\ \A k \in Int : j + k - 1 = j - 1 + k
    BY <1>1
  <2> HIDE DEF last, part
  <2> QED BY <2>3, <2>4
<1> HIDE DEF last, part
<1>4. ASSUME last <= Len(s)
      PROVE  part = word <=> \A k \in 1..Len(word) : s[j - 1 + k] = word[k]
  <2>1. ASSUME \A k \in 1..Len(word) : s[j - 1 + k] = word[k]
        PROVE  part = word
    <3>1. \A k \in 1..Len(word) : part[k] = word[k]
      BY <1>3, <1>4, <2>1
    <3> QED BY <1>3, <1>4, <3>1
  <2>2. ASSUME part = word
        PROVE  \A k \in 1..Len(word) : s[j - 1 + k] = word[k]
    BY <1>3, <1>4, <2>2
  <2> QED BY <2>1, <2>2
<1> QED BY <1>2, <1>4 DEF StartsAt, StandsAt, last, part

(* The search finds the first place the word stands at.                   *)
LEMMA FindIs ==
  ASSUME NEW S, NEW s \in Seq(S), NEW W, NEW word \in Seq(W), NEW i \in Nat \ {0},
         NEW here, StandsAt(s, here, word), i <= here,
         \A j \in i..here-1 : ~ StandsAt(s, j, word)
  PROVE  Find(s, word, i) = here
<1> DEFINE P == {j \in i..(Len(s) - Len(word) + 1) : StartsAt(s, word, j)}
<1>1. Len(s) \in Nat /\ Len(word) \in Nat
  OBVIOUS
<1>2. here \in Nat \ {0} /\ here <= Len(s) - Len(word) + 1
  BY <1>1 DEF StandsAt
<1>3. here \in P
  BY <1>1, <1>2, StartsIs
<1>4. P \in SUBSET Nat /\ \A j \in P : j \in Nat \ {0} /\ i <= j /\ StandsAt(s, j, word)
  <2>1. \A j \in i..(Len(s) - Len(word) + 1) : j \in Nat \ {0}
    BY <1>1
  <2> QED BY <2>1, StartsIs
<1> HIDE DEF P
<1>5. Min(P) \in P /\ \A l \in P : Min(P) <= l
  BY <1>3, <1>4, LeastIs
<1>6. Min(P) = here
  <2>1. Min(P) <= here /\ Min(P) \in Nat /\ i <= Min(P) /\ StandsAt(s, Min(P), word)
    BY <1>3, <1>4, <1>5
  <2>2. Min(P) \notin i..here-1
    BY <2>1
  <2> HIDE DEF P
  <2> QED BY <1>2, <2>1, <2>2
<1>7. P # {} /\ Find(s, word, i) = IF P = {} THEN 0 ELSE Min(P)
  BY <1>3 DEF Find, P
<1> QED BY <1>6, <1>7

(* A tuple with one more at its end.                                      *)
LEMMA OneMore ==
  ASSUME NEW B, NEW a \in Seq(B), NEW c \in B, NEW d \in Seq(B), Len(d) = Len(a) + 1,
         d[Len(a) + 1] = c, \A i \in 1..Len(a) : d[i] = a[i]
  PROVE  a \o <<c>> = d
<1> DEFINE b == a \o <<c>>
<1>1. /\ b \in Seq(B) /\ Len(b) = Len(a) + 1 /\ Len(a) \in Nat /\ b[Len(a) + 1] = c
      /\ \A i \in 1..Len(a) : b[i] = a[i]
  OBVIOUS
<1> HIDE DEF b
<1>2. \A i \in 1..Len(a)+1 : i = Len(a) + 1 \/ i \in 1..Len(a)
  BY <1>1
<1>3. \A i \in 1..Len(a)+1 : b[i] = d[i]
  BY <1>1, <1>2
<1>4. b = d
  BY <1>1, <1>3
<1> QED BY <1>4 DEF b

(* A key in quotes and the colon behind it.                               *)
LEMMA KeyIs ==
  ASSUME NEW A, {"quote", "colon"} \subseteq A, NEW key \in A
  PROVE  /\ Quoted(<<key>>) = <<"quote", key, "quote">>
         /\ Quoted(<<key>>) \o <<"colon">> = <<"quote", key, "quote", "colon">>
<1>1. <<"quote">> \o <<key>> = <<"quote", key>>
  <2> DEFINE a == <<"quote">>
             d == <<"quote", key>>
  <2>1. a \in Seq(A) /\ d \in Seq(A) /\ key \in A /\ Len(a) = 1 /\ Len(d) = 2
    OBVIOUS
  <2>2. d[2] = key /\ \A i \in 1..1 : d[i] = a[i]
    OBVIOUS
  <2> HIDE DEF a, d
  <2>3. Len(d) = Len(a) + 1 /\ d[Len(a) + 1] = key /\ \A i \in 1..Len(a) : d[i] = a[i]
    BY <2>1, <2>2
  <2>4. a \o <<key>> = d
    BY ONLY <2>1, <2>3, OneMore
  <2> QED BY <2>4 DEF a, d
<1>2. <<"quote", key>> \o <<"quote">> = <<"quote", key, "quote">>
  <2> DEFINE a == <<"quote", key>>
             d == <<"quote", key, "quote">>
  <2>1. a \in Seq(A) /\ d \in Seq(A) /\ "quote" \in A /\ Len(a) = 2 /\ Len(d) = 3
    OBVIOUS
  <2>2. d[3] = "quote" /\ \A i \in 1..2 : d[i] = a[i]
    OBVIOUS
  <2> HIDE DEF a, d
  <2>3. Len(d) = Len(a) + 1 /\ d[Len(a) + 1] = "quote" /\ \A i \in 1..Len(a) : d[i] = a[i]
    BY <2>1, <2>2
  <2>4. a \o <<"quote">> = d
    BY ONLY <2>1, <2>3, OneMore
  <2> QED BY <2>4 DEF a, d
<1>3. <<"quote", key, "quote">> \o <<"colon">> = <<"quote", key, "quote", "colon">>
  <2> DEFINE a == <<"quote", key, "quote">>
             d == <<"quote", key, "quote", "colon">>
  <2>1. a \in Seq(A) /\ d \in Seq(A) /\ "colon" \in A /\ Len(a) = 3 /\ Len(d) = 4
    OBVIOUS
  <2>2. d[4] = "colon" /\ \A i \in 1..3 : d[i] = a[i]
    OBVIOUS
  <2> HIDE DEF a, d
  <2>3. Len(d) = Len(a) + 1 /\ d[Len(a) + 1] = "colon" /\ \A i \in 1..Len(a) : d[i] = a[i]
    BY <2>1, <2>2
  <2>4. a \o <<"colon">> = d
    BY ONLY <2>1, <2>3, OneMore
  <2> QED BY <2>4 DEF a, d
<1> QED BY <1>1, <1>2, <1>3 DEF Quoted

(* A member begins with its key.                                          *)
LEMMA MemberIs ==
  ASSUME NEW A, {"quote", "colon"} \subseteq A, NEW key \in A, NEW value \in Seq(A)
  PROVE  /\ Member(key, value) = <<"quote", key, "quote", "colon">> \o value
         /\ Member(key, value) \in Seq(A)
<1>1. Quoted(<<key>>) \o <<"colon">> = <<"quote", key, "quote", "colon">>
  BY KeyIs
<1>2. <<"quote", key, "quote", "colon">> \in Seq(A)
  OBVIOUS
<1>3. <<"quote", key, "quote", "colon">> \o value \in Seq(A)
  BY <1>2, ConcatProperties
<1> QED BY <1>1, <1>3 DEF Member

(* Joined texts are a text.                                               *)
LEMMA JoinedAre ==
  ASSUME NEW A, "comma" \in A, NEW texts, AreTexts(texts, A)
  PROVE  Joined(texts) \in Seq(A)
<1> DEFINE n == Len(texts)
<1>1. PICK from \in [1..n+1 -> Seq(A)] : Joined(texts) = from[1]
  BY JoinedJoins
<1>2. 1 \in 1..n+1
  BY TextsAre
<1> HIDE DEF n
<1> QED BY <1>1, <1>2

(* An array is the texts between its brackets.                            *)
LEMMA StringsAre ==
  ASSUME NEW A, {"comma", "[", "]"} \subseteq A, NEW texts, AreTexts(texts, A)
  PROVE  Strings(texts) = <<"[">> \o (Joined(texts) \o <<"]">>) /\ Strings(texts) \in Seq(A)
<1>1. Joined(texts) \in Seq(A) /\ <<"[">> \in Seq(A) /\ <<"]">> \in Seq(A)
  BY JoinedAre
<1>2. Strings(texts) = <<"[">> \o (Joined(texts) \o <<"]">>)
  BY <1>1, ConcatAssociative DEF Strings
<1> QED BY <1>1, <1>2

(* An object is its members between its braces.                           *)
LEMMA ObjectIs ==
  ASSUME NEW A, {"comma", "lbrace", "rbrace"} \subseteq A, NEW members, AreTexts(members, A)
  PROVE  Object(members) = <<"lbrace">> \o (Joined(members) \o <<"rbrace">>)
         /\ Object(members) \in Seq(A)
<1>1. Joined(members) \in Seq(A) /\ <<"lbrace">> \in Seq(A) /\ <<"rbrace">> \in Seq(A)
  BY JoinedAre
<1>2. Object(members) = <<"lbrace">> \o (Joined(members) \o <<"rbrace">>)
  BY <1>1, ConcatAssociative DEF Object
<1> QED BY <1>1, <1>2

(* How joined texts begin.                                                *)
LEMMA FirstTwoJoined ==
  ASSUME NEW A, "comma" \in A, NEW texts, AreTexts(texts, A), Len(texts) >= 2
  PROVE  \E second, third \in Seq(A) :
           /\ Joined(texts) = texts[1] \o second
           /\ second = (<<"comma">> \o texts[2]) \o third
<1> DEFINE n == Len(texts)
<1>1. PICK from \in [1..n+1 -> Seq(A)] :
        /\ from[n+1] = <<>>
        /\ \A i \in 1..n :
             from[i] = ((IF i = 1 THEN <<>> ELSE <<"comma">>) \o texts[i]) \o from[i + 1]
        /\ Joined(texts) = from[1]
  BY JoinedJoins
<1>2. n \in Nat /\ n >= 2 /\ texts[1] \in Seq(A) /\ texts[2] \in Seq(A)
  BY TextsAre
<1> HIDE DEF n
<1>3. 1 \in 1..n /\ 2 \in 1..n /\ 2 \in 1..n+1 /\ 3 \in 1..n+1
  BY <1>2
<1>4. from[2] \in Seq(A) /\ from[3] \in Seq(A)
  BY <1>3
<1>5. from[1] = (<<>> \o texts[1]) \o from[2] /\ from[2] = (<<"comma">> \o texts[2]) \o from[3]
  <2>1. from[1] = ((IF 1 = 1 THEN <<>> ELSE <<"comma">>) \o texts[1]) \o from[1 + 1]
    BY ONLY <1>1, <1>3
  <2>2. from[2] = ((IF 2 = 1 THEN <<>> ELSE <<"comma">>) \o texts[2]) \o from[2 + 1]
    BY ONLY <1>1, <1>3
  <2>3. 1 + 1 = 2 /\ 2 + 1 = 3
    OBVIOUS
  <2>4. from[1 + 1] = from[2] /\ from[2 + 1] = from[3]
    BY ONLY <2>3
  <2> QED BY ONLY <2>1, <2>2, <2>4
<1>6. <<>> \o texts[1] = texts[1]
  BY ONLY <1>2, ConcatEmptySeq
<1> QED BY ONLY <1>1, <1>4, <1>5, <1>6

(* The array of the answer is where the scanner looks for it.              *)
LEMMA ArrayIsFound ==
  ASSUME NEW S, NEW ranked, AreTexts(ranked, S),
         NEW rerank_top1 \in Seq(S), NEW final_top1 \in Seq(S), NEW overwritten
  PROVE  LET json == ResponseLine(ranked, rerank_top1, final_top1, overwritten)
         IN /\ Behind(json, "ranked_surfaces", "[") = 13
            /\ StandsAt(json, 13, Joined(EscapedAll(ranked)) \o <<"]">>)
            /\ \E T : json \in Seq(T)
<1> DEFINE A == S \cup Escapes \cup {"comma", "colon", "[", "]", "lbrace", "rbrace", "quote",
                  "true", "false", "ok", "ranked_surfaces", "rerank_top1", "final_top1",
                  "overwritten"}
           json == ResponseLine(ranked, rerank_top1, final_top1, overwritten)
           joined == Joined(EscapedAll(ranked))
           m1 == Member("ok", <<"true">>)
           m2 == Member("ranked_surfaces", Strings(EscapedAll(ranked)))
           m3 == Member("rerank_top1", Quoted(EscapeJson(rerank_top1)))
           m4 == Member("final_top1", Quoted(EscapeJson(final_top1)))
           m5 == Member("overwritten", <<IF overwritten THEN "true" ELSE "false">>)
           members == <<m1, m2, m3, m4, m5>>
<1>1. /\ {"quote", "colon", "comma", "[", "]", "lbrace", "rbrace", "true", "false", "ok",
          "ranked_surfaces", "rerank_top1", "final_top1", "overwritten"} \subseteq A
      /\ (S \ DOMAIN Letter) \cup Escapes \subseteq A
  OBVIOUS
<1>2. json = Object(members)
  BY DEF ResponseLine
<1> HIDE DEF A, json, members
<1>3. AreTexts(EscapedAll(ranked), A) /\ joined \in Seq(A)
  <2>1. AreTexts(EscapedAll(ranked), A)
    BY <1>1, EscapedAllAre
  <2> QED BY <1>1, <2>1, JoinedAre
<1>4. Strings(EscapedAll(ranked)) = <<"[">> \o (joined \o <<"]">>)
      /\ Strings(EscapedAll(ranked)) \in Seq(A)
  BY <1>1, <1>3, StringsAre
<1> HIDE DEF joined
<1>5. /\ m1 = <<"quote", "ok", "quote", "colon">> \o <<"true">> /\ m1 \in Seq(A)
      /\ m2 = <<"quote", "ranked_surfaces", "quote", "colon">> \o (<<"[">> \o (joined \o <<"]">>))
      /\ m2 \in Seq(A)
  <2>1. <<"true">> \in Seq(A) /\ "ok" \in A /\ "ranked_surfaces" \in A
        /\ {"quote", "colon"} \subseteq A
    BY <1>1
  <2>2. m1 = <<"quote", "ok", "quote", "colon">> \o <<"true">> /\ m1 \in Seq(A)
    BY ONLY <2>1, MemberIs DEF m1
  <2>3. m2 = <<"quote", "ranked_surfaces", "quote", "colon">> \o Strings(EscapedAll(ranked))
        /\ m2 \in Seq(A)
    BY ONLY <1>4, <2>1, MemberIs DEF m2
  <2> QED BY ONLY <1>4, <2>2, <2>3
<1>6. m3 \in Seq(A) /\ m4 \in Seq(A) /\ m5 \in Seq(A)
  <2>1. \A s \in Seq(S) : Quoted(EscapeJson(s)) \in Seq(A)
    <3>1. ASSUME NEW s \in Seq(S)
          PROVE  EscapeJson(s) \in Seq(A)
      <4>1. EscapeJson(s) \in Seq((S \ DOMAIN Letter) \cup Escapes)
        BY EscapeJsonHasNoControl
      <4> QED BY <1>1, <4>1
    <3> QED BY <1>1, <3>1, QuotedIs
  <2>2. /\ "rerank_top1" \in A /\ "final_top1" \in A /\ "overwritten" \in A
        /\ {"quote", "colon"} \subseteq A
        /\ Quoted(EscapeJson(rerank_top1)) \in Seq(A) /\ Quoted(EscapeJson(final_top1)) \in Seq(A)
        /\ <<IF overwritten THEN "true" ELSE "false">> \in Seq(A)
    BY <1>1, <2>1
  <2>3. m3 \in Seq(A)
    BY ONLY <2>2, MemberIs DEF m3
  <2>4. m4 \in Seq(A)
    BY ONLY <2>2, MemberIs DEF m4
  <2>5. m5 \in Seq(A)
    BY ONLY <2>2, MemberIs DEF m5
  <2> QED BY <2>3, <2>4, <2>5
<1> HIDE DEF m1, m2, m3, m4, m5
<1>7. /\ AreTexts(members, A) /\ Len(members) = 5 /\ members[1] = m1 /\ members[2] = m2
  <2> DEFINE B == Seq(A)
  <2>1. m1 \in B /\ m2 \in B /\ m3 \in B /\ m4 \in B /\ m5 \in B
    BY <1>5, <1>6
  <2> HIDE DEF B
  <2>2. members \in Seq(B) /\ Len(members) = 5 /\ members[1] = m1 /\ members[2] = m2
    BY ONLY <2>1 DEF members
  <2> QED BY <2>2 DEF AreTexts, B
<1>8. PICK second, third \in Seq(A) :
        /\ Joined(members) = members[1] \o second
        /\ second = (<<"comma">> \o members[2]) \o third
  <2>1. "comma" \in A /\ Len(members) >= 2
    BY <1>1, <1>7
  <2> QED BY ONLY <1>7, <2>1, FirstTwoJoined
<1>9. /\ second \in Seq(A) /\ third \in Seq(A)
      /\ Joined(members) = m1 \o second /\ second = (<<"comma">> \o m2) \o third
      /\ m1 \o second \in Seq(A)
  <2>1. m1 \o second \in Seq(A)
    BY ONLY <1>5, second \in Seq(A)
  <2> QED BY ONLY <1>7, <1>8, <2>1, second \in Seq(A), third \in Seq(A)
<1>10. json = <<"lbrace">> \o ((m1 \o second) \o <<"rbrace">>) /\ json \in Seq(A)
  <2>1. {"comma", "lbrace", "rbrace"} \subseteq A
    BY <1>1
  <2> QED BY ONLY <1>2, <1>7, <1>9, <2>1, ObjectIs
<1>11. /\ <<"lbrace">> \in Seq(A) /\ <<"rbrace">> \in Seq(A) /\ <<"comma">> \in Seq(A)
       /\ <<"true">> \in Seq(A) /\ <<"[">> \in Seq(A) /\ <<"]">> \in Seq(A)
       /\ <<"quote", "ok", "quote", "colon">> \in Seq(A)
       /\ <<"quote", "ranked_surfaces", "quote", "colon">> \in Seq(A)
       /\ Len(<<"lbrace">>) = 1 /\ Len(<<"comma">>) = 1 /\ Len(<<"[">>) = 1
       /\ Len(<<"quote", "ok", "quote", "colon">>) = 4 /\ Len(<<"true">>) = 1
       /\ Len(<<"quote", "ranked_surfaces", "quote", "colon">>) = 4
  BY <1>1
<1>12. StandsAt(json, 1, <<"lbrace">>) /\ StandsAt(json, 2, m1 \o second)
  <2>1. StandsAt(json, 1, <<"lbrace">> \o ((m1 \o second) \o <<"rbrace">>))
    <3>1. StandsAt(json, 1, json)
      BY <1>10 DEF StandsAt
    <3> QED BY ONLY <1>10, <3>1
  <2>2. (m1 \o second) \o <<"rbrace">> \in Seq(A)
    BY ONLY <1>9, <1>11
  <2>3. /\ StandsAt(json, 1, <<"lbrace">>)
        /\ StandsAt(json, 1 + Len(<<"lbrace">>), (m1 \o second) \o <<"rbrace">>)
    BY ONLY <1>10, <1>11, <2>1, <2>2, PartsStand
  <2>4. StandsAt(json, 2, (m1 \o second) \o <<"rbrace">>)
    BY ONLY <1>11, <2>3
  <2> QED BY ONLY <1>9, <1>10, <1>11, <2>3, <2>4, PartsStand
<1>13. StandsAt(json, 2, m1) /\ StandsAt(json, 7, second)
  <2>1. StandsAt(json, 2, m1) /\ StandsAt(json, 2 + Len(m1), second)
    BY ONLY <1>5, <1>9, <1>10, <1>12, PartsStand
  <2>2. Len(m1) = 5
    BY ONLY <1>5, <1>11, ConcatProperties
  <2> QED BY <2>1, <2>2
<1>14. /\ StandsAt(json, 2, <<"quote", "ok", "quote", "colon">>)
       /\ StandsAt(json, 6, <<"true">>)
  <2>1. StandsAt(json, 2, <<"quote", "ok", "quote", "colon">> \o <<"true">>)
    BY <1>5, <1>13
  <2>2. /\ StandsAt(json, 2, <<"quote", "ok", "quote", "colon">>)
        /\ StandsAt(json, 2 + Len(<<"quote", "ok", "quote", "colon">>), <<"true">>)
    BY ONLY <1>10, <1>11, <2>1, PartsStand
  <2> QED BY <1>11, <2>2
<1>15. StandsAt(json, 7, <<"comma">>) /\ StandsAt(json, 8, m2)
  <2>1. <<"comma">> \o m2 \in Seq(A)
    BY <1>5, <1>11
  <2>2. StandsAt(json, 7, <<"comma">> \o m2)
    BY ONLY <1>9, <1>10, <1>13, <2>1, PartsStand
  <2>3. StandsAt(json, 7, <<"comma">>) /\ StandsAt(json, 7 + Len(<<"comma">>), m2)
    <3>1. m2 \in Seq(A) /\ <<"comma">> \in Seq(A) /\ json \in Seq(A)
      BY <1>5, <1>10, <1>11
    <3> QED BY ONLY <2>2, <3>1, PartsStand
  <2> QED BY <1>11, <2>3
<1>16. /\ StandsAt(json, 8, <<"quote", "ranked_surfaces", "quote", "colon">>)
       /\ StandsAt(json, 12, <<"[">>) /\ StandsAt(json, 13, joined \o <<"]">>)
  <2>1. joined \o <<"]">> \in Seq(A) /\ <<"[">> \o (joined \o <<"]">>) \in Seq(A)
    BY <1>3, <1>11
  <2>2. StandsAt(json, 8, <<"quote", "ranked_surfaces", "quote", "colon">>
                          \o (<<"[">> \o (joined \o <<"]">>)))
    BY <1>5, <1>15
  <2>3. /\ StandsAt(json, 8, <<"quote", "ranked_surfaces", "quote", "colon">>)
        /\ StandsAt(json, 8 + Len(<<"quote", "ranked_surfaces", "quote", "colon">>),
                    <<"[">> \o (joined \o <<"]">>))
    BY ONLY <1>10, <1>11, <2>1, <2>2, PartsStand
  <2>4. StandsAt(json, 12, <<"[">> \o (joined \o <<"]">>))
    BY <1>11, <2>3
  <2>5. StandsAt(json, 12, <<"[">>) /\ StandsAt(json, 12 + Len(<<"[">>), joined \o <<"]">>)
    BY ONLY <1>10, <1>11, <2>1, <2>4, PartsStand
  <2> QED BY <1>11, <2>3, <2>5
<1>17. /\ json[1] = "lbrace" /\ json[2] = "quote" /\ json[3] = "ok" /\ json[4] = "quote"
       /\ json[5] = "colon" /\ json[6] = "true" /\ json[7] = "comma"
       /\ json[8] = "quote" /\ json[9] = "ranked_surfaces" /\ json[10] = "quote"
       /\ json[11] = "colon" /\ json[12] = "["
  <2>1. json[1 - 1 + 1] = "lbrace"
    BY <1>12 DEF StandsAt
  <2>2. json[2 - 1 + 1] = "quote" /\ json[2 - 1 + 2] = "ok" /\ json[2 - 1 + 3] = "quote"
        /\ json[2 - 1 + 4] = "colon"
    BY <1>14 DEF StandsAt
  <2>3. json[6 - 1 + 1] = "true" /\ json[7 - 1 + 1] = "comma" /\ json[12 - 1 + 1] = "["
    BY <1>14, <1>15, <1>16 DEF StandsAt
  <2>4. json[8 - 1 + 1] = "quote" /\ json[8 - 1 + 2] = "ranked_surfaces"
        /\ json[8 - 1 + 3] = "quote" /\ json[8 - 1 + 4] = "colon"
    BY <1>16 DEF StandsAt
  <2> QED BY ONLY <2>1, <2>2, <2>3, <2>4
<1> DEFINE word == <<"quote", "ranked_surfaces", "quote">>
<1>18. /\ Quoted(<<"ranked_surfaces">>) = word /\ word \in Seq(A) /\ Len(word) = 3
       /\ word[1] = "quote" /\ word[2] = "ranked_surfaces" /\ word[3] = "quote"
  <2>1. {"quote", "colon"} \subseteq A /\ "ranked_surfaces" \in A
    BY <1>1
  <2>2. Quoted(<<"ranked_surfaces">>) = word
    BY ONLY <2>1, KeyIs
  <2> QED BY <2>1, <2>2
<1> HIDE DEF word
<1>19. 13 <= Len(json) + 1
  BY <1>16, <1>11 DEF StandsAt
<1>20. Find(json, word, 1) = 8
  <2>1. StandsAt(json, 8, word)
    <3>1. \A k \in 1..3 : k = 1 \/ k = 2 \/ k = 3
      OBVIOUS
    <3>2. \A k \in 1..3 : json[8 - 1 + k] = word[k]
      BY <1>17, <1>18, <3>1
    <3> QED BY <1>18, <1>19, <3>2 DEF StandsAt
  <2>2. ASSUME NEW j \in 1..8-1
        PROVE  ~ StandsAt(json, j, word)
    <3>1. SUFFICES ASSUME StandsAt(json, j, word) PROVE FALSE
      OBVIOUS
    <3>2. json[j - 1 + 1] = "quote" /\ json[j - 1 + 2] = "ranked_surfaces"
      BY <1>18, <3>1 DEF StandsAt
    <3>3. json[j] = "quote" /\ json[j + 1] = "ranked_surfaces"
      <4>1. j - 1 + 1 = j /\ j - 1 + 2 = j + 1
        OBVIOUS
      <4> QED BY <3>2, <4>1
    <3>4. j = 1 \/ j = 2 \/ j = 3 \/ j = 4 \/ j = 5 \/ j = 6 \/ j = 7
      OBVIOUS
    <3>5. j = 2 \/ j = 4
      BY ONLY <1>17, <3>3, <3>4
    <3>6. 2 + 1 = 3 /\ 4 + 1 = 5
      OBVIOUS
    <3>7. json[3] = "ranked_surfaces" \/ json[5] = "ranked_surfaces"
      BY ONLY <3>3, <3>5, <3>6
    <3> QED BY ONLY <1>17, <3>7
  <2>3. 1 \in Nat \ {0} /\ 1 <= 8
    OBVIOUS
  <2> QED BY ONLY <1>10, <1>18, <2>1, <2>2, <2>3, FindIs
<1>21. Find(json, <<"[">>, 11) = 12
  <2>1. ~ StandsAt(json, 11, <<"[">>)
    <3>1. StandsAt(json, 11, <<"[">>) => json[11 - 1 + 1] = "["
      BY DEF StandsAt
    <3> QED BY <1>17, <3>1
  <2>2. \A j \in 11..12-1 : j = 11
    OBVIOUS
  <2>3. \A j \in 11..12-1 : ~ StandsAt(json, j, <<"[">>)
    BY <2>1, <2>2
  <2>4. 11 \in Nat \ {0} /\ 11 <= 12
    OBVIOUS
  <2> QED BY ONLY <1>10, <1>11, <1>16, <2>3, <2>4, FindIs
<1>22. Behind(json, "ranked_surfaces", "[") = 13
  BY <1>18, <1>20, <1>21 DEF Behind
<1> QED BY <1>10, <1>16, <1>22 DEF json, joined

(* What a daemon answers with is what the client reads, whatever surfaces  *)
(* it ranks first, if none of them has a control character.                *)
THEOREM RankedSurfacesComeBack ==
  ASSUME NEW S, NEW ranked \in Seq(Seq(S)), \A i \in DOMAIN ranked : NoControl(ranked[i]),
         NEW rerank_top1 \in Seq(S), NEW final_top1 \in Seq(S), NEW overwritten
  PROVE  LET parsed == ParseHookResponse(ResponseLine(ranked, rerank_top1, final_top1,
                                                      overwritten))
         IN parsed.ranked_surfaces = ranked /\ parsed.ok = (ranked # <<>>)
<1> DEFINE json == ResponseLine(ranked, rerank_top1, final_top1, overwritten)
<1>1. AreTexts(ranked, S) /\ \A i \in 1..Len(ranked) : NoControl(ranked[i])
  <2> DEFINE B == Seq(S)
  <2>1. ranked \in Seq(B)
    OBVIOUS
  <2>2. DOMAIN ranked = 1..Len(ranked)
    <3> HIDE DEF B
    <3> QED BY ONLY <2>1
  <2> QED BY ONLY <2>2, \A i \in DOMAIN ranked : NoControl(ranked[i]), ranked \in Seq(Seq(S))
             DEF AreTexts
<1>2. /\ Behind(json, "ranked_surfaces", "[") = 13
      /\ StandsAt(json, 13, Joined(EscapedAll(ranked)) \o <<"]">>)
      /\ \E T : json \in Seq(T)
  BY <1>1, ArrayIsFound
<1> HIDE DEF json
<1>3. ItemsFrom(json, 13) = ranked
  BY <1>1, <1>2, ItemsReadBack
<1>4. ExtractJsonStringArray(json, "ranked_surfaces") = ranked
  BY ONLY <1>2, <1>3 DEF ExtractJsonStringArray
<1>5. /\ ParseHookResponse(json).ranked_surfaces = ranked
      /\ ParseHookResponse(json).ok = (ranked # <<>>)
  BY ONLY <1>4 DEF ParseHookResponse
<1> QED BY <1>5 DEF json

(* What the client sends is one line, whatever the texts in it: a request  *)
(* ends at the first newline, where the daemon ends its reading.           *)
THEOREM RequestIsOneLine ==
  ASSUME NEW S, NEW reading \in Seq(S), NEW context \in Seq(S), NEW nbest \in Seq(Seq(S))
  PROVE  LET line == RequestLine(reading, context, nbest)
         IN Find(line, <<"nl">>, 1) = Len(line)
<1> DEFINE A == (S \ DOMAIN Letter) \cup Escapes
                \cup {"comma", "colon", "[", "]", "lbrace", "rbrace", "quote",
                      "reading", "context_prev", "nbest"}
           m1 == Member("reading", Quoted(EscapeJson(reading)))
           m2 == Member("context_prev", Quoted(EscapeJson(context)))
           m3 == Member("nbest", Strings(EscapedAll(nbest)))
           members == <<m1, m2, m3>>
           object == Object(members)
           line == object \o <<"nl">>
<1>1. RequestLine(reading, context, nbest) = line
  BY DEF RequestLine
<1>2. /\ "quote" \in A /\ {"quote", "colon"} \subseteq A /\ {"comma", "[", "]"} \subseteq A
      /\ {"comma", "lbrace", "rbrace"} \subseteq A
      /\ "reading" \in A /\ "context_prev" \in A /\ "nbest" \in A
      /\ (S \ DOMAIN Letter) \cup Escapes \subseteq A
  OBVIOUS
<1>3. "nl" \notin A
  BY DEF Letter, Escapes
<1>4. AreTexts(nbest, S)
  BY DEF AreTexts
<1> HIDE DEF A
<1>5. \A s \in Seq(S) : Quoted(EscapeJson(s)) \in Seq(A)
  <2>1. ASSUME NEW s \in Seq(S)
        PROVE  EscapeJson(s) \in Seq(A)
    <3>1. EscapeJson(s) \in Seq((S \ DOMAIN Letter) \cup Escapes)
      BY EscapeJsonHasNoControl
    <3> QED BY ONLY <1>2, <3>1
  <2>2. ASSUME NEW s \in Seq(S)
        PROVE  Quoted(EscapeJson(s)) \in Seq(A)
    <3>1. EscapeJson(s) \in Seq(A)
      BY <2>1
    <3> QED BY ONLY <1>2, <3>1, QuotedIs
  <2> QED BY ONLY <2>2
<1>6. Quoted(EscapeJson(reading)) \in Seq(A) /\ Quoted(EscapeJson(context)) \in Seq(A)
  BY ONLY <1>5, reading \in Seq(S), context \in Seq(S)
<1>7. Strings(EscapedAll(nbest)) \in Seq(A)
  <2>1. AreTexts(EscapedAll(nbest), A)
    BY ONLY <1>2, <1>4, EscapedAllAre
  <2> QED BY ONLY <1>2, <2>1, StringsAre
<1>8. m1 \in Seq(A) /\ m2 \in Seq(A) /\ m3 \in Seq(A)
  <2>1. m1 \in Seq(A)
    BY ONLY <1>2, <1>6, MemberIs DEF m1
  <2>2. m2 \in Seq(A)
    BY ONLY <1>2, <1>6, MemberIs DEF m2
  <2>3. m3 \in Seq(A)
    BY ONLY <1>2, <1>7, MemberIs DEF m3
  <2> QED BY ONLY <2>1, <2>2, <2>3
<1> HIDE DEF m1, m2, m3
<1>9. AreTexts(members, A)
  <2> DEFINE B == Seq(A)
  <2>1. m1 \in B /\ m2 \in B /\ m3 \in B
    BY ONLY <1>8
  <2> HIDE DEF B
  <2>2. members \in Seq(B)
    BY ONLY <2>1 DEF members
  <2> QED BY ONLY <2>2 DEF AreTexts, B
<1> HIDE DEF members
<1>10. object \in Seq(A)
  BY ONLY <1>2, <1>9, ObjectIs DEF object
<1> HIDE DEF object
<1> DEFINE C == A \cup {"nl"}
<1>11. /\ line \in Seq(C) /\ Len(line) = Len(object) + 1 /\ Len(object) \in Nat
       /\ line[Len(line)] = "nl" /\ <<"nl">> \in Seq(C)
       /\ \A j \in 1..Len(object) : line[j] = object[j] /\ object[j] \in A
  <2>1. object \in Seq(C) /\ <<"nl">> \in Seq(C) /\ Len(<<"nl">>) = 1 /\ <<"nl">>[1] = "nl"
    BY <1>10
  <2>2. Len(object) \in Nat /\ \A j \in 1..Len(object) : object[j] \in A
    BY ONLY <1>10
  <2> HIDE DEF C
  <2>3. /\ line \in Seq(C) /\ Len(line) = Len(object) + Len(<<"nl">>)
        /\ \A j \in 1..Len(object)+Len(<<"nl">>) :
             line[j] = IF j <= Len(object) THEN object[j] ELSE <<"nl">>[j - Len(object)]
    BY ONLY <2>1, ConcatProperties DEF line
  <2>4. line[Len(object) + 1] = "nl"
    <3>1. /\ Len(object) + 1 \in 1..Len(object)+Len(<<"nl">>) /\ ~ (Len(object) + 1 <= Len(object))
          /\ Len(object) + 1 - Len(object) = 1
      BY ONLY <2>1, <2>2
    <3>2. line[Len(object) + 1] = <<"nl">>[Len(object) + 1 - Len(object)]
      BY ONLY <2>3, <3>1
    <3> QED BY ONLY <2>1, <3>1, <3>2
  <2>5. \A j \in 1..Len(object) : line[j] = object[j]
    <3>1. \A j \in 1..Len(object) : j \in 1..Len(object)+Len(<<"nl">>) /\ j <= Len(object)
      BY ONLY <2>1, <2>2
    <3> QED BY ONLY <2>3, <3>1
  <2> QED BY ONLY <2>1, <2>2, <2>3, <2>4, <2>5
<1> HIDE DEF line, C
<1>12. StandsAt(line, Len(line), <<"nl">>)
  <2>1. \A k \in 1..1 : Len(line) - 1 + k = Len(line)
    BY ONLY <1>11
  <2>2. Len(<<"nl">>) = 1 /\ <<"nl">>[1] = "nl" /\ \A k \in 1..1 : k = 1
    OBVIOUS
  <2> QED BY ONLY <1>11, <2>1, <2>2 DEF StandsAt
<1>13. ASSUME NEW j \in 1..Len(line)-1
       PROVE  ~ StandsAt(line, j, <<"nl">>)
  <2>1. SUFFICES ASSUME StandsAt(line, j, <<"nl">>) PROVE FALSE
    OBVIOUS
  <2>2. Len(<<"nl">>) = 1 /\ <<"nl">>[1] = "nl" /\ j - 1 + 1 = j
    OBVIOUS
  <2>3. line[j - 1 + 1] = "nl"
    BY ONLY <2>1, <2>2 DEF StandsAt
  <2>4. j \in 1..Len(object)
    BY ONLY <1>11, j \in 1..Len(line)-1
  <2> QED BY ONLY <1>3, <1>11, <2>2, <2>3, <2>4
<1>14. Find(line, <<"nl">>, 1) = Len(line)
  <2>1. 1 \in Nat \ {0} /\ 1 <= Len(line)
    BY ONLY <1>11
  <2> QED BY ONLY <1>11, <1>12, <1>13, <2>1, FindIs
<1> QED BY ONLY <1>1, <1>14

--------------------------------------------------------------------------------
(* What is written comes back: the answers of the daemon, the prompts and   *)
(* the answers of the servers.                                             *)

(* Where a member of an object stands, and what is in front of it.         *)
LEMMA MemberStands ==
  ASSUME NEW A, {"comma", "lbrace", "rbrace"} \subseteq A, NEW members, AreTexts(members, A),
         NEW k \in 1..Len(members), NEW B, {"comma", "lbrace"} \subseteq B,
         \A i \in 1..k-1 : members[i] \in Seq(B)
  PROVE  /\ Object(members) \in Seq(A)
         /\ \E pos : /\ StandsAt(Object(members), pos, members[k])
                     /\ \A j \in 1..pos-1 : Object(members)[j] \in B
<1> DEFINE json == Object(members)
           n == Len(members)
           sep(i) == IF i = 1 THEN <<>> ELSE <<"comma">>
<1>1. json = <<"lbrace">> \o (Joined(members) \o <<"rbrace">>) /\ json \in Seq(A)
  BY ObjectIs
<1>2. n \in Nat /\ \A i \in 1..n : members[i] \in Seq(A)
  BY TextsAre
<1>3. PICK from \in [1..n+1 -> Seq(A)] :
        /\ from[n+1] = <<>>
        /\ \A i \in 1..n : from[i] = (sep(i) \o members[i]) \o from[i + 1]
        /\ Joined(members) = from[1]
  BY JoinedJoins
<1> HIDE DEF json, n
<1>4. k \in 1..n /\ k \in Nat /\ \A i \in 1..k : i \in 1..n /\ i \in 1..n+1 /\ i + 1 \in 1..n+1
  BY <1>2 DEF n
<1>5. \A i \in 1..n : /\ sep(i) \in Seq(A) /\ sep(i) \in Seq(B) /\ Len(sep(i)) \in {0, 1}
                      /\ sep(i) \o members[i] \in Seq(A)
  <2>1. /\ <<>> \in Seq(A) /\ <<>> \in Seq(B) /\ <<"comma">> \in Seq(A) /\ <<"comma">> \in Seq(B)
        /\ Len(<<>>) = 0 /\ Len(<<"comma">>) = 1
    OBVIOUS
  <2>2. \A i \in 1..n : sep(i) = <<>> \/ sep(i) = <<"comma">>
    OBVIOUS
  <2> HIDE DEF sep
  <2>3. ASSUME NEW i \in 1..n
        PROVE  /\ sep(i) \in Seq(A) /\ sep(i) \in Seq(B) /\ Len(sep(i)) \in {0, 1}
               /\ sep(i) \o members[i] \in Seq(A)
    <3>1. sep(i) \in Seq(A) /\ sep(i) \in Seq(B) /\ Len(sep(i)) \in {0, 1}
      BY <2>1, <2>2
    <3>2. members[i] \in Seq(A)
      BY <1>2
    <3> QED BY <3>1, <3>2, ConcatProperties
  <2> QED BY <2>3
<1> HIDE DEF sep
<1> DEFINE Clear(pos) == \A j \in 1..pos-1 : json[j] \in B
           H == {i \in Nat : \E pos : StandsAt(json, pos, from[i + 1]) /\ Clear(pos)}
<1>6. 0 \in H
  <2>1. /\ <<"lbrace">> \in Seq(A) /\ <<"rbrace">> \in Seq(A) /\ Len(<<"lbrace">>) = 1
        /\ Joined(members) \in Seq(A)
    BY <1>3, <1>4
  <2>2. Joined(members) \o <<"rbrace">> \in Seq(A)
    BY <2>1, ConcatProperties
  <2>3. StandsAt(json, 1, <<"lbrace">> \o (Joined(members) \o <<"rbrace">>))
    <3>1. StandsAt(json, 1, json)
      BY <1>1 DEF StandsAt
    <3> QED BY ONLY <1>1, <3>1
  <2>4. /\ StandsAt(json, 1, <<"lbrace">>)
        /\ StandsAt(json, 1 + Len(<<"lbrace">>), Joined(members) \o <<"rbrace">>)
    BY ONLY <1>1, <2>1, <2>2, <2>3, PartsStand
  <2>5. StandsAt(json, 2, Joined(members) \o <<"rbrace">>)
    BY <2>1, <2>4
  <2>6. StandsAt(json, 2, from[0 + 1])
    <3>1. StandsAt(json, 2, Joined(members))
      BY ONLY <1>1, <2>1, <2>5, PartsStand
    <3> QED BY <1>3, <3>1
  <2>7. Clear(2)
    <3>1. json[1 - 1 + 1] = <<"lbrace">>[1]
      BY <2>1, <2>4 DEF StandsAt
    <3>2. json[1] = "lbrace"
      BY <3>1
    <3>3. \A j \in 1..2-1 : j = 1
      OBVIOUS
    <3> QED BY <3>2, <3>3
  <2> QED BY <2>6, <2>7
<1>7. ASSUME NEW i \in 0..k-1, i \in H
      PROVE  \E pos : /\ StandsAt(json, pos, members[i + 1]) /\ Clear(pos)
                      /\ StandsAt(json, pos + Len(members[i + 1]), from[i + 2])
  <2>1. PICK here : StandsAt(json, here, from[i + 1]) /\ Clear(here)
    BY <1>7
  <2> HIDE DEF Clear
  <2>2. i + 1 \in 1..n /\ i + 1 + 1 = i + 2 /\ i + 2 \in 1..n+1 /\ i + 1 \in 1..k
    BY <1>4
  <2> DEFINE x == sep(i + 1)
             m == members[i + 1]
             y == from[i + 2]
             p == here + Len(x)
  <2>3. x \in Seq(A) /\ x \in Seq(B) /\ Len(x) \in {0, 1} /\ x \o m \in Seq(A) /\ m \in Seq(A)
        /\ y \in Seq(A)
    BY <1>2, <1>3, <1>5, <2>2
  <2>4. from[i + 1] = (x \o m) \o y
    BY <1>3, <2>2
  <2>5. Len(x \o m) = Len(x) + Len(m) /\ Len(m) \in Nat
    BY <2>3, ConcatProperties, LenProperties
  <2> HIDE DEF x, m, y
  <2>6. StandsAt(json, here, x \o m) /\ StandsAt(json, here + Len(x \o m), y)
    BY ONLY <1>1, <2>1, <2>3, <2>4, PartsStand
  <2>7. StandsAt(json, here, x) /\ StandsAt(json, p, m)
    BY ONLY <1>1, <2>3, <2>6, PartsStand DEF p
  <2>8. here \in Nat \ {0} /\ \A q \in 1..Len(x) : json[here - 1 + q] = x[q]
    BY <2>7 DEF StandsAt
  <2>9. Clear(p)
    <3>1. ASSUME NEW j \in 1..p-1
          PROVE  json[j] \in B
      <4>1. j \in 1..here-1 \/ (Len(x) = 1 /\ j = here)
        <5>1. here \in Nat /\ (Len(x) = 0 \/ Len(x) = 1) /\ j \in 1..(here + Len(x))-1
          BY <2>3, <2>8 DEF p
        <5>2. \A l \in {0, 1} : j \in 1..(here + l)-1 => j \in 1..here-1 \/ (l = 1 /\ j = here)
          BY ONLY <5>1
        <5> QED BY ONLY <5>1, <5>2
      <4>2. CASE j \in 1..here-1
        BY <2>1, <4>2 DEF Clear
      <4>3. CASE Len(x) = 1 /\ j = here
        <5>1. here - 1 + 1 = here
          BY <2>8
        <5>2. 1 \in 1..Len(x)
          BY <4>3
        <5>3. json[here - 1 + 1] = x[1]
          BY ONLY <2>8, <5>2
        <5>4. x[1] \in B
          BY ONLY <2>3, <5>2
        <5> QED BY ONLY <4>3, <5>1, <5>3, <5>4
      <4> QED BY <4>1, <4>2, <4>3
    <3> QED BY <3>1 DEF Clear
  <2>10. here + Len(x \o m) = p + Len(m)
    BY <2>3, <2>5, <2>8 DEF p
  <2>11. StandsAt(json, p + Len(m), y)
    BY <2>6, <2>10
  <2> QED BY <2>7, <2>9, <2>11 DEF m, y
<1>8. \A i \in 0..k-1 : (i \in H /\ i < k - 1) => i + 1 \in H
  <2>1. ASSUME NEW i \in 0..k-1, i \in H, i < k - 1
        PROVE  i + 1 \in H
    <3> DEFINE m == members[i + 1]
    <3>1. PICK pos : /\ StandsAt(json, pos, m) /\ Clear(pos)
                     /\ StandsAt(json, pos + Len(m), from[i + 2])
      BY <1>7, <2>1
    <3>2. m \in Seq(A) /\ m \in Seq(B)
      <4>1. i + 1 \in 1..n /\ i + 1 \in 1..k-1
        BY <1>4, <2>1
      <4> QED BY <1>2, <4>1
    <3>3. Len(m) \in Nat /\ \A q \in 1..Len(m) : m[q] \in B
      BY <3>2
    <3> HIDE DEF m
    <3>4. pos \in Nat \ {0} /\ \A q \in 1..Len(m) : json[pos - 1 + q] = m[q]
      BY <3>1 DEF StandsAt
    <3>5. Clear(pos + Len(m))
      <4>1. ASSUME NEW j \in 1..(pos + Len(m)) - 1
            PROVE  json[j] \in B
        <5>1. j \in 1..pos-1 \/ (j - pos + 1 \in 1..Len(m) /\ pos - 1 + (j - pos + 1) = j)
          BY <3>3, <3>4
        <5>2. CASE j \in 1..pos-1
          BY <3>1, <5>2
        <5>3. CASE j - pos + 1 \in 1..Len(m) /\ pos - 1 + (j - pos + 1) = j
          <6> DEFINE q == j - pos + 1
          <6>1. q \in 1..Len(m) /\ pos - 1 + q = j
            BY <5>3
          <6> HIDE DEF q
          <6> QED BY <3>3, <3>4, <6>1
        <5> QED BY <5>1, <5>2, <5>3
      <4> QED BY <4>1
    <3>6. i + 2 = i + 1 + 1 /\ i + 1 \in Nat
      OBVIOUS
    <3> HIDE DEF Clear
    <3>7. StandsAt(json, pos + Len(m), from[i + 1 + 1]) /\ Clear(pos + Len(m))
      BY <3>1, <3>5, <3>6
    <3> QED BY <3>6, <3>7
  <2> QED BY <2>1
<1> HIDE DEF H
<1>9. k - 1 \in H
  <2>1. k - 1 \in Nat /\ k - 1 \in 0..k-1
    BY <1>4
  <2>2. \A i \in 0..k-1 : i \in H
    BY <1>6, <1>8, <2>1, UpTo
  <2> QED BY <2>1, <2>2
<1>10. \E pos : StandsAt(json, pos, members[k]) /\ Clear(pos)
  <2>1. k - 1 \in 0..k-1 /\ k - 1 + 1 = k
    BY <1>4
  <2> HIDE DEF Clear
  <2>2. \E pos : StandsAt(json, pos, members[k - 1 + 1]) /\ Clear(pos)
    BY <1>7, <1>9, <2>1
  <2> QED BY <2>1, <2>2
<1> QED BY <1>1, <1>10 DEF json

(* The scanner finds the value of a key that is nowhere in front of it.    *)
LEMMA ValueIsFound ==
  ASSUME NEW T, NEW json \in Seq(T), NEW key, key # "quote", NEW pos,
         StandsAt(json, pos, <<"quote", key, "quote", "colon">>),
         pos + 4 <= Len(json), json[pos + 4] \notin JsonSpace,
         \A j \in 1..pos-1 : json[j] # key
  PROVE  ValueOf(json, key) = pos + 4
<1> DEFINE word == <<"quote", key, "quote">>
           A == {"quote", "colon", key}
<1>1. Quoted(<<key>>) = word
  <2>1. {"quote", "colon"} \subseteq A /\ key \in A
    OBVIOUS
  <2> QED BY ONLY <2>1, KeyIs
<1>2. word \in Seq(A) /\ Len(word) = 3 /\ word[1] = "quote" /\ word[2] = key /\ word[3] = "quote"
  OBVIOUS
<1>3. /\ pos \in Nat \ {0} /\ json[pos - 1 + 1] = "quote" /\ json[pos - 1 + 2] = key
      /\ json[pos - 1 + 3] = "quote" /\ json[pos - 1 + 4] = "colon"
  BY DEF StandsAt
<1>4. /\ json[pos] = "quote" /\ json[pos + 1] = key /\ json[pos + 2] = "quote"
      /\ json[pos + 3] = "colon"
  <2>1. pos - 1 + 1 = pos /\ pos - 1 + 2 = pos + 1 /\ pos - 1 + 3 = pos + 2 /\ pos - 1 + 4 = pos + 3
    BY <1>3
  <2> QED BY <1>3, <2>1
<1> HIDE DEF word, A
<1>5. Len(json) \in Nat
  OBVIOUS
<1>6. Find(json, word, 1) = pos
  <2>1. StandsAt(json, pos, word)
    <3>1. \A k \in 1..3 : k = 1 \/ k = 2 \/ k = 3
      OBVIOUS
    <3>2. \A k \in 1..3 : json[pos - 1 + k] = word[k]
      BY <1>2, <1>3, <3>1
    <3>3. pos + 3 <= Len(json) + 1
      BY <1>3, <1>5
    <3> QED BY <1>2, <1>3, <3>2, <3>3 DEF StandsAt
  <2>2. ASSUME NEW j \in 1..pos-1
        PROVE  ~ StandsAt(json, j, word)
    <3>1. SUFFICES ASSUME StandsAt(json, j, word) PROVE FALSE
      OBVIOUS
    <3>2. json[j - 1 + 2] = key /\ j - 1 + 2 = j + 1
      BY <1>2, <3>1 DEF StandsAt
    <3>3. j + 1 \in 1..pos-1 \/ j + 1 = pos
      BY <1>3
    <3> QED BY <1>4, <3>2, <3>3
  <2>3. 1 \in Nat \ {0} /\ 1 <= pos
    BY <1>3
  <2> QED BY <1>2, <2>1, <2>2, <2>3, FindIs
<1>7. Find(json, <<"colon">>, pos + 3) = pos + 3
  <2>1. <<"colon">> \in Seq({"colon"}) /\ Len(<<"colon">>) = 1 /\ <<"colon">>[1] = "colon"
    OBVIOUS
  <2>2. pos + 3 \in Nat \ {0} /\ pos + 3 + 1 <= Len(json) + 1 /\ pos + 3 - 1 + 1 = pos + 3
    BY <1>3, <1>5
  <2>3. StandsAt(json, pos + 3, <<"colon">>)
    <3>1. \A k \in 1..1 : k = 1
      OBVIOUS
    <3>2. \A k \in 1..1 : json[pos + 3 - 1 + k] = <<"colon">>[k]
      BY <1>4, <2>1, <2>2, <3>1
    <3> QED BY <2>1, <2>2, <3>2 DEF StandsAt
  <2>4. \A j \in (pos + 3)..(pos + 3) - 1 : ~ StandsAt(json, j, <<"colon">>)
    BY <1>3
  <2>5. pos + 3 <= pos + 3
    BY <1>3
  <2> QED BY ONLY <2>1, <2>2, <2>3, <2>4, <2>5, FindIs, json \in Seq(T)
<1>8. Behind(json, key, "colon") = pos + 4
  <2>1. pos # 0 /\ pos + 3 # 0 /\ pos + 3 + 1 = pos + 4
    BY <1>3
  <2> QED BY ONLY <1>1, <1>6, <1>7, <2>1 DEF Behind
<1>9. PastAll(json, pos + 4, JsonSpace) = pos + 4
  <2>1. pos + 4 \in 1..Len(json)+1
    BY <1>3, <1>5
  <2> QED BY <2>1, PastAllStands
<1> QED
  <2>1. pos + 4 # 0
    BY <1>3
  <2> QED BY ONLY <1>8, <1>9, <2>1 DEF ValueOf

(* The scanner finds the value of a member of an object, if the members in *)
(* front of it do not have its key in them.                                *)
LEMMA MemberIsFound ==
  ASSUME NEW A, {"comma", "lbrace", "rbrace", "quote", "colon"} \subseteq A,
         NEW members, AreTexts(members, A), NEW k \in 1..Len(members),
         NEW key \in A, key \notin {"comma", "lbrace", "quote"},
         \A i \in 1..k-1 : members[i] \in Seq(A \ {key}),
         NEW value \in Seq(A), members[k] = Member(key, value),
         value # <<>>, value[1] \notin JsonSpace
  PROVE  LET pos == ValueOf(Object(members), key)
         IN  pos # 0 /\ StandsAt(Object(members), pos, value) /\ Object(members) \in Seq(A)
<1> DEFINE json == Object(members)
           B == A \ {key}
           front == <<"quote", key, "quote", "colon">>
<1>1. {"comma", "lbrace", "rbrace"} \subseteq A /\ {"comma", "lbrace"} \subseteq B
      /\ {"quote", "colon"} \subseteq A
  OBVIOUS
<1>2. json \in Seq(A) /\ \E pos : /\ StandsAt(json, pos, members[k])
                                  /\ \A j \in 1..pos-1 : json[j] \in B
  <2> HIDE DEF B
  <2>1. \A i \in 1..k-1 : members[i] \in Seq(B)
    BY DEF B
  <2> QED BY ONLY <1>1, <2>1, MemberStands, AreTexts(members, A), k \in 1..Len(members)
<1>3. members[k] = front \o value
  BY <1>1, MemberIs
<1>4. front \in Seq(A) /\ Len(front) = 4 /\ Len(value) \in Nat \ {0}
  OBVIOUS
<1> HIDE DEF json
<1>5. PICK pos : StandsAt(json, pos, front \o value) /\ \A j \in 1..pos-1 : json[j] \in B
  BY <1>2, <1>3
<1>6. StandsAt(json, pos, front) /\ StandsAt(json, pos + 4, value)
  <2>1. StandsAt(json, pos, front) /\ StandsAt(json, pos + Len(front), value)
    <3> HIDE DEF front
    <3> QED BY ONLY <1>2, <1>4, <1>5, PartsStand, value \in Seq(A)
  <2> QED BY <1>4, <2>1
<1>7. pos \in Nat \ {0} /\ pos + 4 + Len(value) <= Len(json) + 1
      /\ json[pos + 4 - 1 + 1] = value[1] /\ Len(json) \in Nat
  <2>1. pos \in Nat \ {0}
    BY <1>6 DEF StandsAt
  <2>2. pos + 4 + Len(value) <= Len(json) + 1 /\ json[pos + 4 - 1 + 1] = value[1]
    BY <1>4, <1>6 DEF StandsAt
  <2> QED BY <1>2, <2>1, <2>2
<1>8. pos + 4 <= Len(json) /\ json[pos + 4] = value[1] /\ pos + 4 # 0
  <2>1. pos + 4 - 1 + 1 = pos + 4
    BY <1>7
  <2> QED BY <1>4, <1>7, <2>1
<1>9. ValueOf(json, key) = pos + 4
  <2>1. key # "quote" /\ \A j \in 1..pos-1 : json[j] # key
    BY <1>5
  <2>2. json[pos + 4] \notin JsonSpace
    BY <1>8
  <2> QED BY ONLY <1>2, <1>6, <1>8, <2>1, <2>2, ValueIsFound DEF front
<1> QED BY <1>2, <1>6, <1>8, <1>9 DEF json

(* The client reads a string of an object as it was before it was written. *)
LEMMA MemberComesBack ==
  ASSUME NEW A, {"comma", "lbrace", "rbrace", "quote", "colon"} \subseteq A,
         NEW members, AreTexts(members, A), NEW k \in 1..Len(members),
         NEW key \in A, key \notin {"comma", "lbrace", "quote"},
         \A i \in 1..k-1 : members[i] \in Seq(A \ {key}),
         NEW S, NEW s \in Seq(S), \A i \in 1..Len(s) : s[i] # "ctl",
         (S \ DOMAIN Letter) \cup Escapes \subseteq A,
         members[k] = Member(key, Quoted(EscapeJson(s)))
  PROVE  ExtractJsonString(Object(members), key) = s
<1> DEFINE json == Object(members)
           written == EscapeJson(s)
           value == Quoted(written)
           pos == ValueOf(json, key)
<1>1. written \in Seq(A)
  <2>1. written \in Seq((S \ DOMAIN Letter) \cup Escapes)
    BY EscapeJsonHasNoControl
  <2> HIDE DEF written
  <2> QED BY <2>1
<1>2. value = <<"quote">> \o (written \o <<"quote">>) /\ value \in Seq(A)
  <2> HIDE DEF written
  <2> QED BY ONLY <1>1, QuotedIs, "quote" \in A DEF value
<1> HIDE DEF value
<1>3. /\ <<"quote">> \in Seq(A) /\ Len(<<"quote">>) = 1 /\ <<"quote">>[1] = "quote"
      /\ written \o <<"quote">> \in Seq(A)
  <2> HIDE DEF written
  <2> QED BY <1>1
<1>4. value # <<>> /\ value[1] = "quote"
  <2> DEFINE rest == written \o <<"quote">>
  <2>1. value = <<"quote">> \o rest /\ rest \in Seq(A)
    BY <1>2, <1>3
  <2> HIDE DEF rest
  <2>2. Len(<<"quote">> \o rest) = 1 + Len(rest) /\ (<<"quote">> \o rest)[1] = "quote"
    BY <1>3, <2>1
  <2> QED BY <2>1, <2>2
<1>5. "quote" \notin JsonSpace
  BY MarksAreNoSpace
<1>6. pos # 0 /\ StandsAt(json, pos, value) /\ json \in Seq(A)
  <2>1. members[k] = Member(key, value)
    BY DEF value
  <2>2. value[1] \notin JsonSpace
    BY ONLY <1>4, <1>5
  <2> HIDE DEF written
  <2> QED BY ONLY <1>2, <1>4, <2>1, <2>2, MemberIsFound,
           {"comma", "lbrace", "rbrace", "quote", "colon"} \subseteq A,
           AreTexts(members, A), k \in 1..Len(members), key \in A,
           key \notin {"comma", "lbrace", "quote"},
           \A i \in 1..k-1 : members[i] \in Seq(A \ {key})
<1> HIDE DEF json, pos, written
<1>7. StandsAt(json, pos, <<"quote">>) /\ StandsAt(json, pos + 1, written \o <<"quote">>)
  <2>1. StandsAt(json, pos, <<"quote">> \o (written \o <<"quote">>))
    BY ONLY <1>2, <1>6
  <2>2. /\ StandsAt(json, pos, <<"quote">>)
        /\ StandsAt(json, pos + Len(<<"quote">>), written \o <<"quote">>)
    BY ONLY <1>3, <1>6, <2>1, PartsStand
  <2> QED BY <1>3, <2>2
<1>8. At(json, pos) = "quote"
  <2>1. pos \in Nat \ {0} /\ pos + 1 <= Len(json) + 1 /\ json[pos - 1 + 1] = "quote"
    BY <1>3, <1>7 DEF StandsAt
  <2>2. pos - 1 + 1 = pos /\ pos \in 1..Len(json) /\ DOMAIN json = 1..Len(json)
    BY <1>6, <2>1
  <2> QED BY <2>1, <2>2 DEF At
<1>9. StringFrom(json, pos + 1, ControlLetters)
        = [text |-> s, next |-> pos + 1 + Len(written) + 1]
  <2>1. StandsAt(json, pos + 1, EscapeJson(s) \o <<"quote">>)
    BY <1>7 DEF written
  <2> QED BY ONLY <1>6, <2>1, StringComesBack, s \in Seq(S),
           \A i \in 1..Len(s) : s[i] # "ctl" DEF written
<1>10. pos + 1 + Len(written) + 1 # 0
  <2>1. pos \in Nat /\ Len(written) \in Nat
    BY <1>1, <1>7 DEF StandsAt
  <2> QED BY <2>1
<1>11. ExtractJsonString(json, key) = s
  BY ONLY <1>6, <1>8, <1>9, <1>10 DEF ExtractJsonString, pos
<1> QED BY <1>11 DEF json

(* The members of an answer are texts.                                     *)
LEMMA AnswerMembers ==
  ASSUME NEW S, NEW ranked, AreTexts(ranked, S),
         NEW rerank_top1 \in Seq(S), NEW final_top1 \in Seq(S), NEW overwritten, NEW A,
         (S \ DOMAIN Letter) \cup Escapes \subseteq A,
         {"comma", "colon", "[", "]", "quote", "true", "false"} \subseteq A
  PROVE  /\ "ok" \in A => Member("ok", <<"true">>) \in Seq(A)
         /\ "ranked_surfaces" \in A =>
              Member("ranked_surfaces", Strings(EscapedAll(ranked))) \in Seq(A)
         /\ "rerank_top1" \in A =>
              Member("rerank_top1", Quoted(EscapeJson(rerank_top1))) \in Seq(A)
         /\ "final_top1" \in A =>
              Member("final_top1", Quoted(EscapeJson(final_top1))) \in Seq(A)
         /\ "overwritten" \in A =>
              Member("overwritten", <<IF overwritten THEN "true" ELSE "false">>) \in Seq(A)
<1>1. {"quote", "colon"} \subseteq A /\ {"comma", "[", "]"} \subseteq A
  OBVIOUS
<1>2. Strings(EscapedAll(ranked)) \in Seq(A)
  <2>1. AreTexts(EscapedAll(ranked), A)
    BY EscapedAllAre
  <2> QED BY ONLY <1>1, <2>1, StringsAre
<1>3. ASSUME NEW s \in Seq(S)
      PROVE  Quoted(EscapeJson(s)) \in Seq(A)
  <2>1. EscapeJson(s) \in Seq((S \ DOMAIN Letter) \cup Escapes)
    BY EscapeJsonHasNoControl
  <2>2. EscapeJson(s) \in Seq(A)
    BY <2>1
  <2> QED BY ONLY <1>1, <2>2, QuotedIs
<1>4. Quoted(EscapeJson(rerank_top1)) \in Seq(A) /\ Quoted(EscapeJson(final_top1)) \in Seq(A)
  BY <1>3
<1>5. <<"true">> \in Seq(A) /\ <<IF overwritten THEN "true" ELSE "false">> \in Seq(A)
  OBVIOUS
<1>6. ASSUME NEW key \in A, NEW value \in Seq(A)
      PROVE  Member(key, value) \in Seq(A)
  BY ONLY <1>1, MemberIs, key \in A, value \in Seq(A)
<1> QED BY ONLY <1>2, <1>4, <1>5, <1>6

(* The client reads an answer of the daemon as it was before it was        *)
(* written: what it ranked, both first candidates, and whether it would    *)
(* show another than before.  The surfaces have no control character, which*)
(* the scanner of the array does not read back, and none of the words the  *)
(* scanner looks for is in them.                                           *)
THEOREM AnswersOfTheDaemonComeBack ==
  ASSUME NEW S, Words \cap S = {}, {"nl", "cr", "tab", "ctl"} \cap S = {},
         NEW ranked \in Seq(Seq(S)), NEW rerank_top1 \in Seq(S), NEW final_top1 \in Seq(S),
         NEW overwritten \in BOOLEAN
  PROVE  ParseHookResponse(ResponseLine(ranked, rerank_top1, final_top1, overwritten)) =
           [ok |-> ranked # <<>>, ranked_surfaces |-> ranked,
            rerank_top1 |-> rerank_top1,
            final_top1 |-> IF final_top1 = <<>> /\ ranked # <<>> THEN ranked[1] ELSE final_top1,
            overwritten |-> overwritten]
<1> DEFINE Texts == Seq(S)
           marks == {"comma", "colon", "[", "]", "lbrace", "rbrace", "quote", "true", "false", "ok"}
           A == S \cup Escapes \cup marks \cup Words
           json == ResponseLine(ranked, rerank_top1, final_top1, overwritten)
           m1 == Member("ok", <<"true">>)
           m2 == Member("ranked_surfaces", Strings(EscapedAll(ranked)))
           m3 == Member("rerank_top1", Quoted(EscapeJson(rerank_top1)))
           m4 == Member("final_top1", Quoted(EscapeJson(final_top1)))
           value == <<IF overwritten THEN "true" ELSE "false">>
           m5 == Member("overwritten", value)
           members == <<m1, m2, m3, m4, m5>>
<1>0. ranked \in Seq(Texts) /\ AreTexts(ranked, S)
  BY DEF AreTexts
<1>1. json = Object(members)
  BY DEF ResponseLine
<1>2. /\ "rerank_top1" \in Words /\ "final_top1" \in Words /\ "overwritten" \in Words
      /\ "ranked_surfaces" \in Words
      /\ \A key \in Words : key \notin S /\ key \notin Escapes /\ key \notin marks
  BY DEF Words, Escapes, Letter
<1>3. /\ (S \ DOMAIN Letter) \cup Escapes \subseteq A
      /\ {"comma", "colon", "[", "]", "quote", "true", "false"} \subseteq A
      /\ {"comma", "lbrace", "rbrace", "quote", "colon"} \subseteq A
      /\ "ok" \in A
      /\ \A key \in Words :
           /\ key \in A /\ key \notin {"comma", "lbrace", "quote"}
           /\ (S \ DOMAIN Letter) \cup Escapes \subseteq A \ {key}
           /\ {"comma", "colon", "[", "]", "quote", "true", "false"} \subseteq A \ {key}
           /\ "ok" \in A \ {key}
           /\ \A word \in Words : word # key => word \in A \ {key}
  BY <1>2
<1>4. /\ "rerank_top1" # "ranked_surfaces" /\ "final_top1" # "ranked_surfaces"
      /\ "overwritten" # "ranked_surfaces" /\ "final_top1" # "rerank_top1"
      /\ "overwritten" # "rerank_top1" /\ "overwritten" # "final_top1"
  OBVIOUS
<1> HIDE DEF A, json, marks
<1>5. ASSUME NEW V, (S \ DOMAIN Letter) \cup Escapes \subseteq V,
             {"comma", "colon", "[", "]", "quote", "true", "false"} \subseteq V
      PROVE  /\ "ok" \in V => m1 \in Seq(V)
             /\ "ranked_surfaces" \in V => m2 \in Seq(V)
             /\ "rerank_top1" \in V => m3 \in Seq(V)
             /\ "final_top1" \in V => m4 \in Seq(V)
             /\ "overwritten" \in V => m5 \in Seq(V)
  BY ONLY <1>0, <1>5, AnswerMembers, rerank_top1 \in Seq(S), final_top1 \in Seq(S)
<1>6. m1 \in Seq(A) /\ m2 \in Seq(A) /\ m3 \in Seq(A) /\ m4 \in Seq(A) /\ m5 \in Seq(A)
  <2> HIDE DEF m1, m2, m3, m4, m5
  <2> QED BY <1>2, <1>3, <1>5
<1>7. /\ m1 \in Seq(A \ {"rerank_top1"}) /\ m2 \in Seq(A \ {"rerank_top1"})
      /\ m1 \in Seq(A \ {"final_top1"}) /\ m2 \in Seq(A \ {"final_top1"})
      /\ m3 \in Seq(A \ {"final_top1"})
      /\ m1 \in Seq(A \ {"overwritten"}) /\ m2 \in Seq(A \ {"overwritten"})
      /\ m3 \in Seq(A \ {"overwritten"}) /\ m4 \in Seq(A \ {"overwritten"})
  <2> HIDE DEF m1, m2, m3, m4, m5
  <2>1. ASSUME NEW key \in Words
        PROVE  /\ m1 \in Seq(A \ {key})
               /\ key # "ranked_surfaces" => m2 \in Seq(A \ {key})
               /\ key # "rerank_top1" => m3 \in Seq(A \ {key})
               /\ key # "final_top1" => m4 \in Seq(A \ {key})
    <3> DEFINE V == A \ {key}
    <3>1. /\ (S \ DOMAIN Letter) \cup Escapes \subseteq V /\ "ok" \in V
          /\ {"comma", "colon", "[", "]", "quote", "true", "false"} \subseteq V
          /\ \A word \in Words : word # key => word \in V
      BY <1>3
    <3> HIDE DEF V
    <3>2. /\ m1 \in Seq(V)
          /\ "ranked_surfaces" \in V => m2 \in Seq(V)
          /\ "rerank_top1" \in V => m3 \in Seq(V)
          /\ "final_top1" \in V => m4 \in Seq(V)
      BY ONLY <1>5, <3>1
    <3>3. /\ m1 \in Seq(V)
          /\ key # "ranked_surfaces" => m2 \in Seq(V)
          /\ key # "rerank_top1" => m3 \in Seq(V)
          /\ key # "final_top1" => m4 \in Seq(V)
      BY ONLY <1>2, <3>1, <3>2
    <3> QED BY <3>3 DEF V
  <2> QED BY ONLY <1>2, <1>4, <2>1
<1> HIDE DEF m1, m2
<1>8. /\ AreTexts(members, A) /\ Len(members) = 5 /\ members[1] = m1 /\ members[2] = m2
      /\ members[3] = m3 /\ members[4] = m4 /\ members[5] = m5
  <2> HIDE DEF m3, m4, m5
  <2> DEFINE B == Seq(A)
  <2>1. m1 \in B /\ m2 \in B /\ m3 \in B /\ m4 \in B /\ m5 \in B
    BY <1>6
  <2> HIDE DEF B
  <2>2. /\ members \in Seq(B) /\ Len(members) = 5 /\ members[1] = m1 /\ members[2] = m2
        /\ members[3] = m3 /\ members[4] = m4 /\ members[5] = m5
    BY ONLY <2>1 DEF members
  <2> QED BY <2>2 DEF AreTexts, B
<1>9. /\ 3 \in 1..Len(members) /\ 4 \in 1..Len(members) /\ 5 \in 1..Len(members)
      /\ \A i \in 1..3-1 : i = 1 \/ i = 2
      /\ \A i \in 1..4-1 : i = 1 \/ i = 2 \/ i = 3
      /\ \A i \in 1..5-1 : i = 1 \/ i = 2 \/ i = 3 \/ i = 4
  BY <1>8
<1> HIDE DEF members
<1>10. /\ \A i \in 1..3-1 : members[i] \in Seq(A \ {"rerank_top1"})
       /\ \A i \in 1..4-1 : members[i] \in Seq(A \ {"final_top1"})
       /\ \A i \in 1..5-1 : members[i] \in Seq(A \ {"overwritten"})
  <2> HIDE DEF m3, m4
  <2> QED BY ONLY <1>7, <1>8, <1>9
<1>11. \A s \in Seq(S) : \A i \in 1..Len(s) : s[i] # "ctl"
  OBVIOUS
<1>12. ExtractJsonString(json, "rerank_top1") = rerank_top1
  <2> DEFINE key == "rerank_top1"
  <2>1. /\ key \in A /\ key \notin {"comma", "lbrace", "quote"} /\ 3 \in 1..Len(members)
        /\ \A i \in 1..3-1 : members[i] \in Seq(A \ {key})
        /\ members[3] = Member(key, Quoted(EscapeJson(rerank_top1)))
    BY ONLY <1>2, <1>3, <1>8, <1>9, <1>10 DEF m3
  <2>2. \A i \in 1..Len(rerank_top1) : rerank_top1[i] # "ctl"
    BY <1>11
  <2> HIDE DEF key
  <2>3. ExtractJsonString(Object(members), key) = rerank_top1
    <3>1. /\ {"comma", "lbrace", "rbrace", "quote", "colon"} \subseteq A
          /\ (S \ DOMAIN Letter) \cup Escapes \subseteq A
          /\ AreTexts(members, A)
      BY ONLY <1>3, <1>8
    <3> QED BY ONLY <2>1, <2>2, <3>1, MemberComesBack, rerank_top1 \in Seq(S)
  <2> QED BY ONLY <1>1, <2>3 DEF key
<1>13. ExtractJsonString(json, "final_top1") = final_top1
  <2> DEFINE key == "final_top1"
  <2>1. /\ key \in A /\ key \notin {"comma", "lbrace", "quote"} /\ 4 \in 1..Len(members)
        /\ \A i \in 1..4-1 : members[i] \in Seq(A \ {key})
        /\ members[4] = Member(key, Quoted(EscapeJson(final_top1)))
    BY ONLY <1>2, <1>3, <1>8, <1>9, <1>10 DEF m4
  <2>2. \A i \in 1..Len(final_top1) : final_top1[i] # "ctl"
    BY <1>11
  <2> HIDE DEF key
  <2>3. ExtractJsonString(Object(members), key) = final_top1
    <3>1. /\ {"comma", "lbrace", "rbrace", "quote", "colon"} \subseteq A
          /\ (S \ DOMAIN Letter) \cup Escapes \subseteq A
          /\ AreTexts(members, A)
      BY ONLY <1>3, <1>8
    <3> QED BY ONLY <2>1, <2>2, <3>1, MemberComesBack, final_top1 \in Seq(S)
  <2> QED BY ONLY <1>1, <2>3 DEF key
<1>14. ExtractJsonBool(json, "overwritten") = overwritten
  <2> DEFINE pos == ValueOf(json, "overwritten")
  <2>1. /\ value \in Seq(A) /\ value # <<>> /\ Len(value) = 1
        /\ value[1] = (IF overwritten THEN "true" ELSE "false")
    BY <1>3
  <2>2. value[1] \notin JsonSpace
    <3>1. "true" # Space /\ "false" # Space
      BY DEF Space
    <3> QED BY <2>1, <3>1 DEF JsonSpace
  <2>3. pos # 0 /\ StandsAt(json, pos, value) /\ json \in Seq(A)
    <3> DEFINE key == "overwritten"
    <3>1. /\ key \in A /\ key \notin {"comma", "lbrace", "quote"} /\ 5 \in 1..Len(members)
          /\ \A i \in 1..5-1 : members[i] \in Seq(A \ {key})
          /\ members[5] = Member(key, value)
      BY ONLY <1>2, <1>3, <1>8, <1>9, <1>10 DEF m5
    <3> HIDE DEF key, value
    <3>2. /\ ValueOf(Object(members), key) # 0
          /\ StandsAt(Object(members), ValueOf(Object(members), key), value)
          /\ Object(members) \in Seq(A)
      BY ONLY <1>3, <1>8, <2>1, <2>2, <3>1, MemberIsFound
    <3> QED BY ONLY <1>1, <3>2 DEF key
  <2> HIDE DEF value
  <2>4. At(json, pos) = value[1]
    <3>1. pos \in Nat \ {0} /\ pos + 1 <= Len(json) + 1 /\ json[pos - 1 + 1] = value[1]
      BY <2>1, <2>3 DEF StandsAt
    <3> HIDE DEF pos
    <3>2. pos - 1 + 1 = pos /\ pos \in 1..Len(json) /\ DOMAIN json = 1..Len(json)
      BY <2>3, <3>1
    <3> QED BY <3>1, <3>2 DEF At
  <2>5. ExtractJsonBool(json, "overwritten") = (value[1] = "true")
    BY ONLY <2>3, <2>4 DEF ExtractJsonBool
  <2> QED BY <2>1, <2>5
<1>15. ParseHookResponse(json).ranked_surfaces = ranked
       /\ ParseHookResponse(json).ok = (ranked # <<>>)
  <2>1. \A i \in DOMAIN ranked : NoControl(ranked[i])
    <3>1. \A s \in Texts : NoControl(s)
      BY DEF NoControl
    <3> HIDE DEF Texts
    <3> QED BY <1>0, <3>1
  <2> QED BY ONLY <2>1, RankedSurfacesComeBack, ranked \in Seq(Seq(S)), rerank_top1 \in Seq(S),
           final_top1 \in Seq(S) DEF json
<1>16. ExtractJsonStringArray(json, "ranked_surfaces") = ranked
  BY ONLY <1>15 DEF ParseHookResponse
<1> QED BY ONLY <1>12, <1>13, <1>14, <1>16 DEF ParseHookResponse, json

(* A surface comes back from the daemon as it was, whatever its symbols    *)
(* are.                                                                    *)
THEOREM SurfacesComeBack ==
  ASSUME NEW S, NEW s \in Seq(S)
  PROVE  SurfaceComesBack(s)
<1> DEFINE other == <<"b">>
           ranked == <<s, other>>
           bad == {"nl", "cr", "tab", "ctl"} \cup Words
<1>1. Find(RequestLine(s, s, ranked), <<"nl">>, 1) = Len(RequestLine(s, s, ranked))
  <2> DEFINE B == S \cup {"b"}
             C == Seq(B)
  <2>1. s \in C /\ other \in C /\ s \in Seq(B)
    OBVIOUS
  <2> HIDE DEF C, other
  <2>2. ranked \in Seq(C)
    BY <2>1
  <2> HIDE DEF B, ranked
  <2> QED BY ONLY <2>1, <2>2, RequestIsOneLine DEF C
<1>2. Decoded(EscapeJson(s)) = s
  BY EscapedReadsBack
<1>3. ASSUME s # <<>>, \A i \in DOMAIN s : s[i] \notin bad
      PROVE  ParseHookResponse(ResponseLine(ranked, s, s, TRUE)) =
               [ok |-> TRUE, ranked_surfaces |-> ranked, rerank_top1 |-> s, final_top1 |-> s,
                overwritten |-> TRUE]
  <2> DEFINE B == (S \ bad) \cup {"b"}
             C == Seq(B)
             yes == TRUE
  <2>1. s \in Seq(B)
    <3>1. \A i \in 1..Len(s) : s[i] \in B
      BY <1>3
    <3>2. Len(s) \in Nat /\ s = [i \in 1..Len(s) |-> s[i]]
      OBVIOUS
    <3> HIDE DEF B
    <3>3. s \in [1..Len(s) -> B]
      BY <3>1, <3>2
    <3> QED BY <3>2, <3>3
  <2>2. s \in C /\ other \in C
    BY <2>1
  <2>3. Words \cap B = {} /\ {"nl", "cr", "tab", "ctl"} \cap B = {}
    BY DEF Words
  <2> HIDE DEF C, other
  <2>4. ranked \in Seq(C) /\ ranked # <<>>
    BY <2>2
  <2> HIDE DEF B, ranked
  <2>5. ranked \in Seq(Seq(B)) /\ yes \in BOOLEAN
    BY <2>4 DEF C
  <2> HIDE DEF yes
  <2>6. ParseHookResponse(ResponseLine(ranked, s, s, yes)) =
          [ok |-> ranked # <<>>, ranked_surfaces |-> ranked, rerank_top1 |-> s,
           final_top1 |-> IF s = <<>> /\ ranked # <<>> THEN ranked[1] ELSE s,
           overwritten |-> yes]
    BY ONLY <2>1, <2>3, <2>5, AnswersOfTheDaemonComeBack
  <2>7. (ranked # <<>>) = TRUE /\ (IF s = <<>> /\ ranked # <<>> THEN ranked[1] ELSE s) = s
    BY ONLY <1>3, <2>4
  <2> QED BY ONLY <2>6, <2>7 DEF yes
<1> QED BY ONLY <1>1, <1>2, <1>3 DEF SurfaceComesBack

(* The characters the backends read in place of the letters behind a       *)
(* backslash.                                                              *)
Unescaped == {"nl", "cr", "tab", "quote", "bslash"}

(* A step of UnescapeJson: it gives one symbol, what an escaped character  *)
(* stood for or the symbol itself.                                         *)
LEMMA UnescapedSteps ==
  ASSUME NEW V, NEW x \in Seq(V), NEW i \in 1..Len(x)
  PROVE  /\ UnescapedStep(x, i).out \in Seq(V \cup Unescaped)
         /\ UnescapedStep(x, i).next \in (i + 1)..(Len(x) + 1)
         /\ x[i] # "bslash" => UnescapedStep(x, i) = Copy(x, i)
         /\ \A c \in DOMAIN Letter \ {"ctl"} :
              x[i] = "bslash" /\ i < Len(x) /\ x[i + 1] = Letter[c] =>
                UnescapedStep(x, i) = Replace(i + 2, <<c>>)
<1> DEFINE mark == [n |-> "nl", r |-> "cr", t |-> "tab", quote |-> "quote", bslash |-> "bslash"]
           n == Len(x)
           W == V \cup Unescaped
<1>1. UnescapedStep(x, i) = IF x[i] = "bslash" /\ At(x, i + 1) \in DOMAIN mark
                            THEN Replace(i + 2, <<mark[x[i + 1]]>>) ELSE Copy(x, i)
  BY DEF UnescapedStep
<1>2. n \in Nat /\ DOMAIN x = 1..n /\ x[i] \in W
  OBVIOUS
<1>3. DOMAIN mark = {"n", "r", "t", "quote", "bslash"} /\ \A c \in DOMAIN mark : mark[c] \in W
  BY DEF Unescaped
<1>4. \A c \in DOMAIN Letter \ {"ctl"} : Letter[c] \in DOMAIN mark /\ mark[Letter[c]] = c
  BY DEF Letter
<1> HIDE DEF mark, n, W
<1>5. At(x, i + 1) \in DOMAIN mark => i + 1 \in 1..n /\ At(x, i + 1) = x[i + 1]
  <2>1. "end" \notin DOMAIN mark
    BY <1>3
  <2> QED BY <1>2, <2>1 DEF At
<1>6. i + 1 \in 1..n => At(x, i + 1) = x[i + 1]
  BY <1>2 DEF At
<1>7. CASE x[i] = "bslash" /\ At(x, i + 1) \in DOMAIN mark
  <2>1. UnescapedStep(x, i) = [out |-> <<mark[x[i + 1]]>>, next |-> i + 2]
    BY <1>1, <1>7 DEF Replace
  <2>2. mark[x[i + 1]] \in W
    BY <1>3, <1>5, <1>7
  <2>3. <<mark[x[i + 1]]>> \in Seq(W)
    BY <2>2
  <2>4. i + 2 \in (i + 1)..(n + 1)
    BY <1>2, <1>5, <1>7
  <2>5. ASSUME NEW c \in DOMAIN Letter \ {"ctl"}, x[i + 1] = Letter[c]
        PROVE  UnescapedStep(x, i) = Replace(i + 2, <<c>>)
    <3>1. mark[x[i + 1]] = c
      BY <1>4, <2>5
    <3> QED BY <2>1, <3>1 DEF Replace
  <2> QED BY <1>7, <2>1, <2>3, <2>4, <2>5 DEF n, W
<1>8. CASE ~ (x[i] = "bslash" /\ At(x, i + 1) \in DOMAIN mark)
  <2>1. UnescapedStep(x, i) = Copy(x, i) /\ Copy(x, i) = [out |-> <<x[i]>>, next |-> i + 1]
    BY <1>1, <1>8 DEF Copy
  <2>2. <<x[i]>> \in Seq(W) /\ i + 1 \in (i + 1)..(n + 1)
    BY <1>2 DEF n
  <2>3. \A c \in DOMAIN Letter \ {"ctl"} : ~ (x[i] = "bslash" /\ i < n /\ x[i + 1] = Letter[c])
    <3>1. i < n => i + 1 \in 1..n
      BY <1>2
    <3> QED BY <1>4, <1>6, <1>8, <3>1
  <2> QED BY <2>1, <2>2, <2>3 DEF n, W
<1> QED BY <1>7, <1>8

(* UnescapeJson builds its text place by place.                            *)
LEMMA UnescapedJoins ==
  ASSUME NEW V, NEW x \in Seq(V)
  PROVE  \E rest :
           /\ rest[Len(x)+1] = <<>>
           /\ \A i \in 1..Len(x) :
                rest[i] = UnescapedStep(x, i).out \o rest[UnescapedStep(x, i).next]
           /\ UnescapeJson(x) = rest[1]
           /\ UnescapeJson(x) \in Seq(V \cup Unescaped)
<1> DEFINE n == Len(x)
           W == V \cup Unescaped
           steps == [i \in 1..n |-> UnescapedStep(x, i)]
<1>1. UnescapeJson(x) = Built(steps, n)
  BY DEF UnescapeJson, Scan
<1>2. n \in Nat /\ DOMAIN steps = 1..n /\ \A i \in 1..n : steps[i] = UnescapedStep(x, i)
  OBVIOUS
<1>3. \A i \in 1..n : /\ UnescapedStep(x, i).out \in Seq(W)
                      /\ UnescapedStep(x, i).next \in (i + 1)..(n + 1)
  BY UnescapedSteps
<1> HIDE DEF n, W, steps
<1>4. AreSteps(steps, n, W)
  BY <1>2, <1>3 DEF AreSteps
<1>5. PICK rest : IsRest(rest, steps, n, W) /\ Built(steps, n) = rest[1]
  BY <1>4, BuiltJoins
<1>6. 1 \in 1..n+1
  BY <1>2
<1>7. rest[1] \in Seq(W)
  BY <1>5, <1>6 DEF IsRest
<1> QED BY <1>1, <1>2, <1>5, <1>7 DEF IsRest, n, W

(* What a backend reads of an escaped text is the text, if no character of *)
(* it is one the backends do not unescape.                                 *)
THEOREM UnescapedReadsBack ==
  ASSUME NEW S, NEW s \in Seq(S), \A i \in 1..Len(s) : s[i] # "ctl"
  PROVE  UnescapeJson(EscapeJson(s)) = s
<1> DEFINE n == Len(s)
           A == (S \ DOMAIN Letter) \cup Escapes
           e == EscapeJson(s)
<1>1. n \in Nat
  OBVIOUS
<1>2. e \in Seq(A)
  BY EscapeJsonHasNoControl
<1>3. StandsAt(e, 1, e) /\ Len(e) \in Nat
  <2> HIDE DEF A, e
  <2> QED BY <1>2 DEF StandsAt
<1>4. PICK place : /\ StandsEscaped(e, place, s)
                   /\ place[1] = 1 /\ place[n+1] = 1 + Len(e)
  <2> HIDE DEF A
  <2> QED BY <1>2, <1>3, EscapedStands
<1>5. PICK read : /\ read[Len(e)+1] = <<>> /\ UnescapeJson(e) = read[1]
                  /\ \A j \in 1..Len(e) :
                       read[j] = UnescapedStep(e, j).out \o read[UnescapedStep(e, j).next]
  <2> HIDE DEF A, e
  <2>1. PICK rest :
          /\ rest[Len(e)+1] = <<>>
          /\ \A i \in 1..Len(e) :
               rest[i] = UnescapedStep(e, i).out \o rest[UnescapedStep(e, i).next]
          /\ UnescapeJson(e) = rest[1]
          /\ UnescapeJson(e) \in Seq(A \cup Unescaped)
    BY ONLY <1>2, UnescapedJoins
  <2> QED BY ONLY <2>1
<1>6. /\ From(s, 1) = s /\ From(s, n + 1) = <<>>
      /\ \A i \in 1..n : From(s, i) = <<s[i]>> \o From(s, i + 1)
  BY RestOfText
<1> HIDE DEF e, A
<1>7. ASSUME NEW i \in 1..n, read[place[i+1]] = From(s, i + 1)
      PROVE  read[place[i]] = From(s, i)
  <2>1. /\ place[i] \in Nat \ {0} /\ place[i+1] \in Nat \ {0} /\ place[i+1] <= Len(e) + 1
        /\ s[i] \in DOMAIN Letter =>
             /\ e[place[i]] = "bslash" /\ e[place[i] + 1] = Letter[s[i]]
             /\ place[i + 1] = place[i] + 2
        /\ s[i] \notin DOMAIN Letter => e[place[i]] = s[i] /\ place[i + 1] = place[i] + 1
    <3>1. i \in 1..n+1 /\ i + 1 \in 1..n+1
      BY <1>1
    <3> QED BY <1>4, <3>1 DEF StandsEscaped
  <2>2. place[i] \in 1..Len(e)
    BY <1>3, <2>1
  <2> DEFINE p == place[i]
  <2>3. UnescapedStep(e, p).out = <<s[i]>> /\ UnescapedStep(e, p).next = place[i+1]
    <3>1. CASE s[i] \in DOMAIN Letter
      <4>1. e[p] = "bslash" /\ p < Len(e) /\ place[i+1] = p + 2 /\ e[p + 1] = Letter[s[i]]
        BY <1>3, <2>1, <3>1
      <4>2. s[i] \in DOMAIN Letter \ {"ctl"}
        BY <3>1
      <4>3. UnescapedStep(e, p) = Replace(p + 2, <<s[i]>>)
        <5> HIDE DEF p
        <5> QED BY ONLY <1>2, <2>2, <4>1, <4>2, UnescapedSteps DEF p
      <4> QED BY <4>1, <4>3 DEF Replace
    <3>2. CASE s[i] \notin DOMAIN Letter
      <4>1. e[p] = s[i] /\ s[i] # "bslash" /\ place[i+1] = p + 1
        BY <2>1, <3>2 DEF Letter
      <4>2. UnescapedStep(e, p) = Copy(e, p)
        <5> HIDE DEF p
        <5> QED BY ONLY <1>2, <2>2, <4>1, UnescapedSteps DEF p
      <4> QED BY <4>1, <4>2 DEF Copy
    <3> QED BY <3>1, <3>2
  <2>4. read[place[i]] = <<s[i]>> \o read[place[i+1]]
    BY <1>5, <2>2, <2>3
  <2> QED BY <1>6, <1>7, <2>4
<1> DEFINE H == {m \in 0..n : read[place[n+1-m]] = From(s, n + 1 - m)}
<1>8. 0 \in H
  BY <1>1, <1>3, <1>4, <1>5, <1>6
<1>9. ASSUME NEW m \in 0..n, m \in H, m < n
      PROVE  m + 1 \in H
  <2>1. n - m \in 1..n /\ (n - m) + 1 = n + 1 - m /\ n + 1 - (m + 1) = n - m /\ m + 1 \in 0..n
    BY <1>1, <1>9
  <2> QED BY <1>7, <1>9, <2>1
<1>10. n \in H
  <2> HIDE DEF H, n
  <2>1. \A m \in 0..n : m \in H
    BY <1>1, <1>8, <1>9, UpTo
  <2> QED BY <1>1, <2>1
<1>11. n + 1 - n = 1
  BY <1>1
<1> QED BY <1>4, <1>5, <1>6, <1>10, <1>11 DEF e

(* Two texts joined.                                                       *)
LEMMA JoinedParts ==
  ASSUME NEW S, NEW x \in Seq(S), NEW u \in Seq(S)
  PROVE  /\ x \o u \in Seq(S) /\ Len(x \o u) = Len(x) + Len(u)
         /\ \A k \in 1..Len(x) : (x \o u)[k] = x[k]
         /\ \A k \in 1..Len(u) : (x \o u)[Len(x) + k] = u[k]
OBVIOUS

(* The symbol that stands at a place.                                      *)
LEMMA SymbolStands ==
  ASSUME NEW json, NEW pos, NEW u, StandsAt(json, pos, u), Len(u) = 1
  PROVE  pos \in Nat \ {0} /\ pos + 1 <= Len(json) + 1 /\ json[pos] = u[1]
<1>1. /\ pos \in Nat \ {0} /\ pos + Len(u) <= Len(json) + 1
      /\ \A k \in 1..Len(u) : json[pos - 1 + k] = u[k]
  BY DEF StandsAt
<1>2. json[pos - 1 + 1] = u[1] /\ pos - 1 + 1 = pos
  BY <1>1
<1>3. pos + Len(u) = pos + 1
  OBVIOUS
<1> QED BY ONLY <1>1, <1>2, <1>3

(* What stands in front of the text of an answer.                          *)
LEMMA OpeningIs ==
  /\ Opening \in Seq({"quote", "response", "colon"}) /\ Len(Opening) = 5
  /\ Opening[1] = "quote" /\ Opening[2] = "response" /\ Opening[3] = "quote"
  /\ Opening[4] = "colon" /\ Opening[5] = "quote"
<1> DEFINE A == {"quote", "response", "colon"}
           x == <<"quote", "response", "quote">>
           y == <<"colon", "quote">>
<1>1. Quoted(<<"response">>) = x
  <2>1. {"quote", "colon"} \subseteq A /\ "response" \in A
    OBVIOUS
  <2> QED BY ONLY <2>1, KeyIs
<1>2. /\ x \in Seq(A) /\ Len(x) = 3 /\ x[1] = "quote" /\ x[2] = "response" /\ x[3] = "quote"
      /\ y \in Seq(A) /\ Len(y) = 2 /\ y[1] = "colon" /\ y[2] = "quote"
  OBVIOUS
<1>3. Opening = x \o y
  BY ONLY <1>1 DEF Opening
<1> HIDE DEF x, y
<1>4. /\ x \o y \in Seq(A) /\ Len(x \o y) = 5
      /\ \A k \in 1..3 : (x \o y)[k] = x[k]
      /\ \A k \in 1..2 : (x \o y)[3 + k] = y[k]
  <2> HIDE DEF A
  <2>0. x \in Seq(A) /\ y \in Seq(A)
    BY <1>2
  <2>1. x \in Seq(A) /\ y \in Seq(A) /\ Len(x) = 3 /\ Len(y) = 2
    BY <1>2
  <2>2. x \o y \in Seq(A)
    BY ONLY <2>1, JoinedParts
  <2>3. Len(x \o y) = Len(x) + Len(y)
    BY ONLY <2>0
  <2>4. \A k \in 1..Len(x) : (x \o y)[k] = x[k]
    BY ONLY <2>1, JoinedParts
  <2>5. \A k \in 1..Len(y) : (x \o y)[Len(x) + k] = y[k]
    BY ONLY <2>0
  <2> QED BY ONLY <2>1, <2>2, <2>3, <2>4, <2>5
<1>5. 3 + 1 = 4 /\ 3 + 2 = 5 /\ 1 \in 1..3 /\ 2 \in 1..3 /\ 3 \in 1..3 /\ 1 \in 1..2 /\ 2 \in 1..2
  OBVIOUS
<1>6. /\ (x \o y)[1] = x[1] /\ (x \o y)[2] = x[2] /\ (x \o y)[3] = x[3]
      /\ (x \o y)[4] = y[1] /\ (x \o y)[5] = y[2]
  <2>1. (x \o y)[3 + 1] = y[1] /\ (x \o y)[3 + 2] = y[2]
    BY ONLY <1>4, <1>5
  <2> QED BY ONLY <1>4, <1>5, <2>1
<1> QED BY ONLY <1>2, <1>3, <1>4, <1>6

(* The symbols an answer is made of.                                       *)
AnswerSymbols(S) ==
  (S \ DOMAIN Letter) \cup Escapes
  \cup {"comma", "lbrace", "rbrace", "quote", "colon", "response", "done", "true"}

(* Where the text of an answer begins.                                     *)
LEMMA OpeningIsFound ==
  ASSUME NEW S, NEW s \in Seq(S)
  PROVE  LET body == AnswerBody(s)
             start == Find(body, Opening, 1) + 5
         IN  /\ body \in Seq(AnswerSymbols(S)) /\ start \in Nat /\ start > 5
             /\ StandsAt(body, start, EscapeJson(s) \o <<"quote">>)
<1> DEFINE A == AnswerSymbols(S)
           body == AnswerBody(s)
           e == EscapeJson(s)
           tail == e \o <<"quote">>
           value == Quoted(e)
           m1 == Member("response", value)
           m2 == Member("done", <<"true">>)
           members == <<m1, m2>>
           front == <<"quote", "response", "quote", "colon">>
           B == {"comma", "lbrace"}
<1>1. /\ {"comma", "lbrace", "rbrace"} \subseteq A /\ {"quote", "colon"} \subseteq A
      /\ "response" \in A /\ "done" \in A /\ "true" \in A /\ "quote" \in A
      /\ (S \ DOMAIN Letter) \cup Escapes \subseteq A
  BY DEF AnswerSymbols
<1>2. body = Object(members)
  BY DEF AnswerBody
<1> HIDE DEF A, body
<1>3. e \in Seq(A)
  <2>1. e \in Seq((S \ DOMAIN Letter) \cup Escapes)
    BY EscapeJsonHasNoControl
  <2> HIDE DEF e
  <2> QED BY <1>1, <2>1
<1> HIDE DEF e
<1>4. /\ value = <<"quote">> \o tail /\ value \in Seq(A) /\ tail \in Seq(A)
      /\ <<"quote">> \in Seq(A) /\ Len(<<"quote">>) = 1 /\ <<"quote">>[1] = "quote"
  <2>1. /\ <<"quote">> \in Seq(A) /\ Len(<<"quote">>) = 1 /\ <<"quote">>[1] = "quote"
    BY <1>1
  <2>2. tail \in Seq(A)
    BY <1>3, <2>1, ConcatProperties
  <2>3. value = <<"quote">> \o tail /\ value \in Seq(A)
    BY ONLY <1>1, <1>3, QuotedIs
  <2> QED BY <2>1, <2>2, <2>3
<1> HIDE DEF value, tail
<1>5. m1 = front \o value /\ m1 \in Seq(A) /\ m2 \in Seq(A)
  <2>1. <<"true">> \in Seq(A)
    BY <1>1
  <2>2. m1 = front \o value /\ m1 \in Seq(A)
    BY ONLY <1>1, <1>4, MemberIs
  <2>3. m2 \in Seq(A)
    BY ONLY <1>1, <2>1, MemberIs
  <2> QED BY <2>2, <2>3
<1>6. front \in Seq(A) /\ Len(front) = 4 /\ front[1] = "quote" /\ front[2] = "response"
      /\ front[3] = "quote" /\ front[4] = "colon"
  BY <1>1
<1> HIDE DEF m1, m2, front
<1>7. AreTexts(members, A) /\ Len(members) = 2 /\ members[1] = m1
  <2> DEFINE C == Seq(A)
  <2>1. m1 \in C /\ m2 \in C
    BY <1>5
  <2> HIDE DEF C
  <2>2. members \in Seq(C) /\ Len(members) = 2 /\ members[1] = m1
    BY ONLY <2>1
  <2> QED BY <2>2 DEF AreTexts, C
<1> HIDE DEF members
<1>8. /\ body \in Seq(A)
      /\ \E pos : StandsAt(body, pos, front \o value) /\ \A j \in 1..pos-1 : body[j] \in B
  <2>1. 1 \in 1..Len(members) /\ {"comma", "lbrace"} \subseteq B
        /\ \A i \in 1..1-1 : members[i] \in Seq(B)
    BY <1>7
  <2> HIDE DEF B
  <2>2. /\ Object(members) \in Seq(A)
        /\ \E pos : /\ StandsAt(Object(members), pos, members[1])
                    /\ \A j \in 1..pos-1 : Object(members)[j] \in B
    BY ONLY <1>1, <1>7, <2>1, MemberStands
  <2> QED BY ONLY <1>2, <1>5, <1>7, <2>2
<1>9. PICK pos : StandsAt(body, pos, front \o value) /\ \A j \in 1..pos-1 : body[j] \in B
  BY <1>8
<1>10. StandsAt(body, pos, front) /\ StandsAt(body, pos + 4, value)
  <2>1. StandsAt(body, pos, front) /\ StandsAt(body, pos + Len(front), value)
    BY ONLY <1>4, <1>6, <1>8, <1>9, PartsStand
  <2> QED BY <1>6, <2>1
<1>11. StandsAt(body, pos + 4, <<"quote">>) /\ StandsAt(body, pos + 5, tail)
  <2>0. StandsAt(body, pos + 4, <<"quote">> \o tail)
    BY ONLY <1>4, <1>10
  <2>1. /\ StandsAt(body, pos + 4, <<"quote">>)
        /\ StandsAt(body, pos + 4 + Len(<<"quote">>), tail)
    BY ONLY <1>4, <1>8, <2>0, PartsStand
  <2>2. pos \in Nat
    BY <1>10 DEF StandsAt
  <2>3. pos + 4 + Len(<<"quote">>) = pos + 5
    BY <1>4, <2>2
  <2> QED BY <2>1, <2>3
<1>12. /\ pos \in Nat \ {0} /\ body[pos] = "quote" /\ body[pos + 1] = "response"
       /\ body[pos + 2] = "quote" /\ body[pos + 3] = "colon" /\ body[pos + 4] = "quote"
       /\ pos + 5 <= Len(body) + 1 /\ Len(body) \in Nat
  <2>1. /\ pos \in Nat \ {0} /\ body[pos - 1 + 1] = "quote" /\ body[pos - 1 + 2] = "response"
        /\ body[pos - 1 + 3] = "quote" /\ body[pos - 1 + 4] = "colon"
    BY <1>6, <1>10 DEF StandsAt
  <2>2. body[pos + 4] = "quote" /\ pos + 4 + 1 <= Len(body) + 1
    <3> DEFINE q == <<"quote">>
    <3>1. Len(q) = 1 /\ q[1] = "quote" /\ StandsAt(body, pos + 4, q) /\ 1 \in 1..1
      BY <1>4, <1>11
    <3> HIDE DEF q
    <3>2. pos + 4 + 1 <= Len(body) + 1 /\ body[pos + 4] = q[1]
      BY ONLY <3>1, SymbolStands
    <3> QED BY ONLY <3>1, <3>2
  <2>3. /\ pos - 1 + 1 = pos /\ pos - 1 + 2 = pos + 1 /\ pos - 1 + 3 = pos + 2
        /\ pos - 1 + 4 = pos + 3 /\ pos + 4 + 1 = pos + 5
    BY <2>1
  <2>4. Len(body) \in Nat
    BY <1>8
  <2> QED BY ONLY <2>1, <2>2, <2>3, <2>4
<1>13. Find(body, Opening, 1) = pos
  <2>1. StandsAt(body, pos, Opening)
    <3>1. \A k \in 1..5 : k = 1 \/ k = 2 \/ k = 3 \/ k = 4 \/ k = 5
      OBVIOUS
    <3>2. /\ pos - 1 + 1 = pos /\ pos - 1 + 2 = pos + 1 /\ pos - 1 + 3 = pos + 2
          /\ pos - 1 + 4 = pos + 3 /\ pos - 1 + 5 = pos + 4
      BY <1>12
    <3>3. \A k \in 1..5 : body[pos - 1 + k] = Opening[k]
      BY ONLY <1>12, <3>1, <3>2, OpeningIs
    <3> QED BY ONLY <1>12, <3>3, OpeningIs DEF StandsAt
  <2>2. ASSUME NEW j \in 1..pos-1
        PROVE  ~ StandsAt(body, j, Opening)
    <3>1. SUFFICES ASSUME StandsAt(body, j, Opening) PROVE FALSE
      OBVIOUS
    <3>2. body[j - 1 + 1] = "quote" /\ j - 1 + 1 = j
      BY <3>1, OpeningIs DEF StandsAt
    <3>3. body[j] \in B
      BY <1>9
    <3> QED BY ONLY <3>2, <3>3
  <2>3. 1 \in Nat \ {0} /\ 1 <= pos
    BY <1>12
  <2> QED BY ONLY <1>8, <2>1, <2>2, <2>3, OpeningIs, FindIs
<1>14. pos + 5 \in Nat /\ pos + 5 > 5
  BY <1>12
<1> QED BY ONLY <1>8, <1>11, <1>13, <1>14 DEF A, body, tail, e

(* What stands somewhere is the part of the text that begins there.        *)
LEMMA StandingPart ==
  ASSUME NEW T, NEW json \in Seq(T), NEW W, NEW u \in Seq(W), NEW pos, StandsAt(json, pos, u)
  PROVE  SubSeq(json, pos, pos + Len(u) - 1) = u
<1>1. pos \in Nat \ {0}
  BY DEF StandsAt
<1>2. StartsAt(json, u, pos)
  BY <1>1, StartsIs
<1> QED BY <1>2 DEF StartsAt

(* In an escaped text a quote is behind a backslash, and it ends in one    *)
(* only if the text does.                                                  *)
LEMMA QuotesAreEscaped ==
  ASSUME NEW S, NEW s \in Seq(S), NEW T, NEW json \in Seq(T), NEW pos,
         StandsAt(json, pos, EscapeJson(s)), NEW end, end = pos + Len(EscapeJson(s))
  PROVE  /\ \A j \in pos..end-1 : json[j] = "quote" => j # pos /\ json[j - 1] = "bslash"
         /\ (s # <<>> => s[Len(s)] # "bslash") => end = pos \/ json[end - 1] # "bslash"
<1> DEFINE n == Len(s)
<1>1. n \in Nat
  OBVIOUS
<1>2. PICK place : StandsEscaped(json, place, s) /\ place[1] = pos /\ place[n+1] = end
  BY EscapedStands
<1>3. \A i \in 1..n :
        /\ place[i] \in Nat \ {0} /\ place[i+1] \in Nat \ {0}
        /\ s[i] \in DOMAIN Letter =>
             /\ json[place[i]] = "bslash" /\ json[place[i] + 1] = Letter[s[i]]
             /\ place[i + 1] = place[i] + 2
        /\ s[i] \notin DOMAIN Letter =>
             json[place[i]] = s[i] /\ place[i + 1] = place[i] + 1
  <2>1. \A i \in 1..n : i \in 1..n+1 /\ i + 1 \in 1..n+1
    BY <1>1
  <2> QED BY <1>2, <2>1 DEF StandsEscaped
<1>4. "quote" \in DOMAIN Letter /\ "bslash" \in DOMAIN Letter
      /\ \A c \in DOMAIN Letter : c # "bslash" => Letter[c] # "bslash"
  BY DEF Letter
<1>5. pos \in Nat \ {0}
  BY DEF StandsAt
<1> DEFINE QuoteBehind(j) == json[j] = "quote" => j # pos /\ json[j - 1] = "bslash"
           H == {m \in Nat : place[m + 1] \in Nat /\ place[m + 1] >= pos
                             /\ \A j \in pos..place[m + 1]-1 : QuoteBehind(j)}
<1>6. 0 \in H
  <2>1. 0 + 1 = 1 /\ \A j \in pos..pos-1 : FALSE
    BY <1>5
  <2> QED BY <1>2, <1>5, <2>1
<1>7. \A m \in 0..n : (m \in H /\ m < n) => m + 1 \in H
  <2>1. ASSUME NEW m \in 0..n, m \in H, m < n
        PROVE  m + 1 \in H
    <3> DEFINE i == m + 1
               p == place[i]
               q == place[i + 1]
    <3>1. i \in 1..n
      BY <1>1, <2>1
    <3>2. p \in Nat /\ p >= pos /\ \A j \in pos..p-1 : QuoteBehind(j)
      BY <2>1
    <3> HIDE DEF i
    <3>3. CASE s[i] \in DOMAIN Letter
      <4>1. json[p] = "bslash" /\ q = p + 2
        BY <1>3, <3>1, <3>3
      <4> HIDE DEF p, q
      <4>2. q \in Nat /\ q >= pos
        BY <1>5, <3>2, <4>1
      <4>3. \A j \in pos..q-1 : j \in pos..p-1 \/ j = p \/ (j = p + 1 /\ j # pos /\ j - 1 = p)
        BY <1>5, <3>2, <4>1
      <4>4. QuoteBehind(p)
        BY <4>1
      <4>5. \A j \in pos..q-1 : (j = p + 1 /\ j # pos /\ j - 1 = p) => QuoteBehind(j)
        BY <4>1
      <4> HIDE DEF QuoteBehind
      <4>6. \A j \in pos..q-1 : QuoteBehind(j)
        BY <3>2, <4>3, <4>4, <4>5
      <4> QED BY <4>2, <4>6 DEF q, i
    <3>4. CASE s[i] \notin DOMAIN Letter
      <4>1. json[p] # "quote" /\ q = p + 1
        BY <1>3, <1>4, <3>1, <3>4
      <4> HIDE DEF p, q
      <4>2. q \in Nat /\ q >= pos
        BY <1>5, <3>2, <4>1
      <4>3. \A j \in pos..q-1 : j \in pos..p-1 \/ j = p
        BY <1>5, <3>2, <4>1
      <4>4. QuoteBehind(p)
        BY <4>1
      <4> HIDE DEF QuoteBehind
      <4>5. \A j \in pos..q-1 : QuoteBehind(j)
        BY <3>2, <4>3, <4>4
      <4> QED BY <4>2, <4>5 DEF q, i
    <3> QED BY <3>3, <3>4
  <2> QED BY <2>1
<1>8. n \in H
  <2> HIDE DEF H, n
  <2>1. \A m \in 0..n : m \in H
    BY <1>1, <1>6, <1>7, UpTo
  <2> QED BY <1>1, <2>1
<1>9. \A j \in pos..end-1 : QuoteBehind(j)
  BY <1>2, <1>8
<1>10. ASSUME s # <<>> => s[Len(s)] # "bslash"
       PROVE  end = pos \/ json[end - 1] # "bslash"
  <2>1. CASE n = 0
    BY <1>2, <2>1
  <2>2. CASE n # 0
    <3>1. n \in 1..n /\ s[n] # "bslash"
      BY <1>1, <1>10, <2>2
    <3>2. CASE s[n] \in DOMAIN Letter
      <4>1. json[place[n] + 1] = Letter[s[n]] /\ end = place[n] + 2 /\ place[n] \in Nat
        BY <1>2, <1>3, <3>1, <3>2
      <4>2. end - 1 = place[n] + 1
        BY <4>1
      <4> QED BY <1>4, <3>1, <3>2, <4>1, <4>2
    <3>3. CASE s[n] \notin DOMAIN Letter
      <4>1. json[place[n]] = s[n] /\ end = place[n] + 1 /\ place[n] \in Nat
        BY <1>2, <1>3, <3>1, <3>3
      <4>2. end - 1 = place[n]
        BY <4>1
      <4> QED BY <3>1, <4>1, <4>2
    <3> QED BY <3>2, <3>3
  <2> QED BY <2>1, <2>2
<1> QED BY <1>9, <1>10

(* What ParseResponse takes for the text of an answer is a text, and it is *)
(* the one that was written, unless that has a control character without a *)
(* letter of its own, or ends in a backslash, which the quote behind it is *)
(* then taken for a part of.                                               *)
LEMMA ContentIs ==
  ASSUME NEW S, NEW s \in Seq(S)
  PROVE  /\ ContentOf(AnswerBody(s)) \in Seq(AnswerSymbols(S) \cup Unescaped)
         /\ (\A i \in 1..Len(s) : s[i] # "ctl") /\ (s # <<>> => s[Len(s)] # "bslash") =>
              ContentOf(AnswerBody(s)) = s
<1> DEFINE A == AnswerSymbols(S)
           body == AnswerBody(s)
           e == EscapeJson(s)
           start == Find(body, Opening, 1) + 5
           end == start + Len(e)
           ends == {j \in start..Len(body) :
                      /\ body[j] = "quote"
                      /\ j = start \/ body[j - 1] # "bslash"}
           content == IF start = 5 \/ ends = {} THEN <<>>
                      ELSE UnescapeJson(SubSeq(body, start, Min(ends) - 1))
<1>1. ContentOf(body) = content
  BY OpeningIs DEF ContentOf
<1>2. /\ body \in Seq(A) /\ start \in Nat /\ start > 5
      /\ StandsAt(body, start, e \o <<"quote">>)
  BY OpeningIsFound
<1>3. e \in Seq(A)
  <2>1. e \in Seq((S \ DOMAIN Letter) \cup Escapes)
    BY EscapeJsonHasNoControl
  <2>2. (S \ DOMAIN Letter) \cup Escapes \subseteq A
    BY DEF AnswerSymbols
  <2> HIDE DEF e, A
  <2> QED BY <2>1, <2>2
<1> HIDE DEF A, body, e, start
<1>4. ends \in SUBSET Nat /\ \A j \in ends : j \in start..Len(body) /\ j \in Nat
  BY <1>2
<1>5. Len(body) \in Nat /\ Len(e) \in Nat
  BY <1>2, <1>3
<1>6. content \in Seq(A \cup Unescaped)
  <2>1. CASE ends = {}
    BY <2>1
  <2>2. CASE ends # {}
    <3> DEFINE last == Min(ends) - 1
    <3>1. Min(ends) \in ends
      BY <1>4, <2>2, LeastIs
    <3>2. start \in Int /\ last \in Int /\ \A i \in start..last : i \in 1..Len(body)
      <4> DEFINE least == Min(ends)
      <4>1. least \in start..Len(body) /\ least \in Nat /\ last = least - 1
        BY <1>4, <3>1
      <4> HIDE DEF least, last, ends
      <4> QED BY ONLY <1>2, <1>5, <4>1
    <3>3. \A i \in start..last : body[i] \in A
      BY <1>2, <3>2
    <3> HIDE DEF last, ends
    <3>4. SubSeq(body, start, last) \in Seq(A)
      BY <1>2, <3>2, <3>3, SubSeqProperties
    <3>5. UnescapeJson(SubSeq(body, start, last)) \in Seq(A \cup Unescaped)
      <4> DEFINE x == SubSeq(body, start, last)
      <4>1. x \in Seq(A)
        BY <3>4
      <4> HIDE DEF x
      <4>2. \E rest : /\ rest[Len(x)+1] = <<>>
                      /\ \A i \in 1..Len(x) :
                           rest[i] = UnescapedStep(x, i).out \o rest[UnescapedStep(x, i).next]
                      /\ UnescapeJson(x) = rest[1]
                      /\ UnescapeJson(x) \in Seq(A \cup Unescaped)
        BY ONLY <4>1, UnescapedJoins
      <4>3. UnescapeJson(x) \in Seq(A \cup Unescaped)
        BY ONLY <4>2
      <4> QED BY <4>3 DEF x
    <3>6. start # 5
      BY <1>2
    <3> QED BY <2>2, <3>5, <3>6 DEF last
  <2> QED BY <2>1, <2>2
<1>7. ASSUME \A i \in 1..Len(s) : s[i] # "ctl", s # <<>> => s[Len(s)] # "bslash"
      PROVE  content = s
  <2>1. <<"quote">> \in Seq({"quote"}) /\ Len(<<"quote">>) = 1 /\ <<"quote">>[1] = "quote"
    OBVIOUS
  <2>2. StandsAt(body, start, e) /\ StandsAt(body, end, <<"quote">>)
    <3>1. <<"quote">> \in Seq(A)
      BY DEF A, AnswerSymbols
    <3> QED BY ONLY <1>2, <1>3, <3>1, PartsStand DEF end
  <2>3. end \in Nat \ {0} /\ end + 1 <= Len(body) + 1 /\ body[end] = "quote"
    <3> DEFINE q == <<"quote">>
    <3>1. StandsAt(body, end, q) /\ Len(q) = 1 /\ q[1] = "quote"
      BY <2>1, <2>2
    <3> HIDE DEF q, end
    <3> QED BY ONLY <3>1, SymbolStands
  <2>4. /\ \A j \in start..end-1 : body[j] = "quote" => j # start /\ body[j - 1] = "bslash"
        /\ end = start \/ body[end - 1] # "bslash"
    <3>1. StandsAt(body, start, EscapeJson(s)) /\ end = start + Len(EscapeJson(s))
      BY <2>2 DEF e
    <3>2. body \in Seq(A)
      BY <1>2
    <3> HIDE DEF end
    <3>3. /\ \A j \in start..end-1 : body[j] = "quote" => j # start /\ body[j - 1] = "bslash"
          /\ (s # <<>> => s[Len(s)] # "bslash") => end = start \/ body[end - 1] # "bslash"
      BY ONLY <3>1, <3>2, QuotesAreEscaped, s \in Seq(S)
    <3> QED BY ONLY <1>7, <3>3
  <2>5. start <= end
    BY <1>2, <1>5
  <2> HIDE DEF end
  <2>6. end \in ends
    BY <1>2, <1>5, <2>3, <2>4, <2>5
  <2>7. \A j \in ends : end <= j
    <3>1. ASSUME NEW j \in ends, j < end PROVE FALSE
      <4>1. j \in start..end-1 /\ body[j] = "quote" /\ (j = start \/ body[j - 1] # "bslash")
        BY <1>2, <1>5, <2>3, <3>1
      <4> QED BY <2>4, <4>1
    <3>2. \A j \in ends : j \in Nat
      BY <1>4
    <3> HIDE DEF ends
    <3> QED BY <2>3, <3>1, <3>2
  <2> HIDE DEF ends
  <2>8. Min(ends) = end
    <3>1. Min(ends) \in ends /\ Min(ends) <= end
      BY <1>4, <2>6, LeastIs
    <3>2. Min(ends) \in Nat /\ end <= Min(ends)
      BY <1>4, <2>7, <3>1
    <3> QED BY <2>3, <3>1, <3>2
  <2>9. SubSeq(body, start, end - 1) = e
    BY <1>2, <1>3, <2>2, StandingPart DEF end
  <2>10. UnescapeJson(e) = s
    BY <1>7, UnescapedReadsBack DEF e
  <2>11. ends # {} /\ start # 5
    BY <1>2, <2>6
  <2> QED BY ONLY <2>8, <2>9, <2>10, <2>11
<1> HIDE DEF content
<1> QED BY <1>1, <1>6, <1>7 DEF body, A

(* The backends leave a control character as it is; without one they       *)
(* escape as the reranker does.                                            *)
LEMMA BackendsEscapeAlike ==
  ASSUME NEW S, NEW s \in Seq(S), \A i \in 1..Len(s) : s[i] # "ctl"
  PROVE  AIEscapeJson(s) = EscapeJson(s)
<1>1. \A i \in 1..Len(s) : AIEscapedStep(s, i) = EscapedStep(s, i)
  BY DEF AIEscapedStep
<1>2. [i \in 1..Len(s) |-> AIEscapedStep(s, i)] = [i \in 1..Len(s) |-> EscapedStep(s, i)]
  BY <1>1
<1> QED BY <1>2 DEF AIEscapeJson, EscapeJson, Scan

(* A prompt without a control character is in the request as it was.       *)
THEOREM PromptsComeBack ==
  ASSUME NEW S, NEW s \in Seq(S), \A i \in 1..Len(s) : s[i] # "ctl"
  PROVE  ExtractJsonString(RequestBody(s), "prompt") = s
<1> DEFINE A == (S \ DOMAIN Letter) \cup Escapes \cup
                {"comma", "lbrace", "rbrace", "quote", "colon", "model", "m", "prompt",
                 "stream", "false"}
           e == EscapeJson(s)
           m1 == Member("model", Quoted(<<"m">>))
           m2 == Member("prompt", Quoted(e))
           m3 == Member("stream", <<"false">>)
           members == <<m1, m2, m3>>
           B == {"quote", "colon", "model", "m"}
           key == "prompt"
<1>1. RequestBody(s) = Object(members)
  BY BackendsEscapeAlike DEF RequestBody
<1>2. /\ {"comma", "lbrace", "rbrace", "quote", "colon"} \subseteq A
      /\ {"quote", "colon"} \subseteq A /\ "quote" \in A
      /\ "prompt" \in A /\ "stream" \in A /\ B \subseteq A \ {"prompt"} /\ B \subseteq A
      /\ (S \ DOMAIN Letter) \cup Escapes \subseteq A
  OBVIOUS
<1>3. <<"m">> \in Seq(B) /\ <<"false">> \in Seq(A) /\ {"quote", "colon"} \subseteq B
      /\ "quote" \in B /\ "model" \in B
  OBVIOUS
<1> HIDE DEF A, B
<1>4. e \in Seq(A)
  <2>1. e \in Seq((S \ DOMAIN Letter) \cup Escapes)
    BY EscapeJsonHasNoControl
  <2> HIDE DEF e
  <2> QED BY <1>2, <2>1
<1> HIDE DEF e
<1>5. m1 \in Seq(B) /\ m2 \in Seq(A) /\ m3 \in Seq(A)
  <2>1. Quoted(<<"m">>) \in Seq(B)
    BY ONLY <1>3, QuotedIs
  <2>2. Quoted(e) \in Seq(A)
    BY ONLY <1>2, <1>4, QuotedIs
  <2>3. m1 \in Seq(B)
    BY ONLY <1>3, <2>1, MemberIs
  <2>4. m2 \in Seq(A)
    BY ONLY <1>2, <2>2, MemberIs
  <2>5. m3 \in Seq(A)
    BY ONLY <1>2, <1>3, MemberIs
  <2> QED BY <2>3, <2>4, <2>5
<1> HIDE DEF m1, m3
<1>6. m1 \in Seq(A \ {"prompt"}) /\ m1 \in Seq(A)
  BY <1>2, <1>5
<1>7. /\ AreTexts(members, A) /\ Len(members) = 3 /\ members[1] = m1 /\ members[2] = m2
  <2> HIDE DEF m2
  <2> DEFINE C == Seq(A)
  <2>1. m1 \in C /\ m2 \in C /\ m3 \in C
    BY <1>5, <1>6
  <2> HIDE DEF C
  <2>2. members \in Seq(C) /\ Len(members) = 3 /\ members[1] = m1 /\ members[2] = m2
    BY ONLY <2>1
  <2> QED BY <2>2 DEF AreTexts, C
<1> HIDE DEF members
<1>8. /\ key \in A /\ key \notin {"comma", "lbrace", "quote"} /\ 2 \in 1..Len(members)
      /\ members[2] = Member(key, Quoted(EscapeJson(s)))
      /\ \A i \in 1..2-1 : members[i] \in Seq(A \ {key})
  <2>1. \A i \in 1..2-1 : i = 1
    OBVIOUS
  <2> HIDE DEF m2
  <2>2. \A i \in 1..2-1 : members[i] \in Seq(A \ {key})
    BY ONLY <1>6, <1>7, <2>1 DEF key
  <2> QED BY <1>2, <1>7, <2>2 DEF m2, e
<1> HIDE DEF key
<1>9. ExtractJsonString(Object(members), key) = s
  <2>1. /\ {"comma", "lbrace", "rbrace", "quote", "colon"} \subseteq A
        /\ (S \ DOMAIN Letter) \cup Escapes \subseteq A
        /\ AreTexts(members, A)
    BY ONLY <1>2, <1>7
  <2> QED BY ONLY <1>8, <2>1, MemberComesBack, s \in Seq(S), \A i \in 1..Len(s) : s[i] # "ctl"
<1> QED BY <1>1, <1>9 DEF key

--------------------------------------------------------------------------------
(* An address comes apart into what it was put together of.               *)

(* A text is one over the set its symbols are in.                          *)
LEMMA TextOver ==
  ASSUME NEW S, NEW s \in Seq(S), NEW T, \A k \in 1..Len(s) : s[k] \in T
  PROVE  s \in Seq(T)
<1>1. Len(s) \in Nat /\ s \in [1..Len(s) -> T]
  OBVIOUS
<1> QED BY <1>1

(* What stands at a place, and in a part of a text.                        *)
LEMMA AtIs ==
  ASSUME NEW S, NEW s \in Seq(S), NEW i \in Int
  PROVE  /\ i \in 1..Len(s) => At(s, i) = s[i] /\ At(s, i) \in S
         /\ i \notin 1..Len(s) => At(s, i) = "end"
BY DEF At

(* A part of a text, place by place.                                       *)
LEMMA PartIs ==
  ASSUME NEW S, NEW s \in Seq(S), NEW i \in 1..Len(s), NEW j \in i..Len(s)
  PROVE  /\ SubSeq(s, i, j) \in Seq(S) /\ Len(SubSeq(s, i, j)) = j - i + 1
         /\ \A k \in 1..j-i+1 : SubSeq(s, i, j)[k] = s[i + k - 1]
                                /\ At(SubSeq(s, i, j), k) = s[i + k - 1]
<1>1. /\ SubSeq(s, i, j) \in Seq(S) /\ Len(SubSeq(s, i, j)) = j - i + 1
      /\ \A k \in 1..j-i+1 : SubSeq(s, i, j)[k] = s[i + k - 1]
  OBVIOUS
<1>2. \A k \in 1..j-i+1 : At(SubSeq(s, i, j), k) = SubSeq(s, i, j)[k]
  BY <1>1 DEF At
<1> QED BY <1>1, <1>2

(* What PastAll and FirstOf stop at, and that they stop nowhere else.      *)
LEMMA PastAllIs ==
  ASSUME NEW S, NEW s \in Seq(S), NEW X, NEW i \in 1..Len(s)+1
  PROVE  LET p == PastAll(s, i, X) IN
         /\ p \in i..Len(s)+1
         /\ \A j \in i..p-1 : j \in 1..Len(s) /\ s[j] \in X
         /\ p \in 1..Len(s) => s[p] \notin X
<1> DEFINE P == {j \in i..Len(s) : s[j] \notin X} \cup {Len(s) + 1}
           p == PastAll(s, i, X)
<1>1. Len(s) \in Nat /\ P \in SUBSET Nat /\ P # {} /\ \A j \in P : j \in i..Len(s)+1
  OBVIOUS
<1>2. p \in P /\ \A j \in P : p <= j
  <2> HIDE DEF P
  <2>1. p = Min(P)
    BY DEF PastAll, P
  <2> QED BY <1>1, <2>1, LeastIs
<1>3. \A j \in i..p-1 : j \in i..Len(s) /\ j \notin P
  <2> HIDE DEF P, p
  <2> QED BY <1>1, <1>2
<1> QED BY <1>1, <1>2, <1>3

(* PastAll stops where all before is of X and what stands there is not.    *)
LEMMA PastAllAt ==
  ASSUME NEW S, NEW s \in Seq(S), NEW X, NEW i \in 1..Len(s)+1, NEW p \in i..Len(s)+1,
         \A j \in i..p-1 : s[j] \in X, p = Len(s) + 1 \/ s[p] \notin X
  PROVE  PastAll(s, i, X) = p
<1> DEFINE q == PastAll(s, i, X)
<1>1. /\ q \in i..Len(s)+1
      /\ \A j \in i..q-1 : j \in 1..Len(s) /\ s[j] \in X
      /\ q \in 1..Len(s) => s[q] \notin X
  BY PastAllIs
<1> HIDE DEF q
<1>2. ~ (q < p)
  <2> SUFFICES ASSUME q < p PROVE FALSE
    OBVIOUS
  <2>1. q \in i..p-1 /\ q \in 1..Len(s)
    BY <1>1
  <2> QED BY <1>1, <2>1
<1>3. ~ (p < q)
  <2> SUFFICES ASSUME p < q PROVE FALSE
    OBVIOUS
  <2>1. p \in i..q-1 /\ p # Len(s) + 1
    BY <1>1
  <2> QED BY <1>1, <2>1
<1> QED BY <1>1, <1>2, <1>3 DEF q

(* What FirstOf stops at: it passes nothing of X.                          *)
LEMMA FirstOfIs ==
  ASSUME NEW S, NEW s \in Seq(S), NEW X, NEW i \in 1..Len(s)+1
  PROVE  LET p == FirstOf(s, i, X) IN
         /\ p \in i..Len(s)+1
         /\ \A j \in i..p-1 : j \in 1..Len(s) /\ s[j] \notin X
         /\ p \in 1..Len(s) => s[p] \in X
<1> DEFINE P == {j \in i..Len(s) : s[j] \in X} \cup {Len(s) + 1}
           p == FirstOf(s, i, X)
<1>1. Len(s) \in Nat /\ P \in SUBSET Nat /\ P # {} /\ \A j \in P : j \in i..Len(s)+1
  OBVIOUS
<1>2. p \in P /\ \A j \in P : p <= j
  <2> HIDE DEF P
  <2>1. p = Min(P)
    BY DEF FirstOf, P
  <2> QED BY <1>1, <2>1, LeastIs
<1>3. \A j \in i..p-1 : j \in i..Len(s) /\ j \notin P
  <2> HIDE DEF P, p
  <2> QED BY <1>1, <1>2
<1> QED BY <1>1, <1>2, <1>3

(* FirstOf stops at the first of X.                                        *)
LEMMA FirstOfAt ==
  ASSUME NEW S, NEW s \in Seq(S), NEW X, NEW i \in 1..Len(s)+1, NEW p \in i..Len(s)+1,
         \A j \in i..p-1 : s[j] \notin X, p = Len(s) + 1 \/ s[p] \in X
  PROVE  FirstOf(s, i, X) = p
<1> DEFINE q == FirstOf(s, i, X)
<1>1. /\ q \in i..Len(s)+1
      /\ \A j \in i..q-1 : j \in 1..Len(s) /\ s[j] \notin X
      /\ q \in 1..Len(s) => s[q] \in X
  BY FirstOfIs
<1> HIDE DEF q
<1>2. ~ (q < p)
  <2> SUFFICES ASSUME q < p PROVE FALSE
    OBVIOUS
  <2>1. q \in i..p-1 /\ q \in 1..Len(s)
    BY <1>1
  <2> QED BY <1>1, <2>1
<1>3. ~ (p < q)
  <2> SUFFICES ASSUME p < q PROVE FALSE
    OBVIOUS
  <2>1. p \in i..q-1 /\ p # Len(s) + 1
    BY <1>1
  <2> QED BY <1>1, <2>1
<1> QED BY <1>1, <1>2, <1>3 DEF q

(* The longest match.                                                      *)
LEMMA LongestIs ==
  ASSUME NEW ends \in SUBSET Nat, NEW e \in ends, \A j \in ends : j <= e
  PROVE  Max(ends) = e
<1>1. \A x \in ends : (\A y \in ends : x >= y) => x = e
  OBVIOUS
<1> QED BY <1>1 DEF Max

(* A part of a text has the symbols of the text.                           *)
LEMMA PieceIs ==
  ASSUME NEW S, NEW s \in Seq(S), NEW a \in Nat \ {0}, NEW b \in Int, b <= Len(s)
  PROVE  SubSeq(s, a, b) \in Seq(S)
<1>1. \A k \in a..b : s[k] \in S
  OBVIOUS
<1>2. a \in Int
  OBVIOUS
<1> QED BY <1>1, <1>2, SubSeqProperties

(* Texts may be put together from the left or from the right.              *)
LEMMA Regrouped ==
  ASSUME NEW S
  PROVE  \A a, b, c \in Seq(S) : (a \o b) \o c = a \o (b \o c)
<1> TAKE a, b, c \in Seq(S)
<1> QED BY ConcatAssociative

(* The greatest of some places.                                            *)
LEMMA GreatestIs ==
  ASSUME NEW n \in Nat, NEW T \in SUBSET (0..n), T # {}
  PROVE  Max(T) \in T /\ \A l \in T : l <= Max(T)
<1> DEFINE Left == {n - l : l \in T}
<1>1. Left \in SUBSET Nat /\ Left # {}
  <2>1. \A l \in T : n - l \in Nat
    OBVIOUS
  <2>2. PICK l \in T : TRUE
    OBVIOUS
  <2>3. n - l \in Left
    OBVIOUS
  <2> QED BY <2>1, <2>3
<1>2. PICK k \in Left : \A l \in Left : k <= l
  <2> HIDE DEF Left
  <2> QED BY <1>1, LeastNumber
<1>3. PICK e \in T : k = n - e
  BY <1>2
<1>4. \A l \in T : l <= e
  <2> TAKE l \in T
  <2>1. k <= n - l /\ l \in Int /\ e \in Int
    BY <1>2
  <2> QED BY <1>3, <2>1
<1>5. T \in SUBSET Nat
  OBVIOUS
<1>6. Max(T) = e
  BY <1>4, <1>5, LongestIs
<1> QED BY <1>4, <1>6

(* The parts of two or three texts joined.                                 *)
LEMMA JoinedComesApart ==
  ASSUME NEW S, NEW a \in Seq(S), NEW b \in Seq(S)
  PROVE  /\ a \o b \in Seq(S) /\ Len(a \o b) = Len(a) + Len(b)
         /\ SubSeq(a \o b, 1, Len(a)) = a
         /\ From(a \o b, Len(a) + 1) = b
<1> DEFINE c == a \o b
<1>1. c \in Seq(S) /\ Len(c) = Len(a) + Len(b) /\ Len(a) \in Nat /\ Len(b) \in Nat
  OBVIOUS
<1>2. StandsAt(c, 1, a \o b)
  <2>1. StandsAt(c, 1, c)
    <3> HIDE DEF c
    <3> QED BY <1>1 DEF StandsAt
  <2> QED BY ONLY <2>1
<1> HIDE DEF c
<1>3. StandsAt(c, 1, a) /\ StandsAt(c, 1 + Len(a), b)
  BY <1>1, <1>2, PartsStand
<1>4. SubSeq(c, 1, 1 + Len(a) - 1) = a
  BY <1>1, <1>3, StandingPart
<1>5. SubSeq(c, 1 + Len(a), 1 + Len(a) + Len(b) - 1) = b
  BY <1>1, <1>3, StandingPart
<1>6. 1 + Len(a) - 1 = Len(a) /\ 1 + Len(a) + Len(b) - 1 = Len(c) /\ 1 + Len(a) = Len(a) + 1
  BY <1>1
<1>7. SubSeq(c, 1, Len(a)) = a
  BY ONLY <1>4, <1>6
<1>8. SubSeq(c, Len(a) + 1, Len(c)) = b
  BY ONLY <1>5, <1>6
<1> QED BY ONLY <1>1, <1>7, <1>8 DEF c, From

(* And the middle one of three.                                            *)
LEMMA MiddleComesApart ==
  ASSUME NEW S, NEW a \in Seq(S), NEW b \in Seq(S), NEW c \in Seq(S)
  PROVE  SubSeq((a \o b) \o c, Len(a) + 1, Len(a) + Len(b)) = b
<1> DEFINE ab == a \o b
           d == ab \o c
<1>1. ab \in Seq(S) /\ Len(a) \in Nat /\ Len(b) \in Nat
  OBVIOUS
<1>2. d \in Seq(S)
  <2> HIDE DEF ab
  <2> QED BY <1>1
<1>3. StandsAt(d, 1, ab \o c)
  <2>1. StandsAt(d, 1, d)
    <3> HIDE DEF d
    <3> QED BY <1>2 DEF StandsAt
  <2> QED BY ONLY <2>1
<1> HIDE DEF d
<1>4. StandsAt(d, 1, ab)
  <2> HIDE DEF ab
  <2> QED BY <1>1, <1>2, <1>3, PartsStand
<1>5. StandsAt(d, 1, a \o b)
  BY ONLY <1>4
<1>6. StandsAt(d, 1 + Len(a), b)
  BY <1>2, <1>5, PartsStand
<1>7. SubSeq(d, 1 + Len(a), 1 + Len(a) + Len(b) - 1) = b
  BY <1>2, <1>6, StandingPart
<1>8. 1 + Len(a) + Len(b) - 1 = Len(a) + Len(b) /\ 1 + Len(a) = Len(a) + 1
  BY <1>1
<1> QED BY ONLY <1>7, <1>8 DEF d, ab

(* The first symbol of a set is where the second of two texts begins, or   *)
(* nowhere, if the first text has none of them.                            *)
LEMMA FirstOfJoined ==
  ASSUME NEW S, NEW a \in Seq(S), NEW b \in Seq(S), NEW X,
         \A i \in 1..Len(a) : a[i] \notin X, b = <<>> \/ b[1] \in X
  PROVE  FirstOf(a \o b, 1, X) = Len(a) + 1
<1> DEFINE c == a \o b
           p == Len(a) + 1
<1>1. /\ c \in Seq(S) /\ Len(c) = Len(a) + Len(b) /\ Len(a) \in Nat /\ Len(b) \in Nat
      /\ \A i \in 1..Len(a) : c[i] = a[i]
      /\ \A i \in 1..Len(b) : c[Len(a) + i] = b[i]
  OBVIOUS
<1> HIDE DEF c
<1>2. 1 \in 1..Len(c)+1 /\ p \in 1..Len(c)+1
  BY <1>1
<1>3. \A j \in 1..p-1 : c[j] \notin X
  <2>1. \A j \in 1..p-1 : j \in 1..Len(a)
    BY <1>1
  <2> QED BY <1>1, <2>1
<1>4. p = Len(c) + 1 \/ c[p] \in X
  <2>1. CASE b = <<>>
    <3>1. Len(b) = 0
      BY <2>1
    <3> QED BY <1>1, <3>1
  <2>2. CASE b # <<>>
    <3>1. 1 \in 1..Len(b)
      BY <1>1, <2>2
    <3>2. c[Len(a) + 1] = b[1]
      BY <1>1, <3>1
    <3> QED BY <2>2, <3>2
  <2> QED BY <2>1, <2>2
<1> HIDE DEF p
<1>5. FirstOf(c, 1, X) = p
  BY ONLY <1>1, <1>2, <1>3, <1>4, FirstOfAt
<1> QED BY <1>5 DEF c, p

(* Digits are read to the last.                                            *)
LEMMA StoiReadsAll ==
  ASSUME NEW port \in Seq(PortDigits)
  PROVE  Stoi(port) = port
<1>1. Len(port) \in Nat /\ \A j \in 1..Len(port) : port[j] \in PortDigits
  OBVIOUS
<1>2. 1 \in 1..Len(port)+1 /\ Len(port) + 1 \in 1..Len(port)+1 /\ Len(port) + 1 - 1 = Len(port)
  BY <1>1
<1>3. PastAll(port, 1, PortDigits) = Len(port) + 1
  <2>1. \A j \in 1..(Len(port) + 1)-1 : port[j] \in PortDigits
    BY <1>1
  <2> QED BY <1>2, <2>1, PastAllAt
<1>4. SubSeq(port, 1, Len(port)) = port
  BY SubSeqFull
<1> QED BY ONLY <1>2, <1>3, <1>4 DEF Stoi

(* Initialize keeps an endpoint that was taken, and what ParseEndpoint     *)
(* takes of one whose parts are known.                                     *)
LEMMA OllamaKeeps ==
  ASSUME NEW endpoint, ParseEndpoint(endpoint).ok
  PROVE  OllamaServer(endpoint) = ParseEndpoint(endpoint)
<1> DEFINE default == [ok |-> TRUE, host |-> <<"localhost">>, port |-> 11434]
<1>1. OllamaServer(endpoint) =
        IF ParseEndpoint(endpoint).ok THEN ParseEndpoint(endpoint) ELSE default
  BY DEF OllamaServer
<1> HIDE DEF default
<1> QED BY Zenon, <1>1

(* A URL with its first colon and its first slash, and the host and the    *)
(* port that are to be read from it.                                       *)
OllamaParts(endpoint, url, colon, slash, host, port) ==
  /\ WithoutScheme(endpoint) = url
  /\ FirstOf(url, 1, {":"}) = colon /\ FirstOf(url, 1, {"/"}) = slash
  /\ \/ /\ colon > Len(url) /\ host = SubSeq(url, 1, slash - 1)
        /\ port = 11434
     \/ /\ ~ (colon > Len(url)) /\ ~ (slash < colon)
        /\ host = SubSeq(url, 1, colon - 1)
        /\ Stoi(SubSeq(url, colon + 1, slash - 1)) # <<>>
        /\ port = Port(Stoi(SubSeq(url, colon + 1, slash - 1)))

(* They are read.                                                          *)
LEMMA OllamaTakes ==
  ASSUME NEW endpoint, NEW url, NEW colon, NEW slash, NEW host, NEW port,
         OllamaParts(endpoint, url, colon, slash, host, port)
  PROVE  OllamaServer(endpoint).host = host /\ OllamaServer(endpoint).port = port
<1> DEFINE standard == 11434
           over == colon > Len(url)
           early == slash < colon
           digits == Stoi(SubSeq(url, colon + 1, slash - 1))
           far == Stoi(SubSeq(url, colon + 1, IF early THEN Len(url) ELSE slash - 1))
           default == [ok |-> TRUE, host |-> SubSeq(url, 1, slash - 1), port |-> standard]
           named == [ok |-> TRUE, host |-> SubSeq(url, 1, colon - 1), port |-> Port(far)]
<1>0. /\ WithoutScheme(endpoint) = url
      /\ FirstOf(url, 1, {":"}) = colon /\ FirstOf(url, 1, {"/"}) = slash
  BY DEF OllamaParts
<1>1. LET u == WithoutScheme(endpoint)
          c == FirstOf(u, 1, {":"})
          f == FirstOf(u, 1, {"/"})
          p == Stoi(SubSeq(u, c + 1, IF f < c THEN Len(u) ELSE f - 1))
      IN ParseEndpoint(endpoint) =
           IF c > Len(u) THEN [ok |-> TRUE, host |-> SubSeq(u, 1, f - 1), port |-> standard]
           ELSE IF p = <<>> THEN Bad
           ELSE [ok |-> TRUE, host |-> SubSeq(u, 1, c - 1), port |-> Port(p)]
  BY DEF ParseEndpoint
<1> HIDE DEF standard
<1>2. ParseEndpoint(endpoint) = IF over THEN default ELSE IF far = <<>> THEN Bad ELSE named
  BY Zenon, <1>0, <1>1
<1>3. /\ default.ok /\ default.host = SubSeq(url, 1, slash - 1) /\ default.port = standard
      /\ named.ok /\ named.host = SubSeq(url, 1, colon - 1) /\ named.port = Port(far)
  BY Zenon
<1>4. ~ early => far = digits
  BY Zenon
<1> HIDE DEF over, early, far, default, named, digits
<1>5. over => OllamaServer(endpoint) = default
  <2> SUFFICES ASSUME over PROVE OllamaServer(endpoint) = default
    OBVIOUS
  <2>1. ParseEndpoint(endpoint) = default
    BY ONLY <1>2, over
  <2>2. ParseEndpoint(endpoint).ok
    BY Zenon, <1>3, <2>1
  <2> QED BY OllamaKeeps, <2>1, <2>2
<1>6. ~ over /\ ~ early /\ digits # <<>> => OllamaServer(endpoint) = named
  <2> SUFFICES ASSUME ~ over, ~ early, digits # <<>> PROVE OllamaServer(endpoint) = named
    OBVIOUS
  <2>1. ParseEndpoint(endpoint) = named
    BY ONLY <1>2, <1>4, ~ over, ~ early, digits # <<>>
  <2>2. ParseEndpoint(endpoint).ok
    BY Zenon, <1>3, <2>1
  <2> QED BY OllamaKeeps, <2>1, <2>2
<1>7. over => OllamaServer(endpoint).host = SubSeq(url, 1, slash - 1)
              /\ OllamaServer(endpoint).port = standard
  BY Zenon, <1>3, <1>5
<1>8. ~ over /\ ~ early /\ digits # <<>> =>
        OllamaServer(endpoint).host = SubSeq(url, 1, colon - 1)
        /\ OllamaServer(endpoint).port = Port(digits)
  BY Zenon, <1>3, <1>4, <1>6
<1>9. standard = 11434
  BY DEF standard
<1>10. \/ over /\ host = SubSeq(url, 1, slash - 1) /\ port = standard
       \/ ~ over /\ ~ early /\ host = SubSeq(url, 1, colon - 1)
          /\ digits # <<>> /\ port = Port(digits)
  BY <1>9 DEF OllamaParts, over, early, digits
<1> QED BY ONLY <1>7, <1>8, <1>10, Zenon

(* The same of an endpoint of the OpenAI compatible backends, where the    *)
(* colon is the first before the slash.                                    *)
ApiParts(endpoint, url, slash, hostport, colon, port) ==
  /\ WithoutScheme(endpoint) = url
  /\ FirstOf(url, 1, {"/"}) = slash /\ SubSeq(url, 1, slash - 1) = hostport
  /\ FirstOf(hostport, 1, {":"}) = colon /\ Stoi(From(hostport, colon + 1)) = port
  /\ ~ (colon = 1 \/ hostport = <<>> \/ (colon <= Len(hostport) /\ port = <<>>))

(* ParseApiEndpoint takes it, with the host and the port.                  *)
LEMMA ApiTakes ==
  ASSUME NEW endpoint, NEW url, NEW slash, NEW hostport, NEW colon, NEW port,
         ApiParts(endpoint, url, slash, hostport, colon, port),
         NEW host, host = SubSeq(hostport, 1, colon - 1)
  PROVE  /\ ParseApiEndpoint(endpoint).ok
         /\ ParseApiEndpoint(endpoint).host = host
         /\ ParseApiEndpoint(endpoint).ssl = (~ (At(endpoint, 1) = "http://"))
         /\ colon <= Len(hostport) => ParseApiEndpoint(endpoint).port = Port(port)
<1> DEFINE within == colon <= Len(hostport)
           plain == At(endpoint, 1) = "http://"
           where == IF within THEN Port(port) ELSE IF plain THEN 80 ELSE 443
           path == IF url # <<>> /\ url[Len(url)] = "/"
                   THEN SubSeq(url, slash, Len(url) - 1) ELSE From(url, slash)
           behind == (IF slash > Len(url) THEN <<"v1">> ELSE path) \o <<"chat">>
           api == [ok |-> TRUE, host |-> SubSeq(hostport, 1, colon - 1), port |-> where,
                   ssl |-> ~ plain, path |-> behind]
<1>0. /\ WithoutScheme(endpoint) = url
      /\ FirstOf(url, 1, {"/"}) = slash /\ SubSeq(url, 1, slash - 1) = hostport
      /\ FirstOf(hostport, 1, {":"}) = colon /\ Stoi(From(hostport, colon + 1)) = port
      /\ ~ (colon = 1 \/ hostport = <<>> \/ (colon <= Len(hostport) /\ port = <<>>))
  BY Zenon DEF ApiParts
<1>1. ParseApiEndpoint(endpoint) = api
  BY Zenon, <1>0 DEF ParseApiEndpoint
<1>2. api.ok /\ api.host = host /\ api.port = where /\ api.ssl = (~ plain)
  <2> HIDE DEF where, behind
  <2> QED BY Zenon
<1>3. within => where = Port(port)
  BY Zenon
<1> HIDE DEF api, where, within, plain
<1>4. /\ ParseApiEndpoint(endpoint).ok
      /\ ParseApiEndpoint(endpoint).host = host
      /\ ParseApiEndpoint(endpoint).ssl = (~ plain)
  BY Zenon, <1>1, <1>2
<1>5. within => ParseApiEndpoint(endpoint).port = Port(port)
  BY Zenon, <1>1, <1>2, <1>3
<1> QED BY Zenon, <1>4, <1>5 DEF within, plain

(* A URL with its scheme, and what is behind it.                           *)
LEMMA SchemeComesOff ==
  ASSUME NEW S, NEW scheme \in Schemes, NEW url \in Seq(S), url # <<>>, url[1] \notin Scheme
  PROVE  /\ WithoutScheme(scheme \o url) = url
         /\ (At(scheme \o url, 1) = "http://") <=> (scheme = <<"http://">>)
<1>1. 1 \in 1..Len(url) /\ DOMAIN url = 1..Len(url)
  OBVIOUS
<1>2. CASE scheme = <<>>
  <2>1. scheme \o url = url
    BY <1>2
  <2>2. At(url, 1) = url[1]
    BY <1>1 DEF At
  <2>3. "http://" \in Scheme
    BY DEF Scheme
  <2>4. scheme # <<"http://">>
    <3> DEFINE other == <<"http://">>
    <3>1. Len(other) = 1
      OBVIOUS
    <3> HIDE DEF other
    <3>2. Len(scheme) = 0
      BY <1>2
    <3> QED BY <3>1, <3>2 DEF other
  <2>5. url[1] \notin Scheme
    OBVIOUS
  <2>6. WithoutScheme(url) = url
    BY ONLY <2>2, <2>5 DEF WithoutScheme
  <2>7. ~ (At(url, 1) = "http://")
    BY ONLY <2>2, <2>3, <2>5
  <2> QED BY ONLY <2>1, <2>4, <2>6, <2>7
<1>3. ASSUME NEW x \in Scheme, scheme = <<x>>
      PROVE  /\ WithoutScheme(scheme \o url) = url
             /\ (At(scheme \o url, 1) = "http://") <=> (scheme = <<"http://">>)
  <2> DEFINE A == S \cup Scheme
             a == <<x>>
             s == a \o url
  <2>1. a \in Seq(A) /\ url \in Seq(A) /\ Len(a) = 1 /\ a[1] = x
    OBVIOUS
  <2>2. s[1] = x /\ 1 \in DOMAIN s
    BY <2>1
  <2> HIDE DEF A, a
  <2>3. From(s, Len(a) + 1) = url
    BY ONLY <2>1, JoinedComesApart
  <2> HIDE DEF s
  <2>4. At(s, 1) = x
    BY <2>2 DEF At
  <2>5. From(s, 2) = url
    BY ONLY <2>1, <2>3, 1 + 1 = 2
  <2>6. WithoutScheme(s) = url
    BY ONLY <2>4, <2>5, x \in Scheme DEF WithoutScheme
  <2>7. (x = "http://") <=> (<<x>> = <<"http://">>)
    OBVIOUS
  <2> QED BY ONLY <1>3, <2>4, <2>6, <2>7 DEF s, a
<1> QED BY <1>2, <1>3 DEF Schemes

(* A host, a port with a colon before it, if there is one, and a path.     *)
IsUrl(S, host, port, path) ==
  /\ host \in Seq(S) /\ host # <<>> /\ \A i \in 1..Len(host) : host[i] \notin {":", "/"} \cup Scheme
  /\ port \in Seq(PortDigits)
  /\ path \in Seq(S) /\ (path = <<>> \/ path[1] = "/")

(* Such a URL is taken apart into what it was put together of, for every   *)
(* host, port and path: by the OpenAI compatible backends, and by the one  *)
(* of Ollama unless the first colon is in the path.                        *)
LEMMA UrlComesApart ==
  ASSUME NEW S, NEW host, NEW port, NEW path, IsUrl(S, host, port, path),
         NEW scheme \in Schemes, NEW s, s = Url(scheme, host, port, path)
  PROVE  LET api == ParseApiEndpoint(s)
             ollama == OllamaServer(s)
         IN /\ api.ok /\ api.host = host
            /\ api.ssl = (scheme # <<"http://">>)
            /\ port # <<>> => api.port = Port(port)
            /\ (port # <<>> \/ \A i \in DOMAIN path : path[i] # ":") =>
                 /\ ollama.host = host
                 /\ ollama.port = IF port = <<>> THEN 11434 ELSE Port(port)
<1> DEFINE A == S \cup PortDigits \cup {":"}
           mark == <<":">>
           q == IF port = <<>> THEN <<>> ELSE mark \o port
           hostport == host \o q
           url == hostport \o path
           h == Len(host)
<1>1. /\ host \in Seq(A) /\ port \in Seq(A) /\ path \in Seq(A) /\ mark \in Seq(A)
      /\ host # <<>> /\ \A i \in 1..Len(host) : host[i] \notin {":", "/"} \cup Scheme
      /\ port \in Seq(PortDigits) /\ (path = <<>> \/ path[1] = "/")
      /\ Len(mark) = 1 /\ mark[1] = ":"
  BY DEF IsUrl
<1>2. PortDigits = {"0", "1"} /\ Scheme = {"http://", "https://"}
  BY DEF PortDigits, Scheme
<1> HIDE DEF A, mark
<1> DEFINE Grouped == \A a, b, c \in Seq(A) : (a \o b) \o c = a \o (b \o c)
<1>0. Grouped
  BY Regrouped
<1> HIDE DEF Grouped
<1>3. h \in Nat \ {0} /\ h = Len(host) /\ Len(port) \in Nat /\ Len(path) \in Nat
      /\ (port # <<>> => Len(port) > 0)
  BY <1>1
<1>3a. h \in Nat
  BY <1>3
<1>4. /\ q \in Seq(A)
      /\ (port # <<>> =>
            q = mark \o port /\ q # <<>> /\ q[1] = ":" /\ Len(q) = 1 + Len(port))
      /\ (port = <<>> => q = <<>>)
      /\ \A i \in 1..Len(q) : q[i] # "/"
  <2>1. CASE port = <<>>
    <3>1. q = <<>> /\ Len(q) = 0
      BY <2>1
    <3>2. <<>> \in Seq(A)
      OBVIOUS
    <3> HIDE DEF q
    <3> QED BY <2>1, <3>1, <3>2
  <2>2. CASE port # <<>>
    <3>1. q = mark \o port
      BY <2>2
    <3>2. /\ mark \o port \in Seq(A) /\ Len(mark \o port) = 1 + Len(port) /\ (mark \o port)[1] = ":"
          /\ \A i \in 1..Len(port) : (mark \o port)[1 + i] = port[i]
      <4>1. mark \in Seq(A) /\ port \in Seq(A) /\ Len(mark) = 1 /\ mark[1] = ":"
        BY <1>1
      <4>2. /\ mark \o port \in Seq(A) /\ Len(mark \o port) = Len(mark) + Len(port)
            /\ \A i \in 1..Len(mark) : (mark \o port)[i] = mark[i]
            /\ \A i \in 1..Len(port) : (mark \o port)[Len(mark) + i] = port[i]
        <5>1. mark \o port \in Seq(A)
          BY ONLY <4>1, JoinedParts
        <5>2. Len(mark \o port) = Len(mark) + Len(port)
          BY ONLY <4>1, JoinedParts
        <5>3. \A i \in 1..Len(mark) : (mark \o port)[i] = mark[i]
          BY ONLY <4>1, JoinedParts
        <5>4. \A i \in 1..Len(port) : (mark \o port)[Len(mark) + i] = port[i]
          BY ONLY <4>1, JoinedParts
        <5> QED BY ONLY <5>1, <5>2, <5>3, <5>4
      <4>3. 1 \in 1..Len(mark)
        BY <4>1
      <4> HIDE DEF mark
      <4> QED BY ONLY <4>1, <4>2, <4>3
    <3>3. \A i \in 1..Len(port) : port[i] # "/"
      BY <1>1, <1>2
    <3>4. \A i \in 1..1+Len(port) : i = 1 \/ (i - 1 \in 1..Len(port) /\ i = 1 + (i - 1))
      BY <1>3
    <3>5. \A i \in 1..1+Len(port) : (mark \o port)[i] # "/"
      BY <3>2, <3>3, <3>4
    <3>6. mark \o port # <<>>
      BY <1>3, <3>2
    <3> QED BY ONLY <2>2, <3>1, <3>2, <3>5, <3>6
  <2> QED BY <2>1, <2>2
<1> HIDE DEF q
<1>5. /\ hostport \in Seq(A) /\ Len(hostport) = h + Len(q) /\ Len(q) \in Nat
      /\ SubSeq(hostport, 1, h) = host /\ From(hostport, h + 1) = q
      /\ hostport[1] = host[1]
      /\ \A i \in 1..Len(hostport) : hostport[i] # "/"
  <2>1. hostport \in Seq(A) /\ Len(hostport) = h + Len(q) /\ Len(q) \in Nat
    BY <1>1, <1>4
  <2>2. SubSeq(hostport, 1, h) = host /\ From(hostport, h + 1) = q
    BY <1>1, <1>4, JoinedComesApart
  <2>3. /\ \A i \in 1..Len(host) : hostport[i] = host[i]
        /\ \A i \in 1..Len(q) : hostport[Len(host) + i] = q[i]
    BY <1>1, <1>4
  <2>4. 1 \in 1..Len(host)
    BY <1>3
  <2>5. \A i \in 1..Len(hostport) : i \in 1..Len(host) \/ (i - h \in 1..Len(q) /\ h + (i - h) = i)
    BY <1>3, <2>1
  <2> HIDE DEF hostport
  <2>6. \A i \in 1..Len(hostport) : hostport[i] # "/"
    <3>1. \A i \in 1..Len(host) : host[i] # "/"
      BY <1>1
    <3>2. \A i \in 1..Len(q) : q[i] # "/"
      BY <1>4
    <3> TAKE i \in 1..Len(hostport)
    <3>3. CASE i \in 1..Len(host)
      BY ONLY <2>3, <3>1, <3>3
    <3>4. CASE i - h \in 1..Len(q) /\ h + (i - h) = i
      <4> DEFINE k == i - h
      <4>1. k \in 1..Len(q) /\ Len(host) + k = i
        BY <3>4
      <4> HIDE DEF k
      <4> QED BY ONLY <2>3, <3>2, <4>1
    <3> QED BY ONLY <2>5, <3>3, <3>4
  <2> QED BY <2>1, <2>2, <2>3, <2>4, <2>6
<1>6. FirstOf(hostport, 1, {":"}) = h + 1
  <2>1. \A i \in 1..Len(host) : host[i] \notin {":"}
    BY <1>1
  <2>2. q = <<>> \/ q[1] \in {":"}
    BY <1>4
  <2> HIDE DEF h
  <2> QED BY ONLY <1>1, <1>4, <2>1, <2>2, FirstOfJoined DEF h
<1> DEFINE slash == Len(hostport) + 1
<1>7. /\ url \in Seq(A) /\ Len(url) = Len(hostport) + Len(path) /\ url # <<>>
      /\ SubSeq(url, 1, Len(hostport)) = hostport /\ url[1] = host[1]
  <2> HIDE DEF hostport
  <2>1. url \in Seq(A) /\ Len(url) = Len(hostport) + Len(path) /\ Len(hostport) > 0
    <3>1. hostport \in Seq(A) /\ path \in Seq(A) /\ Len(hostport) = h + Len(q)
      BY <1>1, <1>5
    <3>2. h + Len(q) > 0
      BY <1>3, <1>5
    <3>3. url \in Seq(A) /\ Len(url) = Len(hostport) + Len(path)
      BY ONLY <3>1, JoinedParts
    <3> QED BY ONLY <3>1, <3>2, <3>3
  <2>2. SubSeq(url, 1, Len(hostport)) = hostport
    BY <1>1, <1>5, JoinedComesApart
  <2>3. 1 \in 1..Len(hostport)
    BY <1>3, <1>5
  <2>4. url[1] = hostport[1]
    BY <1>1, <1>5, <2>3
  <2>5. url # <<>>
    BY <1>3, <2>1
  <2> QED BY <1>5, <2>1, <2>2, <2>4, <2>5
<1>8. FirstOf(url, 1, {"/"}) = slash
  <2>1. \A i \in 1..Len(hostport) : hostport[i] \notin {"/"}
    BY <1>5
  <2>2. path = <<>> \/ path[1] \in {"/"}
    BY <1>1
  <2> HIDE DEF hostport
  <2> QED BY ONLY <1>1, <1>5, <2>1, <2>2, FirstOfJoined
<1>9. url[1] \notin Scheme
  <2>1. 1 \in 1..Len(host)
    BY <1>3
  <2> QED BY <1>1, <1>7, <2>1
<1>10. s = scheme \o url
  <2>0. scheme \in Seq(A \cup Scheme)
    <3>1. CASE scheme = <<>>
      BY <3>1
    <3>2. ASSUME NEW x \in Scheme, scheme = <<x>> PROVE scheme \in Seq(A \cup Scheme)
      <4>1. x \in A \cup Scheme
        OBVIOUS
      <4> QED BY ONLY <3>2, <4>1
    <3> QED BY <3>1, <3>2 DEF Schemes
  <2>1. s = ((scheme \o host) \o q) \o path
    BY DEF Url, q, mark
  <2> DEFINE B == A \cup Scheme
  <2>2. scheme \in Seq(B) /\ host \in Seq(B) /\ q \in Seq(B) /\ path \in Seq(B)
        /\ hostport \in Seq(B)
    BY <1>1, <1>4, <1>5, <2>0
  <2> HIDE DEF B
  <2>3. (scheme \o host) \o q = scheme \o (host \o q)
    BY ONLY <2>2, Regrouped
  <2> HIDE DEF hostport
  <2>4. (scheme \o hostport) \o path = scheme \o (hostport \o path)
    BY ONLY <2>2, Regrouped
  <2>5. (scheme \o host) \o q = scheme \o hostport
    BY <2>3 DEF hostport
  <2> QED BY ONLY <2>1, <2>4, <2>5
<1> HIDE DEF hostport, url
<1>11. WithoutScheme(s) = url /\ ((At(s, 1) = "http://") <=> (scheme = <<"http://">>))
  BY <1>7, <1>9, <1>10, SchemeComesOff
<1>12. slash - 1 = Len(hostport) /\ slash \in Nat /\ slash <= Len(url) + 1 /\ Len(url) \in Nat
       /\ h + 1 - 1 = h /\ h + 1 # 1 /\ Len(hostport) > 0 /\ hostport # <<>>
       /\ (port = <<>> => Len(hostport) = h /\ h + 1 > Len(hostport) /\ ~ (h + 1 <= Len(hostport)))
       /\ (port # <<>> => h + 1 <= Len(hostport) /\ h + 1 < slash /\ ~ (slash < h + 1)
                          /\ ~ (h + 1 > Len(url)) /\ Len(hostport) = h + 1 + Len(port))
  <2>1. Len(hostport) \in Nat /\ Len(url) \in Nat /\ Len(hostport) > 0
    BY <1>3, <1>5, <1>7
  <2>2. port = <<>> => Len(hostport) = h
    <3>1. port = <<>> => Len(q) = 0
      BY <1>4
    <3> QED BY <1>3, <1>5, <3>1
  <2>3. port # <<>> => Len(hostport) = h + (1 + Len(port))
    BY <1>4, <1>5
  <2>4. hostport # <<>>
    BY <2>1
  <2>5. h \in Nat \ {0} /\ Len(port) \in Nat /\ Len(path) \in Nat /\ (port # <<>> => Len(port) > 0)
    BY <1>3
  <2>6. Len(url) = Len(hostport) + Len(path)
    BY <1>7
  <2> DEFINE l == Len(hostport)
             n == Len(url)
  <2> HIDE DEF h, l, n
  <2>7. l \in Nat /\ n \in Nat /\ l > 0 /\ n = l + Len(path) /\ (port = <<>> => l = h)
        /\ (port # <<>> => l = h + (1 + Len(port))) /\ slash = l + 1
    BY <2>1, <2>2, <2>3, <2>6 DEF l, n
  <2> HIDE DEF slash
  <2>8. /\ slash - 1 = l /\ slash \in Nat /\ slash <= n + 1
        /\ h + 1 - 1 = h /\ h + 1 # 1
        /\ (port = <<>> => h + 1 > l /\ ~ (h + 1 <= l))
        /\ (port # <<>> => h + 1 <= l /\ h + 1 < slash /\ ~ (slash < h + 1)
                           /\ ~ (h + 1 > n) /\ l = h + 1 + Len(port))
    BY ONLY <2>5, <2>7
  <2> QED BY ONLY <2>4, <2>7, <2>8 DEF l, n
<1>13. port # <<>> => From(hostport, h + 1 + 1) = port
                      /\ SubSeq(url, h + 1 + 1, slash - 1) = port
  <2> SUFFICES ASSUME port # <<>> PROVE /\ From(hostport, h + 1 + 1) = port
                                        /\ SubSeq(url, h + 1 + 1, slash - 1) = port
    OBVIOUS
  <2>1. hostport = (host \o mark) \o port
    <3>1. hostport = host \o (mark \o port)
      BY <1>4 DEF hostport
    <3>2. host \o (mark \o port) = (host \o mark) \o port
      <4>1. (host \o mark) \o port = host \o (mark \o port)
        BY ONLY <1>0, <1>1, Zenon DEF Grouped
      <4> QED BY Zenon, <4>1
    <3> QED BY ONLY <3>1, <3>2
  <2> DEFINE front == host \o mark
  <2>2. front \in Seq(A) /\ Len(front) = h + 1
    <3>1. host \in Seq(A) /\ mark \in Seq(A) /\ Len(mark) = 1
      BY <1>1
    <3>2. front \in Seq(A)
      BY ONLY <3>1, JoinedParts
    <3>3. Len(front) = Len(host) + Len(mark)
      BY ONLY <3>1, JoinedParts
    <3> QED BY ONLY <3>1, <3>2, <3>3
  <2> HIDE DEF front
  <2>3. From(hostport, Len(front) + 1) = port
    <3>1. From(front \o port, Len(front) + 1) = port
      BY ONLY <1>1, <2>2, JoinedComesApart
    <3> QED BY ONLY <2>1, <3>1 DEF front
  <2>4. SubSeq((front \o port) \o path, Len(front) + 1, Len(front) + Len(port)) = port
    BY <1>1, <2>2, MiddleComesApart
  <2>5. url = (front \o port) \o path
    BY <2>1 DEF url, front
  <2>6. Len(front) + Len(port) = slash - 1
    BY <1>3, <1>12, <2>2
  <2> QED BY ONLY <2>2, <2>3, <2>4, <2>5, <2>6
<1>14. Stoi(port) = port
  BY <1>1, StoiReadsAll
<1> HIDE DEF slash, h
<1>15. /\ ParseApiEndpoint(s).ok /\ ParseApiEndpoint(s).host = host
       /\ ParseApiEndpoint(s).ssl = (scheme # <<"http://">>)
       /\ port # <<>> => ParseApiEndpoint(s).port = Port(port)
  <2>1. SubSeq(url, 1, slash - 1) = hostport
    BY <1>7, <1>12
  <2>2. ~ (h + 1 = 1 \/ hostport = <<>>
           \/ (h + 1 <= Len(hostport) /\ Stoi(From(hostport, h + 1 + 1)) = <<>>))
    BY ONLY <1>12, <1>13, <1>14
  <2> DEFINE colon == h + 1
             digits == Stoi(From(hostport, colon + 1))
             within == h + 1 <= Len(hostport)
  <2>3. ApiParts(s, url, slash, hostport, colon, digits)
    BY ONLY <1>6, <1>8, <1>11, <2>1, <2>2 DEF ApiParts
  <2>4. host = SubSeq(hostport, 1, colon - 1)
    <3>1. colon - 1 = h
      BY ONLY <1>3a
    <3> HIDE DEF colon
    <3> QED BY ONLY <1>5, <3>1
  <2>5. /\ colon <= Len(hostport) <=> within
        /\ within => digits = port
    BY ONLY <1>12, <1>13, <1>14
  <2> HIDE DEF colon, digits, within
  <2>6. /\ ParseApiEndpoint(s).ok
        /\ ParseApiEndpoint(s).host = host
        /\ ParseApiEndpoint(s).ssl = (~ (At(s, 1) = "http://"))
        /\ colon <= Len(hostport) => ParseApiEndpoint(s).port = Port(digits)
    BY ONLY <2>3, <2>4, ApiTakes, Zenon
  <2>7. port # <<>> => within
    BY ONLY <1>12 DEF within
  <2>8. port # <<>> => ParseApiEndpoint(s).port = Port(port)
    BY ONLY <2>5, <2>6, <2>7, Zenon
  <2>9. (~ (At(s, 1) = "http://")) = (scheme # <<"http://">>)
    BY ONLY <1>11
  <2> QED BY ONLY <2>6, <2>8, <2>9, Zenon
<1>16. ASSUME port # <<>> \/ \A i \in DOMAIN path : path[i] # ":"
       PROVE  /\ OllamaServer(s).host = host
              /\ OllamaServer(s).port = IF port = <<>> THEN 11434 ELSE Port(port)
  <2>1. CASE port # <<>>
    <3>1. FirstOf(url, 1, {":"}) = h + 1
      <4> DEFINE rest == q \o path
      <4>1. url = host \o rest
        <5>1. (host \o q) \o path = host \o (q \o path)
          BY ONLY <1>0, <1>1, <1>4, Zenon DEF Grouped
        <5> QED BY Zenon, <5>1 DEF url, hostport
      <4>2. rest \in Seq(A) /\ rest[1] \in {":"}
        BY <1>1, <1>4, <2>1
      <4>3. \A i \in 1..Len(host) : host[i] \notin {":"}
        BY <1>1
      <4> HIDE DEF rest
      <4> QED BY ONLY <1>1, <4>1, <4>2, <4>3, FirstOfJoined DEF h
    <3>2. SubSeq(url, 1, h) = host
      <4> DEFINE rest == q \o path
      <4>1. url = host \o rest
        <5>1. (host \o q) \o path = host \o (q \o path)
          BY ONLY <1>0, <1>1, <1>4, Zenon DEF Grouped
        <5> QED BY Zenon, <5>1 DEF url, hostport
      <4>2. rest \in Seq(A)
        BY <1>1, <1>4
      <4> HIDE DEF rest
      <4> QED BY ONLY <1>1, <4>1, <4>2, JoinedComesApart DEF h
    <3> DEFINE colon == h + 1
    <3>4. /\ ~ (colon > Len(url)) /\ ~ (slash < colon)
          /\ SubSeq(url, colon + 1, slash - 1) = port
          /\ SubSeq(url, 1, colon - 1) = host
      <4>1. /\ ~ (colon > Len(url)) /\ ~ (slash < colon)
            /\ SubSeq(url, colon + 1, slash - 1) = port
        BY ONLY <1>12, <1>13, <2>1
      <4>2. colon - 1 = h
        BY ONLY <1>3a
      <4> HIDE DEF colon
      <4> QED BY ONLY <3>2, <4>1, <4>2
    <3>5. Stoi(SubSeq(url, colon + 1, slash - 1)) = port
      BY ONLY <1>14, <3>4
    <3>6. Stoi(SubSeq(url, colon + 1, slash - 1)) # <<>>
      BY ONLY <2>1, <3>5
    <3>7. Port(port) = Port(Stoi(SubSeq(url, colon + 1, slash - 1)))
      BY ONLY <3>5, Zenon
    <3>8. WithoutScheme(s) = url /\ FirstOf(url, 1, {":"}) = colon /\ FirstOf(url, 1, {"/"}) = slash
      BY ONLY <1>8, <1>11, <3>1 DEF colon
    <3> DEFINE number == Port(port)
    <3>9. number = Port(Stoi(SubSeq(url, colon + 1, slash - 1)))
      BY ONLY <3>7
    <3> HIDE DEF number
    <3>10. OllamaParts(s, url, colon, slash, host, number)
      BY ONLY <3>4, <3>6, <3>8, <3>9 DEF OllamaParts
    <3>11. OllamaServer(s).host = host /\ OllamaServer(s).port = number
      BY ONLY <3>10, OllamaTakes, Zenon
    <3> QED BY ONLY <2>1, <3>11 DEF number
  <2>2. CASE port = <<>>
    <3>1. \A i \in DOMAIN path : path[i] # ":"
      BY <1>16, <2>2
    <3>2. hostport = host
      BY <1>1, <1>4, <2>2 DEF hostport
    <3>3. FirstOf(url, 1, {":"}) = Len(url) + 1
      <4>1. \A i \in 1..Len(url) : url[i] # ":"
        <5>1. /\ url = host \o path /\ Len(url) = Len(host) + Len(path)
              /\ \A i \in 1..Len(host) : (host \o path)[i] = host[i]
              /\ \A i \in 1..Len(path) : (host \o path)[Len(host) + i] = path[i]
          BY <1>1, <1>7, <3>2 DEF url
        <5>2. Len(host) \in Nat /\ Len(path) \in Nat /\ DOMAIN path = 1..Len(path)
          BY <1>1
        <5>3. \A i \in 1..Len(url) : i \in 1..Len(host)
                 \/ (i - Len(host) \in 1..Len(path) /\ Len(host) + (i - Len(host)) = i)
          BY <5>1, <5>2
        <5>4. ASSUME NEW i \in 1..Len(url)
              PROVE  url[i] # ":"
          <6>1. CASE i \in 1..Len(host)
            BY <1>1, <5>1, <6>1
          <6>2. CASE i - Len(host) \in 1..Len(path) /\ Len(host) + (i - Len(host)) = i
            <7> DEFINE k == i - Len(host)
            <7>1. k \in 1..Len(path) /\ Len(host) + k = i
              BY <6>2
            <7> HIDE DEF k
            <7>2. url[Len(host) + k] = path[k]
              BY <5>1, <7>1
            <7> QED BY <3>1, <5>2, <7>1, <7>2
          <6> QED BY <5>3, <6>1, <6>2
        <5> QED BY <5>4
      <4>2. 1 \in 1..Len(url)+1 /\ Len(url) + 1 \in 1..Len(url)+1
            /\ \A j \in 1..(Len(url) + 1)-1 : j \in 1..Len(url)
        BY <1>12
      <4>3. \A j \in 1..(Len(url) + 1)-1 : url[j] \notin {":"}
        BY <4>1, <4>2
      <4> QED BY ONLY <1>7, <4>2, <4>3, FirstOfAt
    <3>4. Len(url) + 1 > Len(url)
      BY <1>12
    <3>5. SubSeq(url, 1, slash - 1) = host
      BY <1>7, <1>12, <3>2
    <3> DEFINE colon == Len(url) + 1
    <3>6. WithoutScheme(s) = url /\ FirstOf(url, 1, {":"}) = colon /\ FirstOf(url, 1, {"/"}) = slash
      BY ONLY <1>8, <1>11, <3>3
    <3>7. colon > Len(url)
      BY ONLY <3>4
    <3> DEFINE standard == 11434
    <3>8. standard = 11434
      OBVIOUS
    <3> HIDE DEF colon, standard
    <3>9. OllamaParts(s, url, colon, slash, host, standard)
      BY ONLY <3>5, <3>6, <3>7, <3>8 DEF OllamaParts
    <3>10. OllamaServer(s).host = host /\ OllamaServer(s).port = standard
      BY ONLY <3>9, OllamaTakes, Zenon
    <3> QED BY ONLY <2>2, <3>8, <3>10
  <2> QED BY <2>1, <2>2
<1> QED BY ONLY <1>15, <1>16

(* An address of the daemon that is taken was put together of the host, a  *)
(* colon and the port.                                                     *)
LEMMA DaemonAddrComesApart ==
  ASSUME NEW S, NEW s \in Seq(S), ParseDaemonAddr(s).ok
  PROVE  LET addr == ParseDaemonAddr(s)
         IN \E port \in DOMAIN s :
              /\ s = addr.host \o <<":">> \o From(s, port) /\ addr.host # <<>>
              /\ Port(From(s, port)) = addr.port
<1> DEFINE colons == {i \in DOMAIN s : s[i] = ":"}
           colon == Max(colons)
           port == From(s, colon + 1)
           front == SubSeq(s, 1, colon - 1)
           refused == colons = {} \/ colon = 1 \/ colon = Len(s)
           odd == ~(\A i \in DOMAIN port : port[i] \in PortDigits) \/ Port(port) \notin 1..MaxPort
           addr == [ok |-> TRUE, host |-> front, port |-> Port(port)]
<1>1. ParseDaemonAddr(s) = IF refused THEN Bad ELSE IF odd THEN Bad ELSE addr
  BY Zenon DEF ParseDaemonAddr
<1>2. ~ Bad.ok
  BY Zenon DEF Bad
<1>3. addr.host = front /\ addr.port = Port(port)
  BY Zenon
<1> HIDE DEF refused, odd, addr
<1>4. ~ refused /\ ParseDaemonAddr(s) = addr
  <2>1. CASE refused
    <3>1. ParseDaemonAddr(s) = Bad
      BY ONLY <1>1, <2>1, Zenon
    <3> QED BY <1>2, <3>1, Zenon
  <2>2. CASE ~ refused /\ odd
    <3>1. ParseDaemonAddr(s) = Bad
      BY ONLY <1>1, <2>2, Zenon
    <3> QED BY <1>2, <3>1, Zenon
  <2>3. CASE ~ refused /\ ~ odd
    BY ONLY <1>1, <2>3, Zenon
  <2> QED BY ONLY <2>1, <2>2, <2>3
<1>5. Len(s) \in Nat /\ DOMAIN s = 1..Len(s)
  OBVIOUS
<1>6. colon \in 1..Len(s) /\ s[colon] = ":" /\ colon # 1 /\ colon # Len(s)
  <2>1. colons # {} /\ colon # 1 /\ colon # Len(s)
    BY ONLY <1>4, Zenon DEF refused
  <2>2. colons \in SUBSET (0..Len(s))
    BY <1>5
  <2> HIDE DEF colons
  <2>3. colon \in colons
    BY ONLY <1>5, <2>1, <2>2, GreatestIs, Zenon
  <2> QED BY <1>5, <2>1, <2>3 DEF colons
<1> HIDE DEF colon
<1> DEFINE n == Len(s)
<1>6a. n \in Nat /\ colon \in 1..n /\ colon # 1 /\ colon # n
  BY ONLY <1>5, <1>6
<1> HIDE DEF n
<1>7. /\ colon + 1 \in 1..n /\ colon - 1 \in 1..n /\ colon - 1 + 1 = colon /\ colon \in Nat
      /\ colon + 1 \in Nat \ {0} /\ colon - 1 \in Nat /\ colon + 1 <= n /\ colon - 1 <= n
      /\ n - (colon + 1) + 1 = n - colon /\ n - colon \in Nat
  BY ONLY <1>6a
<1>7a. n = Len(s) /\ DOMAIN s = 1..n
  BY <1>5 DEF n
<1> DEFINE mark == <<":">>
<1>8. mark \in Seq({":"}) /\ Len(mark) = 1 /\ mark[1] = ":"
  OBVIOUS
<1>9. /\ front \in Seq(S) /\ Len(front) = colon - 1
      /\ \A k \in 1..Len(front) : front[k] = s[k]
  <2>1. SubSeq(s, 1, colon - 1) \in Seq(S)
    BY ONLY <1>7, <1>7a, s \in Seq(S), PieceIs, 1 \in Nat \ {0}, colon - 1 \in Int
  <2>2. Len(SubSeq(s, 1, colon - 1)) = colon - 1
    BY ONLY <1>7, <1>7a, s \in Seq(S)
  <2>3. \A k \in 1..(colon - 1) : SubSeq(s, 1, colon - 1)[k] = s[k]
    BY ONLY <1>7, <1>7a, s \in Seq(S)
  <2> QED BY ONLY <2>1, <2>2, <2>3
<1>10. /\ port \in Seq(S) /\ Len(port) = Len(s) - colon
       /\ \A k \in 1..Len(port) : port[k] = s[colon + k]
  <2> DEFINE m == colon + 1
  <2>1. m \in Nat \ {0} /\ m <= n /\ n - m + 1 = n - colon /\ n - m + 1 \in Nat
    BY ONLY <1>7
  <2>2. \A k \in 1..(n - colon) : m + k - 1 = colon + k
    BY ONLY <1>7
  <2> HIDE DEF m
  <2>3. SubSeq(s, m, n) \in Seq(S)
    <3>1. n \in Int /\ n <= Len(s)
      BY ONLY <1>6a, <1>7a
    <3> QED BY ONLY <2>1, <3>1, s \in Seq(S), PieceIs
  <2>4. Len(SubSeq(s, m, n)) = n - m + 1
        /\ \A k \in 1..(n - m + 1) : SubSeq(s, m, n)[k] = s[m + k - 1]
    BY ONLY <1>6a, <1>7a, <2>1, s \in Seq(S)
  <2>5. port = SubSeq(s, m, n)
    BY DEF From, m, n
  <2> HIDE DEF port
  <2> QED BY ONLY <1>7a, <2>1, <2>2, <2>3, <2>4, <2>5
<1> HIDE DEF front, port, mark
<1> DEFINE T == S \cup {":"}
           head == front \o mark
<1>11. front \in Seq(T) /\ mark \in Seq(T) /\ port \in Seq(T)
  BY <1>8, <1>9, <1>10
<1> HIDE DEF T
<1>12. head \in Seq(T)
  BY ONLY <1>11, JoinedParts
<1>13. Len(head) = Len(front) + Len(mark)
  BY ONLY <1>11, JoinedParts
<1>14. \A k \in 1..Len(front) : head[k] = front[k]
  BY ONLY <1>11, JoinedParts
<1>15. \A k \in 1..Len(mark) : head[Len(front) + k] = mark[k]
  BY ONLY <1>11, JoinedParts
<1> HIDE DEF head
<1>16. Len(head) = colon /\ \A k \in 1..colon : head[k] = s[k]
  <2>1. Len(head) = colon
    BY <1>6, <1>8, <1>9, <1>13
  <2>2. 1 \in 1..Len(mark) /\ Len(front) + 1 = colon
    BY <1>6, <1>8, <1>9
  <2>3. head[colon] = ":"
    BY ONLY <1>8, <1>15, <2>2
  <2>4. \A k \in 1..colon : k \in 1..Len(front) \/ k = colon
    BY <1>6, <1>9
  <2> QED BY ONLY <1>6, <1>9, <1>14, <2>1, <2>3, <2>4
<1> DEFINE whole == head \o port
<1>17. whole \in Seq(T)
  BY ONLY <1>11, <1>12, JoinedParts
<1>18. Len(whole) = Len(head) + Len(port)
  BY ONLY <1>11, <1>12, JoinedParts
<1>19. \A k \in 1..Len(head) : whole[k] = head[k]
  BY ONLY <1>11, <1>12, JoinedParts
<1>20. \A k \in 1..Len(port) : whole[Len(head) + k] = port[k]
  BY ONLY <1>11, <1>12, JoinedParts
<1> HIDE DEF whole
<1>21. Len(whole) = Len(s)
  BY ONLY <1>6a, <1>7a, <1>10, <1>16, <1>18
<1>22. ASSUME NEW k \in 1..Len(s)
       PROVE  whole[k] = s[k]
  <2>1. CASE k \in 1..colon
    BY ONLY <1>16, <1>19, <2>1
  <2>2. CASE k \notin 1..colon
    <3> DEFINE l == k - colon
    <3>1. l \in 1..Len(port) /\ colon + l = k
      <4>1. k \in 1..n
        BY <1>7a
      <4> QED BY ONLY <1>6a, <1>7a, <1>10, <2>2, <4>1
    <3> HIDE DEF l
    <3> QED BY ONLY <1>10, <1>16, <1>20, <3>1
  <2> QED BY <2>1, <2>2
<1>23. s \in Seq(T)
  <2>1. \A k \in 1..Len(s) : s[k] \in T
    BY DEF T
  <2> QED BY <2>1, TextOver
<1>24. s = whole
  BY ONLY <1>5, <1>17, <1>21, <1>22, <1>23, SeqEqual
<1>25. front # <<>>
  BY <1>7, <1>9
<1>26. From(s, colon + 1) = port
  BY DEF port
<1>27. (front \o mark) \o port = whole
  BY DEF whole, head
<1> DEFINE got == ParseDaemonAddr(s)
<1>28. got.host = front /\ got.port = Port(port)
  BY ONLY <1>3, <1>4, Zenon
<1> HIDE DEF got
<1>29. /\ s = (got.host \o mark) \o From(s, colon + 1) /\ got.host # <<>>
       /\ Port(From(s, colon + 1)) = got.port
  BY ONLY <1>24, <1>25, <1>26, <1>27, <1>28, Zenon
<1>30. colon + 1 \in DOMAIN s
  BY ONLY <1>7, <1>7a
<1> QED BY ONLY <1>29, <1>30, Zenon DEF got, mark

(* The hosts, ports and paths the addresses are checked with make a URL.   *)
LEMMA ChosenAreUrls ==
  ASSUME NEW host \in Hosts, NEW port \in Ports, NEW path \in Paths
  PROVE  IsUrl({"h", "/", ":"}, host, port, path)
<1>1. "h" \notin {":", "/"} \cup Scheme
  BY DEF Scheme
<1>2. /\ host \in Seq({"h", "/", ":"}) /\ host # <<>>
      /\ \A i \in 1..Len(host) : host[i] = "h"
  <2>1. CASE host = <<"h">>
    BY <2>1
  <2>2. CASE host = <<"h", "h">>
    BY <2>2
  <2> QED BY <2>1, <2>2 DEF Hosts
<1>3. port \in Seq(PortDigits)
  <2>1. CASE port = <<>>
    BY <2>1
  <2>2. CASE port = <<"1">>
    BY <2>2 DEF PortDigits
  <2>3. CASE port = <<"1", "0">>
    BY <2>3 DEF PortDigits
  <2> QED BY <2>1, <2>2, <2>3 DEF Ports
<1>4. path \in Seq({"h", "/", ":"}) /\ (path = <<>> \/ path[1] = "/")
  <2>1. CASE path = <<>>
    BY <2>1
  <2>2. CASE path = <<"/">>
    BY <2>2
  <2>3. CASE path = <<"/", "h">>
    BY <2>3
  <2>4. CASE path = <<"/", "h", ":">>
    BY <2>4
  <2>5. CASE path = <<"/", "h", "/">>
    BY <2>5
  <2> QED BY <2>1, <2>2, <2>3, <2>4, <2>5 DEF Paths
<1> QED BY <1>1, <1>2, <1>3, <1>4 DEF IsUrl

(* Every text that is an address comes apart into what it was put together *)
(* of (ParseDaemonAddr, ParseEndpoint, ParseApiEndpoint).                  *)
THEOREM AddressesComeApart ==
  ASSUME NEW S, NEW s \in Seq(S)
  PROVE  AddressComesApart(s)
<1> DEFINE First ==
             LET addr == ParseDaemonAddr(s)
             IN addr.ok => \E port \in DOMAIN s :
                  /\ s = addr.host \o <<":">> \o From(s, port) /\ addr.host # <<>>
                  /\ Port(From(s, port)) = addr.port
           Second(scheme, host, port, path) ==
             LET api == ParseApiEndpoint(s)
                 ollama == OllamaServer(s)
             IN /\ api.ok /\ api.host = host
                /\ api.ssl = (scheme # <<"http://">>)
                /\ port # <<>> => api.port = Port(port)
                /\ (port # <<>> \/ \A i \in DOMAIN path : path[i] # ":") =>
                     /\ ollama.host = host
                     /\ ollama.port = IF port = <<>> THEN 11434 ELSE Port(port)
<1>1. First
  BY DaemonAddrComesApart, Zenon
<1>2. ASSUME NEW scheme \in Schemes, NEW host \in Hosts, NEW port \in Ports, NEW path \in Paths,
             s = Url(scheme, host, port, path)
      PROVE  Second(scheme, host, port, path)
  BY <1>2, ChosenAreUrls, UrlComesApart
<1>3. AddressComesApart(s) <=>
        First /\ \A scheme \in Schemes, host \in Hosts, port \in Ports, path \in Paths :
                    s = Url(scheme, host, port, path) => Second(scheme, host, port, path)
  BY DEF AddressComesApart
<1> HIDE DEF First, Second
<1> QED BY <1>1, <1>2, <1>3

--------------------------------------------------------------------------------
(* The files of settings, which may be cut short: where the scanners find  *)
(* what stands there.                                                      *)

(* What the search finds, if it finds the word.                            *)
LEMMA FoundStands ==
  ASSUME NEW S, NEW s \in Seq(S), NEW W, NEW word \in Seq(W), NEW i \in Nat \ {0}
  PROVE  LET here == Find(s, word, i) IN
         /\ here = 0 => \A j \in Nat : j >= i => ~ StandsAt(s, j, word)
         /\ here # 0 => /\ here \in Nat /\ here >= i /\ StandsAt(s, here, word)
                        /\ \A j \in i..here-1 : ~ StandsAt(s, j, word)
<1> DEFINE P == {j \in i..(Len(s) - Len(word) + 1) : StartsAt(s, word, j)}
           here == Find(s, word, i)
<1>1. Len(s) \in Nat /\ Len(word) \in Nat
  OBVIOUS
<1>2. P \in SUBSET Nat /\ \A j \in P : j \in Nat \ {0} /\ i <= j /\ StandsAt(s, j, word)
  <2>1. \A j \in i..(Len(s) - Len(word) + 1) : j \in Nat \ {0}
    BY <1>1
  <2> QED BY <2>1, StartsIs
<1>3. ASSUME NEW j \in Nat, j >= i, StandsAt(s, j, word)
      PROVE  j \in P
  <2>1. j \in Nat \ {0} /\ j <= Len(s) - Len(word) + 1
    BY <1>1, <1>3 DEF StandsAt
  <2> QED BY <1>3, <2>1, StartsIs
<1>4. here = IF P = {} THEN 0 ELSE Min(P)
  BY DEF Find
<1> HIDE DEF P, here
<1>5. CASE P = {}
  <2>1. here = 0
    BY <1>4, <1>5
  <2> QED BY <1>3, <1>5, <2>1 DEF here
<1>6. CASE P # {}
  <2>1. here = Min(P)
    BY <1>4, <1>6
  <2>2. here \in P /\ \A l \in P : here <= l
    BY <1>2, <1>6, <2>1, LeastIs
  <2>3. here \in Nat /\ here >= i /\ here # 0 /\ StandsAt(s, here, word)
    BY <1>2, <2>2
  <2>4. ASSUME NEW j \in i..here-1
        PROVE  ~ StandsAt(s, j, word)
    <3>1. j \in Nat /\ j >= i /\ j < here
      BY <2>3
    <3> QED BY <1>3, <2>2, <2>3, <3>1
  <2> QED BY <2>3, <2>4 DEF here
<1> QED BY <1>5, <1>6

(* Put together of two parts.                                              *)
IsJoint(y, u, v) == y = u \o v

(* The scanners of the settings are those of the texts.                    *)
LEMMA FilesAreTexts ==
  ASSUME NEW s, NEW word, NEW i, NEW X
  PROVE  /\ AI!Find(s, word, i) = Find(s, word, i)
         /\ AI!PastAll(s, i, X) = PastAll(s, i, X)
         /\ AI!FirstOf(s, i, X) = FirstOf(s, i, X)
         /\ Rerank!Find(s, word, i) = Find(s, word, i)
         /\ Rerank!PastAll(s, i, X) = PastAll(s, i, X)
         /\ Rerank!FirstOf(s, i, X) = FirstOf(s, i, X)
         /\ Rerank!Trim(s, X) = Trim(s, X)
         /\ Rerank!From(s, i) = From(s, i)
         /\ Rerank!At(s, i) = At(s, i)
BY DEF AI!Find, Find, AI!StartsAt, StartsAt, AI!Min, Min, AI!PastAll, PastAll,
       AI!FirstOf, FirstOf, Rerank!Find, Rerank!StartsAt, Rerank!Min, Rerank!PastAll,
       Rerank!FirstOf, Rerank!Trim, Trim, Rerank!Max, Max, Rerank!From, From, Rerank!At, At

(* A symbol is found at its first place.                                   *)
LEMMA SymbolFound ==
  ASSUME NEW S, NEW s \in Seq(S), NEW c, NEW i \in Nat \ {0}
  PROVE  LET q == Find(s, <<c>>, i) IN
         \/ q = 0 /\ \A j \in i..Len(s) : s[j] # c
         \/ q \in i..Len(s) /\ s[q] = c /\ \A j \in i..q-1 : s[j] # c
<1> DEFINE q == Find(s, <<c>>, i)
<1>1. <<c>> \in Seq({c}) /\ Len(<<c>>) = 1 /\ <<c>>[1] = c /\ Len(s) \in Nat
  OBVIOUS
<1>2. ASSUME NEW j \in Nat \ {0}
      PROVE  StandsAt(s, j, <<c>>) <=> j <= Len(s) /\ s[j] = c
  <2>1. j - 1 + 1 = j /\ \A k \in 1..1 : k = 1
    OBVIOUS
  <2>2. (\A k \in 1..1 : s[j - 1 + k] = <<c>>[k]) <=> s[j] = c
    BY <1>1, <2>1
  <2>3. j + 1 <= Len(s) + 1 <=> j <= Len(s)
    BY <1>1
  <2> QED BY <1>1, <2>2, <2>3 DEF StandsAt
<1>3. /\ q = 0 => \A j \in Nat : j >= i => ~ StandsAt(s, j, <<c>>)
      /\ q # 0 => /\ q \in Nat /\ q >= i /\ StandsAt(s, q, <<c>>)
                  /\ \A j \in i..q-1 : ~ StandsAt(s, j, <<c>>)
  BY <1>1, FoundStands
<1> HIDE DEF q
<1>4. CASE q = 0
  <2>1. \A j \in i..Len(s) : j \in Nat \ {0} /\ j >= i /\ j <= Len(s)
    BY <1>1
  <2> QED BY <1>2, <1>3, <1>4, <2>1 DEF q
<1>5. CASE q # 0
  <2>1. q \in Nat \ {0} /\ q >= i /\ q <= Len(s) /\ s[q] = c
    BY <1>2, <1>3, <1>5
  <2>2. \A j \in i..q-1 : j \in Nat \ {0} /\ j <= Len(s)
    BY <1>1, <2>1
  <2> QED BY <1>1, <1>2, <1>3, <1>5, <2>1, <2>2 DEF q
<1> QED BY <1>4, <1>5

(* A key in quotes, as a file has it, stands in a text.                    *)
LEMMA KeyStands ==
  ASSUME NEW S, NEW s \in Seq(S), NEW key, NEW j \in Nat \ {0}
  PROVE  StandsAt(s, j, <<"quote", key, "quote">>) <=>
           j + 2 <= Len(s) /\ s[j] = "quote" /\ s[j + 1] = key /\ s[j + 2] = "quote"
<1> DEFINE word == <<"quote", key, "quote">>
<1>1. Len(word) = 3 /\ word[1] = "quote" /\ word[2] = key /\ word[3] = "quote" /\ Len(s) \in Nat
  OBVIOUS
<1> HIDE DEF word
<1>2. /\ j - 1 + 1 = j /\ j - 1 + 2 = j + 1 /\ j - 1 + 3 = j + 2
      /\ \A k \in 1..3 : k = 1 \/ k = 2 \/ k = 3
  OBVIOUS
<1>3. (\A k \in 1..3 : s[j - 1 + k] = word[k]) <=>
        s[j - 1 + 1] = word[1] /\ s[j - 1 + 2] = word[2] /\ s[j - 1 + 3] = word[3]
  BY ONLY <1>2
<1>4. j + 3 <= Len(s) + 1 <=> j + 2 <= Len(s)
  BY <1>1
<1>5. StandsAt(s, j, word) <=> j + 3 <= Len(s) + 1 /\ \A k \in 1..3 : s[j - 1 + k] = word[k]
  BY <1>1 DEF StandsAt
<1> QED BY <1>1, <1>2, <1>3, <1>4, <1>5 DEF word

--------------------------------------------------------------------------------
(* A line of a file, as far as the file goes: its key stands nowhere else, *)
(* and its value ends in a comma or stands in the last line.               *)
StandsCut(t, pos, key, value) ==
  /\ pos \in Nat \ {0} /\ Len(value) \in Nat
  /\ \A j \in 1..Len(t) : t[j] = key => j = pos + 1
  /\ \A k \in 1..5 :
       pos - 1 + k <= Len(t) => t[pos - 1 + k] = <<"quote", key, "quote", ":", Space>>[k]
  /\ \A k \in 1..Len(value) : pos + 4 + k <= Len(t) => t[pos + 4 + k] = value[k]
  /\ \/ pos + 5 + Len(value) <= Len(t) => t[pos + 5 + Len(value)] = "comma"
     \/ \A j \in pos+5+Len(value)..Len(t) : t[j] \in {"nl", "rbrace"}

(* Its places, one by one.                                                 *)
LEMMA CutPlaces ==
  ASSUME NEW t, NEW pos, NEW key, NEW value, StandsCut(t, pos, key, value)
  PROVE  /\ pos <= Len(t) => t[pos] = "quote"
         /\ pos + 1 <= Len(t) => t[pos + 1] = key
         /\ pos + 2 <= Len(t) => t[pos + 2] = "quote"
         /\ pos + 3 <= Len(t) => t[pos + 3] = ":"
         /\ pos + 4 <= Len(t) => t[pos + 4] = Space
<1> DEFINE u == <<"quote", key, "quote", ":", Space>>
<1>1. u[1] = "quote" /\ u[2] = key /\ u[3] = "quote" /\ u[4] = ":" /\ u[5] = Space
  OBVIOUS
<1> HIDE DEF u
<1>2. pos \in Nat /\ \A k \in 1..5 : pos - 1 + k <= Len(t) => t[pos - 1 + k] = u[k]
  BY DEF StandsCut, u
<1>3. /\ pos - 1 + 1 = pos /\ pos - 1 + 2 = pos + 1 /\ pos - 1 + 3 = pos + 2
      /\ pos - 1 + 4 = pos + 3 /\ pos - 1 + 5 = pos + 4
  BY <1>2
<1> QED BY ONLY <1>1, <1>2, <1>3

(* Its key is found as soon as the file has it.                            *)
LEMMA KeyFound ==
  ASSUME NEW S, NEW t \in Seq(S), NEW pos, NEW key, NEW value, StandsCut(t, pos, key, value)
  PROVE  Find(t, <<"quote", key, "quote">>, 1) = IF pos + 2 <= Len(t) THEN pos ELSE 0
<1> DEFINE word == <<"quote", key, "quote">>
           found == Find(t, word, 1)
<1>1. /\ pos \in Nat \ {0} /\ Len(t) \in Nat
      /\ \A j \in 1..Len(t) : t[j] = key => j = pos + 1
  <2>1. Len(t) \in Nat
    OBVIOUS
  <2> QED BY <2>1 DEF StandsCut
<1>2. /\ pos <= Len(t) => t[pos] = "quote"
      /\ pos + 1 <= Len(t) => t[pos + 1] = key
      /\ pos + 2 <= Len(t) => t[pos + 2] = "quote"
  BY CutPlaces
<1>3. word \in Seq({"quote", key}) /\ Len(word) = 3
  OBVIOUS
<1>4. ASSUME NEW j \in Nat \ {0}, StandsAt(t, j, word)
      PROVE  j = pos /\ pos + 2 <= Len(t)
  <2>1. j + 2 <= Len(t) /\ t[j + 1] = key
    BY <1>4, KeyStands
  <2>2. j + 1 \in 1..Len(t)
    BY <1>1, <2>1
  <2>3. j + 1 = pos + 1
    BY <1>1, <2>1, <2>2
  <2> QED BY <1>1, <2>1, <2>3
<1>5. CASE pos + 2 > Len(t)
  <2> HIDE DEF word
  <2>1. found # 0 => found \in Nat /\ found >= 1 /\ StandsAt(t, found, word)
    BY <1>3, FoundStands
  <2> HIDE DEF found
  <2>2. ~ (found # 0)
    <3>1. SUFFICES ASSUME found # 0 PROVE FALSE
      OBVIOUS
    <3>2. found \in Nat \ {0} /\ StandsAt(t, found, word)
      BY <2>1, <3>1
    <3>3. pos + 2 <= Len(t)
      BY <1>4, <3>2
    <3> QED BY <1>1, <1>5, <3>3
  <2> QED BY <1>1, <1>5, <2>2 DEF found, word
<1>6. CASE pos + 2 <= Len(t)
  <2>1. StandsAt(t, pos, word)
    <3>1. t[pos] = "quote" /\ t[pos + 1] = key /\ t[pos + 2] = "quote"
      BY <1>1, <1>2, <1>6
    <3> QED BY <1>1, <1>6, <3>1, KeyStands
  <2>2. \A j \in 1..pos-1 : ~ StandsAt(t, j, word)
    <3>1. \A j \in 1..pos-1 : j \in Nat \ {0} /\ j # pos
      BY <1>1
    <3> HIDE DEF word
    <3> QED BY <1>4, <3>1
  <2>3. 1 \in Nat \ {0} /\ 1 <= pos
    BY <1>1
  <2>4. found = pos
    <3> HIDE DEF word
    <3> QED BY <1>3, <2>1, <2>2, <2>3, FindIs
  <2> QED BY <1>6, <2>4
<1> QED BY <1>1, <1>5, <1>6

(* Its key's colon is found as soon as the file has it.                    *)
LEMMA ColonIs ==
  ASSUME NEW S, NEW t \in Seq(S), NEW pos, NEW key, NEW value, key # ":",
         StandsCut(t, pos, key, value)
  PROVE  AI!Colon(t, key) = IF pos + 3 <= Len(t) THEN pos + 3 ELSE 0
<1> DEFINE word == <<"quote", key, "quote">>
           found == Find(t, word, 1)
           colon == Find(t, <<":">>, pos)
<1>1. /\ pos \in Nat \ {0} /\ Len(t) \in Nat
      /\ \A j \in 1..Len(t) : t[j] = key => j = pos + 1
  <2>1. Len(t) \in Nat
    OBVIOUS
  <2> QED BY <2>1 DEF StandsCut
<1>2. /\ pos <= Len(t) => t[pos] = "quote"
      /\ pos + 1 <= Len(t) => t[pos + 1] = key
      /\ pos + 2 <= Len(t) => t[pos + 2] = "quote"
      /\ pos + 3 <= Len(t) => t[pos + 3] = ":"
  BY CutPlaces
<1>3. AI!Colon(t, key) = IF found = 0 THEN 0 ELSE Find(t, <<":">>, found)
  BY FilesAreTexts DEF AI!Colon
<1>4. found = IF pos + 2 <= Len(t) THEN pos ELSE 0
  BY KeyFound
<1> HIDE DEF found
<1>6. CASE pos + 2 > Len(t)
  <2>1. found = 0
    BY <1>1, <1>4, <1>6
  <2> QED BY <1>1, <1>3, <1>6, <2>1
<1>7. CASE pos + 2 <= Len(t)
  <2>4. found = pos
    BY <1>4, <1>7
  <2>5. AI!Colon(t, key) = colon
    BY <1>1, <1>3, <2>4
  <2>6. \/ colon = 0 /\ \A j \in pos..Len(t) : t[j] # ":"
        \/ colon \in pos..Len(t) /\ t[colon] = ":" /\ \A j \in pos..colon-1 : t[j] # ":"
    BY <1>1, SymbolFound
  <2> HIDE DEF colon
  <2>7. t[pos] # ":" /\ t[pos + 1] # ":" /\ t[pos + 2] # ":"
    BY <1>1, <1>2, <1>7
  <2>8. \A j \in pos..pos+2 : t[j] # ":"
    <3>1. \A j \in pos..pos+2 : j = pos \/ j = pos + 1 \/ j = pos + 2
      BY <1>1
    <3> QED BY <2>7, <3>1
  <2>9. CASE pos + 3 <= Len(t)
    <3>1. pos + 3 \in pos..Len(t) /\ t[pos + 3] = ":"
      BY <1>1, <1>2, <2>9
    <3>2. colon \in pos..Len(t) /\ t[colon] = ":" /\ pos + 3 \notin pos..colon-1
      BY <2>6, <3>1
    <3>3. colon \notin pos..pos+2
      BY <2>8, <3>2
    <3>4. colon = pos + 3
      BY <1>1, <3>2, <3>3
    <3> QED BY <2>5, <2>9, <3>4
  <2>10. CASE ~ (pos + 3 <= Len(t))
    <3>1. \A j \in pos..Len(t) : j \in pos..pos+2
      BY <1>1, <2>10
    <3>2. colon = 0
      BY <2>6, <2>8, <3>1
    <3> QED BY <2>5, <2>10, <3>2
  <2> QED BY <2>9, <2>10
<1> QED BY <1>1, <1>6, <1>7

(* The text of a string is read, or the string counts as missing.          *)
LEMMA StringIs ==
  ASSUME NEW S, NEW t \in Seq(S), NEW pos, NEW key, NEW v, NEW old, key # ":",
         v # "quote", StandsCut(t, pos, key, <<"quote", v, "quote">>)
  PROVE  /\ AI!GetString(t, key, old) \in {v, old}
         /\ pos + 7 <= Len(t) => AI!GetString(t, key, old) = v
<1> DEFINE value == <<"quote", v, "quote">>
           c == AI!Colon(t, key)
           open == Find(t, <<"quote">>, c)
           close == Find(t, <<"quote">>, open + 1)
<1>1. /\ pos \in Nat \ {0} /\ Len(t) \in Nat
      /\ \A k \in 1..3 : pos + 4 + k <= Len(t) => t[pos + 4 + k] = value[k]
  <2>1. Len(t) \in Nat /\ Len(value) = 3
    OBVIOUS
  <2> HIDE DEF value
  <2>2. StandsCut(t, pos, key, value)
    BY DEF value
  <2> QED BY <2>1, <2>2 DEF StandsCut
<1>2. /\ pos + 5 <= Len(t) => t[pos + 5] = "quote"
      /\ pos + 6 <= Len(t) => t[pos + 6] = v
      /\ pos + 7 <= Len(t) => t[pos + 7] = "quote"
  <2>1. value[1] = "quote" /\ value[2] = v /\ value[3] = "quote"
    OBVIOUS
  <2>2. pos + 4 + 1 = pos + 5 /\ pos + 4 + 2 = pos + 6 /\ pos + 4 + 3 = pos + 7
    BY <1>1
  <2>3. 1 \in 1..3 /\ 2 \in 1..3 /\ 3 \in 1..3
    OBVIOUS
  <2> HIDE DEF value
  <2> QED BY <1>1, <2>1, <2>2, <2>3
<1>3. /\ pos + 3 <= Len(t) => t[pos + 3] = ":"
      /\ pos + 4 <= Len(t) => t[pos + 4] = Space
  BY CutPlaces
<1>4. c = IF pos + 3 <= Len(t) THEN pos + 3 ELSE 0
  BY ColonIs
<1>5. AI!GetString(t, key, old) =
        LET o == IF c = 0 THEN 0 ELSE open
            e == IF o = 0 THEN 0 ELSE Find(t, <<"quote">>, o + 1)
        IN CASE e = 0 -> old
             [] e = o + 1 -> AI!NoText
             [] OTHER -> t[o + 1]
  <2>1. \A x : AI!Find(t, <<"quote">>, x) = Find(t, <<"quote">>, x)
    BY FilesAreTexts
  <2> QED BY <2>1 DEF AI!GetString
<1> HIDE DEF c
<1>6. CASE ~ (pos + 3 <= Len(t))
  <2>1. c = 0
    BY <1>4, <1>6
  <2> QED BY <1>1, <1>5, <1>6, <2>1
<1>7. CASE pos + 3 <= Len(t)
  <2>1. c = pos + 3 /\ c \in Nat \ {0} /\ c # 0
    BY <1>1, <1>4, <1>7
  <2>2. \/ open = 0 /\ \A j \in c..Len(t) : t[j] # "quote"
        \/ open \in c..Len(t) /\ t[open] = "quote" /\ \A j \in c..open-1 : t[j] # "quote"
    BY <2>1, SymbolFound
  <2>3. t[pos + 3] # "quote" /\ (pos + 4 <= Len(t) => t[pos + 4] # "quote")
    BY <1>3, <1>7 DEF Space
  <2>4. CASE open = 0
    <3>1. ~ (pos + 5 <= Len(t))
      <4>1. SUFFICES ASSUME pos + 5 <= Len(t) PROVE FALSE
        OBVIOUS
      <4>2. pos + 5 \in c..Len(t)
        BY <1>1, <2>1, <4>1
      <4>3. \A j \in c..Len(t) : t[j] # "quote"
        BY <1>1, <2>1, <2>2, <2>4
      <4> QED BY <1>2, <4>1, <4>2, <4>3
    <3> HIDE DEF open
    <3> QED BY <1>1, <1>5, <2>4, <3>1
  <2>5. CASE open # 0
    <3>1. open \in c..Len(t) /\ t[open] = "quote" /\ \A j \in c..open-1 : t[j] # "quote"
      BY <2>2, <2>5
    <3> HIDE DEF open
    <3>2. open = pos + 5
      <4>1. open # pos + 3 /\ open # pos + 4
        BY <1>1, <2>1, <2>3, <3>1
      <4>2. pos + 5 <= Len(t) /\ t[pos + 5] = "quote"
        BY <1>1, <1>2, <2>1, <3>1, <4>1
      <4>3. pos + 5 \notin c..open-1
        BY <3>1, <4>2
      <4> QED BY <1>1, <2>1, <3>1, <4>1, <4>3
    <3>3. open + 1 = pos + 6 /\ open + 1 \in Nat \ {0}
      BY <1>1, <3>2
    <3>4. \/ close = 0 /\ \A j \in pos+6..Len(t) : t[j] # "quote"
          \/ close \in pos+6..Len(t) /\ t[close] = "quote"
      BY <3>3, SymbolFound
    <3> HIDE DEF close
    <3>5. close = 0 => ~ (pos + 7 <= Len(t))
      <4>1. SUFFICES ASSUME close = 0, pos + 7 <= Len(t) PROVE FALSE
        OBVIOUS
      <4>2. pos + 7 \in pos+6..Len(t)
        BY <1>1, <4>1
      <4>3. t[pos + 7] # "quote"
        BY <1>1, <3>4, <4>1, <4>2
      <4> QED BY <1>2, <4>1, <4>3
    <3>6. close # 0 => close # open + 1 /\ t[open + 1] = v
      <4>1. SUFFICES ASSUME close # 0 PROVE close # pos + 6 /\ t[pos + 6] = v
        BY <3>3
      <4>2. close \in pos+6..Len(t) /\ t[close] = "quote"
        BY <3>4, <4>1
      <4>3. t[pos + 6] = v
        BY <1>1, <1>2, <4>2
      <4> QED BY <4>2, <4>3
    <3>7. AI!GetString(t, key, old) =
            CASE close = 0 -> old [] close = open + 1 -> AI!NoText [] OTHER -> t[open + 1]
      BY <1>5, <2>1, <2>5 DEF close
    <3>8. CASE close = 0
      <4>1. AI!GetString(t, key, old) = old
        BY ONLY <3>3, <3>7, <3>8
      <4> QED BY <3>5, <3>8, <4>1
    <3>9. CASE close # 0
      <4>1. close # open + 1 /\ t[open + 1] = v
        BY <3>6, <3>9
      <4>2. AI!GetString(t, key, old) = t[open + 1]
        BY ONLY <3>7, <3>9, <4>1
      <4> QED BY <4>1, <4>2
    <3> QED BY <3>8, <3>9
  <2> QED BY <2>4, <2>5
<1> QED BY <1>6, <1>7

(* So is a number, or as much of it as is left of the file.                *)
LEMMA IntIs ==
  ASSUME NEW S, NEW t \in Seq(S), NEW pos, NEW key, NEW old, key # ":",
         NEW value \in Seq(AI!Digits), value # <<>>, StandsCut(t, pos, key, value)
  PROVE  /\ \/ AI!GetInt(t, key, old) = old
            \/ AI!IsPrefix(AI!GetInt(t, key, old), value)
         /\ pos + 4 + Len(value) <= Len(t) => AI!GetInt(t, key, old) = value
<1> DEFINE n == Len(value)
           c == AI!Colon(t, key)
           first == PastAll(t, c, {":", Space})
           stop == PastAll(t, first, AI!Digits)
           digits == SubSeq(t, first, stop - 1)
<1>1. /\ pos \in Nat \ {0} /\ Len(t) \in Nat /\ n \in Nat \ {0} /\ value \in Seq(AI!Digits)
      /\ \A k \in 1..n : pos + 4 + k <= Len(t) => t[pos + 4 + k] = value[k]
      /\ \/ pos + 5 + n <= Len(t) => t[pos + 5 + n] = "comma"
         \/ \A j \in pos+5+n..Len(t) : t[j] \in {"nl", "rbrace"}
  <2>1. Len(t) \in Nat /\ n \in Nat \ {0}
    OBVIOUS
  <2> QED BY <2>1 DEF StandsCut
<1>2. pos + 5 + n <= Len(t) => t[pos + 5 + n] \in {"comma", "nl", "rbrace"}
  <2>1. SUFFICES ASSUME pos + 5 + n <= Len(t) PROVE t[pos + 5 + n] \in {"comma", "nl", "rbrace"}
    OBVIOUS
  <2>2. pos + 5 + n \in pos+5+n..Len(t)
    BY <1>1, <2>1
  <2> HIDE DEF n
  <2> QED BY <1>1, <2>1, <2>2
<1>3. /\ pos + 3 <= Len(t) => t[pos + 3] = ":"
      /\ pos + 4 <= Len(t) => t[pos + 4] = Space
  BY CutPlaces
<1>4. c = IF pos + 3 <= Len(t) THEN pos + 3 ELSE 0
  BY ColonIs
<1>5. AI!GetInt(t, key, old) = IF c = 0 \/ digits = <<>> THEN old ELSE digits
  <2>1. AI!GetInt(t, key, old) =
          LET f == AI!PastAll(t, c, {":", AI!Space})
              d == SubSeq(t, f, AI!PastAll(t, f, AI!Digits) - 1)
          IN IF c = 0 \/ d = <<>> THEN old ELSE d
    BY DEF AI!GetInt
  <2>2. AI!Space = Space
    BY DEF AI!Space, Space
  <2>3. AI!PastAll(t, c, {":", AI!Space}) = first
    BY <2>2, FilesAreTexts
  <2>4. AI!PastAll(t, first, AI!Digits) = stop
    BY FilesAreTexts
  <2> HIDE DEF c, first, stop
  <2> QED BY ONLY <2>1, <2>3, <2>4 DEF digits
<1>6. /\ ":" \notin AI!Digits /\ Space \notin AI!Digits
      /\ "comma" \notin AI!Digits /\ "nl" \notin AI!Digits /\ "rbrace" \notin AI!Digits
  BY DEF AI!Digits, Space
<1> HIDE DEF c, n
<1>7. CASE ~ (pos + 3 <= Len(t))
  <2>1. c = 0
    BY <1>4, <1>7
  <2> QED BY <1>1, <1>5, <1>7, <2>1 DEF n
<1>8. CASE pos + 3 <= Len(t)
  <2>1. c = pos + 3 /\ c \in 1..Len(t)+1 /\ c # 0
    BY <1>1, <1>4, <1>8
  <2> DEFINE p == IF pos + 4 <= Len(t) THEN pos + 5 ELSE pos + 4
  <2>2. first = p /\ p \in 1..Len(t)+1
    <3>1. p \in c..Len(t)+1 /\ p \in 1..Len(t)+1
      BY <1>1, <1>8, <2>1
    <3>2. \A j \in c..p-1 : t[j] \in {":", Space}
      <4>1. \A j \in c..p-1 : j = pos + 3 \/ (j = pos + 4 /\ pos + 4 <= Len(t))
        BY <1>1, <2>1
      <4> QED BY <1>3, <1>8, <4>1
    <3>3. p = Len(t) + 1 \/ t[p] \notin {":", Space}
      <4>1. CASE pos + 5 <= Len(t)
        <5>1. p = pos + 5 /\ 1 \in 1..n /\ pos + 4 + 1 = pos + 5
          BY <1>1, <4>1
        <5>2. t[pos + 5] = value[1]
          BY <1>1, <4>1, <5>1
        <5>3. value[1] \in AI!Digits
          BY <1>1, <5>1 DEF n
        <5> QED BY <1>6, <5>1, <5>2, <5>3
      <4>2. CASE ~ (pos + 5 <= Len(t))
        BY <1>1, <1>8, <4>2
      <4> QED BY <4>1, <4>2
    <3> HIDE DEF p
    <3> QED BY <2>1, <3>1, <3>2, <3>3, PastAllAt
  <2> DEFINE last == IF pos + 4 + n <= Len(t) THEN pos + 5 + n ELSE Len(t) + 1
  <2>3. last \in p..Len(t)+1 /\ (last = Len(t) + 1 \/ last = pos + 5 + n) /\ last <= pos + 5 + n
    BY <1>1, <1>8
  <2>4. ASSUME NEW j \in p..last-1
        PROVE  /\ j - pos - 4 \in 1..n /\ t[j] = value[j - pos - 4] /\ t[j] \in AI!Digits
    <3>1. j >= pos + 5 /\ j <= pos + 4 + n /\ j <= Len(t) /\ j \in Nat
      BY <1>1, <1>8
    <3>2. j - pos - 4 \in 1..n /\ pos + 4 + (j - pos - 4) = j
      BY <1>1, <3>1
    <3>3. t[j] = value[j - pos - 4]
      BY <1>1, <3>1, <3>2
    <3> QED BY <1>1, <3>2, <3>3 DEF n
  <2>5. stop = last
    <3>1. last = Len(t) + 1 \/ t[last] \notin AI!Digits
      <4>1. CASE last = Len(t) + 1
        BY <4>1
      <4>2. CASE last # Len(t) + 1
        <5> HIDE DEF last, p
        <5>1. last = pos + 5 + n /\ pos + 5 + n <= Len(t)
          BY <1>1, <2>2, <2>3, <4>2
        <5> QED BY <1>2, <1>6, <5>1
      <4> QED BY <4>1, <4>2
    <3> HIDE DEF last, p
    <3> QED BY <2>2, <2>3, <2>4, <3>1, PastAllAt
  <2>6. digits = SubSeq(t, p, last - 1)
    BY <2>2, <2>5
  <2> DEFINE d == SubSeq(t, p, last - 1)
             m == last - p
  <2>7. p \in Nat \ {0} /\ last \in Nat /\ p <= last /\ last - 1 <= Len(t) /\ m \in Nat
        /\ last - 1 - p + 1 = m
    BY <1>1, <2>2, <2>3
  <2> HIDE DEF last
  <2>8. Len(d) = m /\ d \in Seq(S) /\ \A k \in 1..m : d[k] = t[p + k - 1]
    <3> HIDE DEF p
    <3>1. CASE m = 0
      <4>1. d = <<>>
        BY <2>7, <3>1
      <4>2. Len(<<>>) = 0 /\ <<>> \in Seq(S) /\ \A k \in 1..0 : FALSE
        OBVIOUS
      <4> HIDE DEF d, m
      <4>3. \A k \in 1..m : d[k] = t[p + k - 1]
        BY <3>1, <4>2
      <4> QED BY <3>1, <4>1, <4>2, <4>3
    <3>2. CASE m # 0
      <4>1. p \in 1..Len(t) /\ last - 1 \in p..Len(t)
        BY <1>1, <2>7, <3>2
      <4> QED BY <2>7, <4>1, PartIs
    <3> QED BY <3>1, <3>2
  <2> HIDE DEF d
  <2>9. m # 0 => p = pos + 5
    <3>1. CASE pos + 4 <= Len(t)
      BY <3>1
    <3>2. CASE ~ (pos + 4 <= Len(t))
      <4>1. p = Len(t) + 1
        BY <1>1, <1>8, <3>2
      <4> HIDE DEF p
      <4> QED BY <1>1, <2>7, <4>1
    <3> QED BY <3>1, <3>2
  <2> HIDE DEF p
  <2>10. \A k \in 1..m : k \in 1..n /\ d[k] = value[k]
    <3>1. ASSUME NEW k \in 1..m
          PROVE  k \in 1..n /\ d[k] = value[k]
      <4> DEFINE j == p + k - 1
      <4>1. j \in p..last-1 /\ j - pos - 4 = k /\ d[k] = t[j]
        BY <1>1, <2>7, <2>8, <2>9
      <4> HIDE DEF j
      <4>2. j - pos - 4 \in 1..n /\ t[j] = value[j - pos - 4]
        BY <2>4, <4>1
      <4> QED BY <4>1, <4>2
    <3> QED BY <3>1
  <2>11. m <= n
    BY <1>1, <2>7, <2>10
  <2>12. AI!IsPrefix(d, value)
    <3>1. SubSeq(value, 1, m) = d
      <4>1. CASE m = 0
        BY <2>8, <4>1
      <4>2. CASE m # 0
        <5> DEFINE w == SubSeq(value, 1, m)
        <5>1. 1 \in 1..n /\ m \in 1..n /\ Len(value) = n
          BY <1>1, <2>7, <2>11, <4>2 DEF n
        <5>2. /\ w \in Seq(AI!Digits) /\ Len(w) = m - 1 + 1
              /\ \A k \in 1..m-1+1 : w[k] = value[1 + k - 1]
          BY <1>1, <5>1, PartIs
        <5>3. /\ w \in Seq(AI!Digits) /\ Len(w) = m /\ \A k \in 1..m : w[k] = value[k]
          BY <2>7, <5>2
        <5> HIDE DEF w
        <5>4. w = d
          <6>1. \A k \in 1..m : w[k] = d[k]
            BY <2>10, <5>3
          <6> QED BY <2>8, <5>3, <6>1
        <5> QED BY <5>4 DEF w
      <4> QED BY <4>1, <4>2
    <3>2. SubSeq(d, 1, Len(d)) = d
      BY <2>8
    <3> QED BY <1>1, <2>8, <2>11, <3>1, <3>2 DEF AI!IsPrefix, n
  <2>13. pos + 4 + n <= Len(t) => d = value
    <3>1. SUFFICES ASSUME pos + 4 + n <= Len(t) PROVE d = value
      OBVIOUS
    <3>2. last = pos + 5 + n /\ pos + 4 <= Len(t)
      BY <1>1, <3>1 DEF last
    <3>3. p = pos + 5
      BY <3>2 DEF p
    <3>4. m = n
      BY <1>1, <3>2, <3>3
    <3> HIDE DEF m
    <3>5. Len(d) = Len(value) /\ \A k \in 1..Len(d) : d[k] = value[k]
      BY <2>8, <2>10, <3>4 DEF n
    <3> QED BY <1>1, <2>8, <3>5
  <2>14. AI!GetInt(t, key, old) = IF d = <<>> THEN old ELSE d
    BY <1>5, <2>1, <2>6 DEF d
  <2>15. value # <<>>
    BY <1>1 DEF n
  <2> QED BY <2>12, <2>13, <2>14, <2>15 DEF n
<1> QED BY <1>7, <1>8

(* A switch is read, or counts as missing: what stands before the next     *)
(* comma or brace is its own.                                              *)
LEMMA BoolIs ==
  ASSUME NEW S, NEW t \in Seq(S), NEW pos, NEW key, NEW on \in BOOLEAN, NEW old, key # ":",
         StandsCut(t, pos, key, <<IF on THEN "true" ELSE "false">>)
  PROVE  /\ AI!GetBool(t, key, old) = on \/ AI!GetBool(t, key, old) = old
         /\ pos + 5 <= Len(t) => AI!GetBool(t, key, old) = on
<1> DEFINE own == IF on THEN "true" ELSE "false"
           value == <<own>>
           c == AI!Colon(t, key)
           stop == FirstOf(t, c, {"comma", "rbrace"})
           Says(word) == LET place == Find(t, <<word>>, c) IN place # 0 /\ place < stop
<1>1. /\ pos \in Nat \ {0} /\ Len(t) \in Nat
      /\ pos + 5 <= Len(t) => t[pos + 5] = own
      /\ \/ pos + 6 <= Len(t) => t[pos + 6] = "comma"
         \/ \A j \in pos+6..Len(t) : t[j] \in {"nl", "rbrace"}
  <2>1. Len(t) \in Nat /\ Len(value) = 1 /\ value[1] = own
    OBVIOUS
  <2> HIDE DEF value
  <2>2. StandsCut(t, pos, key, value)
    BY DEF value
  <2>3. /\ pos \in Nat \ {0}
        /\ \A k \in 1..1 : pos + 4 + k <= Len(t) => t[pos + 4 + k] = value[k]
        /\ \/ pos + 5 + 1 <= Len(t) => t[pos + 5 + 1] = "comma"
           \/ \A j \in pos+5+1..Len(t) : t[j] \in {"nl", "rbrace"}
    BY <2>1, <2>2 DEF StandsCut
  <2>4. pos + 4 + 1 = pos + 5 /\ pos + 5 + 1 = pos + 6 /\ 1 \in 1..1
    BY <2>3
  <2> HIDE DEF own
  <2> QED BY <2>1, <2>3, <2>4
<1>2. /\ pos + 3 <= Len(t) => t[pos + 3] = ":"
      /\ pos + 4 <= Len(t) => t[pos + 4] = Space
  BY CutPlaces
<1>3. c = IF pos + 3 <= Len(t) THEN pos + 3 ELSE 0
  BY ColonIs
<1>4. AI!GetBool(t, key, old) =
        CASE c # 0 /\ Says("true") -> TRUE
          [] c # 0 /\ ~ Says("true") /\ Says("false") -> FALSE
          [] OTHER -> old
  <2>1. AI!FirstOf(t, c, {"comma", "rbrace"}) = stop
    BY FilesAreTexts
  <2>2. /\ AI!Find(t, <<"true">>, c) = Find(t, <<"true">>, c)
        /\ AI!Find(t, <<"false">>, c) = Find(t, <<"false">>, c)
    BY FilesAreTexts
  <2>3. AI!GetBool(t, key, old) =
          LET e == AI!FirstOf(t, c, {"comma", "rbrace"})
              B(word) == LET place == AI!Find(t, <<word>>, c) IN place # 0 /\ place < e
          IN CASE c # 0 /\ B("true") -> TRUE
               [] c # 0 /\ ~ B("true") /\ B("false") -> FALSE
               [] OTHER -> old
    BY DEF AI!GetBool
  <2> HIDE DEF c, stop
  <2> QED BY ONLY <2>1, <2>2, <2>3 DEF Says
<1> HIDE DEF c
<1>5. CASE c = 0
  <2>1. AI!GetBool(t, key, old) = old
    BY ONLY <1>4, <1>5
  <2>2. ~ (pos + 5 <= Len(t))
    BY <1>1, <1>3, <1>5
  <2> QED BY <2>1, <2>2
<1>6. CASE c # 0
  <2>1. c = pos + 3 /\ pos + 3 <= Len(t) /\ c \in Nat \ {0}
    BY <1>1, <1>3, <1>6
  <2>2. /\ stop \in c..Len(t)+1
        /\ \A j \in c..stop-1 : j \in 1..Len(t) /\ t[j] \notin {"comma", "rbrace"}
        /\ stop \in 1..Len(t) => t[stop] \in {"comma", "rbrace"}
    <3>1. c \in 1..Len(t)+1
      BY <1>1, <2>1
    <3> QED BY <3>1, FirstOfIs
  <2> HIDE DEF stop
  <2>3. own \in {"true", "false"}
    OBVIOUS
  <2> HIDE DEF own
  <2>4. ASSUME NEW word \in {"true", "false"}
        PROVE  Says(word) <=> word = own /\ pos + 5 <= Len(t)
    <3> DEFINE place == Find(t, <<word>>, c)
    <3>1. \/ place = 0 /\ \A j \in c..Len(t) : t[j] # word
          \/ place \in c..Len(t) /\ t[place] = word /\ \A j \in c..place-1 : t[j] # word
      BY <2>1, SymbolFound
    <3>2. Says(word) <=> place # 0 /\ place < stop
      OBVIOUS
    <3> HIDE DEF place, Says
    <3>3. word # ":" /\ word # Space /\ word # "nl" /\ word # "rbrace" /\ word # "comma"
      BY DEF Space
    <3>4. ASSUME place # 0, place < stop
          PROVE  word = own /\ pos + 5 <= Len(t)
      <4>1. place \in c..Len(t) /\ t[place] = word
        BY <3>1, <3>4
      <4>2. place # pos + 3 /\ place # pos + 4
        BY <1>1, <1>2, <2>1, <3>3, <4>1
      <4>3. place = pos + 5
        <5>1. SUFFICES ASSUME place >= pos + 6 PROVE FALSE
          BY <1>1, <2>1, <4>1, <4>2
        <5>2. place \in pos+6..Len(t) /\ pos + 6 <= Len(t)
          BY <1>1, <4>1, <5>1
        <5>3. t[place] \notin {"nl", "rbrace"}
          BY <3>3, <4>1
        <5>4. t[pos + 6] = "comma"
          BY <1>1, <5>2, <5>3
        <5>5. pos + 6 \in c..stop-1
          <6>1. stop \in Int /\ place \in Int /\ pos \in Int /\ pos + 6 < stop /\ c = pos + 3
            BY <1>1, <2>1, <2>2, <3>4, <4>1, <5>1
          <6> QED BY ONLY <6>1
        <5> QED BY <2>2, <5>4, <5>5
      <4> QED BY <1>1, <4>1, <4>3
    <3>5. ASSUME word = own, pos + 5 <= Len(t)
          PROVE  place # 0 /\ place < stop
      <4>1. pos + 5 \in c..Len(t) /\ t[pos + 5] = word
        BY <1>1, <2>1, <3>5
      <4>2. place \in c..Len(t) /\ \A j \in c..place-1 : t[j] # word
        BY <3>1, <4>1
      <4>3. pos + 5 \notin c..place-1
        BY <4>1, <4>2
      <4>4. place <= pos + 5 /\ place # 0
        BY <1>1, <2>1, <4>2, <4>3
      <4>5. stop >= pos + 6
        <5>1. SUFFICES ASSUME stop <= pos + 5 PROVE FALSE
          BY <1>1, <2>2
        <5>2. stop \in 1..Len(t) /\ (stop = pos + 3 \/ stop = pos + 4 \/ stop = pos + 5)
          BY <1>1, <2>1, <2>2, <4>1, <5>1
        <5>3. t[stop] \in {"comma", "rbrace"}
          BY <2>2, <5>2
        <5>4. t[stop] \in {":", Space, word}
          BY <1>1, <1>2, <4>1, <5>2
        <5> QED BY <3>3, <5>3, <5>4 DEF Space
      <4>6. stop \in Int /\ place \in Int /\ pos \in Int
        BY <1>1, <2>1, <2>2, <4>2
      <4> QED BY ONLY <4>4, <4>5, <4>6
    <3> QED BY <3>2, <3>4, <3>5
  <2>5. CASE pos + 5 <= Len(t)
    <3>1. CASE on
      <4>1. own = "true"
        BY <3>1 DEF own
      <4>2. Says("true")
        BY <2>4, <2>5, <4>1
      <4> HIDE DEF Says
      <4>3. AI!GetBool(t, key, old) = TRUE
        BY ONLY <1>4, <1>6, <4>2
      <4> QED BY <3>1, <4>3
    <3>2. CASE ~ on
      <4>1. own = "false"
        BY <3>2 DEF own
      <4>2. Says("false") /\ ~ Says("true")
        BY <2>4, <2>5, <4>1
      <4> HIDE DEF Says
      <4>3. AI!GetBool(t, key, old) = FALSE
        BY ONLY <1>4, <1>6, <4>2
      <4> QED BY <3>2, <4>3
    <3> QED BY <3>1, <3>2
  <2>6. CASE ~ (pos + 5 <= Len(t))
    <3>1. ~ Says("false") /\ ~ Says("true")
      BY <2>4, <2>6
    <3> HIDE DEF Says
    <3>2. AI!GetBool(t, key, old) = old
      BY ONLY <1>4, <3>1
    <3> QED BY <2>6, <3>2
  <2> QED BY <2>5, <2>6
<1> QED BY <1>5, <1>6

--------------------------------------------------------------------------------
(* The settings, and a file that has all of them.                          *)
Marks == {"quote", ":", Space, "comma", "nl", "lbrace", "rbrace", "true", "false"}

(* What a setting may be for its file to bring it back: a string is no key,*)
(* and names a backend or a level where it should.                         *)
Writable(config) ==
  /\ config = [key \in AI!Keys |-> config[key]]
  /\ \A key \in AI!Keys :
       /\ AI!Kind(key) = "bool" => config[key] \in BOOLEAN
       /\ AI!Kind(key) = "string" =>
            /\ config[key] \notin AI!Keys \cup {"quote"}
            /\ AI!Named(key, config[key]) = config[key]
       /\ AI!Kind(key) = "int" => config[key] \in Seq(AI!Digits) /\ config[key] # <<>>

(* What the table of settings says of itself.                              *)
LEMMA SettingsAre ==
  /\ DOMAIN AI!Settings = 1..22 /\ Len(AI!Settings) = 22
  /\ \A i \in 1..22 : AI!Settings[i][2] \in {"bool", "string", "int"}
  /\ \A i, j \in 1..22 : AI!Settings[i][1] = AI!Settings[j][1] => i = j
  /\ \A i \in 1..22 : AI!Settings[i][1] \notin Marks \cup AI!Digits
<1>1. DOMAIN AI!Settings = 1..22 /\ Len(AI!Settings) = 22
  BY DEF AI!Settings
<1>2. \A i \in 1..22 : AI!Settings[i][2] \in {"bool", "string", "int"}
  BY DEF AI!Settings
<1>3. ASSUME NEW i \in 1..22, NEW j \in 1..22, AI!Settings[i][1] = AI!Settings[j][1]
      PROVE  i = j
  BY <1>3, SMT DEF AI!Settings
<1> DEFINE Names ==
      {"enabled", "backend_type", "ollama_endpoint", "ollama_model", "groq_api_key_env",
       "groq_model", "api_endpoint", "api_model", "api_key_env", "connect_timeout_ms",
       "request_timeout_ms", "max_wait_ms", "warmup_timeout_ms", "cache_ttl_seconds",
       "cache_max_entries", "cache_include_context", "history_size", "history_expire_min",
       "log_level", "log_ai_communication", "disable_ai", "use_mock"}
<1>4. ASSUME NEW i \in 1..22
      PROVE  AI!Settings[i][1] \notin Marks \cup AI!Digits
  <2>1. AI!Settings[i][1] \in Names
    BY SMT DEF AI!Settings
  <2>2. ASSUME NEW x \in Names
        PROVE  x \notin Marks \cup AI!Digits
    <3>1. x # Space
      BY Zenon DEF Space
    <3>2. x \notin (Marks \ {Space}) \cup AI!Digits
      BY DEF Marks, AI!Digits
    <3> QED BY <3>1, <3>2
  <2> HIDE DEF Names
  <2> QED BY <2>1, <2>2
<1> QED BY <1>1, <1>2, <1>3, <1>4

(* A key is that of one setting.                                           *)
LEMMA KeyIsSetting ==
  ASSUME NEW key \in AI!Keys
  PROVE  \E i \in 1..22 : /\ key = AI!Settings[i][1] /\ AI!Kind(key) = AI!Settings[i][2]
                          /\ AI!GetDefaultConfig[key] = AI!Settings[i][3]
<1>1. PICK i \in 1..22 : key = AI!Settings[i][1]
  BY SettingsAre DEF AI!Keys
<1>2. AI!Setting(key) = i
  <2>1. \A j \in DOMAIN AI!Settings : AI!Settings[j][1] = key => j = i
    BY <1>1, SettingsAre
  <2>2. i \in DOMAIN AI!Settings
    BY SettingsAre
  <2> QED BY <1>1, <2>1, <2>2 DEF AI!Setting
<1> QED BY <1>1, <1>2 DEF AI!Kind, AI!GetDefaultConfig

(* Lines that are joined: one stands behind those before it and before the *)
(* rest.                                                                   *)
AreLines(lines, n, k, A, B) ==
  lines \in [1..n -> Seq(A)] /\ \A i \in 1..n : i # k => lines[i] \in Seq(B)
StandsAmong(line, whole, k, n, B) ==
  \E x \in Seq(B), y \in Seq(B) : whole = (x \o line) \o y /\ (k = n => y = <<>>)

(* So a line stands between texts that do not have its key (FlattenSeq, as *)
(* Serialize joins its lines).                                             *)
LEMMA FlattenStands ==
  ASSUME NEW A, NEW n \in Nat \ {0}, NEW k \in 1..n, NEW B \in SUBSET A,
         NEW lines, AreLines(lines, n, k, A, B)
  PROVE  StandsAmong(lines[k], AI!FlattenSeq(lines), k, n, B)
<1>0. lines \in [1..n -> Seq(A)] /\ \A i \in 1..n : i # k => lines[i] \in Seq(B)
  BY DEF AreLines
<1> DEFINE V == Seq(A)
           Is(h) == h = [i \in 1..n |-> IF i = 1 THEN lines[i] ELSE h[i - 1] \o lines[i]]
<1>1. Len(lines) = n /\ n # 0
  BY <1>0
<1>2. \E h : Is(h)
  <2> DEFINE step == [i \in 1..n |-> [v \in V |-> v \o lines[i]]]
  <2>1. step \in Steps(n, V)
    <3>1. \A i \in 1..n : \A v \in V : v \o lines[i] \in V
      BY <1>0
    <3> HIDE DEF V
    <3> QED BY <3>1 DEF Steps
  <2>2. <<>> \in V
    OBVIOUS
  <2> HIDE DEF V
  <2>3. PICK f : IsLoop(f, n, V, <<>>, step)
    <3> HIDE DEF step
    <3> QED BY <2>1, <2>2, Recursion
  <2>4. /\ f \in [0..n -> V] /\ f[0] = <<>>
        /\ \A i \in 1..n : f[i] = f[i - 1] \o lines[i]
    <3>1. \A i \in 1..n : i - 1 \in 0..n
      OBVIOUS
    <3>2. f \in [0..n -> V] /\ f[0] = <<>> /\ \A i \in 1..n : f[i] = step[i][f[i - 1]]
      <4> HIDE DEF step
      <4> QED BY <2>3 DEF IsLoop
    <3> QED BY <3>1, <3>2
  <2> DEFINE h == [i \in 1..n |-> f[i]]
  <2>5. \A i \in 1..n : h[i] = IF i = 1 THEN lines[i] ELSE h[i - 1] \o lines[i]
    <3>1. ASSUME NEW i \in 1..n
          PROVE  h[i] = IF i = 1 THEN lines[i] ELSE h[i - 1] \o lines[i]
      <4>1. CASE i = 1
        <5>1. f[i] = f[i - 1] \o lines[i] /\ f[0] = <<>>
          BY <2>4
        <5>2. i - 1 = 0
          BY <4>1
        <5>3. f[i] = <<>> \o lines[i]
          BY ONLY <5>1, <5>2
        <5>4. lines[i] \in Seq(A)
          BY <1>0
        <5> HIDE DEF Is
        <5>5. <<>> \o lines[i] = lines[i]
          BY ONLY <5>4
        <5>6. h[i] = lines[i]
          BY ONLY <5>3, <5>5, i \in 1..n
        <5> QED BY ONLY <4>1, <5>6
      <4>2. CASE i # 1
        <5>1. i - 1 \in 1..n
          BY <4>2
        <5> QED BY <2>4, <4>2, <5>1
      <4> QED BY <4>1, <4>2
    <3> QED BY <3>1
  <2>6. Is(h)
    BY <2>5
  <2> QED BY <2>6
<1>3. PICK h : Is(h) /\ AI!FlattenSeq(lines) = h[n]
  <2> DEFINE flatten == CHOOSE h : Is(h)
  <2>1. AI!FlattenSeq(lines) = flatten[n]
    BY <1>1 DEF AI!FlattenSeq
  <2>2. Is(flatten)
    BY <1>2
  <2> QED BY <2>1, <2>2
<1>4. \A i \in 1..n : h[i] = IF i = 1 THEN lines[i] ELSE h[i - 1] \o lines[i]
  BY <1>3
<1> HIDE DEF Is
<1> DEFINE before == IF k = 1 THEN <<>> ELSE h[k - 1]
           F == {m \in 0..n : (m = 0 \/ m >= k \/ h[m] \in Seq(B))}
           G == {m \in 0..n : m < k \/ \E y \in Seq(B) :
                                h[m] = (before \o lines[k]) \o y /\ (m = k => y = <<>>)}
<1>5. before \in Seq(B)
  <2>1. \A m \in 0..n : (m \in F /\ m < n) => m + 1 \in F
    <3>1. ASSUME NEW m \in 0..n, m \in F, m < n, m + 1 < k
          PROVE  h[m + 1] \in Seq(B)
      <4>1. m + 1 \in 1..n /\ m + 1 # k /\ m + 1 - 1 = m
        BY <3>1
      <4>2. /\ lines[m + 1] \in Seq(B)
            /\ h[m + 1] = IF m + 1 = 1 THEN lines[m + 1] ELSE h[m] \o lines[m + 1]
        BY <1>0, <1>4, <4>1
      <4>3. m # 0 => h[m] \in Seq(B)
        BY <3>1
      <4> QED BY <4>1, <4>2, <4>3
    <3> QED BY <3>1
  <2>2. 0 \in F
    OBVIOUS
  <2>3. \A m \in 0..n : m \in F
    <3> HIDE DEF F
    <3> QED BY <2>1, <2>2, UpTo
  <2>4. k - 1 \in F /\ (k = 1 \/ (k - 1 # 0 /\ ~ (k - 1 >= k)))
    <3>1. k - 1 \in 0..n
      OBVIOUS
    <3> HIDE DEF F
    <3> QED BY <2>3, <3>1
  <2> QED BY <2>4
<1>6. lines[k] \in Seq(A) /\ before \in Seq(A) /\ before \o lines[k] \in Seq(A)
  BY <1>0, <1>5
<1>7. n \in G
  <2>1. 0 \in G
    <3>1. 0 \in 0..n /\ 0 < k
      OBVIOUS
    <3> QED BY ONLY <3>1
  <2>2. ASSUME NEW m \in 0..n, m \in G, m < n
        PROVE  m + 1 \in G
    <3>1. m + 1 \in 1..n /\ m + 1 - 1 = m /\ m + 1 \in 0..n
      BY <2>2
    <3>2. h[m + 1] = IF m + 1 = 1 THEN lines[m + 1] ELSE h[m] \o lines[m + 1]
      BY <1>4, <3>1
    <3> DEFINE z == before \o lines[k]
    <3>3. z \in Seq(A)
      BY <1>6
    <3>4. CASE m + 1 < k
      BY <3>1, <3>4
    <3>5. CASE m + 1 = k
      <4>1. h[m + 1] = z
        <5>1. CASE k = 1
          <6>1. z = <<>> \o lines[k] /\ h[m + 1] = lines[k]
            BY <3>2, <3>5, <5>1
          <6>2. <<>> \o lines[k] = lines[k]
            BY ONLY <1>6
          <6> QED BY ONLY <6>1, <6>2
        <5>2. CASE k # 1
          <6>1. before = h[m]
            BY <3>1, <3>5, <5>2
          <6> QED BY <3>2, <3>5, <5>2, <6>1
        <5> QED BY <5>1, <5>2
      <4> HIDE DEF z
      <4>2. z \o <<>> = z /\ <<>> \in Seq(B)
        BY <3>3
      <4> QED BY <3>1, <4>1, <4>2 DEF z
    <3>6. CASE m + 1 > k
      <4> HIDE DEF z
      <4>1. PICK y \in Seq(B) : h[m] = z \o y
        <5>1. m < k \/ \E y \in Seq(B) : h[m] = (before \o lines[k]) \o y /\ (m = k => y = <<>>)
          BY <2>2
        <5>2. ~ (m < k)
          BY <3>6
        <5> QED BY ONLY <5>1, <5>2 DEF z
      <4>2. lines[m + 1] \in Seq(B) /\ m + 1 # 1
        BY <1>0, <3>1, <3>6
      <4>3. y \o lines[m + 1] \in Seq(B)
        BY <4>2
      <4>4. y \in Seq(A) /\ lines[m + 1] \in Seq(A)
        BY <1>0, <3>1
      <4>5. h[m + 1] = z \o (y \o lines[m + 1])
        <5>1. h[m + 1] = (z \o y) \o lines[m + 1]
          BY ONLY <3>2, <4>1, <4>2
        <5> DEFINE l == lines[m + 1]
        <5>2. z \in Seq(A) /\ y \in Seq(A) /\ l \in Seq(A)
          BY <3>3, <4>4
        <5> HIDE DEF l
        <5>3. (z \o y) \o l = z \o (y \o l)
          BY ONLY <5>2
        <5> QED BY ONLY <5>1, <5>3 DEF l
      <4> QED BY <3>1, <3>6, <4>3, <4>5 DEF z
    <3> HIDE DEF G
    <3> QED BY <3>1, <3>4, <3>5, <3>6
  <2>3. \A m \in 0..n : m \in G
    <3> HIDE DEF G
    <3> QED BY <2>1, <2>2, UpTo
  <2> HIDE DEF G
  <2> QED BY <2>3
<1>8. PICK y \in Seq(B) : h[n] = (before \o lines[k]) \o y /\ (n = k => y = <<>>)
  <2>1. n < k \/ \E y \in Seq(B) : h[n] = (before \o lines[k]) \o y /\ (n = k => y = <<>>)
    BY <1>7
  <2>2. ~ (n < k)
    OBVIOUS
  <2> HIDE DEF before
  <2> QED BY ONLY <2>1, <2>2
<1> QED BY <1>3, <1>5, <1>8 DEF StandsAmong

(* Two texts joined.                                                       *)
LEMMA JoinedIs ==
  ASSUME NEW X, NEW a \in Seq(X), NEW b \in Seq(X), NEW c, IsJoint(c, a, b)
  PROVE  /\ c \in Seq(X) /\ Len(c) = Len(a) + Len(b)
         /\ \A k \in 1..Len(a) : c[k] = a[k]
         /\ \A k \in 1..Len(b) : c[k + Len(a)] = b[k]
<1>1. c = a \o b
  BY DEF IsJoint
<1>2. c \in Seq(X) /\ Len(c) = Len(a) + Len(b) /\ Len(a) \in Nat /\ Len(b) \in Nat
  BY <1>1
<1>3. \A k \in 1..Len(a) : c[k] = a[k]
  BY <1>1
<1>4. ASSUME NEW k \in 1..Len(b)
      PROVE  c[k + Len(a)] = b[k]
  <2> DEFINE j == k + Len(a)
  <2>1. j \in 1..Len(a)+Len(b) /\ ~ (j <= Len(a)) /\ j - Len(a) = k
    BY <1>2
  <2>2. c[j] = b[j - Len(a)]
    <3> HIDE DEF j
    <3> QED BY <1>1, <1>2, <2>1
  <2> QED BY <2>1, <2>2
<1> QED BY <1>2, <1>3, <1>4

(* What stands in a file but for the keys.                                 *)
FileTexts(config) ==
  Marks \cup AI!Digits \cup {config[key] : key \in {k \in AI!Keys : AI!Kind(k) = "string"}}
Saved(config, key) == AI!Value(AI!Kind(key), config[key])

(* No value that is written is a key.                                      *)
LEMMA TextsAreNoKeys ==
  ASSUME NEW config, Writable(config)
  PROVE  FileTexts(config) \cap AI!Keys = {}
<1>1. \A key \in AI!Keys : key \notin Marks \cup AI!Digits
  BY KeyIsSetting, SettingsAre
<1>2. \A key \in AI!Keys : AI!Kind(key) = "string" => config[key] \notin AI!Keys
  BY DEF Writable
<1> QED BY <1>1, <1>2 DEF FileTexts

(* A value that is saved is a text over these symbols.                     *)
LEMMA SavedIs ==
  ASSUME NEW config, Writable(config), NEW key \in AI!Keys
  PROVE  Saved(config, key) \in Seq(FileTexts(config))
<1>1. AI!Kind(key) \in {"bool", "string", "int"}
  BY KeyIsSetting, SettingsAre
<1>2. CASE AI!Kind(key) = "bool"
  <2> DEFINE word == IF config[key] THEN "true" ELSE "false"
  <2>1. Saved(config, key) = <<word>>
    BY <1>2 DEF Saved, AI!Value
  <2>2. word \in FileTexts(config)
    <3>1. word \in {"true", "false"}
      OBVIOUS
    <3> HIDE DEF word
    <3> QED BY <3>1 DEF FileTexts, Marks
  <2> HIDE DEF word
  <2>3. <<word>> \in Seq(FileTexts(config))
    BY ONLY <2>2
  <2> QED BY <2>1, <2>3
<1>3. CASE AI!Kind(key) = "string"
  <2>1. Saved(config, key) = <<"quote", config[key], "quote">>
    BY <1>3 DEF Saved, AI!Value
  <2>2. "quote" \in FileTexts(config) /\ config[key] \in FileTexts(config)
    BY <1>3 DEF FileTexts, Marks
  <2> DEFINE v == config[key]
  <2> HIDE DEF v
  <2>3. <<"quote", v, "quote">> \in Seq(FileTexts(config))
    BY ONLY <2>2 DEF v
  <2> QED BY <2>1, <2>3 DEF v
<1>4. CASE AI!Kind(key) = "int"
  <2>1. Saved(config, key) = config[key] /\ config[key] \in Seq(AI!Digits)
    BY <1>4 DEF Saved, AI!Value, Writable
  <2>2. AI!Digits \in SUBSET FileTexts(config)
    BY DEF FileTexts
  <2> DEFINE v == config[key]
  <2> HIDE DEF v
  <2>3. ASSUME NEW X, NEW Y \in SUBSET X, v \in Seq(Y) PROVE v \in Seq(X)
    BY ONLY <2>3
  <2>4. v \in Seq(FileTexts(config))
    BY <2>1, <2>2, <2>3 DEF v
  <2> QED BY <2>1, <2>4 DEF v
<1> QED BY <1>1, <1>2, <1>3, <1>4

(* A line: the key, its value, and a comma but in the last one.            *)
IsLine(config, i, line, key, value) ==
  LET n == Len(value)
  IN /\ key \in AI!Keys /\ n \in Nat
     /\ line \in Seq(FileTexts(config) \cup {key})
     /\ Len(line) = IF i = 22 THEN n + 6 ELSE n + 7
     /\ \A k \in 1..Len(line) : line[k] = key => k = 2
     /\ \A k \in 1..5 : line[k] = <<"quote", key, "quote", ":", Space>>[k]
     /\ \A k \in 1..n : line[k + 5] = value[k]
     /\ line[n + 6] = IF i = 22 THEN "nl" ELSE "comma"

(* A line is its key, its value and what ends it (Serialize).              *)
LEMMA LineIs ==
  ASSUME NEW config, Writable(config), NEW i \in 1..22
  PROVE  IsLine(config, i, AI!Line(config, i), AI!Settings[i][1],
                Saved(config, AI!Settings[i][1]))
<1> DEFINE key == AI!Settings[i][1]
           line == AI!Line(config, i)
           value == Saved(config, key)
           n == Len(value)
           five == <<"quote", key, "quote", ":", Space>>
           sep == IF i = 22 THEN <<"nl">> ELSE <<"comma", "nl">>
           O == FileTexts(config)
           A == O \cup {key}
<1>1. key \in AI!Keys
  BY SettingsAre DEF AI!Keys
<1>2. AI!Kind(key) = AI!Settings[i][2]
  BY <1>1, KeyIsSetting, SettingsAre
<1>3. line = (five \o value) \o sep
  <2>1. Len(AI!Settings) = 22 /\ AI!Space = Space
    BY SettingsAre DEF AI!Space, Space
  <2>2. value = AI!Value(AI!Settings[i][2], config[key])
    BY <1>2 DEF Saved
  <2> QED BY <2>1, <2>2 DEF AI!Line
<1>4. value \in Seq(O) /\ n \in Nat
  BY <1>1, SavedIs
<1>5. key \notin O
  BY <1>1, TextsAreNoKeys
<1>6. "quote" \in O /\ ":" \in O /\ Space \in O /\ "nl" \in O /\ "comma" \in O
  BY DEF FileTexts, Marks
<1> DEFINE s == IF i = 22 THEN 1 ELSE 2
<1>7. /\ Len(sep) = s /\ s \in {1, 2} /\ sep \in Seq(O)
      /\ sep[1] = IF i = 22 THEN "nl" ELSE "comma"
  <2>1. CASE i = 22
    <3>1. sep = <<"nl">> /\ s = 1
      BY <2>1
    <3> HIDE DEF sep, O
    <3> QED BY <1>6, <2>1, <3>1
  <2>2. CASE i # 22
    <3>1. sep = <<"comma", "nl">> /\ s = 2
      BY <2>2
    <3> HIDE DEF sep, O
    <3> QED BY <1>6, <2>2, <3>1
  <2> QED BY <2>1, <2>2
<1> HIDE DEF key, line, value, n, O
<1>8. five \in Seq(A) /\ Len(five) = 5 /\ \A k \in 1..5 : five[k] = key => k = 2
  <2>1. five \in Seq(A) /\ Len(five) = 5
    BY <1>6
  <2>2. /\ five[1] = "quote" /\ five[3] = "quote" /\ five[4] = ":" /\ five[5] = Space
        /\ \A k \in 1..5 : k = 1 \/ k = 2 \/ k = 3 \/ k = 4 \/ k = 5
    OBVIOUS
  <2> HIDE DEF five
  <2>3. ASSUME NEW k \in 1..5, five[k] = key PROVE k = 2
    BY <1>5, <1>6, <2>2, <2>3
  <2> QED BY <2>1, <2>3
<1> DEFINE front == five \o value
<1> HIDE DEF five, sep, s
<1>9. /\ value \in Seq(A) /\ sep \in Seq(A)
      /\ \A k \in 1..n : value[k] \in O
      /\ \A k \in 1..s : sep[k] \in O
  <2>1. \A z \in Seq(O) : z \in Seq(A)
    <3>1. O \in SUBSET A
      OBVIOUS
    <3> HIDE DEF A
    <3> QED BY ONLY <3>1
  <2>2. \A z \in Seq(O) : \A k \in 1..Len(z) : z[k] \in O
    BY ONLY TRUE
  <2> QED BY <1>4, <1>7, <2>1, <2>2 DEF n
<1>10. /\ front \in Seq(A) /\ Len(front) = n + 5
       /\ \A k \in 1..5 : front[k] = five[k]
       /\ \A k \in 1..n : front[k + 5] = value[k]
  <2> HIDE DEF A
  <2>1. /\ front \in Seq(A) /\ Len(front) = Len(five) + Len(value)
        /\ \A k \in 1..Len(five) : front[k] = five[k]
        /\ \A k \in 1..Len(value) : front[k + Len(five)] = value[k]
    <3>1. IsJoint(front, five, value)
      BY DEF IsJoint
    <3> HIDE DEF front
    <3>2. five \in Seq(A) /\ value \in Seq(A)
      BY <1>8, <1>9
    <3>3. front \in Seq(A)
      BY ONLY <3>1, <3>2, JoinedIs
    <3>4. Len(front) = Len(five) + Len(value)
      BY ONLY <3>1, <3>2, JoinedIs
    <3>5. \A k \in 1..Len(five) : front[k] = five[k]
      BY ONLY <3>1, <3>2, JoinedIs
    <3>6. \A k \in 1..Len(value) : front[k + Len(five)] = value[k]
      BY ONLY <3>1, <3>2, JoinedIs
    <3> QED BY <3>3, <3>4, <3>5, <3>6
  <2> QED BY <1>4, <1>8, <2>1 DEF n
<1> HIDE DEF front, A
<1>11. /\ line \in Seq(A) /\ Len(line) = n + 5 + s
       /\ \A k \in 1..n+5 : line[k] = front[k]
       /\ \A k \in 1..s : line[k + (n + 5)] = sep[k]
  <2>1. IsJoint(line, front, sep)
    BY <1>3 DEF front, IsJoint
  <2>2. /\ line \in Seq(A) /\ Len(line) = Len(front) + Len(sep)
        /\ \A k \in 1..Len(front) : line[k] = front[k]
        /\ \A k \in 1..Len(sep) : line[k + Len(front)] = sep[k]
    <3>1. front \in Seq(A) /\ sep \in Seq(A)
      BY <1>9, <1>10
    <3>2. line \in Seq(A)
      BY ONLY <2>1, <3>1, JoinedIs
    <3>3. Len(line) = Len(front) + Len(sep)
      BY ONLY <2>1, <3>1, JoinedIs
    <3>4. \A k \in 1..Len(front) : line[k] = front[k]
      BY ONLY <2>1, <3>1, JoinedIs
    <3>5. \A k \in 1..Len(sep) : line[k + Len(front)] = sep[k]
      BY ONLY <2>1, <3>1, JoinedIs
    <3> QED BY <3>2, <3>3, <3>4, <3>5
  <2> QED BY <1>4, <1>7, <1>10, <2>2
<1>12. /\ \A k \in 1..5 : line[k] = five[k]
       /\ \A k \in 1..n : line[k + 5] = value[k]
       /\ line[n + 6] = sep[1]
  <2>1. \A k \in 1..5 : k \in 1..n+5
    BY <1>4
  <2>2. \A k \in 1..n : k + 5 \in 1..n+5
    BY <1>4
  <2>3. 1 \in 1..s /\ 1 + (n + 5) = n + 6
    BY <1>4, <1>7
  <2> QED BY <1>10, <1>11, <2>1, <2>2, <2>3
<1>13. ASSUME NEW k \in 1..Len(line), line[k] = key
       PROVE  k = 2
  <2>1. k \in 1..5 \/ (k - 5 \in 1..n /\ k = (k - 5) + 5) \/ (k - (n + 5) \in 1..s /\ k = (k - (n + 5)) + (n + 5))
    BY <1>4, <1>7, <1>11
  <2>2. CASE k \in 1..5
    BY <1>8, <1>12, <1>13, <2>2
  <2>3. CASE k - 5 \in 1..n /\ k = (k - 5) + 5
    <3>1. line[k] = value[k - 5]
      BY <1>12, <2>3
    <3> QED BY <1>5, <1>9, <1>13, <2>3, <3>1
  <2>4. CASE k - (n + 5) \in 1..s /\ k = (k - (n + 5)) + (n + 5)
    <3>1. line[k] = sep[k - (n + 5)]
      BY <1>11, <2>4
    <3> QED BY <1>5, <1>9, <1>13, <2>4, <3>1
  <2> QED BY <2>1, <2>2, <2>3, <2>4
<1>14. Len(line) = IF i = 22 THEN n + 6 ELSE n + 7
  BY <1>4, <1>11 DEF s
<1> QED BY <1>1, <1>4, <1>7, <1>11, <1>12, <1>13, <1>14 DEF IsLine, key, line, value, n, five, A, O

(* Where a line stands in the file it is written to.                       *)
FileSymbols(config) == FileTexts(config) \cup AI!Keys

(* The file has every line once, and its key nowhere else (Serialize).     *)
LEMMA FileIs ==
  ASSUME NEW config, Writable(config), NEW i \in 1..22
  PROVE  \E x, y \in Seq(FileSymbols(config) \ {AI!Settings[i][1]}) :
           /\ AI!Serialize(config) = (x \o AI!Line(config, i)) \o y
           /\ AI!Line(config, i) \in Seq(FileSymbols(config))
           /\ i = 22 => y = <<"rbrace", "nl">>
<1> DEFINE key == AI!Settings[i][1]
           A == FileSymbols(config)
           B == A \ {key}
           lines == [j \in 1..22 |-> AI!Line(config, j)]
           line == AI!Line(config, i)
           all == AI!FlattenSeq(lines)
           head == <<"lbrace", "nl">>
           foot == <<"rbrace", "nl">>
<1>1. key \in AI!Keys /\ FileTexts(config) \cap AI!Keys = {}
  BY LineIs, TextsAreNoKeys DEF IsLine
<1>2. ASSUME NEW j \in 1..22
      PROVE  AI!Line(config, j) \in Seq(A) /\ (j # i => AI!Line(config, j) \in Seq(B))
  <2> DEFINE other == AI!Settings[j][1]
             l == AI!Line(config, j)
             C == FileTexts(config) \cup {other}
  <2>1. other \in AI!Keys /\ l \in Seq(C)
    BY LineIs DEF IsLine
  <2>2. C \in SUBSET A
    BY <2>1 DEF FileSymbols
  <2>3. j # i => C \in SUBSET B
    <3>1. j # i => other # key
      BY SettingsAre
    <3> HIDE DEF other, key
    <3> QED BY <1>1, <2>1, <3>1 DEF FileSymbols
  <2> HIDE DEF l, C, A, B
  <2>4. \A D : C \in SUBSET D => l \in Seq(D)
    BY ONLY <2>1
  <2> QED BY <2>2, <2>3, <2>4 DEF l
<1>3. AI!Serialize(config) = (head \o all) \o foot
  <2>1. DOMAIN AI!Settings = 1..22
    BY SettingsAre
  <2> QED BY <2>1 DEF AI!Serialize
<1>4. head \in Seq(B) /\ foot \in Seq(B) /\ B \in SUBSET A
  <2>1. {"lbrace", "rbrace", "nl"} \in SUBSET FileTexts(config)
    BY DEF FileTexts, Marks
  <2>2. {"lbrace", "rbrace", "nl"} \in SUBSET B
    BY <1>1, <2>1 DEF FileSymbols
  <2> HIDE DEF B
  <2>3. head \in Seq(B) /\ foot \in Seq(B)
    BY ONLY <2>2
  <2> QED BY <2>3 DEF B
<1>5. lines \in [1..22 -> Seq(A)] /\ \A j \in 1..22 : j # i => lines[j] \in Seq(B)
  <2> HIDE DEF A, B
  <2> QED BY <1>2
<1> HIDE DEF key, A, B, head, foot
<1>6. PICK x \in Seq(B), y \in Seq(B) : all = (x \o line) \o y /\ (i = 22 => y = <<>>)
  <2>1. 22 \in Nat \ {0} /\ lines[i] = line /\ AreLines(lines, 22, i, A, B)
    BY <1>5 DEF AreLines
  <2> HIDE DEF lines
  <2>2. StandsAmong(lines[i], AI!FlattenSeq(lines), i, 22, B)
    BY <1>4, <2>1, FlattenStands
  <2> QED BY <2>1, <2>2 DEF StandsAmong
<1> HIDE DEF lines, line, all
<1>7. line \in Seq(A)
  BY <1>2 DEF line
<1>8. \A D : D \in SUBSET A => \A z \in Seq(D) : z \in Seq(A)
  OBVIOUS
<1>9. x \in Seq(A) /\ y \in Seq(A) /\ head \in Seq(A) /\ foot \in Seq(A)
  BY <1>4, <1>8
<1>10. (head \o ((x \o line) \o y)) \o foot = ((head \o x) \o line) \o (y \o foot)
  BY ONLY <1>7, <1>9
<1>11. AI!Serialize(config) = ((head \o x) \o line) \o (y \o foot)
  BY ONLY <1>3, <1>6, <1>10
<1>12. head \o x \in Seq(B) /\ y \o foot \in Seq(B)
  BY ONLY <1>4, <1>6
<1>13. i = 22 => y \o foot = foot
  <2>1. <<>> \o foot = foot
    BY ONLY <1>9
  <2> QED BY <1>6, <2>1
<1> QED BY <1>7, <1>11, <1>12, <1>13 DEF A, B, key, line, foot

(* Every line stands in every first part of the file.                      *)
LEMMA LineStandsCut ==
  ASSUME NEW config, Writable(config), NEW i \in 1..22,
         NEW m \in 0..Len(AI!Serialize(config))
  PROVE  LET key == AI!Settings[i][1]
             value == Saved(config, key)
         IN /\ AI!Serialize(config) \in Seq(FileSymbols(config))
            /\ \E pos \in Nat \ {0} :
                 /\ StandsCut(SubSeq(AI!Serialize(config), 1, m), pos, key, value)
                 /\ pos + 5 + Len(value) <= Len(AI!Serialize(config))
<1> DEFINE key == AI!Settings[i][1]
           value == Saved(config, key)
           n == Len(value)
           line == AI!Line(config, i)
           five == <<"quote", key, "quote", ":", Space>>
           A == FileSymbols(config)
           B == A \ {key}
           T == AI!Serialize(config)
           foot == <<"rbrace", "nl">>
<1>1. /\ n \in Nat /\ Len(line) = IF i = 22 THEN n + 6 ELSE n + 7
      /\ \A k \in 1..Len(line) : line[k] = key => k = 2
      /\ \A k \in 1..5 : line[k] = five[k]
      /\ \A k \in 1..n : line[k + 5] = value[k]
      /\ line[n + 6] = IF i = 22 THEN "nl" ELSE "comma"
  <2>1. IsLine(config, i, line, key, value)
    BY LineIs
  <2> HIDE DEF line, key, value
  <2> QED BY <2>1 DEF IsLine
<1>2. PICK x \in Seq(B), y \in Seq(B) :
        T = (x \o line) \o y /\ line \in Seq(A) /\ (i = 22 => y = foot)
  BY FileIs
<1> HIDE DEF key, value, n, line, five, A, T
<1> DEFINE front == x \o line
           pos == Len(x) + 1
           l == Len(line)
<1>3. line \in Seq(A) /\ x \in Seq(A) /\ y \in Seq(A) /\ x \in Seq(B) /\ y \in Seq(B)
  <2>1. B \in SUBSET A
    OBVIOUS
  <2> HIDE DEF B
  <2>2. \A z \in Seq(B) : z \in Seq(A)
    BY ONLY <2>1
  <2> QED BY <1>2, <2>2
<1>4. /\ \A k \in 1..Len(x) : x[k] # key
      /\ \A k \in 1..Len(y) : y[k] # key
      /\ Len(x) \in Nat /\ Len(y) \in Nat /\ l \in Nat
  <2>1. \A z \in Seq(B) : \A k \in 1..Len(z) : z[k] # key
    <3>1. \A e \in B : e # key
      OBVIOUS
    <3> HIDE DEF B
    <3> QED BY ONLY <3>1
  <2> QED BY <1>3, <2>1
<1> HIDE DEF B
<1>5. IsJoint(front, x, line) /\ IsJoint(T, front, y)
  BY <1>2 DEF IsJoint
<1> HIDE DEF front
<1>6. /\ front \in Seq(A) /\ Len(front) = Len(x) + l
      /\ \A k \in 1..Len(x) : front[k] = x[k]
      /\ \A k \in 1..l : front[k + Len(x)] = line[k]
  <2>1. front \in Seq(A)
    BY ONLY <1>3, <1>5, JoinedIs
  <2>2. Len(front) = Len(x) + l
    BY ONLY <1>3, <1>5, JoinedIs
  <2>3. \A k \in 1..Len(x) : front[k] = x[k]
    BY ONLY <1>3, <1>5, JoinedIs
  <2>4. \A k \in 1..l : front[k + Len(x)] = line[k]
    BY ONLY <1>3, <1>5, JoinedIs
  <2> QED BY <2>1, <2>2, <2>3, <2>4
<1>7. /\ T \in Seq(A) /\ Len(T) = Len(x) + l + Len(y)
      /\ \A k \in 1..Len(x)+l : T[k] = front[k]
      /\ \A k \in 1..Len(y) : T[k + (Len(x) + l)] = y[k]
  <2>0. front \in Seq(A) /\ y \in Seq(A) /\ IsJoint(T, front, y)
    BY <1>3, <1>5, <1>6
  <2>1. T \in Seq(A)
    BY ONLY <2>0, JoinedIs
  <2>2. Len(T) = Len(front) + Len(y)
    BY ONLY <2>0, JoinedIs
  <2>3. \A k \in 1..Len(front) : T[k] = front[k]
    BY ONLY <2>0, JoinedIs
  <2>4. \A k \in 1..Len(y) : T[k + Len(front)] = y[k]
    BY ONLY <2>0, JoinedIs
  <2> QED BY <1>4, <1>6, <2>1, <2>2, <2>3, <2>4
<1> HIDE DEF l
<1>8. \A k \in 1..l : pos - 1 + k \in 1..Len(T) /\ T[pos - 1 + k] = line[k]
  <2>1. ASSUME NEW k \in 1..l
        PROVE  pos - 1 + k \in 1..Len(T) /\ T[pos - 1 + k] = line[k]
    <3>1. pos - 1 + k = k + Len(x) /\ k + Len(x) \in 1..Len(x)+l
      BY <1>4
    <3>2. k + Len(x) \in 1..Len(T)
      BY <1>4, <1>7
    <3> QED BY <1>6, <1>7, <3>1, <3>2
  <2> QED BY <2>1
<1>9. \A j \in 1..Len(T) : T[j] = key => j = pos + 1
  <2>1. ASSUME NEW j \in 1..Len(T), T[j] = key
        PROVE  j = pos + 1
    <3>1. CASE j <= Len(x)
      BY <1>4, <1>6, <1>7, <2>1, <3>1
    <3>2. CASE j > Len(x) /\ j <= Len(x) + l
      <4>1. j - Len(x) \in 1..l /\ pos - 1 + (j - Len(x)) = j
        BY <1>4, <3>2
      <4>2. j - Len(x) = 2
        BY <1>1, <1>8, <2>1, <4>1 DEF l
      <4> QED BY <1>4, <4>2
    <3>3. CASE j > Len(x) + l
      <4>1. j - (Len(x) + l) \in 1..Len(y) /\ (j - (Len(x) + l)) + (Len(x) + l) = j
        BY <1>4, <1>7, <3>3
      <4>2. T[j] = y[j - (Len(x) + l)]
        BY <1>7, <4>1
      <4> QED BY <1>4, <2>1, <4>1, <4>2
    <3> QED BY <1>4, <3>1, <3>2, <3>3
  <2> QED BY <2>1
<1>10. l = IF i = 22 THEN n + 6 ELSE n + 7
  BY <1>1 DEF l
<1>11. /\ pos \in Nat \ {0} /\ pos + 5 + n <= Len(T)
       /\ \A k \in 1..5 : T[pos - 1 + k] = five[k]
       /\ \A k \in 1..n : T[pos + 4 + k] = value[k]
       /\ i # 22 => T[pos + 5 + n] = "comma"
       /\ i = 22 => \A j \in pos+5+n..Len(T) : T[j] \in {"nl", "rbrace"}
  <2>1. pos \in Nat \ {0} /\ pos + 5 + n <= Len(T)
    BY <1>1, <1>4, <1>7, <1>10
  <2>2. \A k \in 1..5 : T[pos - 1 + k] = five[k]
    <3>1. \A k \in 1..5 : k \in 1..l
      BY <1>1, <1>10
    <3> QED BY <1>1, <1>8, <3>1
  <2>3. \A k \in 1..n : T[pos + 4 + k] = value[k]
    <3>1. ASSUME NEW k \in 1..n
          PROVE  T[pos + 4 + k] = value[k]
      <4>1. k + 5 \in 1..l /\ pos - 1 + (k + 5) = pos + 4 + k
        BY <1>1, <1>10, <2>1
      <4> QED BY <1>1, <1>8, <4>1
    <3> QED BY <3>1
  <2>4. T[pos + 5 + n] = IF i = 22 THEN "nl" ELSE "comma"
    <3>1. n + 6 \in 1..l /\ pos - 1 + (n + 6) = pos + 5 + n
      BY <1>1, <1>10, <2>1
    <3> QED BY <1>1, <1>8, <3>1
  <2>5. ASSUME i = 22, NEW j \in pos+5+n..Len(T)
        PROVE  T[j] \in {"nl", "rbrace"}
    <3>1. l = n + 6 /\ y = foot
      BY <1>2, <1>10, <2>5
    <3>2. Len(y) = 2 /\ y[1] = "rbrace" /\ y[2] = "nl"
      BY <3>1
    <3> HIDE DEF foot
    <3>3. CASE j = pos + 5 + n
      BY <2>4, <2>5, <3>3
    <3>4. CASE j # pos + 5 + n
      <4> DEFINE k == j - (Len(x) + l)
      <4>1. k \in 1..Len(y) /\ k + (Len(x) + l) = j /\ (k = 1 \/ k = 2)
        <5>1. j \in Int /\ j > pos + 5 + n /\ j <= Len(T) /\ n \in Nat
          <6>1. pos \in Nat /\ n \in Nat /\ Len(T) \in Int /\ j \in pos+5+n..Len(T) /\ j # pos + 5 + n
            BY <1>1, <1>4, <1>7, <2>1, <3>4
          <6> HIDE DEF pos
          <6> QED BY ONLY <6>1
        <5>2. j > Len(x) + 1 + 5 + n /\ j <= Len(x) + l + 2
          BY <1>7, <3>2, <5>1
        <5>3. k \in 1..2
          BY ONLY <1>4, <3>1, <5>1, <5>2
        <5> QED BY <1>4, <3>2, <5>1, <5>3
      <4>2. T[j] = y[k]
        BY <1>7, <4>1
      <4> HIDE DEF k
      <4> QED BY <3>2, <4>1, <4>2
    <3> QED BY <3>3, <3>4
  <2> QED BY <2>1, <2>2, <2>3, <2>4, <2>5
<1> HIDE DEF pos
<1> DEFINE t == SubSeq(T, 1, m)
<1>12. /\ m \in 0..Len(T) /\ Len(T) \in Nat
       /\ Len(t) = m /\ \A j \in 1..m : t[j] = T[j] /\ j \in 1..Len(T)
  <2>1. m \in 0..Len(T) /\ Len(T) \in Nat
    BY <1>7 DEF T
  <2>2. CASE m = 0
    <3>1. t = <<>>
      BY <2>2
    <3> HIDE DEF t
    <3> QED BY <2>1, <2>2, <3>1
  <2>3. CASE m # 0
    <3>1. 1 \in 1..Len(T) /\ m \in 1..Len(T)
      BY <2>1, <2>3
    <3>2. Len(t) = m - 1 + 1 /\ \A k \in 1..m-1+1 : t[k] = T[1 + k - 1]
      BY <1>7, <3>1, PartIs
    <3> HIDE DEF t
    <3>3. m - 1 + 1 = m /\ \A k \in 1..m : 1 + k - 1 = k
      BY <2>1
    <3> QED BY <2>1, <3>2, <3>3
  <2> QED BY <2>2, <2>3
<1> HIDE DEF t
<1>13. StandsCut(t, pos, key, value)
  <2>1. \A j \in 1..Len(t) : t[j] = key => j = pos + 1
    BY <1>9, <1>12
  <2>2. \A k \in 1..5 : pos - 1 + k <= Len(t) => t[pos - 1 + k] = five[k]
    <3>1. \A k \in 1..5 : pos - 1 + k <= m => pos - 1 + k \in 1..m
      BY <1>11, <1>12
    <3> QED BY <1>11, <1>12, <3>1
  <2>3. \A k \in 1..n : pos + 4 + k <= Len(t) => t[pos + 4 + k] = value[k]
    <3>1. \A k \in 1..n : pos + 4 + k <= m => pos + 4 + k \in 1..m
      BY <1>1, <1>11, <1>12
    <3> QED BY <1>11, <1>12, <3>1
  <2>4. CASE i # 22
    <3>1. pos + 5 + n <= Len(t) => t[pos + 5 + n] = "comma"
      <4>1. pos + 5 + n <= m => pos + 5 + n \in 1..m
        BY <1>1, <1>11, <1>12
      <4> QED BY <1>11, <1>12, <2>4, <4>1
    <3> QED BY <1>1, <1>11, <2>1, <2>2, <2>3, <3>1 DEF StandsCut, five, n
  <2>5. CASE i = 22
    <3>1. \A j \in pos+5+n..Len(t) : t[j] \in {"nl", "rbrace"}
      <4>1. \A j \in pos+5+n..Len(t) : j \in 1..m /\ j \in pos+5+n..Len(T)
        BY <1>1, <1>11, <1>12
      <4> QED BY <1>11, <1>12, <2>5, <4>1
    <3> QED BY <1>1, <1>11, <2>1, <2>2, <2>3, <3>1 DEF StandsCut, five, n
  <2> QED BY <2>4, <2>5
<1> QED BY <1>7, <1>11, <1>13 DEF key, value, n, T, t, A

(* The default settings are such settings.                                 *)
LEMMA DefaultIsWritable == Writable(AI!GetDefaultConfig)
<1> DEFINE D == AI!GetDefaultConfig
           Numbers == {<<"5", "0", "0", "0">>, <<"1", "5", "0", "0", "0">>,
                       <<"1", "6", "0", "0", "0">>, <<"6", "0", "0", "0", "0">>,
                       <<"6", "0">>, <<"1", "0", "0">>, <<"5">>}
<1>1. D = [key \in AI!Keys |-> D[key]]
  BY DEF AI!GetDefaultConfig
<1>2. ASSUME NEW i \in 1..22, AI!Settings[i][2] = "bool"
      PROVE  AI!Settings[i][3] \in BOOLEAN
  <2>1. i = 1 \/ i = 16 \/ i = 20 \/ i = 21 \/ i = 22
    BY <1>2 DEF AI!Settings
  <2>2. /\ AI!Settings[1][3] = TRUE
        /\ AI!Settings[16][3] = FALSE /\ AI!Settings[20][3] = FALSE
        /\ AI!Settings[21][3] = FALSE /\ AI!Settings[22][3] = FALSE
    BY DEF AI!Settings
  <2> QED BY <2>1, <2>2
<1>3. ASSUME NEW i \in 1..22, AI!Settings[i][2] = "string"
      PROVE  LET s == AI!Settings[i] IN
             /\ s[3] \notin AI!Keys \cup {"quote"}
             /\ AI!Named(s[1], s[3]) = s[3]
  BY <1>3 DEF AI!Settings, AI!Keys, AI!Named
<1>4. ASSUME NEW i \in 1..22, AI!Settings[i][2] = "int"
      PROVE  AI!Settings[i][3] \in Numbers
  BY <1>4 DEF AI!Settings
<1>5. \A d \in Numbers : d \in Seq(AI!Digits) /\ d # <<>>
  <2>1. <<"5", "0", "0", "0">> \in Seq(AI!Digits) /\ <<"1", "5", "0", "0", "0">> \in Seq(AI!Digits)
    BY DEF AI!Digits
  <2>2. <<"1", "6", "0", "0", "0">> \in Seq(AI!Digits) /\ <<"6", "0", "0", "0", "0">> \in Seq(AI!Digits)
    BY DEF AI!Digits
  <2>3. <<"6", "0">> \in Seq(AI!Digits) /\ <<"1", "0", "0">> \in Seq(AI!Digits) /\ <<"5">> \in Seq(AI!Digits)
    BY DEF AI!Digits
  <2>4. \A d \in Numbers : d # <<>>
    OBVIOUS
  <2> QED BY <2>1, <2>2, <2>3, <2>4
<1> HIDE DEF Numbers
<1>6. ASSUME NEW key \in AI!Keys
      PROVE  /\ AI!Kind(key) = "bool" => D[key] \in BOOLEAN
             /\ AI!Kind(key) = "string" =>
                  /\ D[key] \notin AI!Keys \cup {"quote"}
                  /\ AI!Named(key, D[key]) = D[key]
             /\ AI!Kind(key) = "int" => D[key] \in Seq(AI!Digits) /\ D[key] # <<>>
  <2>1. PICK i \in 1..22 : key = AI!Settings[i][1] /\ AI!Kind(key) = AI!Settings[i][2]
                           /\ D[key] = AI!Settings[i][3]
    BY KeyIsSetting
  <2> HIDE DEF D
  <2>2. CASE AI!Kind(key) = "bool"
    BY <1>2, <2>1, <2>2
  <2>3. CASE AI!Kind(key) = "string"
    BY <1>3, <2>1, <2>3
  <2>4. CASE AI!Kind(key) = "int"
    <3>1. D[key] \in Numbers
      BY <1>4, <2>1, <2>4
    <3> QED BY <1>5, <2>4, <3>1
  <2>5. AI!Kind(key) \in {"bool", "string", "int"}
    BY <2>1, SettingsAre
  <2> QED BY <2>2, <2>3, <2>4, <2>5
<1> QED BY <1>1, <1>6 DEF Writable

(* A whole file gives the settings it was saved from, and a cut one gives  *)
(* none that nobody wrote, but for a number it ends in (AIConfigManager's  *)
(* Load, Parse and Serialize), for every settings a file can hold.         *)
THEOREM SettingsReadBack ==
  \A config : Writable(config) =>
    \A m \in 0..Len(AI!Serialize(config)) :
      AI!ReadsBackFor(config, SubSeq(AI!Serialize(config), 1, m))
<1> SUFFICES ASSUME NEW config, Writable(config), NEW m \in 0..Len(AI!Serialize(config))
             PROVE  AI!ReadsBackFor(config, SubSeq(AI!Serialize(config), 1, m))
  OBVIOUS
<1> DEFINE T == AI!Serialize(config)
           t == SubSeq(T, 1, m)
           A == FileSymbols(config)
           D == AI!GetDefaultConfig
           read == AI!Parse(t)
<1>1. T \in Seq(A) /\ Len(T) \in Nat
  <2>1. 1 \in 1..22
    OBVIOUS
  <2>2. T \in Seq(A)
    BY <2>1, LineStandsCut
  <2> QED BY <2>2
<1>2. m \in 0..Len(T)
  OBVIOUS
<1> HIDE DEF T
<1>3. t \in Seq(A) /\ Len(t) = m
  BY <1>1, <1>2
<1>4. ASSUME NEW key \in AI!Keys
      PROVE  /\ \/ read[key] \in {config[key], D[key]}
                \/ AI!Kind(key) = "int" /\ AI!IsPrefix(read[key], config[key])
             /\ m = Len(T) => read[key] = config[key]
  <2> DEFINE value == Saved(config, key)
             old == D[key]
  <2>1. PICK pos \in Nat \ {0} : StandsCut(t, pos, key, value) /\ pos + 5 + Len(value) <= Len(T)
    <3>1. PICK i \in 1..22 : key = AI!Settings[i][1]
      BY KeyIsSetting
    <3>2. m \in 0..Len(AI!Serialize(config))
      OBVIOUS
    <3> QED BY <3>1, <3>2, LineStandsCut DEF T
  <2>2. read[key] = AI!Get(t, key, old)
    BY DEF AI!Parse
  <2>3. AI!Kind(key) \in {"bool", "string", "int"}
    BY KeyIsSetting, SettingsAre
  <2>4. key # ":"
    BY KeyIsSetting, SettingsAre DEF Marks
  <2>5. Writable(D)
    BY DefaultIsWritable
  <2> HIDE DEF read, old, t
  <2>6. CASE AI!Kind(key) = "bool"
    <3> DEFINE word == <<IF config[key] THEN "true" ELSE "false">>
    <3>1. value = word /\ config[key] \in BOOLEAN /\ read[key] = AI!GetBool(t, key, old)
      BY <2>2, <2>6 DEF Saved, AI!Value, AI!Get, Writable
    <3>2. Len(word) = 1
      OBVIOUS
    <3> HIDE DEF value
    <3>3. StandsCut(t, pos, key, word) /\ pos + 5 <= Len(T)
      <4> HIDE DEF word
      <4> QED BY <1>1, <2>1, <3>1, <3>2
    <3>4. /\ AI!GetBool(t, key, old) = config[key] \/ AI!GetBool(t, key, old) = old
          /\ pos + 5 <= Len(t) => AI!GetBool(t, key, old) = config[key]
      BY <1>3, <2>4, <3>1, <3>3, BoolIs
    <3> QED BY <1>3, <3>1, <3>3, <3>4 DEF old
  <2>7. CASE AI!Kind(key) = "string"
    <3> DEFINE v == config[key]
               text3 == <<"quote", v, "quote">>
    <3>1. value = text3 /\ read[key] = AI!Named(key, AI!GetString(t, key, old))
      BY <2>2, <2>7 DEF Saved, AI!Value, AI!Get
    <3>2. v # "quote" /\ AI!Named(key, v) = v /\ AI!Named(key, old) = old
      BY <2>5, <2>7 DEF Writable, old
    <3>3. Len(text3) = 3
      OBVIOUS
    <3> HIDE DEF value, v
    <3>4. StandsCut(t, pos, key, text3) /\ pos + 7 <= Len(T)
      <4> HIDE DEF text3
      <4> QED BY <1>1, <2>1, <3>1, <3>3
    <3>5. /\ AI!GetString(t, key, old) \in {v, old}
          /\ pos + 7 <= Len(t) => AI!GetString(t, key, old) = v
      BY <1>3, <2>4, <3>2, <3>4, StringIs
    <3> QED BY <1>3, <3>1, <3>2, <3>4, <3>5 DEF old, v
  <2>8. CASE AI!Kind(key) = "int"
    <3>1. /\ value = config[key] /\ value \in Seq(AI!Digits) /\ value # <<>>
          /\ read[key] = AI!GetInt(t, key, old)
      BY <2>2, <2>8 DEF Saved, AI!Value, AI!Get, Writable
    <3>2. Len(value) \in Nat
      BY <3>1
    <3> HIDE DEF value
    <3>3. /\ \/ AI!GetInt(t, key, old) = old
             \/ AI!IsPrefix(AI!GetInt(t, key, old), value)
          /\ pos + 4 + Len(value) <= Len(t) => AI!GetInt(t, key, old) = value
      BY <1>3, <2>1, <2>4, <3>1, IntIs
    <3>4. m = Len(T) => pos + 4 + Len(value) <= Len(t)
      BY <1>1, <1>3, <2>1, <3>2
    <3> QED BY <2>8, <3>1, <3>3, <3>4 DEF old
  <2> QED BY <2>3, <2>6, <2>7, <2>8
<1>5. ASSUME t = T
      PROVE  read = config
  <2>1. m = Len(T)
    BY <1>3, <1>5
  <2>2. read = [key \in AI!Keys |-> read[key]]
    BY DEF AI!Parse
  <2>3. config = [key \in AI!Keys |-> config[key]]
    BY DEF Writable
  <2>4. \A key \in AI!Keys : read[key] = config[key]
    BY <1>4, <2>1
  <2> HIDE DEF read
  <2> QED BY ONLY <2>2, <2>3, <2>4
<1> HIDE DEF read
<1>6. AI!ReadsBackFor(config, t) <=>
        /\ t = T => read = config
        /\ \A key \in AI!Keys :
             \/ read[key] \in {config[key], D[key]}
             \/ AI!Kind(key) = "int" /\ AI!IsPrefix(read[key], config[key])
  BY DEF AI!ReadsBackFor, read, T
<1> QED BY <1>4, <1>5, <1>6 DEF T

--------------------------------------------------------------------------------
(* The numbers of the policy file.  What is no digit, no point and no space*)
(* makes a text no number, and the spaces behind a number do not.          *)
NumberMarks == Rerank!White \cup DOMAIN Rerank!Digit \cup {"."}

(* When all that may be trimmed stands at the end, the front is left.      *)
LEMMA FrontTrimmed ==
  ASSUME NEW S, NEW w \in Seq(S), NEW n \in 0..Len(w), NEW X,
         \A j \in 1..Len(w) : w[j] \in X <=> j > n
  PROVE  Trim(w, X) = SubSeq(w, 1, n)
<1> DEFINE kept == {j \in DOMAIN w : w[j] \notin X}
<1>1. kept = 1..n
  OBVIOUS
<1>2. Trim(w, X) = IF kept = {} THEN <<>> ELSE SubSeq(w, Min(kept), Max(kept))
  BY DEF Trim
<1> HIDE DEF kept
<1>3. CASE n = 0
  <2>1. kept = {}
    BY <1>1, <1>3
  <2> QED BY <1>2, <1>3, <2>1
<1>4. CASE n # 0
  <2>1. kept \in SUBSET (0..n) /\ kept \in SUBSET Nat /\ 1 \in kept /\ n \in kept /\ kept # {}
    BY <1>1, <1>4
  <2>2. Min(kept) \in kept /\ Min(kept) <= 1 /\ Max(kept) \in kept /\ n <= Max(kept)
    BY <2>1, LeastIs, GreatestIs
  <2>3. Min(kept) = 1 /\ Max(kept) = n
    BY <1>1, <2>2
  <2> QED BY <1>2, <2>1, <2>3
<1> QED BY <1>3, <1>4

(* What has an odd symbol in it is no number (SimpleAtod).                 *)
LEMMA OddIsNone ==
  ASSUME NEW S, NEW w \in Seq(S), NEW k \in 1..Len(w), w[k] \notin NumberMarks
  PROVE  Rerank!SimpleAtod(w) = Rerank!None
<1> DEFINE White == Rerank!White
           kept == {j \in DOMAIN w : w[j] \notin White}
           number == Trim(w, White)
           point == FirstOf(number, 1, {"."})
           whole == SubSeq(number, 1, point - 1)
           part == SubSeq(number, point + 1, Len(number))
           both == whole \o part
<1>1. Rerank!SimpleAtod(w) =
        IF /\ both # <<>>
           /\ \A i \in DOMAIN both : both[i] \in DOMAIN Rerank!Digit
        THEN 10 * Rerank!Number(whole) + (IF part = <<>> THEN 0 ELSE Rerank!Digit[part[1]])
        ELSE Rerank!None
  <2>1. Rerank!Trim(w, White) = number /\ Rerank!FirstOf(number, 1, {"."}) = point
    BY FilesAreTexts
  <2>2. Rerank!From(number, point + 1) = part
    BY FilesAreTexts DEF From
  <2> HIDE DEF number, point
  <2> QED BY ONLY <2>1, <2>2 DEF Rerank!SimpleAtod
<1>2. w[k] \notin White /\ w[k] # "." /\ w[k] \notin DOMAIN Rerank!Digit
  BY DEF NumberMarks
<1> DEFINE a == Min(kept)
           b == Max(kept)
<1>3. k \in kept /\ kept \in SUBSET (0..Len(w)) /\ kept \in SUBSET Nat /\ kept # {}
      /\ \A j \in kept : j \in 1..Len(w)
  BY <1>2
<1>4. number = SubSeq(w, a, b)
  BY <1>3 DEF Trim
<1> HIDE DEF kept, number
<1>5. a \in 1..Len(w) /\ b \in k..Len(w) /\ a <= k
  <2>1. Len(w) \in Nat
    OBVIOUS
  <2>2. a \in kept /\ \A j \in kept : a <= j
    BY <1>3, LeastIs
  <2>3. b \in kept /\ \A j \in kept : j <= b
    BY <1>3, <2>1, GreatestIs
  <2> HIDE DEF a, b
  <2> QED BY <1>3, <2>2, <2>3
<1> HIDE DEF a, b
<1> DEFINE i == k - a + 1
           n == Len(number)
<1>6. number \in Seq(S) /\ n = b - a + 1 /\ \A j \in 1..b-a+1 : number[j] = w[a + j - 1]
  BY <1>4, <1>5, PartIs
<1>7. i \in 1..n /\ number[i] = w[k]
  BY <1>5, <1>6
<1> HIDE DEF i
<1>8. 1 \in 1..n+1 /\ n \in Nat
  BY <1>6
<1>9. point \in 1..n+1 /\ (point \in 1..n => number[point] = ".")
  BY <1>6, <1>8, FirstOfIs
<1>10. point # i
  BY <1>2, <1>7, <1>9
<1> HIDE DEF point, n
<1>11. \E j \in DOMAIN both : both[j] = number[i]
  <2>1. CASE i < point
    <3>1. whole \in Seq(S) /\ Len(whole) = point - 1 /\ \A j \in 1..point-1 : whole[j] = number[j]
      <4>1. 1 \in 1..n /\ point - 1 \in 1..n
        BY <1>7, <1>8, <1>9, <2>1
      <4>2. /\ whole \in Seq(S) /\ Len(whole) = point - 1 - 1 + 1
            /\ \A j \in 1..point-1-1+1 : whole[j] = number[1 + j - 1]
        BY <1>6, <4>1, PartIs DEF n
      <4> HIDE DEF whole
      <4> QED BY <1>9, <4>2
    <3>2. part \in Seq(S)
      BY <1>6, <1>9 DEF n
    <3> HIDE DEF whole, part
    <3>3. i \in 1..Len(whole) /\ i \in DOMAIN both /\ both[i] = whole[i]
      BY <1>7, <1>9, <2>1, <3>1, <3>2
    <3> QED BY <3>1, <3>3
  <2>2. CASE i > point
    <3>1. part \in Seq(S) /\ Len(part) = n - point /\ \A j \in 1..n-point : part[j] = number[point + j]
      <4>1. point + 1 \in 1..n /\ n \in point+1..n
        BY <1>7, <1>8, <1>9, <2>2
      <4>2. /\ part \in Seq(S) /\ Len(part) = n - (point + 1) + 1
            /\ \A j \in 1..n-(point+1)+1 : part[j] = number[point + 1 + j - 1]
        BY <1>6, <4>1, PartIs DEF n
      <4> HIDE DEF part
      <4>3. n - (point + 1) + 1 = n - point /\ \A j \in 1..n-point : point + 1 + j - 1 = point + j
        BY <1>8, <1>9
      <4> QED BY <4>2, <4>3
    <3>2. whole \in Seq(S) /\ Len(whole) \in Nat
      BY <1>6, <1>9 DEF n
    <3>3. IsJoint(both, whole, part)
      BY DEF IsJoint
    <3> HIDE DEF whole, part, both
    <3>0. whole \in Seq(S) /\ part \in Seq(S)
      BY <3>1, <3>2
    <3>4. Len(both) = Len(whole) + Len(part)
      BY ONLY <3>0, <3>3, JoinedIs
    <3>5. \A j \in 1..Len(part) : both[j + Len(whole)] = part[j]
      BY ONLY <3>0, <3>3, JoinedIs
    <3>6. both \in Seq(S)
      BY ONLY <3>0, <3>3, JoinedIs
    <3> DEFINE j == i - point
    <3>7. j \in 1..Len(part) /\ point + j = i /\ j \in 1..n-point
      BY <1>7, <1>8, <1>9, <2>2, <3>1
    <3>8. both[j + Len(whole)] = number[i] /\ j + Len(whole) \in 1..Len(both)
      <4> HIDE DEF j
      <4> QED BY <3>1, <3>2, <3>4, <3>5, <3>7
    <3>9. j + Len(whole) \in DOMAIN both
      BY <3>6, <3>8
    <3> QED BY <3>8, <3>9
  <2>3. i \in Int /\ point \in Int
    BY <1>7, <1>8, <1>9
  <2>4. i < point \/ i > point
    BY <1>10, <2>3
  <2> HIDE DEF both
  <2> QED BY ONLY <2>1, <2>2, <2>4
<1> HIDE DEF both
<1> QED BY <1>1, <1>2, <1>7, <1>11

(* A number with spaces behind it, and what a policy that is cut short says*)
(* of it: nothing, the number, or as much as is left.                      *)
Padded(value, number) ==
  /\ Len(value) \in Nat /\ Len(number) <= Len(value)
  /\ \A k \in 1..Len(value) : value[k] = IF k <= Len(number) THEN number[k] ELSE Space
NumberRead(x, number, left) ==
  \/ x = Rerank!None
  \/ \E n \in 1..Len(number) : /\ x = Rerank!SimpleAtod(SubSeq(number, 1, n))
                               /\ n = Len(number) \/ n = left

(* What is trimmed alike is the same number (SimpleAtod).                  *)
LEMMA SameNumber ==
  ASSUME NEW w, NEW u, Trim(w, Rerank!White) = Trim(u, Rerank!White)
  PROVE  Rerank!SimpleAtod(w) = Rerank!SimpleAtod(u)
<1>1. Rerank!Trim(w, Rerank!White) = Rerank!Trim(u, Rerank!White)
  BY FilesAreTexts
<1> QED BY ONLY <1>1 DEF Rerank!SimpleAtod

(* Nothing is no number (SimpleAtod).                                      *)
LEMMA NothingIsNone == Rerank!SimpleAtod(<<>>) = Rerank!None
<1> DEFINE n == Rerank!Trim(<<>>, Rerank!White)
           p == Rerank!FirstOf(n, 1, {"."})
           both == SubSeq(n, 1, p - 1) \o Rerank!From(n, p + 1)
<1>1. n = <<>>
  <2>1. Rerank!Trim(<<>>, Rerank!White) = Trim(<<>>, Rerank!White)
    BY FilesAreTexts
  <2>2. {j \in DOMAIN <<>> : <<>>[j] \notin Rerank!White} = {}
    OBVIOUS
  <2> QED BY <2>1, <2>2 DEF Trim
<1>2. p = 1
  <2>1. p = FirstOf(<<>>, 1, {"."})
    BY <1>1, FilesAreTexts
  <2>2. {j \in 1..Len(<<>>) : <<>>[j] \in {"."}} \cup {Len(<<>>) + 1} = {1}
    OBVIOUS
  <2>3. {1} \in SUBSET Nat /\ {1} # {}
    OBVIOUS
  <2>4. Min({1}) = 1
    BY <2>3, LeastIs
  <2> QED BY ONLY <2>1, <2>2, <2>4 DEF FirstOf
<1>3. both = <<>>
  <2>1. SubSeq(n, 1, 0) = <<>>
    BY <1>1
  <2>2. Rerank!From(n, 2) = <<>>
    BY <1>1 DEF Rerank!From
  <2> QED BY <1>2, <2>1, <2>2
<1> HIDE DEF n, p, both
<1> QED BY ONLY <1>3 DEF Rerank!SimpleAtod, both, n, p

(* What LoadPolicyFile reads behind a key of a policy that is cut short.   *)
LEMMA PolicyNumberIs ==
  ASSUME NEW S, NEW t \in Seq(S), NEW pos, NEW key, key # ":", NEW value,
         StandsCut(t, pos, key, value),
         NEW C, NEW number \in Seq(C), C \cap Rerank!White = {},
         Len(number) \in 1..Rerank!Window, Padded(value, number)
  PROVE  NumberRead(Rerank!PolicyNumber(t, key), number, Len(t) - (pos + 4))
<1> DEFINE White == Rerank!White
           N == Len(number)
           V == Len(value)
           word == <<"quote", key, "quote">>
           found == Find(t, word, 1)
           colon == IF found = 0 THEN 0 ELSE Find(t, <<":">>, found + 3)
           first == PastAll(t, colon + 1, White)
           last == Min({first + Rerank!Window - 1, Len(t)})
           w == SubSeq(t, first, last)
           x == Rerank!PolicyNumber(t, key)
<1>1. x = IF colon = 0 THEN Rerank!None ELSE Rerank!SimpleAtod(w)
  <2>1. Rerank!Find(t, word, 1) = found /\ Rerank!Find(t, <<":">>, found + 3) = Find(t, <<":">>, found + 3)
    BY FilesAreTexts
  <2>2. Rerank!PastAll(t, colon + 1, White) = first
    BY FilesAreTexts
  <2>3. \A X : Rerank!Min(X) = Min(X)
    BY DEF Rerank!Min, Min
  <2> HIDE DEF found, first
  <2> QED BY ONLY <2>1, <2>2, <2>3 DEF Rerank!PolicyNumber, colon
<1>2. /\ pos \in Nat \ {0} /\ Len(t) \in Nat /\ V \in Nat /\ N \in 1..32 /\ N <= V
      /\ \A k \in 1..V : value[k] = IF k <= N THEN number[k] ELSE Space
      /\ \A k \in 1..V : pos + 4 + k <= Len(t) => t[pos + 4 + k] = value[k]
      /\ \/ pos + 5 + V <= Len(t) => t[pos + 5 + V] = "comma"
         \/ \A j \in pos+5+V..Len(t) : t[j] \in {"nl", "rbrace"}
  <2>1. Len(t) \in Nat
    OBVIOUS
  <2> QED BY <2>1 DEF StandsCut, Padded, Rerank!Window
<1>3. /\ pos + 3 <= Len(t) => t[pos + 3] = ":"
      /\ pos + 4 <= Len(t) => t[pos + 4] = Space
  BY CutPlaces
<1>4. /\ Space \in White /\ "nl" \in White /\ ":" \notin White
      /\ "comma" \notin NumberMarks /\ "rbrace" \notin NumberMarks
  <2>1. Rerank!Space = Space /\ Space # ":" /\ Space # "comma" /\ Space # "rbrace"
    BY Zenon DEF Rerank!Space, Space
  <2>2. DOMAIN Rerank!Digit = {"0", "1", "2", "3", "5", "8"}
    BY DEF Rerank!Digit
  <2> HIDE DEF White
  <2>3. White = {Space, "nl", "tab"}
    BY <2>1 DEF Rerank!White, White
  <2> QED BY <2>1, <2>2, <2>3 DEF NumberMarks, White
<1>5. \A k \in 1..N : number[k] \notin White
  BY <1>2
<1> HIDE DEF White, N, V, x, w
<1>6. found = IF pos + 2 <= Len(t) THEN pos ELSE 0
  BY KeyFound
<1> HIDE DEF found
<1>7. colon = IF pos + 3 <= Len(t) THEN pos + 3 ELSE 0
  <2> DEFINE q == Find(t, <<":">>, pos + 3)
  <2>1. pos + 3 \in Nat \ {0}
    BY <1>2
  <2>2. \/ q = 0 /\ \A j \in pos+3..Len(t) : t[j] # ":"
        \/ q \in pos+3..Len(t) /\ t[q] = ":" /\ \A j \in pos+3..q-1 : t[j] # ":"
    BY <2>1, SymbolFound
  <2>3. colon = IF pos + 2 <= Len(t) THEN q ELSE 0
    BY <1>2, <1>6
  <2> HIDE DEF q, colon
  <2>4. CASE pos + 3 <= Len(t)
    <3>1. pos + 3 \in pos+3..Len(t) /\ t[pos + 3] = ":"
      BY <1>2, <1>3, <2>4
    <3>2. q \in pos+3..Len(t) /\ pos + 3 \notin pos+3..q-1
      BY <2>2, <3>1
    <3>3. q = pos + 3
      BY <1>2, <3>2
    <3> QED BY <1>2, <2>3, <2>4, <3>3
  <2>5. CASE ~ (pos + 3 <= Len(t))
    <3>1. q = 0
      BY <1>2, <2>2, <2>5
    <3> QED BY <2>3, <2>5, <3>1
  <2> QED BY <2>4, <2>5
<1> HIDE DEF colon
<1>8. CASE colon = 0
  BY <1>1, <1>8 DEF NumberRead, x
<1>9. CASE colon # 0
  <2>1. colon = pos + 3 /\ pos + 3 <= Len(t) /\ x = Rerank!SimpleAtod(w)
    BY <1>1, <1>7, <1>9
  <2> DEFINE p == IF pos + 5 <= Len(t) THEN pos + 5 ELSE Len(t) + 1
  <2>2. first = p
    <3>1. pos + 4 \in 1..Len(t)+1 /\ p \in pos+4..Len(t)+1 /\ colon + 1 = pos + 4
      BY <1>2, <2>1
    <3>2. \A j \in pos+4..p-1 : t[j] \in White
      <4>1. \A j \in pos+4..p-1 : j = pos + 4 /\ pos + 4 <= Len(t)
        BY <1>2, <2>1
      <4> QED BY <1>3, <1>4, <4>1
    <3>3. p = Len(t) + 1 \/ t[p] \notin White
      <4>1. CASE pos + 5 <= Len(t)
        <5>1. 1 \in 1..V /\ 1 \in 1..N /\ pos + 4 + 1 = pos + 5 /\ p = pos + 5
          BY <1>2, <4>1
        <5>2. t[pos + 5] = number[1]
          BY <1>2, <4>1, <5>1
        <5> QED BY <1>5, <5>1, <5>2
      <4>2. CASE ~ (pos + 5 <= Len(t))
        BY <4>2
      <4> QED BY <4>1, <4>2
    <3> HIDE DEF p
    <3> QED BY <3>1, <3>2, <3>3, PastAllAt
  <2> DEFINE e == IF pos + 36 <= Len(t) THEN pos + 36 ELSE Len(t)
  <2>3. CASE pos + 5 <= Len(t)
    <3>1. first = pos + 5
      BY <2>2, <2>3
    <3>2. last = e
      <4>1. first + Rerank!Window - 1 = pos + 36
        BY <1>2, <3>1 DEF Rerank!Window
      <4>2. {pos + 36, Len(t)} \in SUBSET Nat /\ {pos + 36, Len(t)} # {}
        BY <1>2
      <4>3. Min({pos + 36, Len(t)}) \in {pos + 36, Len(t)}
            /\ \A j \in {pos + 36, Len(t)} : Min({pos + 36, Len(t)}) <= j
        BY <4>2, LeastIs
      <4> DEFINE l == Min({pos + 36, Len(t)})
      <4> HIDE DEF l
      <4>4. (l = pos + 36 \/ l = Len(t)) /\ l <= pos + 36 /\ l <= Len(t)
        BY <4>3 DEF l
      <4>5. l = e
        BY <1>2, <4>4
      <4> QED BY <4>1, <4>5 DEF l
    <3> HIDE DEF first, last
    <3>3. /\ e \in pos+5..Len(t) /\ pos + 5 \in 1..Len(t)
          /\ (e = Len(t) \/ e = pos + 36)
      BY <1>2, <2>3
    <3> DEFINE m == e - (pos + 4)
    <3>4. m \in Nat \ {0} /\ e - (pos + 5) + 1 = m /\ (m = Len(t) - (pos + 4) \/ m = 32)
      BY <1>2, <3>3
    <3> HIDE DEF e
    <3>5. /\ w \in Seq(S) /\ Len(w) = m
          /\ \A k \in 1..m : w[k] = t[pos + 4 + k] /\ pos + 4 + k <= Len(t)
      <4>1. w = SubSeq(t, pos + 5, e)
        BY <3>1, <3>2 DEF w
      <4>2. /\ w \in Seq(S) /\ Len(w) = e - (pos + 5) + 1
            /\ \A k \in 1..e-(pos+5)+1 : w[k] = t[pos + 5 + k - 1]
        BY <3>3, <4>1, PartIs
      <4>3. \A k \in 1..m : pos + 5 + k - 1 = pos + 4 + k /\ pos + 4 + k <= Len(t)
        BY <1>2, <3>3
      <4> HIDE DEF m
      <4> QED BY <3>4, <4>2, <4>3
    <3> HIDE DEF m
    <3>6. CASE \E k \in 1..m : w[k] \notin NumberMarks
      <4>1. Rerank!SimpleAtod(w) = Rerank!None
        BY <3>5, <3>6, OddIsNone
      <4> QED BY <2>1, <4>1 DEF NumberRead, x
    <3>7. CASE \A k \in 1..m : w[k] \in NumberMarks
      <4> DEFINE n == IF m <= N THEN m ELSE N
                 u == SubSeq(number, 1, n)
      <4>1. n \in 1..N /\ n \in 0..m /\ n \in 0..Len(number) /\ (n = N \/ n = Len(t) - (pos + 4))
        <5>1. N = Len(number) /\ N \in 1..32 /\ m \in Nat \ {0}
          BY <1>2, <3>4 DEF N
        <5>2. n \in 1..N /\ n \in 0..m /\ n \in 0..Len(number) /\ (n = N \/ n = m)
          <6>1. CASE m <= N
            BY ONLY <5>1, <6>1
          <6>2. CASE ~ (m <= N)
            BY ONLY <5>1, <6>2
          <6> QED BY <6>1, <6>2
        <5>3. m # 32 => m = Len(t) - (pos + 4)
          BY <3>4
        <5>4. m = 32 => n = N
          <6>1. CASE m <= N
            <7>1. n = m
              BY ONLY <6>1
            <7>2. m = 32 => N = 32
              <8>1. N \in Int /\ m \in Int /\ N <= 32
                BY <1>2, <3>4
              <8>2. m <= N
                BY ONLY <6>1
              <8> QED BY ONLY <8>1, <8>2
            <7> HIDE DEF n
            <7> QED BY ONLY <7>1, <7>2
          <6>2. CASE ~ (m <= N)
            BY ONLY <5>1, <6>2
          <6> QED BY <6>1, <6>2
        <5> HIDE DEF n
        <5> QED BY ONLY <5>2, <5>3, <5>4
      <4>2. \A k \in 1..m : k <= n => w[k] = number[k] /\ w[k] \notin White
        <5>1. \A k \in 1..m : k <= n => k \in 1..N /\ k \in 1..V
          <6>1. n <= N /\ N <= V /\ n \in Nat /\ N \in Nat /\ V \in Nat /\ m \in Nat
            BY <1>2, <3>4, <4>1
          <6> HIDE DEF n
          <6> QED BY ONLY <6>1
        <5> QED BY <1>2, <1>5, <3>5, <5>1
      <4>3. ASSUME NEW k \in 1..m, k > n
            PROVE  w[k] \in White
        <5>1. k > N
          BY <1>2, <3>4, <4>3
        <5>2. CASE k <= V
          <6>1. k \in 1..V
            BY <1>2, <5>2
          <6>2. w[k] = value[k]
            BY <1>2, <3>5, <6>1
          <6>3. value[k] = Space
            BY <1>2, <5>1, <6>1
          <6> QED BY <1>4, <6>2, <6>3
        <5>3. CASE k > V
          <6>1. V + 1 \in 1..m /\ pos + 4 + (V + 1) = pos + 5 + V
            BY <1>2, <3>4, <5>3
          <6>2. w[V + 1] = t[pos + 5 + V] /\ pos + 5 + V <= Len(t)
            BY <3>5, <6>1
          <6>3. t[pos + 5 + V] # "comma"
            BY <1>4, <3>7, <6>1, <6>2
          <6>4. pos + 4 + k \in pos+5+V..Len(t) /\ w[k] = t[pos + 4 + k]
            BY <1>2, <3>5, <5>3
          <6>5. w[k] \in {"nl", "rbrace"}
            BY <1>2, <6>2, <6>3, <6>4
          <6>6. w[k] # "rbrace"
            BY <1>4, <3>7
          <6> QED BY <1>4, <6>5, <6>6
        <5> QED BY <1>2, <5>2, <5>3
      <4> HIDE DEF n
      <4>4. \A j \in 1..Len(w) : w[j] \in White <=> j > n
        BY <3>4, <3>5, <4>1, <4>2, <4>3
      <4>5. Trim(w, White) = SubSeq(w, 1, n)
        BY <3>5, <4>1, <4>4, FrontTrimmed
      <4>6. SubSeq(w, 1, n) = u
        <5> DEFINE v == SubSeq(w, 1, n)
        <5>1. 1 \in 1..Len(w) /\ n \in 1..Len(w)
          BY <3>4, <3>5, <4>1
        <5>2. Len(v) = n - 1 + 1 /\ v \in Seq(S) /\ \A k \in 1..n-1+1 : v[k] = w[1 + k - 1]
          BY <3>5, <5>1, PartIs
        <5>3. 1 \in 1..Len(number) /\ n \in 1..Len(number)
          BY <1>2, <4>1 DEF N
        <5>4. Len(u) = n - 1 + 1 /\ u \in Seq(C) /\ \A k \in 1..n-1+1 : u[k] = number[1 + k - 1]
          BY <5>3, PartIs
        <5> HIDE DEF v, u
        <5>5. \A k \in 1..n : v[k] = u[k]
          <6>1. \A k \in 1..n : k \in 1..n-1+1 /\ 1 + k - 1 = k /\ k \in 1..m /\ k <= n
            <7>1. n \in Nat /\ m \in Nat /\ n <= m
              BY <3>4, <4>1
            <7> QED BY ONLY <7>1
          <6> QED BY <4>2, <5>2, <5>4, <6>1
        <5>6. Len(v) = n /\ Len(u) = n
          BY <4>1, <5>2, <5>4
        <5>7. v = u
          BY <5>2, <5>4, <5>5, <5>6
        <5> QED BY <5>7 DEF v
      <4>7. Trim(u, White) = u
        <5>1. 1 \in 1..Len(number) /\ n \in 1..Len(number)
          BY <1>2, <4>1 DEF N
        <5>2. Len(u) = n - 1 + 1 /\ u \in Seq(C) /\ \A k \in 1..n-1+1 : u[k] = number[1 + k - 1]
          BY <5>1, PartIs
        <5> HIDE DEF u
        <5>3. Len(u) = n /\ \A j \in 1..n : u[j] = number[j] /\ j \in 1..N
          <6>1. \A k \in 1..n : k \in 1..n-1+1 /\ 1 + k - 1 = k /\ k \in 1..N
            <7>1. n \in Nat /\ N \in Nat /\ n <= N
              BY <1>2, <4>1
            <7> QED BY ONLY <7>1
          <6> QED BY <4>1, <5>2, <6>1
        <5>4. \A j \in 1..Len(u) : u[j] \in White <=> j > n
          BY <1>5, <5>3
        <5>5. n \in 0..Len(u)
          BY <4>1, <5>3
        <5>6. Trim(u, White) = SubSeq(u, 1, n)
          BY <5>2, <5>4, <5>5, FrontTrimmed
        <5>7. SubSeq(u, 1, Len(u)) = u
          BY ONLY <5>2
        <5> QED BY <5>3, <5>6, <5>7
      <4>8. Rerank!SimpleAtod(w) = Rerank!SimpleAtod(u)
        <5> HIDE DEF u
        <5>1. Trim(w, Rerank!White) = Trim(u, Rerank!White)
          BY <4>5, <4>6, <4>7 DEF White
        <5> QED BY <5>1, SameNumber
      <4>9. x = Rerank!SimpleAtod(SubSeq(number, 1, n))
        BY <2>1, <4>8
      <4> HIDE DEF u
      <4> QED BY <4>1, <4>9 DEF NumberRead, x, N
    <3> QED BY <3>6, <3>7
  <2>4. CASE ~ (pos + 5 <= Len(t))
    <3>1. first = Len(t) + 1
      BY <2>2, <2>4
    <3>2. last = Len(t)
      <4>1. first + Rerank!Window - 1 = Len(t) + 32
        BY <1>2, <3>1 DEF Rerank!Window
      <4>2. {Len(t) + 32, Len(t)} \in SUBSET Nat /\ {Len(t) + 32, Len(t)} # {}
        BY <1>2
      <4>3. Min({Len(t) + 32, Len(t)}) \in {Len(t) + 32, Len(t)}
            /\ \A j \in {Len(t) + 32, Len(t)} : Min({Len(t) + 32, Len(t)}) <= j
        BY <4>2, LeastIs
      <4> DEFINE l == Min({Len(t) + 32, Len(t)})
      <4> HIDE DEF l
      <4>4. (l = Len(t) + 32 \/ l = Len(t)) /\ l <= Len(t)
        BY <4>3 DEF l
      <4>5. l = Len(t)
        BY <1>2, <4>4
      <4> QED BY <4>1, <4>5 DEF l
    <3>3. w = <<>>
      BY <1>2, <3>1, <3>2 DEF w
    <3>4. x = Rerank!None
      BY <2>1, <3>3, NothingIsNone
    <3> QED BY <3>4 DEF NumberRead, x
  <2> QED BY <2>3, <2>4
<1> QED BY <1>8, <1>9

(* What the digits of the policy come to.                                  *)
IsSum(g, n, d) ==
  g = [i \in 0..n |-> IF i = 0 THEN 0 ELSE 10 * g[i - 1] + Rerank!Digit[d[i]]]

(* A number is what its digits come to, from the front.                    *)
LEMMA NumberOf ==
  ASSUME NEW n \in Nat, NEW d, Len(d) = n, NEW f, IsSum(f, n, d)
  PROVE  \E g : Rerank!Number(d) = g[n] /\ IsSum(g, n, d)
<1> DEFINE Is(g) == g = [i \in 0..n |-> IF i = 0 THEN 0 ELSE 10 * g[i - 1] + Rerank!Digit[d[i]]]
           g == CHOOSE g : Is(g)
<1>1. Rerank!Number(d) = g[n]
  BY DEF Rerank!Number
<1>2. Is(g)
  BY DEF IsSum
<1> HIDE DEF g
<1> QED BY <1>1, <1>2 DEF IsSum

(* What the capacity of the policy comes to, whole and cut short.          *)
LEMMA CapacityNumbers == Rerank!Number(<<"2">>) = 2 /\ Rerank!Number(<<"2", "0">>) = 20
<1>1. Rerank!Digit["2"] = 2 /\ Rerank!Digit["0"] = 0
  BY DEF Rerank!Digit
<1>2. Rerank!Number(<<"2">>) = 2
  <2> DEFINE d == <<"2">>
             f == [i \in 0..1 |-> IF i = 0 THEN 0 ELSE 2]
  <2>1. d[1] = "2" /\ Len(d) = 1
    OBVIOUS
  <2> HIDE DEF d
  <2>2. IsSum(f, 1, d)
    <3>1. \A i \in 0..1 : i = 0 \/ i = 1
      OBVIOUS
    <3> QED BY <1>1, <2>1, <3>1 DEF IsSum
  <2> HIDE DEF f
  <2>3. PICK g : /\ Rerank!Number(d) = g[1]
                 /\ g = [i \in 0..1 |-> IF i = 0 THEN 0 ELSE 10 * g[i - 1] + Rerank!Digit[d[i]]]
    <3>1. 1 \in Nat
      OBVIOUS
    <3>2. \E g : Rerank!Number(d) = g[1] /\ IsSum(g, 1, d)
      BY <2>1, <2>2, <3>1, NumberOf
    <3> QED BY <3>2 DEF IsSum
  <2>4. g[0] = 0
    BY <2>3
  <2>5. g[1] = 10 * g[0] + Rerank!Digit[d[1]]
    BY <2>3
  <2>6. Rerank!Number(d) = 2
    BY <1>1, <2>1, <2>3, <2>4, <2>5
  <2> QED BY <2>6 DEF d
<1>3. Rerank!Number(<<"2", "0">>) = 20
  <2> DEFINE d == <<"2", "0">>
             f == [i \in 0..2 |-> IF i = 0 THEN 0 ELSE IF i = 1 THEN 2 ELSE 20]
  <2>1. d[1] = "2" /\ d[2] = "0" /\ Len(d) = 2
    OBVIOUS
  <2> HIDE DEF d
  <2>2. IsSum(f, 2, d)
    <3>1. \A i \in 0..2 : i = 0 \/ i = 1 \/ i = 2
      OBVIOUS
    <3> QED BY <1>1, <2>1, <3>1 DEF IsSum
  <2> HIDE DEF f
  <2>3. PICK g : /\ Rerank!Number(d) = g[2]
                 /\ g = [i \in 0..2 |-> IF i = 0 THEN 0 ELSE 10 * g[i - 1] + Rerank!Digit[d[i]]]
    <3>1. 2 \in Nat
      OBVIOUS
    <3>2. \E g : Rerank!Number(d) = g[2] /\ IsSum(g, 2, d)
      BY <2>1, <2>2, <3>1, NumberOf
    <3> QED BY <3>2 DEF IsSum
  <2>4. g[0] = 0
    BY <2>3
  <2>5. g[1] = 10 * g[0] + Rerank!Digit[d[1]]
    BY <2>3
  <2>6. g[2] = 10 * g[1] + Rerank!Digit[d[2]]
    BY <2>3
  <2>7. Rerank!Number(d) = 20
    BY <1>1, <2>1, <2>3, <2>4, <2>5, <2>6
  <2> QED BY <2>7 DEF d
<1> QED BY <1>2, <1>3

(* Digits alone are a whole number.                                        *)
LEMMA WholeIs ==
  ASSUME NEW d \in Seq(DOMAIN Rerank!Digit), d # <<>>
  PROVE  Rerank!SimpleAtod(d) = 10 * Rerank!Number(d) + 0
<1> DEFINE S == DOMAIN Rerank!Digit
           number == Rerank!Trim(d, Rerank!White)
           point == Rerank!FirstOf(number, 1, {"."})
           whole == SubSeq(number, 1, point - 1)
           part == Rerank!From(number, point + 1)
           both == whole \o part
<1>1. S \cap Rerank!White = {} /\ "." \notin S
  <2>1. S = {"0", "1", "2", "3", "5", "8"}
    BY DEF Rerank!Digit
  <2>2. Rerank!Space \notin {"0", "1", "2", "3", "5", "8"}
    BY Zenon DEF Rerank!Space
  <2>3. Rerank!White = {Rerank!Space, "nl", "tab"}
    BY DEF Rerank!White
  <2> HIDE DEF S
  <2> QED BY <2>1, <2>2, <2>3
<1> DEFINE n == Len(d)
<1>2. n \in Nat \ {0} /\ d \in Seq(S) /\ SubSeq(d, 1, n) = d /\ \A j \in 1..n : d[j] \in S
  OBVIOUS
<1> HIDE DEF S
<1>3. number = d
  <2>1. \A j \in 1..Len(d) : d[j] \in Rerank!White <=> j > n
    BY <1>1, <1>2
  <2>2. Trim(d, Rerank!White) = SubSeq(d, 1, n)
    BY <1>2, <2>1, FrontTrimmed
  <2> QED BY <1>2, <2>2, FilesAreTexts
<1>4. point = n + 1
  <2>1. point = FirstOf(d, 1, {"."})
    BY <1>3, FilesAreTexts
  <2> HIDE DEF point
  <2>2. 1 \in 1..n+1
    BY <1>2
  <2>3. point \in 1..n+1 /\ (point \in 1..n => d[point] \in {"."})
    BY <1>2, <2>1, <2>2, FirstOfIs
  <2>4. point \notin 1..n
    BY <1>1, <1>2, <2>3
  <2> QED BY <1>2, <2>3, <2>4
<1>5. whole = d
  <2>1. point - 1 = n
    BY <1>2, <1>4
  <2> QED BY ONLY <1>2, <1>3, <2>1
<1>6. part = <<>>
  <2>1. part = SubSeq(d, n + 2, n)
    BY <1>2, <1>3, <1>4 DEF Rerank!From
  <2> QED BY <1>2, <2>1
<1>7. both = d
  <2>1. both = whole \o part
    OBVIOUS
  <2> HIDE DEF both, whole, part
  <2>2. d \o <<>> = d
    BY ONLY <1>2
  <2> QED BY ONLY <1>5, <1>6, <2>1, <2>2
<1> HIDE DEF both
<1>8. both # <<>> /\ \A i \in DOMAIN both : both[i] \in S
  <2>1. d # <<>> /\ \A i \in DOMAIN d : d[i] \in S
    BY <1>2
  <2> QED BY ONLY <1>7, <2>1
<1>9. Rerank!SimpleAtod(d) =
        IF both # <<>> /\ \A i \in DOMAIN both : both[i] \in S
        THEN 10 * Rerank!Number(whole) + (IF part = <<>> THEN 0 ELSE Rerank!Digit[part[1]])
        ELSE Rerank!None
  BY DEF Rerank!SimpleAtod, S, both
<1> HIDE DEF whole, part
<1> QED BY ONLY <1>5, <1>6, <1>8, <1>9

(* What stands in a text from a place on.                                  *)
Lies(s, off, part) ==
  /\ off + Len(part) <= Len(s)
  /\ \A k \in 1..Len(part) : s[off + k] = part[k]

(* What is joined behind a text leaves its parts where they lie.           *)
LEMMA LiesJoined ==
  ASSUME NEW X, NEW a \in Seq(X), NEW b \in Seq(X), NEW c, IsJoint(c, a, b)
  PROVE  /\ c \in Seq(X) /\ Len(c) = Len(a) + Len(b)
         /\ Lies(c, Len(a), b)
         /\ \A off \in Nat : \A part \in Seq(X) : Lies(a, off, part) => Lies(c, off, part)
<1>1. c \in Seq(X)
  BY JoinedIs
<1>2. Len(c) = Len(a) + Len(b) /\ Len(a) \in Nat /\ Len(b) \in Nat
  BY JoinedIs
<1>3. \A k \in 1..Len(a) : c[k] = a[k]
  BY JoinedIs
<1>4. \A k \in 1..Len(b) : c[k + Len(a)] = b[k]
  BY JoinedIs
<1>5. Lies(c, Len(a), b)
  <2>1. \A k \in 1..Len(b) : k + Len(a) = Len(a) + k
    BY <1>2
  <2> QED BY <1>2, <1>4, <2>1 DEF Lies
<1>6. ASSUME NEW off \in Nat, NEW part \in Seq(X), Lies(a, off, part)
      PROVE  Lies(c, off, part)
  <2>1. Len(part) \in Nat /\ off + Len(part) <= Len(a) /\ \A k \in 1..Len(part) : a[off + k] = part[k]
    BY <1>6 DEF Lies
  <2>2. \A k \in 1..Len(part) : off + k \in 1..Len(a)
    BY <1>2, <2>1
  <2> QED BY <1>2, <1>3, <2>1, <2>2 DEF Lies
<1> QED BY <1>1, <1>2, <1>5, <1>6

(* The parts of the policy.                                                *)
PolicyOpening == <<"lbrace", "quote", "tau", "quote", ":", Space>>
PolicyTau == <<"1", ".", "5">>
PolicyMiddle == <<"comma", "nl", "quote", "cand_cap", "quote", ":", Space>>
PolicyCapacity == <<"2", "0">>
PolicyEnding == <<"nl", "rbrace", "nl">>
PolicySymbols == {"lbrace", "quote", "tau", ":", Space, "1", ".", "5", "comma", "nl",
                  "cand_cap", "2", "0", "rbrace"}

PolicyParts(s, pad) ==
  LET p == Len(pad)
  IN /\ s \in Seq(PolicySymbols) /\ Len(s) = 21 + 2 * p
     /\ Lies(s, 0, PolicyOpening) /\ Lies(s, 6, PolicyTau) /\ Lies(s, 9, pad)
     /\ Lies(s, 9 + p, PolicyMiddle) /\ Lies(s, 16 + p, PolicyCapacity) /\ Lies(s, 18 + p, pad)
     /\ Lies(s, 18 + 2 * p, PolicyEnding)

(* The parts of a policy file lie one behind the other.                    *)
LEMMA PolicyIs ==
  ASSUME NEW pad \in Seq({Space})
  PROVE  PolicyParts(Policy(pad), pad)
<1> DEFINE X == PolicySymbols
           p == Len(pad)
           a2 == PolicyOpening \o PolicyTau
           a3 == a2 \o pad
           a4 == a3 \o PolicyMiddle
           a5 == a4 \o PolicyCapacity
           a6 == a5 \o pad
           a7 == a6 \o PolicyEnding
<1>1. Policy(pad) = a7
  <2>1. PolicyValues.tau = PolicyTau /\ PolicyValues.cand_cap = PolicyCapacity
    BY DEF PolicyValues, PolicyTau, PolicyCapacity
  <2> QED BY <2>1 DEF Policy, PolicyOpening, PolicyMiddle, PolicyEnding
<1>2. /\ PolicyOpening \in Seq(X) /\ Len(PolicyOpening) = 6 /\ PolicyTau \in Seq(X) /\ Len(PolicyTau) = 3
      /\ PolicyMiddle \in Seq(X) /\ Len(PolicyMiddle) = 7 /\ PolicyCapacity \in Seq(X) /\ Len(PolicyCapacity) = 2
      /\ PolicyEnding \in Seq(X) /\ Len(PolicyEnding) = 3
  <2> DEFINE sp == Space
  <2>1. /\ "lbrace" \in X /\ "quote" \in X /\ "tau" \in X /\ ":" \in X /\ sp \in X
        /\ "1" \in X /\ "." \in X /\ "5" \in X /\ "comma" \in X /\ "nl" \in X
        /\ "cand_cap" \in X /\ "2" \in X /\ "0" \in X /\ "rbrace" \in X
    BY DEF PolicySymbols
  <2> HIDE DEF X, sp
  <2>2. <<"lbrace", "quote", "tau", "quote", ":", sp>> \in Seq(X)
    BY ONLY <2>1
  <2>3. <<"1", ".", "5">> \in Seq(X) /\ <<"2", "0">> \in Seq(X) /\ <<"nl", "rbrace", "nl">> \in Seq(X)
    BY ONLY <2>1
  <2>4. <<"comma", "nl", "quote", "cand_cap", "quote", ":", sp>> \in Seq(X)
    BY ONLY <2>1
  <2>5. Len(PolicyOpening) = 6 /\ Len(PolicyTau) = 3 /\ Len(PolicyMiddle) = 7 /\ Len(PolicyCapacity) = 2 /\ Len(PolicyEnding) = 3
    BY DEF PolicyOpening, PolicyTau, PolicyMiddle, PolicyCapacity, PolicyEnding
  <2> QED BY <2>2, <2>3, <2>4, <2>5 DEF PolicyOpening, PolicyTau, PolicyMiddle, PolicyCapacity, PolicyEnding, sp
<1>3. pad \in Seq(X) /\ p \in Nat
  <2>1. {Space} \in SUBSET X
    BY DEF PolicySymbols
  <2> HIDE DEF X
  <2> QED BY <2>1
<1>4. /\ IsJoint(a2, PolicyOpening, PolicyTau) /\ IsJoint(a3, a2, pad) /\ IsJoint(a4, a3, PolicyMiddle)
      /\ IsJoint(a5, a4, PolicyCapacity) /\ IsJoint(a6, a5, pad) /\ IsJoint(a7, a6, PolicyEnding)
  BY DEF IsJoint
<1> DEFINE Fits(c, n) == c \in Seq(X) /\ Len(c) = n
           Kept(a, c) == \A off \in Nat : \A part \in Seq(X) : Lies(a, off, part) => Lies(c, off, part)
<1>5. ASSUME NEW a, NEW n \in Nat, Fits(a, n), NEW b \in Seq(X), NEW c, IsJoint(c, a, b)
      PROVE  Fits(c, n + Len(b)) /\ Lies(c, n, b) /\ Kept(a, c)
  <2> HIDE DEF X
  <2>1. a \in Seq(X) /\ Len(a) = n
    BY <1>5
  <2>2. c \in Seq(X)
    BY ONLY <1>5, <2>1, b \in Seq(X), LiesJoined
  <2>3. Len(c) = n + Len(b)
    BY ONLY <1>5, <2>1, b \in Seq(X), LiesJoined
  <2>4. Lies(c, n, b)
    BY ONLY <1>5, <2>1, b \in Seq(X), LiesJoined
  <2>5. Kept(a, c)
    BY ONLY <1>5, <2>1, b \in Seq(X), LiesJoined
  <2> QED BY <2>2, <2>3, <2>4, <2>5
<1> HIDE DEF X, a2, a3, a4, a5, a6, a7
<1>6. Fits(PolicyOpening, 6) /\ Lies(PolicyOpening, 0, PolicyOpening)
  BY <1>2 DEF Lies
<1> HIDE DEF Fits
<1>7. Fits(a2, 9) /\ Lies(a2, 6, PolicyTau) /\ Kept(PolicyOpening, a2)
  <2>1. Fits(a2, 6 + Len(PolicyTau)) /\ Lies(a2, 6, PolicyTau) /\ Kept(PolicyOpening, a2)
    <3> HIDE DEF Kept
    <3> QED BY <1>2, <1>4, <1>5, <1>6
  <2> QED BY <1>2, <2>1
<1>8. Fits(a3, 9 + p) /\ Lies(a3, 9, pad) /\ Kept(a2, a3)
  <2> HIDE DEF Kept
  <2> QED BY <1>3, <1>4, <1>5, <1>7
<1>9. Fits(a4, 16 + p) /\ Lies(a4, 9 + p, PolicyMiddle) /\ Kept(a3, a4)
  <2> HIDE DEF Kept
  <2>1. Fits(a4, 9 + p + Len(PolicyMiddle)) /\ Lies(a4, 9 + p, PolicyMiddle) /\ Kept(a3, a4)
    <3>1. 9 + p \in Nat
      BY <1>3
    <3> QED BY <1>2, <1>4, <1>5, <1>8, <3>1
  <2>2. 9 + p + Len(PolicyMiddle) = 16 + p
    BY <1>2, <1>3
  <2> QED BY <2>1, <2>2
<1>10. Fits(a5, 18 + p) /\ Lies(a5, 16 + p, PolicyCapacity) /\ Kept(a4, a5)
  <2> HIDE DEF Kept
  <2>1. Fits(a5, 16 + p + Len(PolicyCapacity)) /\ Lies(a5, 16 + p, PolicyCapacity) /\ Kept(a4, a5)
    <3>1. 16 + p \in Nat
      BY <1>3
    <3> QED BY <1>2, <1>4, <1>5, <1>9, <3>1
  <2>2. 16 + p + Len(PolicyCapacity) = 18 + p
    BY <1>2, <1>3
  <2> QED BY <2>1, <2>2
<1>11. Fits(a6, 18 + 2 * p) /\ Lies(a6, 18 + p, pad) /\ Kept(a5, a6)
  <2> HIDE DEF Kept
  <2>1. Fits(a6, 18 + p + Len(pad)) /\ Lies(a6, 18 + p, pad) /\ Kept(a5, a6)
    <3>1. 18 + p \in Nat
      BY <1>3
    <3> QED BY <1>3, <1>4, <1>5, <1>10, <3>1
  <2>2. 18 + p + Len(pad) = 18 + 2 * p
    BY <1>3
  <2> QED BY <2>1, <2>2
<1>12. Fits(a7, 21 + 2 * p) /\ Lies(a7, 18 + 2 * p, PolicyEnding) /\ Kept(a6, a7)
  <2> HIDE DEF Kept
  <2>1. Fits(a7, 18 + 2 * p + Len(PolicyEnding)) /\ Lies(a7, 18 + 2 * p, PolicyEnding) /\ Kept(a6, a7)
    <3>1. 18 + 2 * p \in Nat
      BY <1>3
    <3> QED BY <1>2, <1>4, <1>5, <1>11, <3>1
  <2>2. 18 + 2 * p + Len(PolicyEnding) = 21 + 2 * p
    BY <1>2, <1>3
  <2> QED BY <2>1, <2>2
<1>13. 0 \in Nat /\ 6 \in Nat /\ 9 \in Nat /\ 9 + p \in Nat /\ 16 + p \in Nat /\ 18 + p \in Nat
  BY <1>3
<1>14. Lies(a7, 0, PolicyOpening) /\ Lies(a7, 6, PolicyTau) /\ Lies(a7, 9, pad)
  BY <1>2, <1>3, <1>6, <1>7, <1>8, <1>9, <1>10, <1>11, <1>12, <1>13
<1>15. Lies(a7, 9 + p, PolicyMiddle) /\ Lies(a7, 16 + p, PolicyCapacity) /\ Lies(a7, 18 + p, pad)
  BY <1>2, <1>3, <1>9, <1>10, <1>11, <1>12, <1>13
<1> QED BY <1>1, <1>12, <1>14, <1>15 DEF PolicyParts, Fits, X

(* The places of the parts.                                                *)
PolicyAt(s, p) ==
  /\ s[1] = "lbrace" /\ s[2] = "quote" /\ s[3] = "tau" /\ s[4] = "quote" /\ s[5] = ":"
  /\ s[6] = Space /\ s[7] = "1" /\ s[8] = "." /\ s[9] = "5"
  /\ \A j \in 10..9+p : s[j] = Space
  /\ s[10 + p] = "comma" /\ s[11 + p] = "nl" /\ s[12 + p] = "quote"
  /\ s[13 + p] = "cand_cap" /\ s[14 + p] = "quote" /\ s[15 + p] = ":"
  /\ s[16 + p] = Space /\ s[17 + p] = "2" /\ s[18 + p] = "0"
  /\ \A j \in 19+p..18+2*p : s[j] = Space
  /\ \A j \in 19+2*p..21+2*p : s[j] \in {"nl", "rbrace"}

(* So every place of it is known.                                          *)
LEMMA PolicyPlaces ==
  ASSUME NEW pad \in Seq({Space}), NEW s, PolicyParts(s, pad)
  PROVE  PolicyAt(s, Len(pad))
<1> DEFINE p == Len(pad)
<1>1. p \in Nat /\ \A k \in 1..p : pad[k] = Space
  OBVIOUS
<1> HIDE DEF p
<1>2. /\ Lies(s, 0, PolicyOpening) /\ Lies(s, 6, PolicyTau) /\ Lies(s, 9, pad)
      /\ Lies(s, 9 + p, PolicyMiddle) /\ Lies(s, 16 + p, PolicyCapacity) /\ Lies(s, 18 + p, pad)
      /\ Lies(s, 18 + 2 * p, PolicyEnding)
  BY DEF PolicyParts, p
<1>3. /\ s[1] = "lbrace" /\ s[2] = "quote" /\ s[3] = "tau" /\ s[4] = "quote" /\ s[5] = ":"
      /\ s[6] = Space
  <2> DEFINE u == PolicyOpening
  <2>1. /\ Len(u) = 6 /\ u[1] = "lbrace" /\ u[2] = "quote" /\ u[3] = "tau" /\ u[4] = "quote"
        /\ u[5] = ":" /\ u[6] = Space
    BY DEF PolicyOpening
  <2>2. \A k \in 1..6 : s[0 + k] = u[k]
    BY <1>2, <2>1 DEF Lies
  <2>3. 0 + 1 = 1 /\ 0 + 2 = 2 /\ 0 + 3 = 3 /\ 0 + 4 = 4 /\ 0 + 5 = 5 /\ 0 + 6 = 6
        /\ \A k \in {1, 2, 3, 4, 5, 6} : k \in 1..6
    OBVIOUS
  <2> HIDE DEF u
  <2> QED BY ONLY <2>1, <2>2, <2>3
<1>4. s[7] = "1" /\ s[8] = "." /\ s[9] = "5"
  <2> DEFINE u == PolicyTau
  <2>1. Len(u) = 3 /\ u[1] = "1" /\ u[2] = "." /\ u[3] = "5"
    BY DEF PolicyTau
  <2>2. \A k \in 1..3 : s[6 + k] = u[k]
    BY <1>2, <2>1 DEF Lies
  <2>3. 6 + 1 = 7 /\ 6 + 2 = 8 /\ 6 + 3 = 9 /\ \A k \in {1, 2, 3} : k \in 1..3
    OBVIOUS
  <2> HIDE DEF u
  <2> QED BY ONLY <2>1, <2>2, <2>3
<1>5. \A j \in 10..9+p : s[j] = Space
  <2>1. \A k \in 1..p : s[9 + k] = Space
    BY <1>1, <1>2 DEF Lies, p
  <2>2. \A j \in 10..9+p : j - 9 \in 1..p /\ 9 + (j - 9) = j
    BY <1>1
  <2> QED BY <2>1, <2>2
<1>6. /\ s[10 + p] = "comma" /\ s[11 + p] = "nl" /\ s[12 + p] = "quote"
      /\ s[13 + p] = "cand_cap" /\ s[14 + p] = "quote" /\ s[15 + p] = ":" /\ s[16 + p] = Space
  <2> DEFINE u == PolicyMiddle
  <2>1. /\ Len(u) = 7 /\ u[1] = "comma" /\ u[2] = "nl" /\ u[3] = "quote" /\ u[4] = "cand_cap"
        /\ u[5] = "quote" /\ u[6] = ":" /\ u[7] = Space
    BY DEF PolicyMiddle
  <2>2. \A k \in 1..7 : s[9 + p + k] = u[k]
    BY <1>2, <2>1 DEF Lies
  <2>3. /\ 9 + p + 1 = 10 + p /\ 9 + p + 2 = 11 + p /\ 9 + p + 3 = 12 + p /\ 9 + p + 4 = 13 + p
        /\ 9 + p + 5 = 14 + p /\ 9 + p + 6 = 15 + p /\ 9 + p + 7 = 16 + p
        /\ \A k \in {1, 2, 3, 4, 5, 6, 7} : k \in 1..7
    BY <1>1
  <2> HIDE DEF u
  <2> QED BY ONLY <2>1, <2>2, <2>3
<1>7. s[17 + p] = "2" /\ s[18 + p] = "0"
  <2> DEFINE u == PolicyCapacity
  <2>1. Len(u) = 2 /\ u[1] = "2" /\ u[2] = "0"
    BY DEF PolicyCapacity
  <2>2. \A k \in 1..2 : s[16 + p + k] = u[k]
    BY <1>2, <2>1 DEF Lies
  <2>3. 16 + p + 1 = 17 + p /\ 16 + p + 2 = 18 + p /\ \A k \in {1, 2} : k \in 1..2
    BY <1>1
  <2> HIDE DEF u
  <2> QED BY ONLY <2>1, <2>2, <2>3
<1>8. \A j \in 19+p..18+2*p : s[j] = Space
  <2>1. \A k \in 1..p : s[18 + p + k] = Space
    BY <1>1, <1>2 DEF Lies, p
  <2>2. \A j \in 19+p..18+2*p : j - (18 + p) \in 1..p /\ 18 + p + (j - (18 + p)) = j
    BY <1>1
  <2> QED BY <2>1, <2>2
<1>9. \A j \in 19+2*p..21+2*p : s[j] \in {"nl", "rbrace"}
  <2> DEFINE u == PolicyEnding
  <2>1. Len(u) = 3 /\ u[1] = "nl" /\ u[2] = "rbrace" /\ u[3] = "nl"
    BY DEF PolicyEnding
  <2>2. \A k \in 1..3 : s[18 + 2 * p + k] = u[k]
    BY <1>2, <2>1 DEF Lies
  <2> HIDE DEF u
  <2>3. ASSUME NEW j \in 19+2*p..21+2*p
        PROVE  s[j] \in {"nl", "rbrace"}
    <3> DEFINE k == j - (18 + 2 * p)
    <3>1. k \in 1..3 /\ 18 + 2 * p + k = j /\ (k = 1 \/ k = 2 \/ k = 3)
      BY <1>1
    <3> HIDE DEF k
    <3> QED BY <2>1, <2>2, <3>1
  <2> QED BY <2>3
<1> QED BY <1>3, <1>4, <1>5, <1>6, <1>7, <1>8, <1>9 DEF PolicyAt, p

(* A key of the policy stands once.                                        *)
LEMMA PolicyKeys ==
  ASSUME NEW pad \in Seq({Space}), NEW s, PolicyParts(s, pad), NEW j \in 1..Len(s)
  PROVE  LET p == Len(pad) IN
         /\ s[j] = "tau" => j = 3
         /\ s[j] = "cand_cap" => j = 13 + p
         /\ s[j] # "timeout_ms"
<1> DEFINE p == Len(pad)
<1>1. p \in Nat /\ Len(s) = 21 + 2 * p
  BY DEF PolicyParts
<1>2. /\ s[1] = "lbrace" /\ s[2] = "quote" /\ s[3] = "tau" /\ s[4] = "quote" /\ s[5] = ":"
      /\ s[6] = Space /\ s[7] = "1" /\ s[8] = "." /\ s[9] = "5"
      /\ \A k \in 10..9+p : s[k] = Space
      /\ s[10 + p] = "comma" /\ s[11 + p] = "nl" /\ s[12 + p] = "quote"
      /\ s[13 + p] = "cand_cap" /\ s[14 + p] = "quote" /\ s[15 + p] = ":"
      /\ s[16 + p] = Space /\ s[17 + p] = "2" /\ s[18 + p] = "0"
      /\ \A k \in 19+p..18+2*p : s[k] = Space
      /\ \A k \in 19+2*p..21+2*p : s[k] \in {"nl", "rbrace"}
  BY PolicyPlaces DEF PolicyAt
<1>3. Space \notin {"tau", "cand_cap", "timeout_ms"}
  BY Zenon DEF Space
<1> DEFINE NoKey(c) == c \notin {"tau", "cand_cap", "timeout_ms"}
<1> HIDE DEF p
<1>4. \/ j \in {1, 2, 3, 4, 5, 6, 7, 8, 9} \/ j \in 10..9+p
      \/ j = 10 + p \/ j = 11 + p \/ j = 12 + p \/ j = 13 + p \/ j = 14 + p \/ j = 15 + p
      \/ j = 16 + p \/ j = 17 + p \/ j = 18 + p
      \/ j \in 19+p..18+2*p \/ j \in 19+2*p..21+2*p
  BY <1>1
<1>5. CASE j = 3
  BY <1>2, <1>5
<1>6. CASE j = 13 + p
  BY <1>2, <1>6 DEF p
<1>7. CASE j # 3 /\ j # 13 + p
  <2>1. NoKey(s[j])
    <3>1. CASE j \in {1, 2, 4, 5, 6, 7, 8, 9}
      BY <1>2, <1>3, <3>1
    <3>2. CASE j \in 10..9+p \/ j \in 19+p..18+2*p
      BY <1>2, <1>3, <3>2
    <3>3. CASE j \in 19+2*p..21+2*p
      BY <1>2, <3>3
    <3>4. CASE \/ j = 10 + p \/ j = 11 + p \/ j = 12 + p \/ j = 14 + p \/ j = 15 + p
               \/ j = 16 + p \/ j = 17 + p \/ j = 18 + p
      BY <1>2, <1>3, <3>4
    <3> HIDE DEF NoKey
    <3>5. j \in {1, 2, 3, 4, 5, 6, 7, 8, 9} => j \in {1, 2, 4, 5, 6, 7, 8, 9}
      BY <1>7
    <3> QED BY ONLY <1>4, <1>7, <3>1, <3>2, <3>3, <3>4, <3>5
  <2> QED BY <2>1
<1> QED BY <1>5, <1>6, <1>7

(* A number and its spaces.                                                *)
LEMMA PaddedIs ==
  ASSUME NEW X, NEW number \in Seq(X), NEW pad \in Seq({Space})
  PROVE  /\ Padded(number \o pad, number) /\ Len(number \o pad) = Len(number) + Len(pad)
<1> DEFINE Y == X \cup {Space}
           value == number \o pad
<1>1. number \in Seq(Y) /\ pad \in Seq(Y) /\ Len(number) \in Nat /\ Len(pad) \in Nat
      /\ \A k \in 1..Len(pad) : pad[k] = Space
  <2>1. X \in SUBSET Y /\ {Space} \in SUBSET Y
    OBVIOUS
  <2> HIDE DEF Y
  <2> QED BY <2>1
<1>2. IsJoint(value, number, pad)
  BY DEF IsJoint
<1> HIDE DEF value, Y
<1>3. Len(value) = Len(number) + Len(pad)
  BY ONLY <1>1, <1>2, JoinedIs
<1>4. \A k \in 1..Len(number) : value[k] = number[k]
  BY ONLY <1>1, <1>2, JoinedIs
<1>5. \A k \in 1..Len(pad) : value[k + Len(number)] = pad[k]
  BY ONLY <1>1, <1>2, JoinedIs
<1>6. ASSUME NEW k \in 1..Len(value)
      PROVE  value[k] = IF k <= Len(number) THEN number[k] ELSE Space
  <2>1. CASE k <= Len(number)
    BY <1>1, <1>3, <1>4, <2>1
  <2>2. CASE k > Len(number)
    <3>1. k - Len(number) \in 1..Len(pad) /\ (k - Len(number)) + Len(number) = k
      BY <1>1, <1>3, <2>2
    <3>2. value[k] = pad[k - Len(number)]
      <4> DEFINE j == k - Len(number)
      <4>1. value[j + Len(number)] = pad[j]
        BY <1>5, <3>1
      <4> QED BY ONLY <3>1, <4>1
    <3> QED BY <1>1, <2>2, <3>1, <3>2
  <2> QED BY <1>1, <2>1, <2>2
<1> QED BY <1>1, <1>3, <1>6 DEF Padded, value

(* Both keys stand in every first part of the policy.                      *)
LEMMA PolicyCut ==
  ASSUME NEW pad \in Seq({Space}), NEW s, PolicyParts(s, pad), NEW m \in 0..Len(s)
  PROVE  LET p == Len(pad)
             t == SubSeq(s, 1, m)
         IN /\ t \in Seq(PolicySymbols) /\ Len(t) = m
            /\ \A j \in 1..m : t[j] = s[j] /\ t[j] # "timeout_ms"
            /\ StandsCut(t, 2, "tau", PolicyTau \o pad)
            /\ StandsCut(t, 12 + p, "cand_cap", PolicyCapacity \o pad)
<1> DEFINE p == Len(pad)
           t == SubSeq(s, 1, m)
           n == Len(s)
<1>1. p \in Nat /\ n = 21 + 2 * p /\ s \in Seq(PolicySymbols) /\ m \in 0..n
      /\ \A k \in 1..p : pad[k] = Space
  BY DEF PolicyParts
<1>2. /\ s[2] = "quote" /\ s[3] = "tau" /\ s[4] = "quote" /\ s[5] = ":"
      /\ s[6] = Space /\ s[7] = "1" /\ s[8] = "." /\ s[9] = "5"
      /\ \A j \in 10..9+p : s[j] = Space
      /\ s[10 + p] = "comma" /\ s[12 + p] = "quote"
      /\ s[13 + p] = "cand_cap" /\ s[14 + p] = "quote" /\ s[15 + p] = ":"
      /\ s[16 + p] = Space /\ s[17 + p] = "2" /\ s[18 + p] = "0"
      /\ \A j \in 19+p..18+2*p : s[j] = Space
      /\ \A j \in 19+2*p..21+2*p : s[j] \in {"nl", "rbrace"}
  <2>1. PolicyAt(s, p)
    BY PolicyPlaces
  <2> HIDE DEF p
  <2> QED BY <2>1 DEF PolicyAt
<1>3. \A j \in 1..n : /\ s[j] = "tau" => j = 3
                      /\ s[j] = "cand_cap" => j = 13 + p
                      /\ s[j] # "timeout_ms"
  BY PolicyKeys
<1>4. t \in Seq(PolicySymbols) /\ Len(t) = m /\ \A j \in 1..m : t[j] = s[j] /\ j \in 1..n
  <2>1. CASE m = 0
    <3>1. t = <<>>
      BY <2>1
    <3> HIDE DEF t
    <3> QED BY <2>1, <3>1
  <2>2. CASE m # 0
    <3>1. 1 \in 1..n /\ m \in 1..n
      BY <1>1, <2>2
    <3>2. t \in Seq(PolicySymbols) /\ Len(t) = m - 1 + 1 /\ \A k \in 1..m-1+1 : t[k] = s[1 + k - 1]
      BY <1>1, <3>1, PartIs
    <3> HIDE DEF t
    <3>3. m - 1 + 1 = m /\ \A k \in 1..m : 1 + k - 1 = k /\ k \in 1..n
      BY <1>1
    <3> QED BY <3>2, <3>3
  <2> QED BY <2>1, <2>2
<1> HIDE DEF p, n, t
<1> DEFINE Standing(pos, key, value) ==
             /\ pos \in Nat \ {0} /\ Len(value) \in Nat /\ pos + 5 + Len(value) <= n
             /\ \A j \in 1..n : s[j] = key => j = pos + 1
             /\ s[pos] = "quote" /\ s[pos + 1] = key /\ s[pos + 2] = "quote"
             /\ s[pos + 3] = ":" /\ s[pos + 4] = Space
             /\ \A k \in 1..Len(value) : s[pos + 4 + k] = value[k]
             /\ \/ s[pos + 5 + Len(value)] = "comma"
                \/ \A j \in pos+5+Len(value)..n : s[j] \in {"nl", "rbrace"}
<1>5. ASSUME NEW pos \in Nat \ {0}, NEW key, NEW value, Standing(pos, key, value)
      PROVE  StandsCut(t, pos, key, value)
  <2> DEFINE u == <<"quote", key, "quote", ":", Space>>
             v == Len(value)
  <2>1. u[1] = "quote" /\ u[2] = key /\ u[3] = "quote" /\ u[4] = ":" /\ u[5] = Space
    OBVIOUS
  <2> HIDE DEF u, v
  <2>2. \A j \in 1..Len(t) : t[j] = key => j = pos + 1
    BY <1>4, <1>5
  <2>3. \A k \in 1..5 : pos - 1 + k <= Len(t) => t[pos - 1 + k] = u[k]
    <3>1. \A k \in 1..5 : s[pos - 1 + k] = u[k]
      <4>1. /\ pos - 1 + 1 = pos /\ pos - 1 + 2 = pos + 1 /\ pos - 1 + 3 = pos + 2
            /\ pos - 1 + 4 = pos + 3 /\ pos - 1 + 5 = pos + 4
            /\ \A k \in 1..5 : k = 1 \/ k = 2 \/ k = 3 \/ k = 4 \/ k = 5
        OBVIOUS
      <4>2. /\ s[pos] = "quote" /\ s[pos + 1] = key /\ s[pos + 2] = "quote"
            /\ s[pos + 3] = ":" /\ s[pos + 4] = Space
        BY <1>5
      <4> QED BY ONLY <2>1, <4>1, <4>2
    <3>2. \A k \in 1..5 : pos - 1 + k <= m => pos - 1 + k \in 1..m
      BY <1>1
    <3> QED BY <1>4, <3>1, <3>2
  <2>4. v \in Nat /\ pos + 5 + v <= n /\ \A k \in 1..v : s[pos + 4 + k] = value[k]
    BY <1>5 DEF v
  <2>5. \A k \in 1..v : pos + 4 + k <= Len(t) => t[pos + 4 + k] = value[k]
    <3>1. \A k \in 1..v : pos + 4 + k <= m => pos + 4 + k \in 1..m
      BY <1>1, <2>4
    <3> QED BY <1>4, <2>4, <3>1
  <2>6. \/ pos + 5 + v <= Len(t) => t[pos + 5 + v] = "comma"
        \/ \A j \in pos+5+v..Len(t) : t[j] \in {"nl", "rbrace"}
    <3>1. \/ s[pos + 5 + v] = "comma"
          \/ \A j \in pos+5+v..n : s[j] \in {"nl", "rbrace"}
      BY <1>5 DEF v
    <3>2. CASE s[pos + 5 + v] = "comma"
      <4>1. pos + 5 + v <= m => pos + 5 + v \in 1..m
        BY <1>1, <2>4
      <4> QED BY <1>4, <3>2, <4>1
    <3>3. CASE \A j \in pos+5+v..n : s[j] \in {"nl", "rbrace"}
      <4>1. \A j \in pos+5+v..Len(t) : j \in 1..m /\ j \in pos+5+v..n
        <5>1. n \in Nat /\ m \in Nat /\ m <= n /\ Len(t) = m
          BY <1>1, <1>4
        <5> QED BY ONLY <2>4, <5>1, pos \in Nat \ {0}
      <4>2. \A j \in pos+5+v..Len(t) : t[j] \in {"nl", "rbrace"}
        BY ONLY <1>4, <3>3, <4>1
      <4> QED BY <4>2
    <3> QED BY <3>1, <3>2, <3>3
  <2> QED BY <2>2, <2>3, <2>4, <2>5, <2>6 DEF StandsCut, u, v
<1>6. StandsCut(t, 2, "tau", PolicyTau \o pad)
  <2> DEFINE value == PolicyTau \o pad
  <2>1. /\ Len(PolicyTau) = 3 /\ PolicyTau[1] = "1" /\ PolicyTau[2] = "." /\ PolicyTau[3] = "5"
        /\ PolicyTau \in Seq({"1", ".", "5"})
    BY DEF PolicyTau
  <2>2. Padded(value, PolicyTau) /\ Len(value) = 3 + p
    BY <2>1, PaddedIs DEF p
  <2> HIDE DEF value
  <2>3. ASSUME NEW k \in 1..3+p
        PROVE  s[6 + k] = value[k]
    <3>1. value[k] = IF k <= 3 THEN PolicyTau[k] ELSE Space
      BY <2>1, <2>2 DEF Padded
    <3>2. CASE k <= 3
      <4>1. (k = 1 /\ 6 + k = 7) \/ (k = 2 /\ 6 + k = 8) \/ (k = 3 /\ 6 + k = 9)
        BY <1>1, <3>2
      <4> QED BY <1>2, <2>1, <3>1, <3>2, <4>1
    <3>3. CASE k > 3
      <4>1. 6 + k \in 10..9+p
        BY <1>1, <3>3
      <4>2. s[6 + k] = Space
        BY ONLY <1>2, <4>1
      <4>3. value[k] = Space
        BY <1>1, <3>1, <3>3
      <4> QED BY ONLY <4>2, <4>3
    <3> QED BY <1>1, <3>2, <3>3
  <2>4. /\ 2 \in Nat \ {0} /\ 2 + 1 = 3 /\ 2 + 2 = 4 /\ 2 + 3 = 5 /\ 2 + 4 = 6
        /\ 2 + 5 + (3 + p) = 10 + p /\ 10 + p <= n /\ 3 + p \in Nat
    BY <1>1
  <2>5. Standing(2, "tau", value)
    BY <1>2, <1>3, <2>2, <2>3, <2>4
  <2> HIDE DEF Standing
  <2>6. StandsCut(t, 2, "tau", value)
    BY <1>5, <2>4, <2>5
  <2> QED BY <2>6 DEF value
<1>7. StandsCut(t, 12 + p, "cand_cap", PolicyCapacity \o pad)
  <2> DEFINE value == PolicyCapacity \o pad
             pos == 12 + p
  <2>1. /\ Len(PolicyCapacity) = 2 /\ PolicyCapacity[1] = "2" /\ PolicyCapacity[2] = "0"
        /\ PolicyCapacity \in Seq({"2", "0"})
    BY DEF PolicyCapacity
  <2>2. Padded(value, PolicyCapacity) /\ Len(value) = 2 + p
    BY <2>1, PaddedIs DEF p
  <2> HIDE DEF value
  <2>3. ASSUME NEW k \in 1..2+p
        PROVE  s[16 + p + k] = value[k]
    <3>1. value[k] = IF k <= 2 THEN PolicyCapacity[k] ELSE Space
      BY <2>1, <2>2 DEF Padded
    <3>2. CASE k <= 2
      <4>1. (k = 1 /\ 16 + p + k = 17 + p) \/ (k = 2 /\ 16 + p + k = 18 + p)
        BY <1>1, <3>2
      <4> QED BY <1>2, <2>1, <3>1, <3>2, <4>1
    <3>3. CASE k > 2
      <4>1. 16 + p + k \in 19+p..18+2*p
        BY <1>1, <3>3
      <4>2. s[16 + p + k] = Space
        BY ONLY <1>2, <4>1
      <4>3. value[k] = Space
        BY <1>1, <3>1, <3>3
      <4> QED BY ONLY <4>2, <4>3
    <3> QED BY <1>1, <3>2, <3>3
  <2>4. /\ pos \in Nat \ {0} /\ pos + 1 = 13 + p /\ pos + 2 = 14 + p /\ pos + 3 = 15 + p
        /\ pos + 4 = 16 + p /\ pos + 5 + (2 + p) = 19 + 2 * p /\ 19 + 2 * p <= n
        /\ 2 + p \in Nat /\ n = 21 + 2 * p
    BY <1>1
  <2> HIDE DEF pos
  <2>5. s[pos] = "quote"
    BY <1>2 DEF pos
  <2>6. Standing(pos, "cand_cap", value)
    <3>1. \A j \in 1..n : s[j] = "cand_cap" => j = pos + 1
      BY <1>3, <2>4
    <3>2. \A j \in pos+5+(2+p)..n : s[j] \in {"nl", "rbrace"}
      BY <1>2, <2>4
    <3>3. \A k \in 1..2+p : s[pos + 4 + k] = value[k]
      BY <2>3, <2>4
    <3>4. s[pos + 1] = "cand_cap" /\ s[pos + 2] = "quote" /\ s[pos + 3] = ":" /\ s[pos + 4] = Space
      BY <1>2, <2>4
    <3> QED BY <2>2, <2>4, <2>5, <3>1, <3>2, <3>3, <3>4
  <2> HIDE DEF Standing
  <2>7. StandsCut(t, pos, "cand_cap", value)
    BY <1>5, <2>4, <2>6
  <2> QED BY <2>7 DEF value, pos
<1> QED BY <1>1, <1>3, <1>4, <1>6, <1>7 DEF p, t

(* A key the policy has not says nothing.                                  *)
LEMMA NoKeyIsNone ==
  ASSUME NEW S, NEW t \in Seq(S), NEW key, \A j \in 1..Len(t) : t[j] # key
  PROVE  Rerank!PolicyNumber(t, key) = Rerank!None
<1> DEFINE word == <<"quote", key, "quote">>
           found == Find(t, word, 1)
<1>1. word \in Seq({"quote", key}) /\ 1 \in Nat \ {0} /\ Len(t) \in Nat
  OBVIOUS
<1>2. \A j \in Nat \ {0} : ~ StandsAt(t, j, word)
  <2>1. ASSUME NEW j \in Nat \ {0}, StandsAt(t, j, word)
        PROVE  FALSE
    <3>1. j + 2 <= Len(t) /\ t[j + 1] = key
      BY <2>1, KeyStands
    <3>2. j + 1 \in 1..Len(t)
      BY <1>1, <3>1
    <3> QED BY <3>1, <3>2
  <2> QED BY <2>1
<1>3. found = 0
  <2> HIDE DEF word
  <2>1. found # 0 => found \in Nat /\ found >= 1 /\ StandsAt(t, found, word)
    BY <1>1, FoundStands
  <2> HIDE DEF found
  <2> QED BY <1>2, <2>1
<1>4. Rerank!Find(t, word, 1) = 0
  BY <1>3, FilesAreTexts
<1> HIDE DEF found
<1> QED BY ONLY <1>4 DEF Rerank!PolicyNumber, word

(* What the policy sets is what was written or nothing, but for a number   *)
(* the file ends in, and every limit stays positive (LoadPolicyFile,       *)
(* LoadConfigFromEnv), however many spaces stand behind the numbers and    *)
(* whatever the environment says.                                          *)
THEOREM PolicyReads ==
  \A pad \in Seq({Space}) : \A m \in 0..Len(Policy(pad)) : \A envs :
    Rerank!PolicyReadFor(PolicyValues, SubSeq(Policy(pad), 1, m), envs)
<1> SUFFICES ASSUME NEW pad \in Seq({Space}), NEW m \in 0..Len(Policy(pad)), NEW envs
             PROVE  Rerank!PolicyReadFor(PolicyValues, SubSeq(Policy(pad), 1, m), envs)
  OBVIOUS
<1> DEFINE s == Policy(pad)
           p == Len(pad)
           t == SubSeq(s, 1, m)
           D == Rerank!DefaultLimits
           tau == Rerank!PolicyNumber(t, "tau")
           cap == Rerank!PolicyNumber(t, "cand_cap")
           limits == Rerank!LoadPolicyFile(D, t)
<1>1. PolicyParts(s, pad) /\ p \in Nat
  BY PolicyIs
<1>2. /\ t \in Seq(PolicySymbols) /\ Len(t) = m
      /\ \A j \in 1..m : t[j] = s[j] /\ t[j] # "timeout_ms"
      /\ StandsCut(t, 2, "tau", PolicyTau \o pad)
      /\ StandsCut(t, 12 + p, "cand_cap", PolicyCapacity \o pad)
  <2> HIDE DEF s
  <2>1. m \in 0..Len(s)
    BY DEF s
  <2> QED BY <1>1, <2>1, PolicyCut
<1>3. PolicyAt(s, p)
  BY <1>1, PolicyPlaces
<1>4. m \in Nat
  BY <1>2
<1> HIDE DEF s, p, t
<1> DEFINE Numbers == {"0", "1", "2", "5", "."}
<1>5. Numbers \cap Rerank!White = {}
  <2>1. Rerank!Space \notin Numbers
    BY Zenon DEF Rerank!Space
  <2> QED BY <2>1 DEF Rerank!White
<1>6. /\ PolicyTau \in Seq(Numbers) /\ Len(PolicyTau) = 3
      /\ PolicyCapacity \in Seq(Numbers) /\ Len(PolicyCapacity) = 2
  BY DEF PolicyTau, PolicyCapacity
<1> HIDE DEF Numbers
<1>7. Padded(PolicyTau \o pad, PolicyTau) /\ Padded(PolicyCapacity \o pad, PolicyCapacity)
  BY <1>6, PaddedIs
<1>8. NumberRead(tau, PolicyTau, m - 6)
  <2>1. 3 \in 1..Rerank!Window /\ "tau" # ":" /\ 2 + 4 = 6
    BY DEF Rerank!Window
  <2>2. NumberRead(tau, PolicyTau, Len(t) - (2 + 4))
    BY <1>2, <1>5, <1>6, <1>7, <2>1, PolicyNumberIs
  <2> QED BY <1>2, <2>1, <2>2
<1>9. NumberRead(cap, PolicyCapacity, m - (12 + p + 4))
  <2>1. 2 \in 1..Rerank!Window /\ "cand_cap" # ":"
    BY DEF Rerank!Window
  <2>2. NumberRead(cap, PolicyCapacity, Len(t) - (12 + p + 4))
    BY <1>2, <1>5, <1>6, <1>7, <2>1, PolicyNumberIs
  <2> QED BY <1>2, <2>2
<1>10. Rerank!PolicyNumber(t, "timeout_ms") = Rerank!None
  BY <1>2, NoKeyIsNone
<1> HIDE DEF tau, cap
<1>11. /\ limits.tau = IF tau = Rerank!None THEN 25 ELSE tau
       /\ limits.cand_cap = IF cap > 0 THEN cap \div 10 ELSE 30
       /\ limits.timeout_ms = 200
  <2>1. Rerank!None = -1
    BY DEF Rerank!None
  <2>2. limits.tau = IF tau = Rerank!None THEN D.tau ELSE tau
    BY DEF Rerank!LoadPolicyFile, tau
  <2>3. limits.cand_cap = IF cap > 0 THEN cap \div 10 ELSE D.cand_cap
    BY DEF Rerank!LoadPolicyFile, Rerank!Limit, cap
  <2>4. limits.timeout_ms = IF Rerank!PolicyNumber(t, "timeout_ms") > 0
                            THEN Rerank!PolicyNumber(t, "timeout_ms") \div 10 ELSE D.timeout_ms
    BY DEF Rerank!LoadPolicyFile, Rerank!Limit
  <2>5. D.tau = 25 /\ D.cand_cap = 30 /\ D.timeout_ms = 200
    BY DEF Rerank!DefaultLimits
  <2> HIDE DEF limits, D
  <2>6. limits.timeout_ms = 200
    BY ONLY <1>10, <2>1, <2>4, <2>5
  <2> QED BY ONLY <2>2, <2>3, <2>5, <2>6
<1> HIDE DEF limits
<1> DEFINE EndsIn == \E n \in 1..Len(PolicyTau) :
             PolicyTau[n] = Rerank!At(t, Len(t))
               /\ limits.tau = Rerank!SimpleAtod(SubSeq(PolicyTau, 1, n))
<1>12. limits.tau \in {25, Rerank!SimpleAtod(PolicyTau)} \/ EndsIn
  <2>1. CASE tau = Rerank!None
    BY <1>11, <2>1
  <2>2. CASE tau # Rerank!None
    <3>1. PICK n \in 1..3 : /\ tau = Rerank!SimpleAtod(SubSeq(PolicyTau, 1, n))
                            /\ n = 3 \/ n = m - 6
      BY <1>6, <1>8, <2>2 DEF NumberRead
    <3>2. limits.tau = tau
      BY <1>11, <2>2
    <3>3. CASE n = 3
      <4>1. SubSeq(PolicyTau, 1, 3) = PolicyTau
        BY <1>6
      <4>2. tau = Rerank!SimpleAtod(PolicyTau)
        BY ONLY <3>1, <3>3, <4>1
      <4> QED BY <3>2, <4>2
    <3>4. CASE n = m - 6
      <4>1. m = n + 6 /\ m \in 1..m
        BY <1>4, <3>4
      <4>2. t[m] = s[m]
        BY <1>2, <4>1
      <4>3. s[m] = PolicyTau[n]
        <5>1. (n = 1 /\ m = 7) \/ (n = 2 /\ m = 8) \/ (n = 3 /\ m = 9)
          BY <4>1
        <5>2. PolicyTau[1] = "1" /\ PolicyTau[2] = "." /\ PolicyTau[3] = "5"
          BY DEF PolicyTau
        <5>3. s[7] = "1" /\ s[8] = "." /\ s[9] = "5"
          BY <1>3 DEF PolicyAt
        <5> QED BY ONLY <5>1, <5>2, <5>3
      <4>4. Rerank!At(t, Len(t)) = t[m]
        BY <1>2, <4>1 DEF Rerank!At
      <4>5. EndsIn
        BY <1>6, <3>1, <3>2, <4>2, <4>3, <4>4
      <4> QED BY <4>5
    <3> QED BY <3>1, <3>3, <3>4
  <2> QED BY <2>1, <2>2
<1>13. limits.cand_cap > 0
  <2>1. CASE cap = Rerank!None
    BY <1>11, <2>1 DEF Rerank!None
  <2>2. CASE cap # Rerank!None
    <3>1. PICK n \in 1..2 : cap = Rerank!SimpleAtod(SubSeq(PolicyCapacity, 1, n))
      BY <1>6, <1>9, <2>2 DEF NumberRead
    <3> DEFINE d == SubSeq(PolicyCapacity, 1, n)
    <3>2. (n = 1 /\ d = <<"2">>) \/ (n = 2 /\ d = <<"2", "0">>)
      <4> DEFINE v == PolicyCapacity
      <4>1. v \in Seq(Numbers) /\ Len(v) = 2 /\ v[1] = "2" /\ v[2] = "0" /\ v = <<"2", "0">>
        BY <1>6 DEF PolicyCapacity
      <4>2. n = 1 \/ n = 2
        BY <3>1
      <4> HIDE DEF v
      <4>3. SubSeq(v, 1, 2) = v
        <5>1. v \in Seq(Numbers) /\ Len(v) = 2
          BY <4>1
        <5> QED BY ONLY <5>1
      <4>4. SubSeq(v, 1, 1) = <<"2">>
        <5> DEFINE w == SubSeq(v, 1, 1)
        <5>1. 1 \in 1..Len(v)
          BY <4>1
        <5>2. w \in Seq(Numbers) /\ Len(w) = 1 - 1 + 1 /\ \A k \in 1..1-1+1 : w[k] = v[1 + k - 1]
          BY <4>1, <5>1, PartIs
        <5> HIDE DEF w
        <5>3. Len(w) = 1 /\ w[1] = "2" /\ w \in Seq(Numbers)
          BY <4>1, <5>2
        <5>4. w = <<w[1]>>
          BY ONLY <5>3
        <5> QED BY <5>3, <5>4 DEF w
      <4> QED BY ONLY <4>1, <4>2, <4>3, <4>4 DEF d, v
    <3>3. <<"2">> \in Seq(DOMAIN Rerank!Digit) /\ <<"2", "0">> \in Seq(DOMAIN Rerank!Digit)
      BY DEF Rerank!Digit
    <3>4. <<"2">> # <<>> /\ <<"2", "0">> # <<>>
      OBVIOUS
    <3>5. Rerank!SimpleAtod(<<"2">>) = 10 * 2 + 0
      BY <3>3, <3>4, CapacityNumbers, WholeIs
    <3>6. Rerank!SimpleAtod(<<"2", "0">>) = 10 * 20 + 0
      BY <3>3, <3>4, CapacityNumbers, WholeIs
    <3>7. cap = Rerank!SimpleAtod(d)
      BY <3>1
    <3> HIDE DEF d
    <3>8. cap = 20 \/ cap = 200
      BY ONLY <3>2, <3>5, <3>6, <3>7
    <3> QED BY <1>11, <3>8
  <2> QED BY <2>1, <2>2
<1>14. ASSUME NEW env \in envs
       PROVE  LET used == Rerank!LoadConfigFromEnv(env, t).limits
              IN used.cand_cap > 0 /\ used.timeout_ms > 0
  <2> DEFINE policy == IF env.policy THEN limits ELSE D
             used == Rerank!LoadConfigFromEnv(env, t).limits
  <2>1. policy.cand_cap > 0 /\ policy.timeout_ms > 0
    BY <1>11, <1>13 DEF Rerank!DefaultLimits
  <2>2. DOMAIN policy = {"tau", "cand_cap", "timeout_ms", "max_len", "context_chars"}
    BY DEF Rerank!DefaultLimits, Rerank!LoadPolicyFile, limits
  <2> HIDE DEF policy
  <2> DEFINE change == Rerank!SimpleAtod(env.tau)
  <2>3. used = [policy EXCEPT !.tau = IF change = Rerank!None THEN @ ELSE change,
                              !.cand_cap = Rerank!Positive(env.cand_cap, @),
                              !.timeout_ms = Rerank!Positive(env.timeout_ms, @)]
    BY DEF Rerank!LoadConfigFromEnv, policy, limits
  <2> HIDE DEF used, change
  <2>4. /\ used.cand_cap = Rerank!Positive(env.cand_cap, policy.cand_cap)
        /\ used.timeout_ms = Rerank!Positive(env.timeout_ms, policy.timeout_ms)
    BY <2>2, <2>3
  <2>5. \A text1, old : old > 0 => Rerank!Positive(text1, old) > 0
    BY DEF Rerank!Positive
  <2>6. used.cand_cap > 0 /\ used.timeout_ms > 0
    BY <2>1, <2>4, <2>5
  <2> QED BY <2>6 DEF used
<1>15. PolicyValues.tau = PolicyTau /\ D.tau = 25
  BY DEF PolicyValues, PolicyTau, Rerank!DefaultLimits
<1>16. Rerank!PolicyReadFor(PolicyValues, t, envs) <=>
         /\ limits.tau \in {25, Rerank!SimpleAtod(PolicyTau)} \/ EndsIn
         /\ \A env \in envs : LET used == Rerank!LoadConfigFromEnv(env, t).limits
                              IN used.cand_cap > 0 /\ used.timeout_ms > 0
  BY <1>15 DEF Rerank!PolicyReadFor, Rerank!Whole, limits
<1> QED BY <1>12, <1>14, <1>16 DEF t, s
================================================================================
