------------------------------ MODULE TcpExchange ------------------------------
(***************************************************************************)
(* One exchange with the daemon, TcpExchange of                            *)
(* mozc_compat/rerank_rewriter.cc: connect, send the request, receive until*)
(* there is a newline.  select and the socket options give connect and     *)
(* every send and recv the whole timeout each.  The other side may be any  *)
(* program that listens at the port: it may say anything at any time,      *)
(* stall, or go away.                                                      *)
(*                                                                         *)
(* Time is counted in ticks while a call waits; what a call itself takes is*)
(* not.                                                                    *)
(*                                                                         *)
(* An operator just above another and named for it and a change is a       *)
(* faulty variant of that one, used to test the properties (README).       *)
(***************************************************************************)
EXTENDS Integers, Sequences

CONSTANTS
  Timeout,        \* timeout_ms, in ticks
  RequestSize,    \* bytes of the request
  MaxSize         \* bytes a response may have: 1 << 20

ASSUME TcpAssumption ==
  Timeout \in Nat \ {0} /\ RequestSize \in Nat \ {0} /\ MaxSize \in Nat \ {0}

VARIABLES
  stage,          \* where the call stands
  sent,           \* bytes of the request the socket has taken
  wire,           \* bytes the daemon has said and the client has not received
  buf,            \* bytes received
  gone,           \* the daemon has closed the connection
  waited,         \* ticks the current connect, send or recv has waited
  spent           \* ticks the whole call has taken

tcpVars == <<stage, sent, wire, buf, gone, waited, spent>>

Byte == {"x", "nl"}
Ended == {"answered", "failed"}

TcpTypeOK ==
  /\ stage \in {"connecting", "sending", "receiving"} \cup Ended
  /\ sent \in 0..RequestSize
  /\ wire \in Seq(Byte) /\ buf \in Seq(Byte)
  /\ gone \in BOOLEAN
  /\ waited \in 0..Timeout
  /\ spent \in Nat

TcpInit ==
  /\ stage = "connecting" /\ sent = 0
  /\ wire = <<>> /\ buf = <<>> /\ gone = FALSE
  /\ waited = 0 /\ spent = 0

HasLine(s) == \E i \in DOMAIN s : s[i] = "nl"

(* buf.substr(0, buf.find('\n')).                                          *)
FirstLine(s) ==
  LET end == CHOOSE i \in DOMAIN s :
               s[i] = "nl" /\ \A j \in 1..(i - 1) : s[j] # "nl"
  IN SubSeq(s, 1, end - 1)

--------------------------------------------------------------------------------
Fail == stage' = "failed" /\ UNCHANGED <<sent, wire, buf, gone, waited, spent>>

Connect ==
  /\ stage = "connecting" /\ ~gone
  /\ stage' = "sending" /\ waited' = 0
  /\ UNCHANGED <<sent, wire, buf, gone, spent>>

(* Refused, or select gives up.                                            *)
ConnectFails ==
  /\ stage = "connecting" /\ (gone \/ waited = Timeout)
  /\ Fail

Send ==
  /\ stage = "sending"
  /\ \E n \in 1..(RequestSize - sent) :
       /\ sent' = sent + n
       /\ stage' = IF sent + n = RequestSize THEN "receiving" ELSE "sending"
  /\ waited' = 0
  /\ UNCHANGED <<wire, buf, gone, spent>>

SendFails ==
  /\ stage = "sending" /\ (gone \/ waited = Timeout)
  /\ Fail

(* A chunk of what is there; the size is looked at before the newline.     *)
StageAfterNoCap(received) ==
  IF HasLine(received) THEN "answered" ELSE "receiving"
StageAfter(received) ==
  IF Len(received) > MaxSize THEN "failed"
  ELSE IF HasLine(received) THEN "answered" ELSE "receiving"

Receive ==
  /\ stage = "receiving"
  /\ \E n \in 1..Len(wire) :
       /\ buf' = buf \o SubSeq(wire, 1, n)
       /\ wire' = SubSeq(wire, n + 1, Len(wire))
  /\ stage' = StageAfter(buf')
  /\ waited' = 0
  /\ UNCHANGED <<sent, gone, spent>>

(* recv gives 0 at the end of the connection, -1 if it was reset or the    *)
(* time is up.                                                             *)
ReceiveFailsEndIsEndOfLine ==
  /\ stage = "receiving"
  /\ \/ wire = <<>> /\ waited = Timeout /\ Fail
     \/ /\ gone
        /\ stage' = IF buf = <<>> THEN "failed" ELSE "answered"
        /\ UNCHANGED <<sent, wire, buf, gone, waited, spent>>
ReceiveFails ==
  /\ stage = "receiving"
  /\ gone \/ (wire = <<>> /\ waited = Timeout)
  /\ Fail

--------------------------------------------------------------------------------
(* The other side, and time.  MaxSaid bounds what it says.                 *)
MaxSaid == MaxSize + 2
Say ==
  /\ stage \in {"sending", "receiving"} /\ ~gone
  /\ Len(buf) + Len(wire) < MaxSaid
  /\ \E c \in Byte : wire' = Append(wire, c)
  /\ UNCHANGED <<stage, sent, buf, gone, waited, spent>>

GoAway ==
  /\ stage \notin Ended /\ ~gone
  /\ gone' = TRUE
  /\ UNCHANGED <<stage, sent, wire, buf, waited, spent>>

Wait ==
  /\ stage \notin Ended /\ ~gone /\ waited < Timeout
  /\ stage = "receiving" => wire = <<>>
  /\ waited' = waited + 1 /\ spent' = spent + 1
  /\ UNCHANGED <<stage, sent, wire, buf, gone>>

TcpNext ==
  \/ Connect \/ ConnectFails \/ Send \/ SendFails \/ Receive \/ ReceiveFails
  \/ Say \/ GoAway \/ Wait

TcpSpec == TcpInit /\ [][TcpNext]_tcpVars

--------------------------------------------------------------------------------
(* A response is a whole line, the first the daemon said after the request *)
(* was all sent, and is never taken from an answer that was cut off, too   *)
(* long or late (the loop over recv).                                      *)
WholeFirstLine ==
  stage = "answered" =>
    /\ sent = RequestSize
    /\ HasLine(buf) /\ Len(buf) <= MaxSize
    /\ FirstLine(buf) = FirstLine(buf \o wire)

(* The timeout is one of each connect, send and recv, not of the call: a   *)
(* daemon that takes or gives a byte at a time makes the call last as many *)
(* timeouts as there are bytes, but the cap on the response ends it.       *)
CallWithinBudget == spent <= Timeout * (1 + RequestSize + MaxSize + 1)
================================================================================
