------------------------------ MODULE RequestLine ------------------------------
(***************************************************************************)
(* What the AI worker promises those who enqueue: requests are taken one   *)
(* at a time in the order they came in, each at most once, and the next one*)
(* only when the one before is through; some are never served, but those   *)
(* that have to make room are the oldest that wait.                        *)
(***************************************************************************)
EXTENDS Sequences, Integers

CONSTANTS Requests, None

VARIABLES
  line,     \* the requests that wait, oldest first
  taken,    \* the request taken from the line and not handed over yet
  served    \* the request the backend is working on, or has answered

Init == line = <<>> /\ taken = None /\ served = None

(* A request joins the line, at the cost of the oldest if need be.         *)
Submit(r) ==
  /\ \E n \in 0..Len(line) : line' = SubSeq(line, n + 1, Len(line)) \o <<r>>
  /\ UNCHANGED <<taken, served>>

Take ==
  /\ line # <<>> /\ taken = None /\ served = None
  /\ taken' = Head(line)
  /\ line' = Tail(line)
  /\ UNCHANGED served

GiveUp ==
  /\ taken # None
  /\ taken' = None
  /\ UNCHANGED <<line, served>>

Serve ==
  /\ taken # None
  /\ served' = taken
  /\ taken' = None
  /\ UNCHANGED line

(* The result is stored, or there is none.                                 *)
Finish ==
  /\ served # None
  /\ served' = None
  /\ UNCHANGED <<line, taken>>

Next == Take \/ GiveUp \/ Serve \/ Finish \/ \E r \in Requests : Submit(r)

Spec == Init /\ [][Next]_<<line, taken, served>>
================================================================================
