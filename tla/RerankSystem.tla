----------------------------- MODULE RerankSystem -----------------------------
(***************************************************************************)
(* The rewriter with the daemon of the repository (runtime/rerank_daemon.py*)
(* over TcpExchange): every call opens a connection of its own, the daemon *)
(* serves each connection in a thread of its own, computes one answer per  *)
(* request line, and may be stopped and started at any time.               *)
(*                                                                         *)
(* An operator just above another and named for it and a change is a       *)
(* faulty variant of that one, used to test the properties (README).       *)
(***************************************************************************)
EXTENDS RerankRewriter, RerankOrder

CONSTANTS
  Scores,     \* the scores the model may give, integers
  Tau,        \* the daemon's margin
  DaemonCap   \* the daemon's cand_cap

(* A cap comes from the daemon's policy file.  With 0 rerank has no first  *)
(* candidate, and the daemon answers every question with an error.         *)
ASSUME DaemonAssumption ==
  Scores \subseteq Int /\ Tau \in Int /\ DaemonCap \in Nat \ {0}

VARIABLES
  daemon_up,  \* the daemon listens
  conn,       \* the connection of each thread's call: none, the request the
              \* handler works on, the answer it has sent, or lost
  score       \* observer: the scores behind the answer of the running Rewrite

systemVars == <<vars, daemon_up, conn, score>>

NoConnection == [state |-> "none"]
LostConnection == [state |-> "lost"]
NoScore == [s \in Surfaces |-> 0]

SystemInit ==
  /\ Init
  /\ daemon_up = TRUE
  /\ conn = [t \in Threads |-> NoConnection]
  /\ score = [t \in Threads |-> NoScore]

(* The client's end (CallDaemon, TcpExchange).                             *)
(* The connection is made and the request line sent.                       *)
Asks(t) ==
  /\ task[t] = "running"
  /\ daemon_up
  /\ conn[t] = NoConnection
  /\ conn' = [conn EXCEPT ![t] = [state |-> "asked", nbest |-> nbest[t],
                                  reading |-> request[t].reading,
                                  text |-> HasContext(request[t], ctx[t])]]
  /\ UNCHANGED <<vars, daemon_up, score>>

(* The response line has arrived.                                          *)
Hears(t) ==
  /\ conn[t].state = "answered"
  /\ TaskAnswers(t, conn[t].reply)
  /\ conn' = [conn EXCEPT ![t] = NoConnection]
  /\ UNCHANGED <<daemon_up, score>>

(* No daemon to connect to, the connection reset, or a send or receive     *)
(* that took longer than timeout_ms, be the answer on its way or not.      *)
GivesUpKeepsConnection(t) ==
  /\ TaskFails(t)
  /\ UNCHANGED <<daemon_up, conn, score>>

GivesUp(t) ==
  /\ TaskFails(t)
  /\ conn' = [conn EXCEPT ![t] = NoConnection]
  /\ UNCHANGED <<daemon_up, score>>

(* The daemon's end.  Handler.handle: one request line, one response line. *)
DaemonSkips(c) == c.reading.len <= 2 \/ ~c.text

Scorings(list) == [ToSet(list) -> Scores]

Handles(t) ==
  /\ daemon_up
  /\ conn[t].state = "asked"
  /\ \E s \in Scorings(conn[t].nbest) :
       LET all == [x \in Surfaces |-> IF x \in DOMAIN s THEN s[x] ELSE 0]
       IN /\ score' = [score EXCEPT ![t] = all]
          /\ conn' = [conn EXCEPT ![t] =
               [state |-> "answered",
                reply |-> DaemonRerank(conn[t].nbest, all, Tau, DaemonCap,
                                       DaemonSkips(conn[t]), Junk)]]
  /\ UNCHANGED <<vars, daemon_up>>

(* The daemon stops: its handlers are daemon threads and go with it, an    *)
(* answer already sent is still delivered.                                 *)
DaemonStops ==
  /\ daemon_up
  /\ daemon_up' = FALSE
  /\ conn' = [t \in Threads |-> IF conn[t].state = "asked" THEN LostConnection
                                ELSE conn[t]]
  /\ UNCHANGED <<vars, score>>

DaemonStarts ==
  /\ ~daemon_up
  /\ daemon_up' = TRUE
  /\ UNCHANGED <<vars, conn, score>>

(* A step of the converter thread, the rewriter's own.                     *)
Converts(t) ==
  /\ User(t) \/ Proceeds(t) \/ WaitTimesOut(t)
  /\ score' = IF pc'[t] = "idle" THEN [score EXCEPT ![t] = NoScore] ELSE score
  /\ UNCHANGED <<daemon_up, conn>>

SystemNext ==
  \/ \E t \in Threads :
       \/ Converts(t)
       \/ Asks(t) \/ Hears(t) \/ GivesUp(t) \/ Handles(t)
  \/ DaemonStops \/ DaemonStarts

SystemSpec == SystemInit /\ [][SystemNext]_systemVars

--------------------------------------------------------------------------------
(* Properties.                                                             *)
Reordered(t) == pc[t] = "reorder" /\ slot[t] > ReorderLimit(t)
FirstNow(t) == TargetCandidates(t)[1]
MozcFirst(t) == Offered(t)[Target(t)][1]

(* Once a conversion is reordered, Mozc's first candidate is still first,  *)
(* or one that was sent, is not junk and scored at least Tau more is, and  *)
(* it is the one the conversion log will call final_top1.                  *)
MozcFirstUnlessMargin ==
  \A t \in Threads : Reordered(t) =>
    /\ result[t].final_top1 = FirstNow(t)
    /\ FirstNow(t) # MozcFirst(t) =>
         /\ FirstNow(t) \in ToSet(nbest[t]) \ Junk
         /\ score[t][FirstNow(t)] >= score[t][MozcFirst(t)] + Tau

(* The candidates past the cap, which were never sent, stay where they     *)
(* were: the ranking names each candidate that was sent once.              *)
PastCapUntouched ==
  \A t \in Threads : Reordered(t) =>
    \A i \in Len(nbest[t]) + 1 .. Len(TargetCandidates(t)) :
      TargetCandidates(t)[i] = Offered(t)[Target(t)][i]

(* A Rewrite is only ever given an answer to its own question, although    *)
(* calls are given up while the daemon works on them or has answered: a    *)
(* connection serves one call and is closed with it (TcpExchange).         *)
AnswersOwnQuestion ==
  \A t \in Threads : pc[t] \in {"apply", "reorder"} =>
    ToSet(result[t].ranked) \subseteq ToSet(nbest[t])

(* The system is a rewriter whose peer answers some of Replies: what holds *)
(* of RerankRewriter for every peer holds of it.                           *)
RewriterSpec == Spec
================================================================================
