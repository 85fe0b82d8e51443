------------------------------- MODULE Server -------------------------------
(***************************************************************************)
(* What a worker promises its clients, without validators, pages, memory,  *)
(* counters and reloads: a request stands in one line, its turn comes in   *)
(* the order of arrival, it gets exactly one answer, which is a refusal if *)
(* the request has not proved who sends it, and then its connection ends   *)
(* or becomes a websocket. The turn of a request of a certain kind may end *)
(* the worker instead, which nobody in the line survives. Only an answered *)
(* request tells the parent to shut down. Worker is shown to implement     *)
(* this module.                                                            *)
(***************************************************************************)
EXTENDS Integers, Sequences, SequencesExt

CONSTANTS Conns, Requests,
          Unproven,   \* the requests that must not get what they ask for
          Shutdowns,  \* the requests that ask for a shutdown
          Fatal,      \* the requests that may end the worker
          Refusals,   \* codes of a refusal
          NULL

VARIABLES conn,     \* state of each connection
          request,  \* what it has asked
          line,     \* connections that wait for an answer, the oldest first
          codes,    \* what the oldest has been answered
          parent    \* what the parent process was told

vars == <<conn, request, line, codes, parent>>

Init ==
    /\ conn = [c \in Conns |-> "closed"]
    /\ request = [c \in Conns |-> NULL]
    /\ line = <<>>
    /\ codes = <<>>
    /\ parent = "running"

Idle == parent # "stopped" /\ codes = <<>>

Connect(c) ==
    /\ Idle /\ conn[c] = "closed"
    /\ conn' = [conn EXCEPT ![c] = "open"]
    /\ UNCHANGED <<request, line, codes, parent>>

Ask(c, r) ==
    /\ Idle /\ conn[c] = "open"
    /\ conn' = [conn EXCEPT ![c] = "waiting"]
    /\ request' = [request EXCEPT ![c] = r]
    /\ line' = Append(line, c)
    /\ UNCHANGED <<codes, parent>>

Leave(c) ==
    /\ Idle /\ conn[c] # "closed"
    /\ conn' = [conn EXCEPT ![c] = "closed"]
    /\ request' = [request EXCEPT ![c] = NULL]
    /\ line' = RemoveFirst(line, c)
    /\ UNCHANGED <<codes, parent>>

Answer ==
    /\ Idle /\ line # <<>>
    /\ codes' \in Seq(Int) /\ Len(codes') = 1
    /\ LET r == request[Head(line)] IN
         /\ r \in Unproven => codes'[1] \in Refusals
         /\ parent' = IF r \in Shutdowns THEN "told" ELSE parent
    /\ UNCHANGED <<conn, request, line>>

\* The parent is not told, and starts another worker.
Fail ==
    /\ Idle /\ line # <<>>
    /\ request[Head(line)] \in Fatal
    /\ conn' = [c \in Conns |-> "closed"]
    /\ request' = [c \in Conns |-> NULL]
    /\ line' = <<>>
    /\ UNCHANGED <<codes, parent>>

\* Switching protocols, code 101, keeps the connection.
Release ==
    /\ codes # <<>>
    /\ conn' = [conn EXCEPT ![Head(line)] = IF codes = <<101>> THEN "socket" ELSE "closed"]
    /\ request' = [request EXCEPT ![Head(line)] = NULL]
    /\ line' = Tail(line)
    /\ codes' = <<>>
    /\ UNCHANGED parent

Stop ==
    /\ parent = "told" /\ codes = <<>>
    /\ parent' = "stopped"
    /\ conn' = [c \in Conns |-> "closed"]
    /\ request' = [c \in Conns |-> NULL]
    /\ line' = <<>>
    /\ UNCHANGED codes

Next ==
    \/ \E c \in Conns : Connect(c) \/ Leave(c) \/ \E r \in Requests : Ask(c, r)
    \/ Answer
    \/ Fail
    \/ Release
    \/ Stop

Spec == Init /\ [][Next]_vars
=============================================================================
