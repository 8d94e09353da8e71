----------------------------- MODULE TotalOrder -----------------------------
(***************************************************************************)
(* What the server and the messages promise, without documents and         *)
(* operations: all requests are put in one order, the log, and every       *)
(* client learns all of it, in that order, nothing twice; a client has one *)
(* request at a time, which is granted a place in the log once, or lost.   *)
(*                                                                         *)
(* System implements it (ServedInOrder); the log is who wrote the          *)
(* operations of the server's history.                                     *)
(***************************************************************************)
EXTENDS Naturals, Sequences

CONSTANTS Clients

VARIABLES
  log,     \* the clients whose requests were granted, in order; 0 for what
           \* was there at the start
  known,   \* known[c]: how much of the log client c has learned of
  stage    \* stage[c]: what became of the last request of c

vars == <<log, known, stage>>

Init ==
  /\ log \in {<<>>, <<0>>}
  /\ known = [c \in Clients |-> Len(log)]
  /\ stage = [c \in Clients |-> "idle"]

Request(c) ==
  /\ stage[c] = "idle"
  /\ stage' = [stage EXCEPT ![c] = "requested"]
  /\ UNCHANGED <<log, known>>

Grant(c) ==
  /\ stage[c] = "requested"
  /\ stage' = [stage EXCEPT ![c] = "granted"]
  /\ log' = Append(log, c)
  /\ UNCHANGED known

Lose(c) ==
  /\ stage[c] = "requested"
  /\ stage' = [stage EXCEPT ![c] = "lost"]
  /\ UNCHANGED <<log, known>>

\* The next entry of the log: somebody else's, or the client's own request,
\* after which it is idle or has made the next one.
Learn(c) ==
  /\ known[c] < Len(log)
  /\ known' = [known EXCEPT ![c] = @ + 1]
  /\ \/ /\ log[known'[c]] # c
        /\ UNCHANGED stage
     \/ /\ log[known'[c]] = c
        /\ stage[c] = "granted"
        /\ \E next \in {"idle", "requested"} : stage' = [stage EXCEPT ![c] = next]
  /\ UNCHANGED log

Next == \E c \in Clients : Request(c) \/ Grant(c) \/ Lose(c) \/ Learn(c)

Spec == Init /\ [][Next]_vars
=============================================================================
