------------------------------- MODULE Server -------------------------------
(***************************************************************************)
(* The server (server.c).  It puts the operations in one order: one that   *)
(* is not based on its current document is transformed against everything  *)
(* that happened since, and what was appended is sent to every client.     *)
(***************************************************************************)
EXTENDS ServerDoc, Transport

VARIABLES server_doc

Received(op) == ReceivedOn(server_doc, op)

\* Mutant: what the author knows already is not sent back.
BroadcastToOthers(msg) ==
  down' = [k \in Clients |-> IF ~IsError(msg) /\ msg.client_id = k THEN down[k]
                             ELSE Append(down[k], msg)]

Broadcast(msg) == down' = [k \in Clients |-> Append(down[k], msg)]

ot_server_receive(c) ==
  /\ TakeUp(c)
  /\ \E r \in {Received(Head(up[c]))} :
       /\ server_doc' = r.doc
       /\ \/ r.err = "none" /\ Broadcast(r.op)
          \/ r.err # "none" /\ Broadcast(ErrorMsg(r.err))
=============================================================================
