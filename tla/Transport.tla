----------------------------- MODULE Transport -----------------------------
(***************************************************************************)
(* What carries the messages.  libot leaves it to the application: the     *)
(* send callback of a client hands a message to the server, that of the    *)
(* server hands it to all connected clients, the author of the operation   *)
(* included, and the application calls ot_server_receive and               *)
(* ot_client_receive.  It is modelled as the scenario tests' queues and a  *)
(* stream connection have it: reliable, in order, one queue each way for   *)
(* every client, each drained at its own pace.                             *)
(***************************************************************************)
EXTENDS Ops

CONSTANTS Clients       \* the client_ids, which the application makes unique

ASSUME ClientsAssumption == Clients \subseteq Nat

VARIABLES
  up,     \* up[c]: what client c sent and the server has not received yet
  down    \* down[c]: what the server sent and c has not received yet

\* The oldest message reaches the server, or client c.
TakeUp(c) == up[c] # <<>> /\ up' = [up EXCEPT ![c] = Tail(@)]
TakeDown(c) == down[c] # <<>> /\ down' = [down EXCEPT ![c] = Tail(@)]

ErrorMsg(err) == [errorCode |-> err]
IsError(msg) == "errorCode" \in DOMAIN msg
=============================================================================
