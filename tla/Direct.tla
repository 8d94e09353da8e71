------------------------------- MODULE Direct -------------------------------
(***************************************************************************)
(* A send callback that hands the message over at once: client->send may   *)
(* call ot_server_receive, server->send may call ot_client_receive on one  *)
(* client after the other.  The calls nest, and a client finishes its      *)
(* send_buffer only when everything its message set off has returned.      *)
(*                                                                         *)
(* Everything else is System's: Direct is the same program, one call of    *)
(* the library at a time, with what those calls have left to do on a       *)
(* stack.  AsQueued says when that makes no difference.                    *)
(***************************************************************************)
EXTENDS System

CONSTANTS
  Applications   \* for each kind of application that is of interest, which of
                 \* "client" and "server" hand over directly what they send

ASSUME ApplicationsAssumption ==
  /\ Applications \subseteq SUBSET {"client", "server"}
  /\ IsFiniteSet(Clients)    \* server->send calls one after the other

VARIABLES
  direct,   \* the kind of application: whoever is not in it fills the queues
  stack     \* what the calls under way have left to do, the innermost first

directVars == <<vars, direct, stack>>

ClientDirect == "client" \in direct
ServerDirect == "server" \in direct

-----------------------------------------------------------------------------
(***************************************************************************)
(* What a call has left to do: send_buffer after client->send returned,    *)
(* ot_server_receive as a whole, and a broadcast to the clients in `to`.   *)
(***************************************************************************)
Sending(c) == [call |-> "send_buffer", client |-> c]
Serving(msg) == [call |-> "ot_server_receive", msg |-> msg]
Broadcasting(msg, to) == [call |-> "server_send", msg |-> msg, to |-> to]

Callers == SetToSeq(Clients)    \* the order in which server->send calls them

Runs(call) == stack # <<>> /\ Head(stack).call = call
Top == Head(stack)
Below == Tail(stack)

(***************************************************************************)
(* send_buffer up to client->send: the buffer is stamped and sent but      *)
(* still the buffer, and the client does not wait for anything yet.        *)
(***************************************************************************)
BeginSend(c, op, parent, version, callers) ==
  LET msg == Op(op.client_id, parent, op.hash, op.comps)
  IN  /\ buffer' = [buffer EXCEPT ![c] = msg]
      /\ sentAt' = [sentAt EXCEPT ![c] = version]
      /\ \/ /\ ClientDirect
            /\ stack' = <<Serving(msg), Sending(c)>> \o callers
            /\ UNCHANGED up
         \/ /\ ~ClientDirect
            /\ stack' = <<Sending(c)>> \o callers
            /\ up' = [up EXCEPT ![c] = Append(@, msg)]

(***************************************************************************)
(* send_buffer after client->send: the anticipated operation becomes a     *)
(* copy of the buffer, as it is now.  ot_dup_op does not ask for NULL: a   *)
(* buffer that was emptied meanwhile is a crash, and nothing happens any   *)
(* more.                                                                   *)
(***************************************************************************)
\* Mutant: the buffer is not emptied.
FinishKeepsBuffer(c) ==
  /\ anticipated' = [anticipated EXCEPT ![c] = ot_dup_op(buffer[c])]
  /\ ack_required' = [ack_required EXCEPT ![c] = TRUE]
  /\ UNCHANGED buffer

Finish(c) ==
  /\ anticipated' = [anticipated EXCEPT ![c] = ot_dup_op(buffer[c])]
  /\ ack_required' = [ack_required EXCEPT ![c] = TRUE]
  /\ buffer' = [buffer EXCEPT ![c] = NULL]

FinishSend ==
  /\ Runs("send_buffer")
  /\ buffer[Top.client] # NULL
  /\ Finish(Top.client)
  /\ stack' = Below
  /\ UNCHANGED <<up, down, doc, seen, sentAt, server_doc, edits>>

(***************************************************************************)
(* ot_client_apply.                                                        *)
(***************************************************************************)
Apply(c, comps) ==
  \E r \in {ot_doc_append(Opened(doc[c]), Op(c, ZeroHash, ZeroHash, comps))} :
  \E buffered \in {Buffered(c, r)} :
    /\ doc' = [doc EXCEPT ![c] = r.doc]
    /\ UNCHANGED <<down, seen, ack_required, anticipated, server_doc>>
    /\ \/ /\ buffered = NULL
          /\ UNCHANGED <<up, buffer, sentAt, stack>>
       \/ /\ buffered # NULL
          /\ ack_required[c]
          /\ buffer' = [buffer EXCEPT ![c] = buffered]
          /\ UNCHANGED <<up, sentAt, stack>>
       \/ /\ buffered # NULL
          /\ ~ack_required[c]
          /\ BeginSend(c, buffered, buffered.parent, seen[c], <<>>)

(***************************************************************************)
(* ot_server_receive: what it broadcasts it broadcasts last.               *)
(***************************************************************************)
Reply(r) ==
  <<Broadcasting(IF r.err = "none" THEN r.op ELSE ErrorMsg(r.err), Callers)>>

Serve ==
  /\ Runs("ot_server_receive")
  /\ \E r \in {Received(Top.msg)} :
       /\ server_doc' = r.doc
       /\ stack' = Reply(r) \o Below
  /\ UNCHANGED <<up, down, clientVars, edits>>

(***************************************************************************)
(* A broadcast: to the queues, or to the next client.  The client that is  *)
(* called may send in its turn, when it is acknowledged.                   *)
(***************************************************************************)
Post ==
  /\ Runs("server_send") /\ ~ServerDirect
  /\ Broadcast(Top.msg)
  /\ stack' = Below
  /\ UNCHANGED <<up, clientVars, server_doc, edits>>

Return ==
  /\ Runs("server_send") /\ ServerDirect /\ Top.to = <<>>
  /\ stack' = Below
  /\ UNCHANGED vars

Acknowledge(c, hash, callers) ==
  /\ seen' = [seen EXCEPT ![c] = @ + 1]
  /\ UNCHANGED doc
  /\ \/ /\ buffer[c] = NULL
        /\ ack_required' = [ack_required EXCEPT ![c] = FALSE]
        /\ anticipated' = [anticipated EXCEPT ![c] = NULL]
        /\ stack' = callers
        /\ UNCHANGED <<up, buffer, sentAt>>
     \/ /\ buffer[c] # NULL
        /\ ack_required' = [ack_required EXCEPT ![c] = FALSE]
        /\ UNCHANGED anticipated
        /\ BeginSend(c, buffer[c], hash, seen[c] + 1, callers)

Receive(c, msg, callers) ==
  \/ /\ IsError(msg)
     /\ stack' = callers
     /\ UNCHANGED <<up, clientVars>>
  \/ /\ IsOwn(c, msg)
     /\ Acknowledge(c, msg.hash, callers)
  \/ /\ ~IsError(msg) /\ ~IsOwn(c, msg)
     /\ Incoming(c, msg)
     /\ seen' = [seen EXCEPT ![c] = @ + 1]
     /\ stack' = callers
     /\ UNCHANGED <<up, ack_required, sentAt>>

CallClient ==
  /\ Runs("server_send") /\ ServerDirect /\ Top.to # <<>>
  /\ Receive(Head(Top.to), Top.msg, <<Broadcasting(Top.msg, Tail(Top.to))>> \o Below)
  /\ UNCHANGED <<down, server_doc, edits>>

(***************************************************************************)
(* The application calls the library, while no other call is under way.    *)
(***************************************************************************)
Idle == stack = <<>>

DirectEdit(c) ==
  /\ Idle
  /\ edits[c] < MaxEdits
  /\ edits' = [edits EXCEPT ![c] = @ + 1]
  /\ \E comps \in Edits(c, edits[c], TextOf(doc[c])) : Apply(c, comps)

DeliverUp(c) ==
  /\ Idle
  /\ TakeUp(c)
  /\ stack' = <<Serving(Head(up[c]))>>
  /\ UNCHANGED <<down, clientVars, server_doc, edits>>

DeliverDown(c) ==
  /\ Idle
  /\ TakeDown(c)
  /\ Receive(c, Head(down[c]), <<>>)
  /\ UNCHANGED <<server_doc, edits>>

Step == FinishSend \/ Serve \/ Post \/ Return \/ CallClient

DirectInit == Init /\ direct \in Applications /\ stack = <<>>

DirectNext ==
  /\ Step \/ \E c \in Clients : DirectEdit(c) \/ DeliverUp(c) \/ DeliverDown(c)
  /\ UNCHANGED direct

DirectSpec == DirectInit /\ [][DirectNext]_directVars

\* A call that is under way goes on.
DirectFairSpec == DirectSpec /\ WF_directVars(Step /\ UNCHANGED direct)

-----------------------------------------------------------------------------
(***************************************************************************)
(* The refinement mapping: what is on the stack is still on its way, and a *)
(* client that is sending has, for everybody else, sent.  When one of the  *)
(* two sides queues, only the innermost call can be an ot_server_receive,  *)
(* and there is never a second broadcast under way.                        *)
(***************************************************************************)
IsSending(c) == Sending(c) \in ToSet(stack)

UpOf(c) ==
  IF Runs("ot_server_receive") /\ Top.msg.client_id = c THEN <<Top.msg>> \o up[c]
                                                        ELSE up[c]

\* The broadcasts client c has not been reached by.
BroadcastsTo(c) ==
  {frame \in ToSet(stack) : frame.call = "server_send" /\ c \in ToSet(frame.to)}

DownOf(c) ==
  IF BroadcastsTo(c) = {} THEN down[c]
  ELSE Append(down[c], (CHOOSE frame \in BroadcastsTo(c) : TRUE).msg)

Queued == INSTANCE System WITH
  up <- [c \in Clients |-> UpOf(c)],
  down <- [c \in Clients |-> DownOf(c)],
  anticipated <- [c \in Clients |->
                    IF IsSending(c) THEN ot_dup_op(buffer[c]) ELSE anticipated[c]],
  buffer <- [c \in Clients |-> IF IsSending(c) THEN NULL ELSE buffer[c]],
  ack_required <- [c \in Clients |-> ack_required[c] \/ IsSending(c)]

\* As long as the client or the server queues what it sends, it makes no
\* difference whether the other one does: with the messages of the calls
\* under way in their queues, every run is one of System, and all that System
\* promises holds.  In particular nobody sees the state a client is in while
\* it sends, with the operation under way in the buffer and the last one
\* still anticipated.
AsQueued == Queued!Spec

\* Every call of the library returns.  doc/scenarios/scenario-tests.md tells
\* what happens without any queue: one ot_client_apply "kicked off a series of
\* calls that actually ended up applying opa to the server and all of the
\* clients".
CallsReturn == stack # <<>> ~> stack = <<>>
=============================================================================
