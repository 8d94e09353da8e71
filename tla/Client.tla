------------------------------- MODULE Client -------------------------------
(***************************************************************************)
(* The clients (client.c).  A client applies the editor's operations to    *)
(* its document at once, has at most one operation on its way to the       *)
(* server (anticipated) and collects what the editor does meanwhile in     *)
(* another (buffer), and transforms both when somebody else's operation    *)
(* comes in.                                                               *)
(*                                                                         *)
(* The handlers run to completion.  An editor that applies an operation    *)
(* from inside an event callback (doc/getting-started.md asks for that on  *)
(* OT_OP_INCOMING) does so before the handler has touched the client, so   *)
(* it is the same as applying it just before the message arrived.          *)
(***************************************************************************)
EXTENDS Doc, Xform, Transport

VARIABLES
  doc, ack_required, anticipated, buffer,   \* the fields of ot_client
  seen,      \* history variable: the version of the server's document that
             \* the messages received so far amount to
  sentAt     \* history variable: that version when the last operation was sent

clientVars == <<doc, ack_required, anticipated, buffer, seen, sentAt>>

Opened(d) == IF d = NULL THEN ot_new_doc(0) ELSE d

(***************************************************************************)
(* send_buffer with something to send: op goes to the server based on      *)
(* parent, a copy of it becomes the anticipated operation, and the buffer  *)
(* is left empty.                                                          *)
(***************************************************************************)
\* Mutants: the client does not note that it waits; the operation keeps the
\* parent it had in the client's own document.
ForgetToWait(c, op, parent, version) ==
  LET msg == Op(op.client_id, parent, op.hash, op.comps)
  IN  /\ up' = [up EXCEPT ![c] = Append(@, msg)]
      /\ anticipated' = [anticipated EXCEPT ![c] = ot_dup_op(msg)]
      /\ buffer' = [buffer EXCEPT ![c] = NULL]
      /\ sentAt' = [sentAt EXCEPT ![c] = version]
      /\ UNCHANGED ack_required
OwnParent(c, op, parent, version) ==
  /\ up' = [up EXCEPT ![c] = Append(@, op)]
  /\ anticipated' = [anticipated EXCEPT ![c] = ot_dup_op(op)]
  /\ buffer' = [buffer EXCEPT ![c] = NULL]
  /\ ack_required' = [ack_required EXCEPT ![c] = TRUE]
  /\ sentAt' = [sentAt EXCEPT ![c] = version]

send_buffer(c, op, parent, version) ==
  LET msg == Op(op.client_id, parent, op.hash, op.comps)
  IN  /\ up' = [up EXCEPT ![c] = Append(@, msg)]
      /\ anticipated' = [anticipated EXCEPT ![c] = ot_dup_op(msg)]
      /\ buffer' = [buffer EXCEPT ![c] = NULL]
      /\ ack_required' = [ack_required EXCEPT ![c] = TRUE]
      /\ sentAt' = [sentAt EXCEPT ![c] = version]

(***************************************************************************)
(* ot_client_apply: append to the document, buffer, and send unless an     *)
(* acknowledgment is outstanding.  What does not span the document is      *)
(* refused, and what does not compose with the buffer is applied but       *)
(* neither buffered nor sent.                                              *)
(***************************************************************************)
\* Mutant: the operation replaces the buffer.
Replaced(c, r) == IF r.err # "none" THEN NULL ELSE r.op

Buffered(c, r) ==
  IF r.err # "none" THEN NULL
  ELSE IF buffer[c] = NULL THEN ot_dup_op(r.op)
  ELSE ot_compose(buffer[c], r.op)

ot_client_apply(c, comps) ==
  \E r \in {ot_doc_append(Opened(doc[c]), Op(c, ZeroHash, ZeroHash, comps))} :
  \E buffered \in {Buffered(c, r)} :
    /\ doc' = [doc EXCEPT ![c] = r.doc]
    /\ UNCHANGED <<down, seen>>
    /\ \/ /\ buffered = NULL
          /\ UNCHANGED <<up, ack_required, anticipated, buffer, sentAt>>
       \/ /\ buffered # NULL
          /\ ack_required[c]
          /\ buffer' = [buffer EXCEPT ![c] = buffered]
          /\ UNCHANGED <<up, ack_required, anticipated, sentAt>>
       \/ /\ buffered # NULL
          /\ ~ack_required[c]
          /\ send_buffer(c, buffered, buffered.parent, seen[c])

(***************************************************************************)
(* ot_client_receive, its three cases: an error, the acknowledgment of the *)
(* client's own operation, an operation of somebody else.                  *)
(***************************************************************************)
ReceiveError(c) ==
  /\ TakeDown(c)
  /\ IsError(Head(down[c]))
  /\ UNCHANGED <<up, doc, ack_required, anticipated, buffer, seen, sentAt>>

ReceiveAck(c) ==
  /\ TakeDown(c)
  /\ ~IsError(Head(down[c]))
  /\ Head(down[c]).client_id = c
  /\ seen' = [seen EXCEPT ![c] = @ + 1]
  /\ UNCHANGED doc
  /\ \/ /\ buffer[c] = NULL
        /\ ack_required' = [ack_required EXCEPT ![c] = FALSE]
        /\ anticipated' = [anticipated EXCEPT ![c] = NULL]
        /\ UNCHANGED <<up, buffer, sentAt>>
     \/ /\ buffer[c] # NULL
        /\ send_buffer(c, buffer[c], Head(down[c]).hash, seen[c] + 1)

(***************************************************************************)
(* xform_anticipated and xform_buffer.  The received operation is          *)
(* transformed against the anticipated one, what comes out of that against *)
(* the buffer, and what comes out of that is appended to the document (the *)
(* result of the append is ignored).  A transformation that fails ends the *)
(* handler, but what the first one changed stays changed; BufferFollows in *)
(* System says of a client that waits that the second one never fails when *)
(* the first did not.                                                      *)
(***************************************************************************)
OrElse(pair, failed) == IF NULL \in {pair[1], pair[2]} THEN failed ELSE pair

\* Mutants: the anticipated operation is freed and not replaced; it is kept as
\* it was.
DropAnticipated(c, received) ==
  IF anticipated[c] = NULL THEN <<received, NULL>>
  ELSE <<ot_xform(received, anticipated[c])[1], NULL>>
KeepAnticipated(c, received) ==
  IF anticipated[c] = NULL THEN <<received, NULL>>
  ELSE <<ot_xform(received, anticipated[c])[1], anticipated[c]>>

xform_anticipated(c, received) ==   \* <<inter, the anticipated operation>>
  IF anticipated[c] = NULL THEN <<received, NULL>>
  ELSE OrElse(ot_xform(received, anticipated[c]), <<NULL, anticipated[c]>>)

\* Mutants: the buffer is not transformed; the primes are taken the other way
\* round.
KeepBuffer(c, inter) == <<buffer[c], inter>>
SwapPrimes(c, inter) ==
  IF buffer[c] = NULL \/ inter = NULL THEN <<buffer[c], inter>>
  ELSE OrElse(ot_xform(inter, buffer[c]), <<buffer[c], NULL>>)

xform_buffer(c, inter) ==           \* <<the buffer, apply>>
  IF buffer[c] = NULL \/ inter = NULL THEN <<buffer[c], inter>>
  ELSE OrElse(ot_xform(buffer[c], inter), <<buffer[c], NULL>>)

Incoming(c, received) ==
  \E first \in {xform_anticipated(c, received)} :
  \E second \in {xform_buffer(c, first[1])} :
    /\ anticipated' = [anticipated EXCEPT ![c] = first[2]]
    /\ buffer' = [buffer EXCEPT ![c] = second[1]]
    /\ \/ /\ second[2] = NULL
          /\ UNCHANGED doc
       \/ /\ second[2] # NULL
          /\ doc' = [doc EXCEPT ![c] = ot_doc_append(Opened(doc[c]), second[2]).doc]

ReceiveOp(c) ==
  /\ TakeDown(c)
  /\ ~IsError(Head(down[c]))
  /\ Head(down[c]).client_id # c
  /\ seen' = [seen EXCEPT ![c] = @ + 1]
  /\ UNCHANGED <<up, ack_required, sentAt>>
  /\ Incoming(c, Head(down[c]))

ot_client_receive(c) == ReceiveError(c) \/ ReceiveAck(c) \/ ReceiveOp(c)
=============================================================================
