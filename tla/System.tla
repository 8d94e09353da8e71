------------------------------- MODULE System -------------------------------
(***************************************************************************)
(* One server, its clients and their editors.                              *)
(***************************************************************************)
EXTENDS Client, Server

CONSTANTS
  InitialText,    \* the text of the document everybody opened at the start;
                  \* when it is empty nobody has a document yet
  Edits(_, _, _), \* Edits(c, n, text): what the editor of client c may apply
                  \* to a document with that text as its n-th operation
  MaxEdits        \* bound: operations applied by each editor

ASSUME MaxEditsAssumption == MaxEdits \in Nat

VARIABLES edits   \* the number of operations each editor has applied

vars == <<up, down, clientVars, server_doc, edits>>

OpenedDoc ==
  IF InitialText = <<>> THEN NULL
  ELSE ot_doc_append(ot_new_doc(0),
                     Op(0, ZeroHash, ZeroHash, <<InsertComp(InitialText)>>)).doc

Version0 == IF InitialText = <<>> THEN 0 ELSE 1

Init ==
  /\ up = [c \in Clients |-> <<>>]
  /\ down = [c \in Clients |-> <<>>]
  /\ doc = [c \in Clients |-> OpenedDoc]
  /\ ack_required = [c \in Clients |-> FALSE]
  /\ anticipated = [c \in Clients |-> NULL]
  /\ buffer = [c \in Clients |-> NULL]
  /\ seen = [c \in Clients |-> Version0]
  /\ sentAt = [c \in Clients |-> Version0]
  /\ server_doc = OpenedDoc
  /\ edits = [c \in Clients |-> 0]

TextOf(d) == IF d = NULL THEN <<>> ELSE Text(d)

Edit(c) ==
  /\ edits[c] < MaxEdits
  /\ edits' = [edits EXCEPT ![c] = @ + 1]
  /\ \E comps \in Edits(c, edits[c], TextOf(doc[c])) : ot_client_apply(c, comps)
  /\ UNCHANGED server_doc

ServerStep(c) ==
  /\ ot_server_receive(c)
  /\ UNCHANGED <<clientVars, edits>>

ClientStep(c) ==
  /\ ot_client_receive(c)
  /\ UNCHANGED <<server_doc, edits>>

Next == \E c \in Clients : Edit(c) \/ ServerStep(c) \/ ClientStep(c)

(***************************************************************************)
(* The application delivers what is queued, and a handler takes what is    *)
(* delivered: whenever the oldest message is taken it is by ServerStep or  *)
(* ClientStep, the only ones that shorten a queue.  Nothing makes an       *)
(* editor edit.                                                            *)
(***************************************************************************)
Fairness == \A c \in Clients : WF_up(TakeUp(c)) /\ WF_down(TakeDown(c))

Spec == Init /\ [][Next]_vars
FairSpec == Spec /\ Fairness

-----------------------------------------------------------------------------
(***************************************************************************)
(* What the properties are stated with.                                    *)
(***************************************************************************)
Version == IF server_doc = NULL THEN 0 ELSE Len(server_doc.history)

\* The server's text at a version: the hash of an operation stands for it.
ServerText(n) == IF n = 0 THEN <<>> ELSE server_doc.history[n].hash[1]

After(op, text) == IF op = NULL THEN text ELSE ApplyTo(op.comps, text)

\* Where in its queue client c finds operations of its own.
IsOwn(c, msg) == ~IsError(msg) /\ msg.client_id = c
OwnAt(c) == {i \in 1..Len(down[c]) : IsOwn(c, down[c][i])}

IsOp(msg) == DOMAIN msg = {"client_id", "parent", "hash", "comps"}

Quiet == \A c \in Clients : up[c] = <<>> /\ down[c] = <<>>

-----------------------------------------------------------------------------
\* The type of the control state.  Whatever a client holds back or sends is
\* stamped with its own client_id, through compositions and transformations:
\* an acknowledgment is recognised by nothing else.
TypeOK ==
  /\ ack_required \in [Clients -> BOOLEAN]
  /\ edits \in [Clients -> 0..MaxEdits]
  /\ seen \in [Clients -> Nat]
  /\ sentAt \in [Clients -> Nat]
  /\ Clients = DOMAIN doc /\ Clients = DOMAIN anticipated /\ Clients = DOMAIN buffer
  /\ Clients = DOMAIN up /\ Clients = DOMAIN down
  /\ \A c \in Clients :
       /\ IsSequence(up[c]) /\ IsSequence(down[c])
       /\ \A i \in DOMAIN up[c] : IsOp(up[c][i]) /\ up[c][i].client_id = c
       /\ \A i \in DOMAIN down[c] : IsError(down[c][i]) \/ IsOp(down[c][i])
       /\ anticipated[c] # NULL => anticipated[c].client_id = c
       /\ buffer[c] # NULL => buffer[c].client_id = c

\* A client waits for an acknowledgment exactly while it has an anticipated
\* operation to transform incoming ones against, and buffers only then: an
\* operation of the editor is never left in a buffer nothing will flush.
AckDiscipline ==
  \A c \in Clients :
    /\ ack_required[c] <=> anticipated[c] # NULL
    /\ buffer[c] # NULL => ack_required[c]

\* A client has at most one operation on its way, to the server or back, and
\* none unless it waits for one, so that an acknowledgment can only be meant
\* for the anticipated operation.
OneInFlight ==
  \A c \in Clients :
    /\ Len(up[c]) <= 1
    /\ up[c] # <<>> => ack_required[c] /\ OwnAt(c) = {}
    /\ OwnAt(c) # {} => ack_required[c]
    /\ \A i, j \in OwnAt(c) : i = j

\* The buffer is written against what the anticipated operation makes, and
\* the client's own document is what the last of the two makes.  It holds
\* whatever comes in, also after client and server have parted: so of a client
\* that waits for an acknowledgment, xform_buffer never fails when
\* xform_anticipated did not, and the document takes what they return.  Of one
\* that has nothing pending it says nothing: there both hand on the received
\* operation as it came, and once the two have parted the document may refuse
\* it (ot_client_receive ignores the result).
BufferFollows ==
  \A c \in Clients :
    /\ buffer[c] # NULL =>
         /\ BaseLen(buffer[c].comps) = OutLen(anticipated[c].comps)
         /\ OutLen(buffer[c].comps) = Len(TextOf(doc[c]))
    /\ anticipated[c] # NULL /\ buffer[c] = NULL =>
         OutLen(anticipated[c].comps) = Len(TextOf(doc[c]))

\* What the client made of its document is what the server had when the
\* client last heard from it, then the anticipated operation, then the
\* buffer, and each of these spans the text it comes after.
Bridge ==
  \A c \in Clients :
    LET base == ServerText(seen[c])
        sent == After(anticipated[c], base)
    IN  /\ anticipated[c] # NULL => BaseLen(anticipated[c].comps) = Len(base)
        /\ buffer[c] # NULL => BaseLen(buffer[c].comps) = Len(sent)
        /\ TextOf(doc[c]) = After(buffer[c], sent)

\* An acknowledged operation is the one the client anticipated: the server,
\* transforming it once against the composition of what it missed, made the
\* same of it as the client, transforming it step by step.
AckedAsAnticipated ==
  \A c \in Clients :
    down[c] # <<>> /\ IsOwn(c, Head(down[c])) =>
      Head(down[c]).comps = anticipated[c].comps

\* When every message was delivered, all of the clients and the server have
\* converged on the same document and no client waits for anything.
Converged ==
  Quiet => \A c \in Clients : TextOf(doc[c]) = TextOf(server_doc) /\ ~ack_required[c]

\* A version is named by the hash of its text, and texts come back.  Whatever
\* version the server finds under the parent of an operation, its composed one
\* (can_append) or the newest of the history (ot_doc_compose_after), it makes of
\* the operation what it had made of it knowing the version it was sent at.
ByVersion(op, version) ==
  IF version = Version THEN op
  ELSE XformAfter(ComposeFrom(server_doc.history, version + 1), op)

HashFindsTheVersion ==
  \A c \in Clients :
    up[c] # <<>> /\ server_doc # NULL =>
      LET op == Head(up[c])
          r == Received(op)
      IN  r.err = "none" /\ r.op.comps = ByVersion(op, sentAt[c]).comps

\* The system implements TotalOrder: every operation the server appended to
\* its history reaches every client, the author included, once and in the
\* order of the history, whatever errors and refusals come in between.
Authors ==
  [n \in 1..Version |-> server_doc.history[n].client_id]

Stage ==
  [c \in Clients |-> CASE ~ack_required[c] -> "idle"
                       [] ack_required[c] /\ up[c] # <<>> -> "requested"
                       [] ack_required[c] /\ up[c] = <<>> /\ OwnAt(c) # {} -> "granted"
                       [] OTHER -> "lost"]

Ordered == INSTANCE TotalOrder WITH log <- Authors, known <- seen, stage <- Stage
ServedInOrder == Ordered!Spec

\* The search of ot_doc_compose_after never starts behind the last operation,
\* where the code would read past the end of the history.
CallersStayInRange ==
  \A c \in Clients :
    up[c] # <<>> /\ server_doc # NULL /\ ~can_append(server_doc, Head(up[c])) =>
      Head(up[c]).parent # Last(server_doc.history).hash

\* Every operation is acknowledged in the end.
EventuallyAcknowledged ==
  \A c \in Clients : ack_required[c] ~> ~ack_required[c]
=============================================================================
