---------------------------- MODULE ServerAlone ----------------------------
(***************************************************************************)
(* The server by itself, whatever it is sent: operations based on any      *)
(* version or on none, that fit or not, or that no builder would have      *)
(* made; on any document it may have been opened with.                    *)
(* A follower holds a document of its own and does nothing but receive, as *)
(* ot_client_receive has it for a client that has nothing under way.       *)
(***************************************************************************)
EXTENDS ServerDoc

CONSTANTS
  Openings,     \* the documents ot_server_open may have been given, or NULL
  Comps,        \* the components of operations sent to the server
  MaxHistory    \* bound: the number of operations in the history

\* A document that has a history has a composition.
IsDocument(d) ==
  /\ DOMAIN d = {"history", "composed", "size", "max_size"}
  /\ d.composed = NULL => d.history = <<>>

\* A document as ot_doc_append leaves it: the composition has the hash of the
\* last operation, is the first operation as long as that is the only one, and
\* of several operations ot_compose could pass every one, since its loop has
\* come to an end.
IsWritten(d) ==
  /\ IsSequence(d.history)
  /\ \A op \in ToSet(d.history) : IsOperation(op.comps)
  /\ d.history # <<>> =>
       /\ IsOperation(d.composed.comps)
       /\ d.composed.hash = Last(d.history).hash
  /\ Len(d.history) = 1 => d.composed.comps = d.history[1].comps
  /\ Len(d.history) > 1 =>
       /\ Passable(d.composed.comps)
       /\ \A op \in ToSet(d.history) : Passable(op.comps)

ASSUME OpeningsAssumption ==
  \A d \in Openings : d = NULL \/ (IsDocument(d) /\ IsWritten(d))
ASSUME CompsAssumption == \A comps \in Comps : IsOperation(comps)

VARIABLES
  server_doc,
  follower,     \* the follower's document
  status,       \* "ready", "crashed" on a NULL pointer or "stuck" in a loop
  message       \* the operation that stopped the server, NULL while it runs

vars == <<server_doc, follower, status, message>>

Document == IF server_doc = NULL THEN ot_new_doc(0) ELSE server_doc

Init ==
  /\ server_doc \in Openings
  /\ follower = [Document EXCEPT !.max_size = 0]
  /\ status = "ready"
  /\ message = NULL

(***************************************************************************)
(* What ot_server_receive gives to append_op, NULL when it is never called *)
(* because the transformation failed.                                      *)
(***************************************************************************)
Candidate(op) ==
  IF server_doc = NULL \/ can_append(server_doc, op) THEN op
                                                       ELSE xform(server_doc, op)

(***************************************************************************)
(* The loops that may not end: that of ot_xform against what happened      *)
(* since the operation's parent, that of ot_compose in ot_doc_append.      *)
(* Those of ot_compose in ot_doc_compose_after end: a document of several  *)
(* operations has nothing in it that cannot be passed.                     *)
(***************************************************************************)
XformSticks(op) ==
  /\ server_doc # NULL
  /\ ~can_append(server_doc, op)
  /\ \E since \in {ot_doc_compose_after(server_doc, op.parent)} :
       since # NULL /\ XformRunning(XformComps(since.comps, op.comps))

AppendSticks(op) ==
  /\ Document.history # <<>>
  /\ ~Exceeds(Document, op)
  /\ ComposeRunning(ComposeComps(Document.composed.comps, op.comps))

Sticks(op) ==
  \/ XformSticks(op)
  \/ \E candidate \in {Candidate(op)} : candidate # NULL /\ AppendSticks(candidate)

(***************************************************************************)
(* When the document refuses an operation, append_op encodes the document  *)
(* for the log, and an empty document has no composition to encode.        *)
(***************************************************************************)
Crashes(op, r) == Candidate(op) # NULL /\ r.err # "none" /\ r.doc.composed = NULL

Stops(why, op) ==
  /\ status' = why
  /\ message' = op
  /\ UNCHANGED <<server_doc, follower>>

Follows(op) == follower' = ot_doc_append(follower, op).doc

ReceiveOp(op) ==
  /\ status = "ready"
  /\ \/ Sticks(op) /\ Stops("stuck", op)
     \/ /\ ~Sticks(op)
        /\ \E r \in {ReceivedOn(server_doc, op)} :
             \/ Crashes(op, r) /\ Stops("crashed", op)
             \/ /\ ~Crashes(op, r)
                /\ server_doc' = r.doc
                /\ \/ r.err = "none" /\ Follows(r.op)
                   \/ r.err # "none" /\ UNCHANGED follower
                /\ UNCHANGED <<status, message>>

Unknown == HashOf(<<"never">>)
Parents == {ZeroHash, Unknown} \cup {op.hash : op \in ToSet(Document.history)}

Next ==
  /\ Len(Document.history) < MaxHistory
  /\ \E comps \in Comps, parent \in Parents :
       ReceiveOp(Op(1, parent, ZeroHash, comps))

Spec == Init /\ [][Next]_vars

-----------------------------------------------------------------------------
\* What the server broadcasts is all it takes to have its document: the
\* follower's is the same, operation for operation and hash for hash, whatever
\* was refused in between and whichever version the operations came from.
FollowerHasTheDocument ==
  /\ follower.history = Document.history
  /\ follower.composed = Document.composed

\* The server gets stuck only on a component of size zero or an element, in
\* the message or in the one operation its document consists of: once it has
\* taken a second operation, no operation without such a component stops it.
\* It need not get stuck on such a first operation: what ot_xform walks over is
\* a copy of it (ot_dup_op) that has lost its counts of zero.
SticksOnlyOnEmpty ==
  status = "stuck" =>
    \/ ~Passable(message.comps)
    \/ Len(Document.history) = 1 /\ ~Passable(Document.history[1].comps)

\* It crashes only on the first operation of a document with a maximum size.
CrashesOnlyEmptyAndLimited ==
  status = "crashed" => Document.history = <<>> /\ Document.max_size > 0
===========================================================================
