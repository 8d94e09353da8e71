------------------------------ MODULE ServerDoc -----------------------------
(***************************************************************************)
(* What the server does to its document when it receives an operation      *)
(* (server.c), apart from who is told.                                     *)
(***************************************************************************)
EXTENDS Doc, Xform

(***************************************************************************)
(* The document is what op's author based it on: the hashes are equal.     *)
(***************************************************************************)
can_append(d, op) ==
  IF d.history = <<>> THEN op.parent = ZeroHash
                      ELSE op.parent = d.composed.hash

\* Mutant: the client's operation goes first.
ClientFirst(composed, op) ==
  IF composed = NULL THEN NULL ELSE ot_xform(op, composed)[1]

XformAfter(composed, op) ==
  IF composed = NULL THEN NULL ELSE ot_xform(composed, op)[2]

xform(d, op) == XformAfter(ot_doc_compose_after(d, op.parent), op)

(***************************************************************************)
(* ot_server_receive, on the document d.  A server without a document      *)
(* appends what comes first whatever its parent.  An operation whose       *)
(* parent is unknown, that cannot be transformed or not be appended leaves *)
(* the document as it was, and the error goes to every client.             *)
(***************************************************************************)
append_op(d, op) ==
  IF op = NULL THEN Refused(d, "xform_failed") ELSE ot_doc_append(d, op)

ReceivedOn(d, op) ==
  IF d = NULL THEN append_op(ot_new_doc(0), op)
  ELSE append_op(d, IF can_append(d, op) THEN op ELSE xform(d, op))
=============================================================================
