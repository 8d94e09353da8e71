------------------------------- MODULE Editor -------------------------------
(***************************************************************************)
(* The editors and the events the clients fire at them.  An editor shows a *)
(* text of its own: it changes it itself when its user types, and by the   *)
(* operation that comes with OT_OP_APPLIED, and never asks the client for  *)
(* its document (doc/getting-started.md).                                  *)
(***************************************************************************)
EXTENDS System

VARIABLES
  shown,     \* shown[c]: the text in the editor of client c
  dangling   \* dangling[c]: it was given an operation that had been freed

editorVars == <<vars, shown, dangling>>

EditorInit ==
  /\ Init
  /\ shown = [c \in Clients |-> InitialText]
  /\ dangling = [c \in Clients |-> FALSE]

(***************************************************************************)
(* The user types, on what the editor shows.  The editor passes it to      *)
(* ot_client_apply and cares for no error.  What an editor shows that was  *)
(* given an operation that had been freed nobody knows; it is taken to     *)
(* have ignored it, or to have fetched the document after all.             *)
(***************************************************************************)
Shows(c) == IF dangling[c] THEN {shown[c], TextOf(doc[c])} ELSE {shown[c]}

Type(c) ==
  /\ edits[c] < MaxEdits
  /\ edits' = [edits EXCEPT ![c] = @ + 1]
  /\ \E text \in Shows(c) : \E comps \in Edits(c, edits[c], text) :
       /\ ot_client_apply(c, comps)
       /\ shown' = [shown EXCEPT ![c] = ApplyTo(comps, text)]
  /\ UNCHANGED <<server_doc, dangling>>

(***************************************************************************)
(* The events of ot_client_receive.  An acknowledgment fires none, an      *)
(* error fires OT_ERROR.  Somebody else's operation fires OT_OP_INCOMING   *)
(* and then, in the same call, OT_ERROR when a transformation fails or     *)
(* OT_OP_APPLIED after append_op, whose error is not looked at: when the   *)
(* append fails append_op has freed the operation that comes with the      *)
(* event.                                                                  *)
(***************************************************************************)
\* Mutant: the event comes with the operation as it was before the buffer.
AppliedBeforeBuffer(c, received) == xform_anticipated(c, received)[1]

Applied(c, received) == xform_buffer(c, xform_anticipated(c, received)[1])[2]

NoEvents == UNCHANGED <<shown, dangling>>

EventsOf(c, received) ==
  \E op \in {Applied(c, received)} :
    \/ /\ op = NULL                                           \* OT_ERROR
       /\ NoEvents
    \/ /\ op # NULL                                           \* OT_OP_APPLIED
       /\ ot_doc_append(Opened(doc[c]), op).err = "none"
       /\ shown' = [shown EXCEPT ![c] = ApplyTo(op.comps, @)]
       /\ UNCHANGED dangling
    \/ /\ op # NULL                                           \* with a freed op
       /\ ot_doc_append(Opened(doc[c]), op).err # "none"
       /\ dangling' = [dangling EXCEPT ![c] = TRUE]
       /\ UNCHANGED shown

EditorStep(c) ==
  /\ ClientStep(c)
  /\ \/ /\ IsError(Head(down[c])) \/ IsOwn(c, Head(down[c]))
        /\ NoEvents
     \/ /\ ~IsError(Head(down[c])) /\ ~IsOwn(c, Head(down[c]))
        /\ EventsOf(c, Head(down[c]))

EditorNext ==
  \E c \in Clients : Type(c) \/ EditorStep(c) \/ (ServerStep(c) /\ NoEvents)

EditorSpec == EditorInit /\ [][EditorNext]_editorVars

-----------------------------------------------------------------------------
\* "The editor and libot client must stay in sync at all times": the events
\* are all an editor needs for that, in every interleaving of its own typing
\* with what comes in, and also when the client and the server have parted.
InSync == \A c \in Clients : ~dangling[c] => shown[c] = TextOf(doc[c])
=============================================================================
