------------------------------ MODULE Session ------------------------------
(***************************************************************************)
(* Clients that join while others edit.  The application connects a client *)
(* to the server: from then on it gets what the server sends, and it is    *)
(* given the document, as ot_encode_doc wrote it at that moment.  Later it *)
(* decodes that document and opens it (ot_client_open); what was sent      *)
(* meanwhile waits in its queue.  A server that has no document yet has    *)
(* nothing to encode, and the client opens none, as those who were there   *)
(* from the start.                                                         *)
(***************************************************************************)
EXTENDS System

CONSTANTS Founders   \* the clients connected from the start

ASSUME FoundersAssumption == Founders \subseteq Clients

VARIABLES
  phase,    \* phase[c]: "outside", "connected" or "inside" once it has opened
  letter    \* letter[c]: the encoded document on its way to a client

sessionVars == <<vars, phase, letter>>

SessionInit ==
  /\ Init
  /\ phase = [c \in Clients |-> IF c \in Founders THEN "inside" ELSE "outside"]
  /\ letter = [c \in Clients |-> <<>>]

-----------------------------------------------------------------------------
(***************************************************************************)
(* Nothing the server sent before goes to the new client.                  *)
(***************************************************************************)
Connect(c) ==
  /\ phase[c] = "outside"
  /\ phase' = [phase EXCEPT ![c] = "connected"]
  /\ letter' = [letter EXCEPT
                  ![c] = IF server_doc = NULL THEN <<>> ELSE ot_encode_doc(server_doc)]
  /\ down' = [down EXCEPT ![c] = <<>>]
  /\ UNCHANGED <<up, clientVars, server_doc, edits>>

Opening(history) ==
  IF history = <<>> THEN NULL ELSE ot_decode_doc(ot_new_doc(0), history).doc

Join(c) ==
  /\ phase[c] = "connected"
  /\ phase' = [phase EXCEPT ![c] = "inside"]
  /\ doc' = [doc EXCEPT ![c] = Opening(letter[c])]
  /\ seen' = [seen EXCEPT ![c] = Len(letter[c])]
  /\ letter' = [letter EXCEPT ![c] = <<>>]
  /\ UNCHANGED <<up, down, ack_required, anticipated, buffer, sentAt, server_doc, edits>>

InsideStep(c) ==
  /\ phase[c] = "inside"
  /\ Edit(c) \/ ServerStep(c) \/ ClientStep(c)
  /\ UNCHANGED <<phase, letter>>

SessionNext == \E c \in Clients : Connect(c) \/ Join(c) \/ InsideStep(c)

(***************************************************************************)
(* The application delivers what is queued to those who are inside.        *)
(***************************************************************************)
Delivers(c) == phase[c] = "inside" /\ TakeDown(c)
SessionFairness ==
  \A c \in Clients : WF_up(TakeUp(c)) /\ WF_down(Delivers(c))

SessionSpec == SessionInit /\ [][SessionNext]_sessionVars
SessionFairSpec == SessionSpec /\ SessionFairness

-----------------------------------------------------------------------------
\* Whoever has nothing under way and nothing to receive has the server's
\* document and waits for nothing, whether it was there from the start or
\* joined in the middle of operations that were then being transformed.
InsidersConverge ==
  \A c \in Clients :
    phase[c] = "inside" /\ up[c] = <<>> /\ down[c] = <<>> =>
      TextOf(doc[c]) = TextOf(server_doc) /\ ~ack_required[c]
=============================================================================
