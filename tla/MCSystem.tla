------------------------------ MODULE MCSystem ------------------------------
(***************************************************************************)
(* Editors for the system: one character inserted or deleted at a time, at *)
(* any place of the text the editor shows.                                 *)
(***************************************************************************)
EXTENDS System

MCClients2 == {1, 2}
MCClients3 == {1, 2, 3}
MCText1 == <<91>>
MCText2 == <<91, 92>>
MCNoText == <<>>

InsertAt1(i, ch, text) ==
  ot_skip(ot_insert(ot_skip(<<>>, i), <<ch>>), Len(text) - i)
DeleteAt(i, text) == ot_skip(ot_delete(ot_skip(<<>>, i), 1), Len(text) - i - 1)

Inserts(ch, text) == {InsertAt1(i, ch, text) : i \in 0..Len(text)}
Deletes(text) == {DeleteAt(i, text) : i \in 0..(Len(text) - 1)}

\* Every insert brings a character no text has had before.
Fresh(c, n) == 10 * c + n
FreshInserts(c, n, text) == Inserts(Fresh(c, n), text)
FreshMixed(c, n, text) == FreshInserts(c, n, text) \cup Deletes(text)

\* Client 1 inserts twice, the others once.
UnevenInserts(c, n, text) == IF c = 1 \/ n = 0 THEN FreshInserts(c, n, text) ELSE {}

\* Inserts bring fresh characters and deletes take characters of the initial
\* text only, so that no text comes twice.
Originals(text) == {DeleteAt(i - 1, text) : i \in {j \in 1..Len(text) : text[j] \in ToSet(InitialText)}}
FreshOrOriginal(c, n, text) == FreshInserts(c, n, text) \cup Originals(text)

\* Client 1 deletes a character or types the last one of the initial text,
\* perhaps again; the others delete.
Retyped(c, n, text) ==
  Deletes(text) \cup IF c = 1 THEN Inserts(Last(InitialText), text) ELSE {}

\* The same, but client 2 edits no more than twice and gets it wrong: its
\* operation may also be one character too long.
Careless(c, n, text) ==
  IF c = 1 THEN Retyped(c, n, text)
  ELSE IF n < 2 THEN Deletes(text) \cup {ot_skip(<<>>, Len(text) + 1)}
  ELSE {}

\* While an operation waits for the server, the server takes one other, or
\* others that the operation is not tied with in any order: it inserts nothing,
\* or none of them deletes, or none of them inserts.
Has(type, op) == type \in {comp.type : comp \in ToSet(op.comps)}

Untied(op, missed) ==
  \/ Len(missed) <= 1
  \/ ~Has("insert", op)
  \/ \A i \in DOMAIN missed : ~Has("delete", missed[i])
  \/ \A i \in DOMAIN missed : ~Has("insert", missed[i])

UntiedBound ==
  \A c \in Clients :
    up'[c] # <<>> /\ server_doc' # NULL =>
      Untied(Head(up'[c]), SubSeq(server_doc'.history, sentAt'[c] + 1, Version'))
UntiedSpec == Init /\ [][Next /\ UntiedBound]_vars
=============================================================================
