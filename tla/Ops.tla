-------------------------------- MODULE Ops --------------------------------
(***************************************************************************)
(* Operations of libot (ot.c): their components, the builders that append  *)
(* a component, the iterator that walks them, and what an operation does   *)
(* to a text.  A text is a sequence of characters; a character is any      *)
(* value, so one code point of the UTF-8 text is one element.              *)
(*                                                                         *)
(* Elements and formatting boundaries can be put into an operation, copied, *)
(* compared and (elements) sent, but what they mean is not implemented:    *)
(* ot_xform and ot_compose have no case for them, or an empty one.         *)
(***************************************************************************)
EXTENDS Integers, Sequences, SequencesExt

(***************************************************************************)
(* The C NULL pointer, distinct from every operation and every message.    *)
(***************************************************************************)
NULL == [null |-> TRUE]

(***************************************************************************)
(* A hash is the SHA1 of a snapshot.  It is modelled as an injective       *)
(* function of the text (no SHA1 collisions), and all-zero bytes as a      *)
(* value no text hashes to.  Equal texts have equal hashes, however and    *)
(* whenever they came about.                                               *)
(***************************************************************************)
ZeroHash == <<>>
HashOf(text) == <<text>>

(***************************************************************************)
(* Components and operations.                                              *)
(***************************************************************************)
SkipComp(n) == [type |-> "skip", count |-> n]
InsertComp(text) == [type |-> "insert", text |-> text]
DeleteComp(n) == [type |-> "delete", count |-> n]
OpenComp(elem) == [type |-> "openElement", elem |-> elem]
CloseComp == [type |-> "closeElement"]
FmtComp(start, end) == [type |-> "formattingBoundary", start |-> start, end |-> end]

Stubs == {"openElement", "closeElement", "formattingBoundary"}

\* What a component holds: a count, a text, or what is said of an element.
IsSequence(s) == s \in Seq({s[i] : i \in DOMAIN s})
IsComponent(c) ==
  \/ c.type \in {"skip", "delete"} /\ c \in [type : {c.type}, count : Nat]
  \/ c.type = "insert" /\ c = InsertComp(c.text) /\ IsSequence(c.text)
  \/ c.type = "openElement" /\ c = OpenComp(c.elem)
  \/ c.type = "closeElement" /\ c = CloseComp
  \/ c.type = "formattingBoundary" /\ c = FmtComp(c.start, c.end)
IsOperation(comps) ==
  IsSequence(comps) /\ \A i \in 1..Len(comps) : IsComponent(comps[i])

Op(client_id, parent, hash, comps) ==
  [client_id |-> client_id, parent |-> parent, hash |-> hash, comps |-> comps]

(***************************************************************************)
(* The size of an element is -1 in the code.  Nobody asks for it: no loop  *)
(* ever moves an iterator over one.                                        *)
(***************************************************************************)
ot_comp_size(comp) == IF comp.type = "insert" THEN Len(comp.text) ELSE comp.count

(***************************************************************************)
(* The builders.  A component of the same type as the last one is merged   *)
(* into it; a skip or a delete of zero characters is dropped, an insert of *)
(* the empty text is not.                                                  *)
(***************************************************************************)
\* Mutant: the new text goes in front.
MergeInFront(c, d) ==
  IF c.type = "insert" THEN [c EXCEPT !.text = d.text \o @]
                       ELSE [c EXCEPT !.count = @ + d.count]

Merge(c, d) ==
  IF c.type = "insert" THEN [c EXCEPT !.text = @ \o d.text]
                       ELSE [c EXCEPT !.count = @ + d.count]

AppendComp(comps, comp) ==
  IF comps # <<>> /\ Last(comps).type = comp.type
    THEN Append(Front(comps), Merge(Last(comps), comp))
    ELSE Append(comps, comp)

ot_skip(comps, n) == IF n = 0 THEN comps ELSE AppendComp(comps, SkipComp(n))
ot_insert(comps, text) == AppendComp(comps, InsertComp(text))
ot_delete(comps, n) == IF n = 0 THEN comps ELSE AppendComp(comps, DeleteComp(n))

ot_open_element(comps, elem) == Append(comps, OpenComp(elem))
ot_close_element(comps) == Append(comps, CloseComp)

(***************************************************************************)
(* ot_dup_op builds the operation again, component by component: counts of *)
(* zero are dropped, neighbours of one type merged, and formatting         *)
(* boundaries left out.                                                    *)
(***************************************************************************)
\* Mutant: elements are left out too.
RebuiltWithoutElements(list, c) ==
  CASE c.type = "skip" -> ot_skip(list, c.count)
    [] c.type = "insert" -> ot_insert(list, c.text)
    [] c.type = "delete" -> ot_delete(list, c.count)
    [] OTHER -> list

Rebuilt(list, c) ==
  CASE c.type = "skip" -> ot_skip(list, c.count)
    [] c.type = "insert" -> ot_insert(list, c.text)
    [] c.type = "delete" -> ot_delete(list, c.count)
    [] c.type = "openElement" -> ot_open_element(list, c.elem)
    [] c.type = "closeElement" -> ot_close_element(list)
    [] c.type = "formattingBoundary" -> list

ot_dup_op(op) ==
  Op(op.client_id, op.parent, op.hash, FoldLeft(Rebuilt, <<>>, op.comps))

(***************************************************************************)
(* The text an operation inserts, in order: the document itself when the   *)
(* operation is the composition of the whole history.                      *)
(***************************************************************************)
ot_snapshot(comps) ==
  FoldLeft(LAMBDA text, c : IF c.type = "insert" THEN text \o c.text ELSE text,
           <<>>, comps)

(***************************************************************************)
(* The iterator.  pos and offset are the fields of ot_iter; next is the    *)
(* boolean the last ot_iter_next or ot_iter_skip returned, FALSE once the  *)
(* operation is exhausted.  The loop of ot_iter_skip runs once when it is  *)
(* asked for no more than what is left of the current component, which is  *)
(* all its callers ask for (see Aligned in Loops);                         *)
(* a skip of zero leaves the iterator alone.                               *)
(***************************************************************************)
ot_iter_next(comps) == [pos |-> 1, offset |-> 0, next |-> comps # <<>>]

\* Mutant: a skip of zero passes a component of size zero.
SkipPassesEmpty(comps, it, n) ==
  IF it.offset + n < ot_comp_size(comps[it.pos])
    THEN [it EXCEPT !.offset = @ + n]
  ELSE IF it.pos < Len(comps)
    THEN [it EXCEPT !.pos = @ + 1, !.offset = 0]
  ELSE [it EXCEPT !.next = FALSE]

ot_iter_skip(comps, it, n) ==
  IF n = 0 THEN it
  ELSE IF it.offset + n < ot_comp_size(comps[it.pos])
    THEN [it EXCEPT !.offset = @ + n]
  ELSE IF it.pos < Len(comps)
    THEN [it EXCEPT !.pos = @ + 1, !.offset = 0]
  ELSE [it EXCEPT !.next = FALSE]

(***************************************************************************)
(* What the loops of ot_xform and ot_compose look at: the type of the      *)
(* current component ("end" for the NULL component), how much of it is     *)
(* left, and what is left of its text.                                     *)
(***************************************************************************)
Kind(comps, it) == IF it.next THEN comps[it.pos].type ELSE "end"
Left(comps, it) == ot_comp_size(comps[it.pos]) - it.offset
LeftText(comps, it) ==
  SubSeq(comps[it.pos].text, it.offset + 1, Len(comps[it.pos].text))

Least(m, n) == IF m < n THEN m ELSE n

-----------------------------------------------------------------------------
(***************************************************************************)
(* The reference meaning of an operation, written without iterators: how   *)
(* long a text it spans, and the text it makes of one it spans.  Elements  *)
(* span nothing.                                                           *)
(***************************************************************************)
SumOf(comps, size(_)) == FoldLeft(LAMBDA n, c : n + size(c), 0, comps)

SizeIf(comps, types) ==
  SumOf(comps, LAMBDA c : IF c.type \in types THEN ot_comp_size(c) ELSE 0)

BaseLen(comps) == SizeIf(comps, {"skip", "delete"})
OutLen(comps) == SizeIf(comps, {"skip", "insert"})
Volume(comps) == SizeIf(comps, {"skip", "insert", "delete"})

\* How far the text has been read and what has been made of it.
Taken(s, c, text) ==
  CASE c.type = "skip" ->
         [out |-> s.out \o SubSeq(text, s.at + 1, Least(s.at + c.count, Len(text))),
          at |-> s.at + c.count]
    [] c.type = "insert" -> [s EXCEPT !.out = @ \o c.text]
    [] c.type = "delete" -> [s EXCEPT !.at = @ + c.count]
    [] c.type \in Stubs -> s

Reading(comps, text) ==
  FoldLeft(LAMBDA s, c : Taken(s, c, text), [out |-> <<>>, at |-> 0], comps)

ApplyTo(comps, text) == Reading(comps, text).out

(***************************************************************************)
(* The part of an operation in front of an iterator: the components before *)
(* the current one and the piece of the current one that was consumed.     *)
(***************************************************************************)
Piece(c, n) ==
  CASE c.type = "skip" -> SkipComp(n)
    [] c.type = "insert" -> InsertComp(SubSeq(c.text, 1, n))
    [] c.type = "delete" -> DeleteComp(n)
    [] c.type \in Stubs -> c

Consumed(comps, it) ==
  IF it.next
    THEN Append(SubSeq(comps, 1, it.pos - 1), Piece(comps[it.pos], it.offset))
    ELSE comps

\* The components an iterator has behind it, and where it may stand.
Finished(comps, it) == IF it.next THEN it.pos - 1 ELSE Len(comps)
Inside(comps, it) ==
  it.pos \in 1..Len(comps) /\ it.offset \in 0..(ot_comp_size(comps[it.pos]) - 1)

(***************************************************************************)
(* What the builders maintain when no empty text is inserted: every        *)
(* component has a positive size and no two neighbours have the same type. *)
(***************************************************************************)
IsEmpty(comp) == comp.type \notin Stubs /\ ot_comp_size(comp) = 0

\* The loops pass neither a component of size zero nor an element.
Passable(comps) ==
  \A i \in 1..Len(comps) : comps[i].type \notin Stubs /\ ~IsEmpty(comps[i])

IsNormal(comps) ==
  /\ \A i \in 1..Len(comps) : ~IsEmpty(comps[i])
  /\ \A i \in 1..(Len(comps) - 1) : comps[i].type # comps[i + 1].type
=============================================================================
