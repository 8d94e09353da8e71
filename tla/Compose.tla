------------------------------ MODULE Compose ------------------------------
(***************************************************************************)
(* ot_compose (compose.c): one operation that does what op1 followed by    *)
(* op2 does.  op2 is written against the text op1 makes.                   *)
(***************************************************************************)
EXTENDS Ops

ComposeStart(op1, op2) ==
  [it1 |-> ot_iter_next(op1), it2 |-> ot_iter_next(op2),
   composed |-> <<>>, failed |-> FALSE]

ComposeRunning(s) == ~s.failed /\ (s.it1.next \/ s.it2.next)

(***************************************************************************)
(* A delete of op1 is over text op2 never saw: it is kept and only op1     *)
(* advances.  Once op2 is exhausted the code deletes the whole count,      *)
(* whatever the offset; Aligned in Loops has the offset at 0 there.        *)
(***************************************************************************)
Delete(op1, s, count) ==
  [s EXCEPT !.composed = ot_delete(@, count), !.it1 = ot_iter_skip(op1, @, count)]

\* Mutants: the delete is lost; op1 does not advance.
LoseDelete(op1, s) ==
  [s EXCEPT !.it1 = ot_iter_skip(op1, @, Left(op1, s.it1))]
DeleteAgain(op1, s) == [s EXCEPT !.composed = ot_delete(@, Left(op1, s.it1))]

KeepDelete(op1, s) ==
  Delete(op1, s, IF s.it2.next THEN Left(op1, s.it1) ELSE op1[s.it1.pos].count)

(***************************************************************************)
(* An insert of op2: whole once op1 is exhausted, what is left of it over  *)
(* a skip, and over an insert of op1 no more than what is left of that one *)
(* (the rest follows in the next turns, since op1 does not advance).       *)
(***************************************************************************)
NextText(op1, op2, kind1, s) ==
  CASE kind1 = "end" -> op2[s.it2.pos].text
    [] kind1 = "skip" -> LeftText(op2, s.it2)
    [] kind1 = "insert" ->
         SubSeq(LeftText(op2, s.it2), 1, Least(Left(op1, s.it1), Left(op2, s.it2)))

InsertText(op2, s, text) ==
  [s EXCEPT !.composed = ot_insert(@, text),
            !.it2 = ot_iter_skip(op2, @, Len(text))]

TakeInsert(op1, op2, s) ==
  InsertText(op2, s, NextText(op1, op2, Kind(op1, s.it1), s))

(***************************************************************************)
(* Otherwise both walk over the same n characters of the text between      *)
(* them, as many as the shorter of what is left of the two components.     *)
(***************************************************************************)
Shared(op1, op2, s) == Least(Left(op1, s.it1), Left(op2, s.it2))

\* Mutant: what is kept of an insert is always the beginning of it.
KeptFromStart(op1, s, n) == SubSeq(op1[s.it1.pos].text, 1, n)

Kept(op1, s, n) == SubSeq(LeftText(op1, s.it1), 1, n)

Along(op1, op2, kinds, s, n) ==
  [s EXCEPT !.it1 = ot_iter_skip(op1, @, n),
            !.it2 = ot_iter_skip(op2, @, n),
            !.composed =
              CASE kinds = <<"skip", "skip">> -> ot_skip(@, n)
                [] kinds = <<"skip", "delete">> -> ot_delete(@, n)
                [] kinds = <<"insert", "skip">> -> ot_insert(@, Kept(op1, s, n))
                [] kinds = <<"insert", "delete">> -> @]

(***************************************************************************)
(* One turn of the loop.  The cases for an element of op2 once op1 is      *)
(* exhausted are empty ("TODO: Stub"), the others are missing; only a      *)
(* delete of op1 is kept without looking at op2.  An element that op1      *)
(* still has when op2 is exhausted fails.                                  *)
(***************************************************************************)
ComposeMeetsStub(kinds) ==
  \/ kinds[1] # "delete" /\ kinds[2] \in Stubs
  \/ kinds[1] \in Stubs /\ kinds[2] # "end"

ComposeTurn(op1, op2, kinds, s) ==
  CASE ComposeMeetsStub(kinds) -> s
    [] kinds[1] = "delete" -> KeepDelete(op1, s)
    [] kinds[1] \notin Stubs \cup {"delete"} /\ kinds[2] = "insert" ->
         TakeInsert(op1, op2, s)
    [] kinds[1] \in {"skip", "insert"} /\ kinds[2] \in {"skip", "delete"} ->
         Along(op1, op2, kinds, s, Shared(op1, op2, s))
    [] OTHER -> [s EXCEPT !.failed = TRUE]

ComposeStep(op1, op2, s) ==
  ComposeTurn(op1, op2, <<Kind(op1, s.it1), Kind(op2, s.it2)>>, s)

(***************************************************************************)
(* The whole loop.  Every turn consumes at least one character of op1 or   *)
(* of op2, is the last because it fails, or is the first of endless turns  *)
(* that move neither iterator.                                             *)
(***************************************************************************)
ComposeComps(op1, op2) ==
  LET turns == Volume(op1) + Volume(op2) + 1
      run[k \in 0..turns] ==
        IF k = 0 THEN ComposeStart(op1, op2)
        ELSE LET s == run[k - 1]
             IN  IF ComposeRunning(s) THEN ComposeStep(op1, op2, s) ELSE s
  IN  run[turns]

(***************************************************************************)
(* ot_compose itself: author and parent are those of op1, the hash is left *)
(* zero; NULL when op2 does not span what op1 makes.                       *)
(***************************************************************************)
Composition(op1, s) ==
  IF s.failed THEN NULL ELSE Op(op1.client_id, op1.parent, ZeroHash, s.composed)

ot_compose(op1, op2) == Composition(op1, ComposeComps(op1.comps, op2.comps))
=============================================================================
