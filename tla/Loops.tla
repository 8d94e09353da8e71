------------------------------- MODULE Loops -------------------------------
(***************************************************************************)
(* The loops of ot_xform and ot_compose turn by turn, for the pairs of     *)
(* operations in Pairs: operations as the builders leave them, and as      *)
(* decode.c does, which appends what the message says, components of size  *)
(* zero and elements included (an editor may insert the empty text, too).  *)
(* The operations never change; loop holds the locals.                     *)
(***************************************************************************)
EXTENDS Xform, Compose, FiniteSets

CONSTANTS
  Pairs,   \* the pairs of component sequences the two are called with
  Texts    \* one text of every length those operations may span

ASSUME PairsAssumption == \A pair \in Pairs : IsOperation(pair[1]) /\ IsOperation(pair[2])
ASSUME TextsAssumption == \A text \in Texts : IsSequence(text)

VARIABLES call, op1, op2, loop
vars == <<call, op1, op2, loop>>

Init ==
  /\ \E pair \in Pairs : op1 = pair[1] /\ op2 = pair[2]
  /\ \/ call = "ot_xform" /\ loop = XformStart(op1, op2)
     \/ call = "ot_compose" /\ loop = ComposeStart(op1, op2)

TurnOfXform ==
  /\ call = "ot_xform"
  /\ XformRunning(loop)
  /\ loop' = XformStep(op1, op2, loop)

TurnOfCompose ==
  /\ call = "ot_compose"
  /\ ComposeRunning(loop)
  /\ loop' = ComposeStep(op1, op2, loop)

Next == (TurnOfXform \/ TurnOfCompose) /\ UNCHANGED <<call, op1, op2>>

Spec == Init /\ [][Next]_vars

-----------------------------------------------------------------------------
(***************************************************************************)
(* What the properties are stated with.                                    *)
(***************************************************************************)
Transforming == call = "ot_xform"
Composing == call = "ot_compose"

Returned == IF Transforming THEN ~XformRunning(loop) ELSE ~ComposeRunning(loop)
Succeeded == Returned /\ ~loop.failed

BothPassable == Passable(op1) /\ Passable(op2)

\* The text the second operation is written against: that of the first, or
\* what the first makes.
Spanned(op) == IF Transforming THEN BaseLen(op) ELSE OutLen(op)

Consumed1 == Consumed(op1, loop.it1)
Consumed2 == Consumed(op2, loop.it2)

Done == Finished(op1, loop.it1) + Finished(op2, loop.it2)

-----------------------------------------------------------------------------
\* Both iterators stand at the same character of the text the operations
\* meet in, inside their components, and where the code takes the whole of a
\* component without looking at the offset, it is 0: for an insert of either
\* operation in ot_xform, which compares what is left of others only; in
\* ot_compose for a delete of op1, never left half way, and for an insert of
\* op2 once op1 is exhausted.
InPlace ==
  /\ loop.it1.next => Inside(op1, loop.it1)
  /\ loop.it2.next => Inside(op2, loop.it2)
  /\ Transforming =>
       /\ Kind(op1, loop.it1) = "insert" => loop.it1.offset = 0
       /\ Kind(op2, loop.it2) = "insert" => loop.it2.offset = 0
  /\ Composing =>
       /\ Kind(op1, loop.it1) = "delete" => loop.it1.offset = 0
       /\ Kind(op1, loop.it1) = "end" /\ Kind(op2, loop.it2) = "insert" =>
            loop.it2.offset = 0

Aligned ==
  BothPassable => InPlace /\ Spanned(Consumed1) = BaseLen(Consumed2)

\* What has been made so far fits what has been consumed so far: each prime
\* spans what the other operation makes and both make texts of one length, so
\* that they can be appended and buffered where they are used next; the
\* composition spans what op1 does and makes what op2 does.
ResultSpans ==
  BothPassable =>
    /\ Transforming =>
         /\ BaseLen(loop.prime1) = OutLen(Consumed2)
         /\ BaseLen(loop.prime2) = OutLen(Consumed1)
         /\ OutLen(loop.prime1) = OutLen(loop.prime2)
    /\ Composing =>
         /\ BaseLen(loop.composed) = BaseLen(Consumed1)
         /\ OutLen(loop.composed) = OutLen(Consumed2)
         /\ IsNormal(loop.composed)

\* TP1: from the same text, op1 then op2' and op2 then op1' make the same
\* text, the property the client and the server rely on for convergence.
TP1 ==
  Transforming /\ Succeeded =>
    \A text \in Texts :
      Len(text) = BaseLen(op1) =>
        ApplyTo(loop.prime2, ApplyTo(op1, text)) =
          ApplyTo(loop.prime1, ApplyTo(op2, text))

\* No character is in a text twice.
Distinct(text) == Len(text) = Cardinality(ToSet(text))

\* What the merged text holds: the characters both operations kept and those
\* either inserted, a character deleted by both deleted once; and every
\* inserted text in one piece, "never adbecf" (doc/ot.md).
Inserted == {c.text : c \in {d \in ToSet(op1) \cup ToSet(op2) : d.type = "insert"}}

MergeKeepsIntentions ==
  Transforming /\ Succeeded =>
    \A text \in Texts :
      Len(text) = BaseLen(op1) =>
        LET made1 == ApplyTo(op1, text)
            made2 == ApplyTo(op2, text)
            merged == ApplyTo(loop.prime2, made1)
        IN  /\ ToSet(merged) =
                 (ToSet(made1) \cap ToSet(made2)) \cup UNION {ToSet(t) : t \in Inserted}
            /\ Distinct(merged)
            /\ \A t \in Inserted :
                 \E k \in 0..(Len(merged) - Len(t)) : SubSeq(merged, k + 1, k + Len(t)) = t

\* MergeKeepsIntentions follows the characters, of which none is twice in a
\* text and what the operations insert into it.
CharactersDiffer ==
  \A pair \in Pairs, text \in Texts :
    Distinct(text \o ot_snapshot(pair[1]) \o ot_snapshot(pair[2]))

\* The composed operation does to every text what op1 followed by op2 does.
ComposeIsSequence ==
  Composing /\ Succeeded =>
    \A text \in Texts :
      Len(text) = BaseLen(op1) =>
        ApplyTo(loop.composed, text) = ApplyTo(op2, ApplyTo(op1, text))

\* A call that returns has failed exactly when the second operation does not
\* span the text it is written against ("usually because the two operations
\* weren't parented off of the same state", ot.h), or when one of the two has
\* a component of size zero or an element: there is no result that such a
\* component, read off the wire, gets into.
FailsForCause ==
  Returned => (loop.failed <=> ~BothPassable \/ Spanned(op1) # BaseLen(op2))

\* A call on operations without such components returns: every turn fails,
\* finishes a component, or (ot_compose taking an insert of op2 in pieces)
\* gets further in one.  It bounds the turns by the components of both
\* operations and the longest insert (XformComps, ComposeComps).
EveryTurnAdvances ==
  [][ BothPassable =>
        \/ loop'.failed
        \/ Done' > Done
        \/ Composing /\ Done' = Done /\ loop'.it2.offset > loop.it2.offset ]_vars
=============================================================================
