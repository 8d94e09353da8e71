---------------------------- MODULE DocHistory ----------------------------
(***************************************************************************)
(* One document and the operations appended to it one after the other,     *)
(* whether or not they span it.                                            *)
(***************************************************************************)
EXTENDS Doc

CONSTANTS
  FirstComps,    \* the components of operations appended to an empty document
  LaterComps,    \* the components of operations appended to any other
  MaxSize,       \* values of max_size, 0 for no limit
  MaxHistory     \* bound: the number of operations kept in the history

\* A document begins with a text.  All other operations are ones ot_compose
\* can pass, whether or not they span the document.
ASSUME FirstAssumption ==
  \A comps \in FirstComps :
    IsOperation(comps) /\ Passable(comps) /\ IsNormal(comps) /\ BaseLen(comps) = 0
ASSUME LaterAssumption == \A comps \in LaterComps : IsOperation(comps) /\ Passable(comps)

VARIABLES
  doc,
  tried,         \* the components last given to ot_doc_append
  result         \* and the error it returned

vars == <<doc, tried, result>>

Init ==
  /\ doc \in {ot_new_doc(m) : m \in MaxSize}
  /\ tried = <<>>
  /\ result = "none"

AppendOp(comps) ==
  LET r == ot_doc_append(doc, Op(1, ZeroHash, ZeroHash, comps))
  IN  /\ tried' = comps
      /\ result' = r.err
      /\ doc' = r.doc

Next ==
  /\ Len(doc.history) < MaxHistory
  /\ \E comps \in IF doc.history = <<>> THEN FirstComps ELSE LaterComps : AppendOp(comps)

Spec == Init /\ [][Next]_vars

-----------------------------------------------------------------------------
Versions == 0..Len(doc.history)

\* The text after the first n operations, replayed without ot_compose.
TextAt(history, n) ==
  LET text[k \in 0..n] ==
        IF k = 0 THEN <<>> ELSE ApplyTo(history[k].comps, text[k - 1])
  IN  text[n]

Replay(n) == TextAt(doc.history, n)

\* The composition is the document: replaying the history one operation
\* after the other makes the same text, the composition holds nothing but
\* that text, and its size is the size of that text in bytes.
ComposedIsReplay ==
  doc.composed # NULL =>
    /\ Text(doc) = Replay(Len(doc.history))
    /\ doc.composed.comps = ot_insert(<<>>, Text(doc)) \/ doc.composed.comps = <<>>
    /\ doc.size = Bytes(Text(doc)) % UintRange

\* The chain of hashes: every operation names the hash of the one before it
\* as its parent, every hash is that of the text at that version, and the
\* composition has the hash of the last one, which can_append compares with
\* while ot_doc_compose_after searches the history.
Linked ==
  /\ \A n \in Versions \ {0} :
       doc.history[n].parent = IF n = 1 THEN ZeroHash ELSE doc.history[n - 1].hash
  /\ doc.composed # NULL => doc.composed.hash = Last(doc.history).hash

HashChain == Linked /\ \A n \in Versions \ {0} : doc.history[n].hash = HashOf(Replay(n))

\* Whoever holds the text of an earlier version and names it by its hash is
\* brought up to date by what ot_doc_compose_after returns, also when the
\* document had that text more than once and the newest version is meant.
CatchesUp ==
  \A n \in 0..(Len(doc.history) - 1) :
    LET hash == IF n = 0 THEN ZeroHash ELSE doc.history[n].hash
        op == ot_doc_compose_after(doc, hash)
    IN  hash # Last(doc.history).hash =>
          /\ op # NULL
          /\ BaseLen(op.comps) = Len(Replay(n))
          /\ ApplyTo(op.comps, Replay(n)) = Text(doc)

\* A document with a maximum size never holds more bytes than that.
WithinMaxSize ==
  doc.max_size > 0 => Bytes(Text(doc)) <= doc.max_size

\* An operation is refused as not composable exactly when it does not span
\* the document, and a refusal leaves no trace: not in the history (the
\* slot is given back), not in the composition.
RefusedForCause ==
  [][ /\ result' = "append_failed" => BaseLen(tried') # Len(Text(doc))
      /\ result' = "none" => \/ doc.history = <<>>
                             \/ BaseLen(tried') = Len(Text(doc))
      /\ result' # "none" => Text(doc') = Text(doc) /\ doc'.history = doc.history ]_vars

\* Whoever is given the document as ot_encode_doc writes it gets all of it
\* back, hashes and parents included, from any version on, with or without
\* the maximum size the document was written under.
ReloadsTheSame ==
  \A m \in {0, doc.max_size} :
    ot_decode_doc(ot_new_doc(m), ot_encode_doc(doc)) =
      [err |-> "none", doc |-> [doc EXCEPT !.max_size = m],
       op |-> IF doc.history = <<>> THEN NULL ELSE Last(doc.history)]
===========================================================================
