-------------------------------- MODULE Doc --------------------------------
(***************************************************************************)
(* A document (doc.c): the history of the operations appended to it and    *)
(* their composition.  Clients and server each keep one.                   *)
(***************************************************************************)
EXTENDS Compose

CONSTANTS
  UintRange,   \* the number of values of a uint32_t
  Wide         \* the characters whose UTF-8 encoding takes two bytes

ASSUME UintRangeAssumption == UintRange \in Nat \ {0}

ot_new_doc(max_size) ==
  [history |-> <<>>, composed |-> NULL, size |-> 0, max_size |-> max_size]

(***************************************************************************)
(* ot_size: what an operation adds to a document, in a uint32_t.  Inserts  *)
(* count bytes (strlen), deletes count characters.                         *)
(***************************************************************************)
Bytes(text) == Len(text) + Cardinality({i \in 1..Len(text) : text[i] \in Wide})

Measure(c) ==
  CASE c.type = "insert" -> Bytes(c.text)
    [] c.type = "delete" -> -c.count
    [] OTHER -> 0

ot_size(comps) == SumOf(comps, Measure) % UintRange

(***************************************************************************)
(* ot_doc_append.  The result holds the error, the document afterwards     *)
(* and, when there is no error, the operation where it now lives, at the   *)
(* end of the history with the parent and the hash the document gave it.   *)
(* The first operation becomes the composition as it is, whatever it       *)
(* spans; the second and later ones must compose.  hash_op hashes the      *)
(* composition and the appended operation gets a copy.                     *)
(***************************************************************************)
Refused(doc, err) == [err |-> err, doc |-> doc, op |-> NULL]

Parent(doc) == IF doc.history = <<>> THEN ZeroHash ELSE Last(doc.history).hash

\* Mutants: the size is not brought up to date; the hash is not copied to the
\* composition.
ExtendedKeepsSize(doc, head, composed) ==
  [doc EXCEPT !.history = Append(@, head),
              !.composed = [composed EXCEPT !.hash = head.hash]]
ExtendedKeepsHash(doc, head, composed) ==
  [doc EXCEPT !.history = Append(@, head), !.composed = composed,
              !.size = ot_size(composed.comps)]

Extended(doc, head, composed) ==
  [doc EXCEPT !.history = Append(@, head),
              !.composed = [composed EXCEPT !.hash = head.hash],
              !.size = ot_size(composed.comps)]

Moved(doc, head, composed) ==
  [err |-> "none", doc |-> Extended(doc, head, composed), op |-> head]

\* Mutant: the hash is that of the operation.
HeadHashesOp(doc, op, composed) ==
  Op(op.client_id, Parent(doc), HashOf(ot_snapshot(op.comps)), op.comps)

NewHead(doc, op, composed) ==
  Op(op.client_id, Parent(doc), HashOf(ot_snapshot(composed.comps)), op.comps)

\* Mutants: the slot in the history is not given back; the composition is lost
\* when composing fails.
AppendKeepsSlot(doc, op, composed) ==
  IF composed = NULL THEN Refused([doc EXCEPT !.history = Append(@, op)], "append_failed")
                     ELSE Moved(doc, NewHead(doc, op, composed), composed)
AppendLosesComposed(doc, op, composed) ==
  IF composed = NULL THEN Refused([doc EXCEPT !.composed = NULL], "append_failed")
                     ELSE Moved(doc, NewHead(doc, op, composed), composed)

AppendComposed(doc, op, composed) ==
  IF composed = NULL THEN Refused(doc, "append_failed")
                     ELSE Moved(doc, NewHead(doc, op, composed), composed)

\* Mutant: the operation is measured without the document.
ExceedsAlone(doc, op) == doc.max_size > 0 /\ ot_size(op.comps) > doc.max_size

Exceeds(doc, op) ==
  doc.max_size > 0 /\ (ot_size(op.comps) + doc.size) % UintRange > doc.max_size

Composed(doc, op) ==
  IF doc.history = <<>> THEN Op(op.client_id, ZeroHash, ZeroHash, op.comps)
                        ELSE ot_compose(doc.composed, op)

ot_doc_append(doc, op) ==
  IF Exceeds(doc, op) THEN Refused(doc, "max_size")
                      ELSE AppendComposed(doc, op, Composed(doc, op))

(***************************************************************************)
(* ot_doc_compose_after: the composition of the operations after the       *)
(* newest one with that hash, of all of them for the zero hash; NULL for   *)
(* an empty history, an unknown hash or a failed composition.  It begins   *)
(* with a copy, as ot_dup_op makes it, of the first of them.  For the      *)
(* hash of the last operation the code reads past the end of the history;  *)
(* its caller never asks for that one (can_append comes first), and        *)
(* CallersStayInRange in System checks it.                                 *)
(***************************************************************************)
Positions(doc, hash) == {i \in 1..Len(doc.history) : doc.history[i].hash = hash}
Newest(S) == CHOOSE i \in S : \A j \in S : j <= i

ComposeNext(op1, op2) == IF op1 = NULL THEN NULL ELSE ot_compose(op1, op2)

ComposeFrom(history, start) ==
  LET more == Len(history) - start
      composed[n \in 0..more] ==
        IF n = 0 THEN ot_dup_op(history[start])
                 ELSE ComposeNext(composed[n - 1], history[start + n])
  IN  composed[more]

\* Mutant: the operation with that hash is composed too.
StartAtParent(doc, after) ==
  IF after = ZeroHash THEN 1 ELSE Newest(Positions(doc, after))

Start(doc, after) ==
  IF after = ZeroHash THEN 1 ELSE Newest(Positions(doc, after)) + 1

ot_doc_compose_after(doc, after) ==
  IF doc.history = <<>> THEN NULL
  ELSE IF after # ZeroHash /\ Positions(doc, after) = {} THEN NULL
  ELSE ComposeFrom(doc.history, Start(doc, after))

(***************************************************************************)
(* ot_encode_doc writes the history, ot_decode_doc appends what it reads   *)
(* to a document, one operation after the other up to the first that is    *)
(* refused.  How one operation comes through is Codec's.                   *)
(***************************************************************************)
ot_encode_doc(doc) == doc.history

DecodeNext(r, op) == IF r.err = "none" THEN ot_doc_append(r.doc, op) ELSE r

\* Mutant: the first operation is taken for the document it makes.
DecodedFromSecond(doc, ops) ==
  LET after[n \in 0..Len(ops)] ==
        IF n <= 1 THEN Refused(doc, "none") ELSE DecodeNext(after[n - 1], ops[n])
  IN  after[Len(ops)]

ot_decode_doc(doc, ops) ==
  LET after[n \in 0..Len(ops)] ==
        IF n = 0 THEN Refused(doc, "none") ELSE DecodeNext(after[n - 1], ops[n])
  IN  after[Len(ops)]

Text(doc) == IF doc.composed = NULL THEN <<>> ELSE ot_snapshot(doc.composed.comps)
=============================================================================
