------------------------- MODULE DocHistory_proofs -------------------------
(***************************************************************************)
(* What a document is, whatever is appended to it and however long its     *)
(* history gets: the history is a chain of hashes of the texts it makes,   *)
(* the composition is the last of these texts, any earlier one can be      *)
(* brought up to date, and the history given away makes the same document. *)
(***************************************************************************)
EXTENDS DocHistory, Ops_proofs

-----------------------------------------------------------------------------
(***************************************************************************)
(* The chain.  The parent of the next operation is the hash of the last    *)
(* one, wherever in the chain that is; a document has a composition from   *)
(* its first operation on.                                                 *)
(***************************************************************************)
IsChain(history) ==
  \A n \in 1..Len(history) :
    history[n].parent = IF n = 1 THEN ZeroHash ELSE history[n - 1].hash

ChainInv ==
  /\ DOMAIN doc = {"history", "composed", "size", "max_size"}
  /\ doc.history \in Seq(ToSet(doc.history))
  /\ doc.composed # NULL => doc.history # <<>>
  /\ Linked

-----------------------------------------------------------------------------
LEMMA ChainGrows ==
  ASSUME NEW S, NEW history \in Seq(S), IsChain(history), NEW head,
         head.parent = IF history = <<>> THEN ZeroHash ELSE Last(history).hash
  PROVE  /\ IsChain(Append(history, head))
         /\ Append(history, head) # <<>>
         /\ Last(Append(history, head)) = head
<1> DEFINE longer == Append(history, head)
<1>1. /\ Len(longer) = Len(history) + 1 /\ Len(history) \in Nat
      /\ longer[Len(longer)] = head
      /\ \A n \in 1..Len(history) : longer[n] = history[n]
  OBVIOUS
<1>2. history # <<>> => Last(history) = history[Len(history)] /\ Len(history) >= 1
  BY DEF Last
<1>3. history = <<>> <=> Len(history) = 0
  OBVIOUS
<1>4. longer # <<>>
  OBVIOUS
<1>5. Last(longer) = head
  BY <1>1 DEF Last
<1> HIDE DEF longer
<1>6. ASSUME NEW n \in 1..Len(longer)
      PROVE  longer[n].parent = IF n = 1 THEN ZeroHash ELSE longer[n - 1].hash
  <2>1. CASE n = Len(longer)
    BY <1>1, <1>2, <1>3, <2>1
  <2>2. CASE n # Len(longer)
    <3>1. n \in 1..Len(history)
      BY <1>1, <2>2
    <3>2. n # 1 => n - 1 \in 1..Len(history)
      BY <1>1, <3>1
    <3> QED
      BY <1>1, <3>1, <3>2 DEF IsChain
  <2> QED
    BY <2>1, <2>2
<1> QED
  BY <1>4, <1>5, <1>6 DEF IsChain, longer

LEMMA StillASequence ==
  ASSUME NEW history, history \in Seq(ToSet(history)), NEW head
  PROVE  Append(history, head) \in Seq(ToSet(Append(history, head)))
<1> DEFINE longer == Append(history, head)
<1>1. Len(longer) \in Nat /\ DOMAIN longer = 1..Len(longer)
  OBVIOUS
<1>2. \A i \in 1..Len(longer) : longer[i] \in ToSet(longer)
  BY <1>1 DEF ToSet
<1>3. longer \in Seq(ToSet(history) \cup {head})
  <2>1. history \in Seq(ToSet(history) \cup {head})
    OBVIOUS
  <2> QED
    BY <2>1
<1> HIDE DEF longer
<1>4. longer \in Seq(ToSet(longer))
  BY <1>1, <1>2, <1>3
<1> QED
  BY <1>4 DEF longer

LEMMA LinkedIsChain ==
  ASSUME Len(doc.history) \in Nat
  PROVE  Linked <=> /\ IsChain(doc.history)
                    /\ doc.composed # NULL => doc.composed.hash = Last(doc.history).hash
<1>1. Versions \ {0} = 1..Len(doc.history)
  BY DEF Versions
<1> QED
  BY <1>1 DEF Linked, IsChain

\* The texts of a history, version by version.
TextRun(history, n, run) ==
  run = [k \in 0..n |-> IF k = 0 THEN <<>> ELSE ApplyTo(history[k].comps, run[k - 1])]

LEMMA TextRunExists ==
  ASSUME NEW history, NEW n \in Nat
  PROVE  \E run : TextRun(history, n, run)
<1> DEFINE T == {m \in Nat : \E run : TextRun(history, m, run)}
<1>1. 0 \in T
  <2> DEFINE run == [k \in 0..0 |-> <<>>]
  <2>1. \A k \in 0..0 : k = 0
    OBVIOUS
  <2>2. TextRun(history, 0, run)
    BY <2>1 DEF TextRun
  <2> HIDE DEF run
  <2> QED
    BY <2>2
<1>2. ASSUME NEW m \in Nat, m \in T PROVE m + 1 \in T
  <2>1. PICK run : TextRun(history, m, run)
    BY <1>2
  <2> DEFINE longer == [k \in 0..(m + 1) |-> IF k = m + 1 THEN ApplyTo(history[m + 1].comps, run[m]) ELSE run[k]]
             Right(k) == longer[k] = IF k = 0 THEN <<>> ELSE ApplyTo(history[k].comps, longer[k - 1])
  <2>2. \A k \in 0..m : run[k] = IF k = 0 THEN <<>> ELSE ApplyTo(history[k].comps, run[k - 1])
    BY <2>1 DEF TextRun
  <2>3. Right(m + 1)
    <3>1. longer[m + 1] = ApplyTo(history[m + 1].comps, run[m]) /\ m + 1 # 0 /\ (m + 1) - 1 = m /\ longer[m] = run[m]
      OBVIOUS
    <3> QED
      BY <3>1
  <2>4. \A k \in 0..m : Right(k)
    <3> SUFFICES ASSUME NEW k \in 0..m PROVE Right(k)
      OBVIOUS
    <3>1. longer[k] = run[k] /\ (k # 0 => longer[k - 1] = run[k - 1])
      OBVIOUS
    <3> HIDE DEF longer
    <3> QED
      BY <2>2, <3>1
  <2>5. \A k \in 0..(m + 1) : Right(k)
    <3>1. \A k \in 0..(m + 1) : k \in 0..m \/ k = m + 1
      OBVIOUS
    <3> HIDE DEF Right
    <3> QED
      BY <2>3, <2>4, <3>1
  <2>6. TextRun(history, m + 1, longer)
    <3>1. longer = [k \in 0..(m + 1) |-> longer[k]]
      OBVIOUS
    <3> HIDE DEF longer
    <3> QED
      BY <2>5, <3>1 DEF TextRun
  <2> HIDE DEF longer
  <2> QED
    BY <2>6
<1>3. Nat \subseteq T
  <2> HIDE DEF T
  <2> QED
    BY <1>1, <1>2, SetInduction
<1> QED
  BY <1>3

LEMMA TextIsRun ==
  ASSUME NEW history, NEW m \in Nat
  PROVE  \E run : TextRun(history, m, run) /\ TextAt(history, m) = run[m]
<1> DEFINE N == m
           Is(run) == run = [k \in 0..N |-> IF k = 0 THEN <<>> ELSE ApplyTo(history[k].comps, run[k - 1])]
           chosen == CHOOSE run : Is(run)
<1>1. TextAt(history, m) = chosen[N]
  BY DEF TextAt
<1>2. \A run : Is(run) <=> TextRun(history, N, run)
  BY DEF TextRun
<1> HIDE DEF Is
<1>3. \E run : Is(run)
  <2>1. N \in Nat
    OBVIOUS
  <2> HIDE DEF N
  <2> QED
    BY <1>2, <2>1, TextRunExists
<1>4. Is(chosen)
  BY <1>3
<1> HIDE DEF chosen
<1> QED
  BY <1>1, <1>2, <1>4

LEMMA TextRunSteps ==
  ASSUME NEW history, NEW n \in Nat, NEW run, TextRun(history, n, run)
  PROVE  /\ run[0] = <<>>
         /\ \A k \in 1..n : run[k] = ApplyTo(history[k].comps, run[k - 1])
<1>1. \A k \in 0..n : run[k] = IF k = 0 THEN <<>> ELSE ApplyTo(history[k].comps, run[k - 1])
  BY DEF TextRun
<1>2. \A k \in 1..n : k \in 0..n /\ k # 0
  OBVIOUS
<1> QED
  BY <1>1, <1>2

LEMMA TextAtSteps ==
  ASSUME NEW history
  PROVE  /\ TextAt(history, 0) = <<>>
         /\ \A n \in Nat : TextAt(history, n + 1) = ApplyTo(history[n + 1].comps, TextAt(history, n))
<1>1. TextAt(history, 0) = <<>>
  <2>1. PICK run : TextRun(history, 0, run) /\ TextAt(history, 0) = run[0]
    BY TextIsRun
  <2> QED
    BY <2>1, TextRunSteps
<1>2. ASSUME NEW n \in Nat
      PROVE  TextAt(history, n + 1) = ApplyTo(history[n + 1].comps, TextAt(history, n))
  <2> DEFINE N == n + 1
  <2>0. N \in Nat /\ N - 1 = n /\ N \in 1..N /\ \A k \in 1..n : k \in 1..N
    OBVIOUS
  <2> HIDE DEF N
  <2>1. PICK f : TextRun(history, n, f) /\ TextAt(history, n) = f[n]
    BY TextIsRun
  <2>2. PICK g : TextRun(history, N, g) /\ TextAt(history, N) = g[N]
    BY <2>0, TextIsRun
  <2>3. f[0] = <<>> /\ \A k \in 1..n : f[k] = ApplyTo(history[k].comps, f[k - 1])
    BY <2>1, TextRunSteps
  <2>4. g[0] = <<>> /\ \A k \in 1..N : g[k] = ApplyTo(history[k].comps, g[k - 1])
    BY <2>0, <2>2, TextRunSteps
  <2>5. InStep(f, g, n)
    BY <2>0, <2>3, <2>4 DEF InStep
  <2>6. f[n] = g[n]
    BY <2>3, <2>4, <2>5, SameSteps
  <2>7. g[N] = ApplyTo(history[N].comps, g[n])
    BY <2>0, <2>4
  <2> QED
    BY <2>1, <2>2, <2>6, <2>7 DEF N
<1> QED
  BY <1>1, <1>2

LEMMA TextOfPrefix ==
  ASSUME NEW h, NEW g, NEW n \in Nat, \A k \in 1..n : h[k] = g[k]
  PROVE  TextAt(h, n) = TextAt(g, n)
<1>1. PICK f1 : TextRun(h, n, f1) /\ TextAt(h, n) = f1[n]
  BY TextIsRun
<1>2. PICK f2 : TextRun(g, n, f2) /\ TextAt(g, n) = f2[n]
  BY TextIsRun
<1>3. f1[0] = <<>> /\ \A k \in 1..n : f1[k] = ApplyTo(h[k].comps, f1[k - 1])
  BY <1>1, TextRunSteps, ZenonT(60)
<1>4. f2[0] = <<>> /\ \A k \in 1..n : f2[k] = ApplyTo(g[k].comps, f2[k - 1])
  BY <1>2, TextRunSteps
<1>5. InStep(f1, f2, n)
  BY <1>3, <1>4 DEF InStep
<1> QED
  BY <1>1, <1>2, <1>3, <1>4, <1>5, SameSteps

-----------------------------------------------------------------------------
(***************************************************************************)
(* The invariant of the composition.  It only inserts, what it inserts is  *)
(* the text the history makes, and there is one as soon as there is a      *)
(* history.                                                                *)
(***************************************************************************)
Chars == UNION {Alphabet(comps) : comps \in FirstComps \cup LaterComps}

Version == TextAt(doc.history, Len(doc.history))

IsText(comps) == comps \in OperationsOver(Chars) /\ WellMade(comps) /\ BaseLen(comps) = 0

TextInv ==
  IF doc.composed = NULL THEN doc.history = <<>> /\ doc.size = 0
  ELSE /\ doc.history # <<>>
       /\ IsText(doc.composed.comps)
       /\ ApplyTo(doc.composed.comps, <<>>) = Version
       /\ doc.size = ot_size(doc.composed.comps)

Appendable(comps) ==
  /\ comps \in OperationsOver(Chars) /\ Passable(comps)
  /\ doc.history = <<>> => IsText(comps)

LEMMA ChoiceIsAppendable ==
  ASSUME NEW comps \in IF doc.history = <<>> THEN FirstComps ELSE LaterComps
  PROVE  Appendable(comps)
<1>1. Alphabet(comps) \subseteq Chars
  BY DEF Chars
<1>2. IsOperation(comps) /\ Passable(comps)
  BY FirstAssumption, LaterAssumption
<1>3. comps \in OperationsOver(Chars)
  <2> HIDE DEF Chars
  <2> QED
    BY <1>1, <1>2, OperationOver
<1>4. doc.history = <<>> => IsNormal(comps) /\ BaseLen(comps) = 0
  BY FirstAssumption
<1> QED
  BY <1>2, <1>3, <1>4 DEF Appendable, IsText, WellMade

\* The text of a document is what its history makes.
LEMMA TextIsVersion ==
  ASSUME TextInv
  PROVE  /\ Text(doc) = Version /\ Version \in Seq(Chars)
         /\ doc.composed # NULL => OutLen(doc.composed.comps) = Len(Version)
<1> DEFINE none == <<>>
<1>0. none \in Seq(Chars) /\ Len(none) = 0
  OBVIOUS
<1> HIDE DEF none
<1>1. CASE doc.composed = NULL
  <2>1. Text(doc) = none /\ Version = none
    <3>1. Len(doc.history) = 0
      BY <1>1 DEF TextInv
    <3> QED
      BY <1>1, <3>1, TextAtSteps DEF Text, Version, none
  <2> QED
    BY <1>0, <1>1, <2>1
<1>2. CASE doc.composed # NULL
  <2> DEFINE p == doc.composed.comps
  <2>1. p \in OperationsOver(Chars) /\ BaseLen(p) = 0 /\ ApplyTo(p, none) = Version
    BY <1>2 DEF TextInv, IsText, none
  <2>2. Text(doc) = ot_snapshot(p)
    BY <1>2 DEF Text
  <2> HIDE DEF p
  <2>3. ot_snapshot(p) = ApplyTo(p, none)
    BY <2>1, SnapshotIsMade DEF none
  <2>4. ApplyTo(p, none) \in Seq(Chars)
    BY <1>0, <2>1, MadeIsText
  <2>5. Len(ApplyTo(p, none)) = OutLen(p)
    <3>1. BaseLen(p) <= Len(none)
      BY <1>0, <2>1
    <3> QED
      BY <1>0, <2>1, <3>1, MadeLength
  <2> QED
    BY <2>1, <2>2, <2>3, <2>4, <2>5 DEF p
<1> QED
  BY <1>1, <1>2

(***************************************************************************)
(* What ot_doc_append does to a document it does not refuse.               *)
(***************************************************************************)
Grown(comps, head, composed) ==
  /\ doc' = Extended(doc, head, composed)
  /\ head = Op(1, Parent(doc), HashOf(ot_snapshot(composed.comps)), comps)
  /\ DOMAIN composed = {"client_id", "parent", "hash", "comps"}
  /\ IsText(composed.comps)
  /\ BaseLen(comps) = Len(Version)
  /\ ApplyTo(composed.comps, <<>>) = ApplyTo(comps, Version)
  /\ result' = "none"
  /\ composed = Composed(doc, Op(1, ZeroHash, ZeroHash, comps))
  /\ composed # NULL
  /\ ~Exceeds(doc, Op(1, ZeroHash, ZeroHash, comps))

LEMMA ComposedWith ==
  ASSUME TextInv, NEW comps, Appendable(comps), NEW parent, NEW hash, NEW id,
         NEW composed, composed = Composed(doc, Op(id, parent, hash, comps))
  PROVE  IF composed = NULL THEN BaseLen(comps) # Len(Version)
         ELSE /\ DOMAIN composed = {"client_id", "parent", "hash", "comps"}
              /\ IsText(composed.comps)
              /\ BaseLen(comps) = Len(Version)
              /\ ApplyTo(composed.comps, <<>>) = ApplyTo(comps, Version)
<1> DEFINE op == Op(id, parent, hash, comps)
           none == <<>>
<1>0. op.comps = comps
  BY DEF Op
<1>1. none \in Seq(Chars) /\ Len(none) = 0
  OBVIOUS
<1> HIDE DEF none, op
<1>2. CASE doc.history = <<>>
  <2>1. composed = Op(op.client_id, ZeroHash, ZeroHash, comps)
    BY <1>0, <1>2 DEF Composed, op
  <2>2. /\ composed # NULL /\ composed.comps = comps
        /\ DOMAIN composed = {"client_id", "parent", "hash", "comps"}
    <3>1. composed # NULL
      BY <2>1, OpIsNotNull
    <3> QED
      BY <2>1, <3>1 DEF Op
  <2>3. Version = none
    <3>1. Len(doc.history) = 0
      BY <1>2
    <3> QED
      BY <3>1, TextAtSteps DEF Version, none
  <2>4. IsText(comps)
    BY <1>2 DEF Appendable
  <2> QED
    BY <1>1, <2>2, <2>3, <2>4 DEF IsText, none
<1>3. CASE doc.history # <<>>
  <2> DEFINE p == doc.composed.comps
             s == ComposeComps(p, comps)
  <2>1. doc.composed # NULL /\ IsText(p) /\ ApplyTo(p, none) = Version
    BY <1>3 DEF TextInv, none
  <2>2. OutLen(p) = Len(Version)
    BY <2>1, TextIsVersion
  <2>3. composed = Composition(doc.composed, s)
    BY <1>0, <1>3 DEF Composed, ot_compose, op
  <2>4. comps \in OperationsOver(Chars) /\ p \in OperationsOver(Chars) /\ BothPass(p, comps)
        /\ BaseLen(p) = 0
    BY <2>1 DEF Appendable, IsText, WellMade, BothPass
  <2> HIDE DEF p, s
  <2>5. /\ s.failed <=> OutLen(p) # BaseLen(comps)
        /\ ~s.failed => InSequence(Chars, p, comps, s.composed)
        /\ WellMade(s.composed)
    BY <2>4, ComposeResult DEF s
  <2>6. CASE s.failed
    BY <2>2, <2>3, <2>5, <2>6 DEF Composition
  <2>7. CASE ~s.failed
    <3>1. composed = Op(doc.composed.client_id, doc.composed.parent, ZeroHash, s.composed)
      BY <2>3, <2>7 DEF Composition
    <3>2. composed # NULL
      BY <3>1, OpIsNotNull
    <3>3. /\ DOMAIN composed = {"client_id", "parent", "hash", "comps"}
          /\ composed.comps = s.composed
      BY <3>1 DEF Op
    <3>4. InSequence(Chars, p, comps, s.composed)
      BY <2>5, <2>7
    <3>5. IsText(s.composed)
      BY <2>4, <2>5, <3>4 DEF InSequence, IsText
    <3>6. ApplyTo(s.composed, none) = ApplyTo(comps, Version)
      BY <1>1, <2>1, <2>4, <3>4 DEF InSequence
    <3>7. BaseLen(comps) = Len(Version)
      BY <2>2, <2>5, <2>7
    <3> QED
      BY <3>2, <3>3, <3>5, <3>6, <3>7 DEF none
  <2> QED
    BY <2>6, <2>7
<1> QED
  BY <1>2, <1>3

LEMMA AppendGrows ==
  ASSUME TextInv, NEW comps, Appendable(comps), AppendOp(comps)
  PROVE  /\ tried' = comps
         /\ \/ doc' = doc /\ result' = "max_size"
            \/ doc' = doc /\ result' = "append_failed" /\ BaseLen(comps) # Len(Version)
            \/ \E head, composed : Grown(comps, head, composed)
<1> DEFINE op == Op(1, ZeroHash, ZeroHash, comps)
           composed == Composed(doc, op)
           r == ot_doc_append(doc, op)
           head == NewHead(doc, op, composed)
<1>1. tried' = comps /\ result' = r.err /\ doc' = r.doc
  BY DEF AppendOp
<1>2. IF composed = NULL THEN BaseLen(comps) # Len(Version)
      ELSE /\ DOMAIN composed = {"client_id", "parent", "hash", "comps"}
           /\ IsText(composed.comps)
           /\ BaseLen(comps) = Len(Version)
           /\ ApplyTo(composed.comps, <<>>) = ApplyTo(comps, Version)
  BY ComposedWith
<1>3. head = Op(1, Parent(doc), HashOf(ot_snapshot(composed.comps)), comps)
  <2>1. op.client_id = 1 /\ op.comps = comps
    BY DEF Op
  <2> HIDE DEF op, composed
  <2> QED
    BY <2>1 DEF NewHead
<1> HIDE DEF composed, op, head
<1>4. CASE Exceeds(doc, op)
  <2>1. r = Refused(doc, "max_size")
    BY <1>4 DEF ot_doc_append
  <2>2. r.err = "max_size" /\ r.doc = doc
    BY <2>1 DEF Refused
  <2> QED
    BY <1>1, <2>2
<1>5. CASE ~Exceeds(doc, op) /\ composed = NULL
  <2>1. r = Refused(doc, "append_failed")
    BY <1>5 DEF ot_doc_append, AppendComposed, composed
  <2>2. r.err = "append_failed" /\ r.doc = doc
    BY <2>1 DEF Refused
  <2> QED
    BY <1>1, <1>2, <1>5, <2>2
<1>6. CASE ~Exceeds(doc, op) /\ composed # NULL
  <2>1. r = Moved(doc, head, composed)
    BY <1>6 DEF ot_doc_append, AppendComposed, composed, head
  <2>2. r.err = "none" /\ r.doc = Extended(doc, head, composed)
    BY <2>1 DEF Moved
  <2>3. Grown(comps, head, composed)
    BY <1>1, <1>2, <1>3, <1>6, <2>2 DEF Grown, composed, op
  <2> QED
    BY <1>1, <2>3
<1> QED
  BY <1>4, <1>5, <1>6

\* The document one operation later.
GrownDoc(comps, head, composed) ==
  /\ doc'.history = Append(doc.history, head)
  /\ doc'.composed = [composed EXCEPT !.hash = head.hash]
  /\ doc'.composed # NULL
  /\ doc'.composed.comps = composed.comps /\ doc'.composed.hash = head.hash
  /\ doc'.size = ot_size(composed.comps) /\ doc'.max_size = doc.max_size
  /\ DOMAIN doc' = {"history", "composed", "size", "max_size"}
  /\ head.parent = Parent(doc) /\ head.comps = comps /\ head.client_id = 1
  /\ head.hash = HashOf(ot_snapshot(composed.comps)) /\ head # NULL

LEMMA GrownIsDoc ==
  ASSUME ChainInv, NEW comps, NEW head, NEW composed, Grown(comps, head, composed)
  PROVE  GrownDoc(comps, head, composed)
<1>1. /\ DOMAIN doc = {"history", "composed", "size", "max_size"}
      /\ DOMAIN composed = {"client_id", "parent", "hash", "comps"}
      /\ doc' = Extended(doc, head, composed)
      /\ head = Op(1, Parent(doc), HashOf(ot_snapshot(composed.comps)), comps)
  BY DEF ChainInv, Grown
<1> DEFINE latest == [composed EXCEPT !.hash = head.hash]
<1>2. /\ DOMAIN latest = {"client_id", "parent", "hash", "comps"}
      /\ latest.comps = composed.comps /\ latest.hash = head.hash
  BY <1>1
<1>3. latest # NULL
  BY <1>2 DEF NULL
<1>4. /\ head.parent = Parent(doc) /\ head.comps = comps /\ head.client_id = 1
      /\ head.hash = HashOf(ot_snapshot(composed.comps))
  BY <1>1 DEF Op
<1>5. head # NULL
  BY <1>1, OpIsNotNull
<1>6. doc' = [doc EXCEPT !.history = Append(@, head), !.composed = latest,
                         !.size = ot_size(composed.comps)]
  BY <1>1 DEF Extended
<1> HIDE DEF latest
<1>7. /\ doc'.history = Append(doc.history, head)
      /\ doc'.composed = latest
      /\ doc'.size = ot_size(composed.comps) /\ doc'.max_size = doc.max_size
      /\ DOMAIN doc' = {"history", "composed", "size", "max_size"}
  BY <1>1, <1>6
<1> QED
  BY <1>2, <1>3, <1>4, <1>5, <1>7 DEF GrownDoc, latest

\* The versions of a document that grows: the old ones and a new one.
LEMMA VersionsGrow ==
  ASSUME ChainInv, TextInv, NEW comps, Appendable(comps), NEW head, NEW composed,
         Grown(comps, head, composed)
  PROVE  /\ Len(doc.history) \in Nat /\ Len(doc'.history) = Len(doc.history) + 1
         /\ \A n \in 1..Len(doc.history) : doc'.history[n] = doc.history[n]
         /\ doc'.history[Len(doc.history) + 1] = head
         /\ \A n \in 0..Len(doc.history) : TextAt(doc'.history, n) = TextAt(doc.history, n)
         /\ TextAt(doc'.history, Len(doc.history)) = Version
         /\ Version' = ApplyTo(comps, Version)
         /\ Version' = ot_snapshot(composed.comps)
<1> DEFINE h == doc.history
           g == doc'.history
           N == Len(h)
           S == ToSet(h) \cup {head}
<1>1. g = Append(h, head) /\ head.comps = comps
  BY GrownIsDoc, ZenonT(60) DEF GrownDoc
<1>2. h \in Seq(S)
  <2>1. h \in Seq(ToSet(h))
    BY DEF ChainInv
  <2> QED
    BY <2>1
<1> HIDE DEF h, g, S
<1>3. /\ N \in Nat /\ Len(g) = N + 1
      /\ \A n \in 1..N : g[n] = h[n]
      /\ g[N + 1] = head
  BY <1>1, <1>2 DEF S
<1> HIDE DEF N
<1>4. \A n \in 0..N : TextAt(g, n) = TextAt(h, n)
  <2> SUFFICES ASSUME NEW n \in 0..N PROVE TextAt(g, n) = TextAt(h, n)
    OBVIOUS
  <2>1. n \in Nat /\ \A k \in 1..n : g[k] = h[k]
    BY <1>3
  <2> QED
    BY <2>1, TextOfPrefix
<1>5. TextAt(g, N + 1) = ApplyTo(g[N + 1].comps, TextAt(g, N))
  BY <1>3, TextAtSteps
<1>6. TextAt(g, N) = Version
  BY <1>3, <1>4 DEF Version, h, N
<1>7. Version' = ApplyTo(comps, Version)
  BY <1>1, <1>3, <1>5, <1>6 DEF Version, g
<1>8. Version' = ot_snapshot(composed.comps)
  <2>1. composed.comps \in OperationsOver(Chars) /\ ApplyTo(composed.comps, <<>>) = Version'
    BY <1>7 DEF Grown, IsText
  <2> QED
    BY <2>1, SnapshotIsMade
<1> QED
  BY <1>3, <1>4, <1>6, <1>7, <1>8 DEF h, g, N

LEMMA ChainKept ==
  ASSUME ChainInv, NEW comps, NEW head, NEW composed, Grown(comps, head, composed)
  PROVE  ChainInv'
<1>1. /\ DOMAIN doc' = {"history", "composed", "size", "max_size"}
      /\ doc'.history = Append(doc.history, head)
      /\ doc'.composed.hash = head.hash
      /\ head.parent = Parent(doc)
  BY GrownIsDoc, ZenonT(60) DEF GrownDoc
<1>2. /\ doc.history \in Seq(ToSet(doc.history))
      /\ Len(doc.history) \in Nat
      /\ IsChain(doc.history)
  <2>1. Len(doc.history) \in Nat
    BY DEF ChainInv
  <2> QED
    BY <2>1, LinkedIsChain DEF ChainInv
<1>3. head.parent = IF doc.history = <<>> THEN ZeroHash ELSE Last(doc.history).hash
  BY <1>1 DEF Parent
<1>4. /\ IsChain(doc'.history)
      /\ doc'.history # <<>>
      /\ Last(doc'.history) = head
  BY <1>1, <1>2, <1>3, ChainGrows
<1>5. doc'.history \in Seq(ToSet(doc'.history))
  BY <1>1, <1>2, StillASequence
<1>6. doc'.composed.hash = Last(doc'.history).hash
  BY <1>1, <1>4
<1>7. Versions' \ {0} = 1..Len(doc'.history)
  BY <1>5 DEF Versions
<1>8. Linked'
  BY <1>4, <1>6, <1>7 DEF Linked, IsChain
<1> QED
  BY <1>1, <1>4, <1>5, <1>8 DEF ChainInv

LEMMA TextKept ==
  ASSUME ChainInv, TextInv, NEW comps, Appendable(comps), NEW head, NEW composed,
         Grown(comps, head, composed)
  PROVE  TextInv'
<1>0. GrownDoc(comps, head, composed)
  BY GrownIsDoc
<1>1. /\ doc'.composed # NULL /\ doc'.composed.comps = composed.comps
      /\ doc'.size = ot_size(composed.comps)
  BY <1>0 DEF GrownDoc
<1>2. IsText(composed.comps) /\ ApplyTo(composed.comps, <<>>) = ApplyTo(comps, Version)
  BY DEF Grown
<1>3. Version' = ApplyTo(comps, Version) /\ Len(doc'.history) = Len(doc.history) + 1
      /\ Len(doc.history) \in Nat
  BY VersionsGrow
<1>4. doc'.history # <<>>
  BY <1>3
<1> QED
  BY <1>1, <1>2, <1>3, <1>4 DEF TextInv, IsText

(***************************************************************************)
(* Every hash of the history is that of the text at its version, and every *)
(* composition of a tail of the history leads from the text before it to   *)
(* the text of the document.                                               *)
(***************************************************************************)
HashInv == \A n \in 1..Len(doc.history) : doc.history[n].hash = HashOf(TextAt(doc.history, n))

Brings(op, from, to) ==
  /\ op # NULL
  /\ op.comps \in OperationsOver(Chars) /\ Passable(op.comps)
  /\ from \in Seq(Chars)
  /\ BaseLen(op.comps) = Len(from) /\ ApplyTo(op.comps, from) = to

SinceInv ==
  \A n \in 1..Len(doc.history) :
    Brings(ComposeFrom(doc.history, n), TextAt(doc.history, n - 1), Version)

LEMMA HashKept ==
  ASSUME ChainInv, TextInv, HashInv, NEW comps, Appendable(comps), NEW head, NEW composed,
         Grown(comps, head, composed)
  PROVE  HashInv'
<1> DEFINE N == Len(doc.history)
<1>1. /\ N \in Nat /\ Len(doc'.history) = N + 1
      /\ \A n \in 1..N : doc'.history[n] = doc.history[n]
      /\ doc'.history[N + 1] = head
      /\ \A n \in 0..N : TextAt(doc'.history, n) = TextAt(doc.history, n)
      /\ Version' = ot_snapshot(composed.comps)
  BY VersionsGrow
<1>2. head.hash = HashOf(Version')
  <2>1. GrownDoc(comps, head, composed)
    BY GrownIsDoc
  <2>2. head.hash = HashOf(ot_snapshot(composed.comps))
    BY <2>1 DEF GrownDoc
  <2> QED
    BY <1>1, <2>2
<1>3. Version' = TextAt(doc'.history, N + 1)
  BY <1>1 DEF Version
<1> HIDE DEF N
<1> SUFFICES ASSUME NEW n \in 1..Len(doc'.history)
             PROVE  doc'.history[n].hash = HashOf(TextAt(doc'.history, n))
  BY DEF HashInv
<1>4. CASE n = N + 1
  BY <1>1, <1>2, <1>3, <1>4
<1>5. CASE n # N + 1
  <2>1. n \in 1..N /\ n \in 0..N
    BY <1>1, <1>5
  <2> QED
    BY <1>1, <2>1 DEF HashInv, N
<1> QED
  BY <1>4, <1>5

\* One more operation brings the holder of any version to the new one.
LEMMA BringsOn ==
  ASSUME NEW op, NEW from, NEW to \in Seq(Chars), Brings(op, from, to),
         NEW head, head.comps \in OperationsOver(Chars), Passable(head.comps),
         BaseLen(head.comps) = Len(to)
  PROVE  Brings(ComposeNext(op, head), from, ApplyTo(head.comps, to))
<1> DEFINE p == op.comps
           q == head.comps
           s == ComposeComps(p, q)
<1>1. /\ op # NULL /\ p \in OperationsOver(Chars) /\ q \in OperationsOver(Chars)
      /\ BothPass(p, q) /\ from \in Seq(Chars)
      /\ BaseLen(p) = Len(from) /\ ApplyTo(p, from) = to /\ BaseLen(q) = Len(to)
  BY DEF Brings, BothPass
<1>2. ComposeNext(op, head) = Composition(op, s)
  BY <1>1 DEF ComposeNext, ot_compose
<1> HIDE DEF p, q, s
<1>3. OutLen(p) = Len(to)
  <2>1. BaseLen(p) <= Len(from)
    BY <1>1
  <2> QED
    BY <1>1, <2>1, MadeLength
<1>4. /\ s.failed <=> OutLen(p) # BaseLen(q)
      /\ ~s.failed => InSequence(Chars, p, q, s.composed)
      /\ WellMade(s.composed)
  BY <1>1, ComposeResult DEF s
<1>5. ~s.failed /\ InSequence(Chars, p, q, s.composed)
  BY <1>1, <1>3, <1>4
<1> DEFINE r == ComposeNext(op, head)
<1>6. r = Op(op.client_id, op.parent, ZeroHash, s.composed)
  BY <1>2, <1>5 DEF Composition
<1>7. r # NULL
  BY <1>6, OpIsNotNull
<1>8. r.comps = s.composed
  BY <1>6 DEF Op
<1> HIDE DEF r
<1>9. /\ s.composed \in OperationsOver(Chars) /\ Passable(s.composed)
      /\ BaseLen(s.composed) = Len(from)
      /\ ApplyTo(s.composed, from) = ApplyTo(q, to)
  BY <1>1, <1>4, <1>5 DEF InSequence, WellMade
<1> QED
  BY <1>1, <1>7, <1>8, <1>9 DEF Brings, r, q

LEMMA SinceKept ==
  ASSUME ChainInv, TextInv, SinceInv, NEW comps, Appendable(comps), NEW head, NEW composed,
         Grown(comps, head, composed)
  PROVE  SinceInv'
<1> DEFINE h == doc.history
           g == doc'.history
           N == Len(h)
           S == ToSet(h) \cup {head}
<1>1. /\ N \in Nat /\ Len(g) = N + 1 /\ g[N + 1] = head
      /\ \A n \in 0..N : TextAt(g, n) = TextAt(h, n)
      /\ TextAt(g, N) = Version
      /\ Version' = ApplyTo(comps, Version)
  BY VersionsGrow
<1>2. g = Append(h, head) /\ head.comps = comps /\ head # NULL
  BY GrownIsDoc DEF GrownDoc
<1>3. /\ comps \in OperationsOver(Chars) /\ Passable(comps) /\ BaseLen(comps) = Len(Version)
      /\ Version \in Seq(Chars)
  BY TextIsVersion DEF Appendable, Grown
<1>4. h \in Seq(S) /\ head \in S
  <2>1. h \in Seq(ToSet(h))
    BY DEF ChainInv
  <2> QED
    BY <2>1
<1> SUFFICES ASSUME NEW n \in 1..Len(g)
             PROVE  Brings(ComposeFrom(g, n), TextAt(g, n - 1), Version')
  BY DEF SinceInv, Brings
<1> HIDE DEF h, g, S
<1>5. CASE n = N + 1
  <2>1. ComposeFrom(g, n) = ot_dup_op(head)
    <3>1. Len(g) \in Nat
      BY <1>1
    <3> QED
      BY <1>1, <1>5, <3>1, SinceLast
  <2>2. n - 1 = N
    BY <1>1, <1>5
  <2>3. CleanOver(Chars, head)
    BY <1>2, <1>3 DEF CleanOver
  <2>4. /\ ot_dup_op(head) # NULL /\ CleanOver(Chars, ot_dup_op(head))
        /\ Alike(Chars, ot_dup_op(head).comps, comps)
    BY <1>2, <2>3, CopyOfClean
  <2> QED
    BY <1>1, <1>3, <2>1, <2>2, <2>4 DEF Brings, CleanOver, Alike
<1>6. CASE n # N + 1
  <2>1. n \in 1..N /\ n - 1 \in 0..N
    BY <1>1, <1>6
  <2>2. ComposeFrom(g, n) = ComposeNext(ComposeFrom(h, n), head)
    BY <1>2, <1>4, <2>1, SinceLonger
  <2>3. Brings(ComposeFrom(h, n), TextAt(h, n - 1), Version)
    BY <2>1 DEF SinceInv, h
  <2>4. TextAt(g, n - 1) = TextAt(h, n - 1)
    BY <1>1, <2>1
  <2>5. Brings(ComposeNext(ComposeFrom(h, n), head), TextAt(h, n - 1), ApplyTo(head.comps, Version))
    BY <1>2, <1>3, <2>3, BringsOn
  <2> QED
    BY <1>1, <1>2, <2>2, <2>4, <2>5
<1> QED
  BY <1>5, <1>6

(***************************************************************************)
(* ot_decode_doc makes the same document of the same history: it refuses   *)
(* nothing the document took, under the same maximum size or none.         *)
(***************************************************************************)
LEMMA ReloadKept ==
  ASSUME ChainInv, TextInv, ReloadsTheSame, NEW comps, Appendable(comps), NEW head,
         NEW composed, Grown(comps, head, composed)
  PROVE  ReloadsTheSame'
<1> DEFINE op == Op(1, ZeroHash, ZeroHash, comps)
           S == ToSet(doc.history) \cup {head}
<1>0. GrownDoc(comps, head, composed)
  BY GrownIsDoc
<1>1. /\ doc'.history = Append(doc.history, head) /\ doc'.max_size = doc.max_size
      /\ DOMAIN doc' = {"history", "composed", "size", "max_size"}
      /\ head.comps = comps /\ head.client_id = 1
  BY <1>0 DEF GrownDoc
<1>2. /\ doc' = Extended(doc, head, composed)
      /\ head = Op(1, Parent(doc), HashOf(ot_snapshot(composed.comps)), comps)
      /\ composed = Composed(doc, op) /\ composed # NULL /\ ~Exceeds(doc, op)
  BY DEF Grown
<1>3. op.comps = comps /\ op.client_id = 1
  BY DEF Op
<1>4. /\ DOMAIN doc = {"history", "composed", "size", "max_size"}
      /\ doc.history \in Seq(S) /\ head \in S
  <2>1. doc.history \in Seq(ToSet(doc.history))
    BY DEF ChainInv
  <2> QED
    BY <2>1 DEF ChainInv
<1> HIDE DEF op, S
<1>5. doc'.history # <<>> /\ Last(doc'.history) = head
  <2> DEFINE longer == Append(doc.history, head)
  <2>1. Len(longer) # 0 /\ longer[Len(longer)] = head
    BY <1>4
  <2>2. Last(longer) = longer[Len(longer)]
    BY DEF Last
  <2> HIDE DEF longer
  <2>3. longer # <<>>
    <3>1. Len(<<>>) = 0
      OBVIOUS
    <3> QED
      BY <2>1, <3>1
  <2>4. doc'.history = longer
    BY <1>1 DEF longer
  <2> QED
    BY <2>1, <2>2, <2>3, <2>4
<1> SUFFICES ASSUME NEW m \in {0, doc.max_size}
             PROVE  ot_decode_doc(ot_new_doc(m), doc'.history) =
                      [err |-> "none", doc |-> [doc' EXCEPT !.max_size = m], op |-> head]
  BY <1>1, <1>5 DEF ReloadsTheSame, ot_encode_doc
<1> DEFINE d == [doc EXCEPT !.max_size = m]
           r == ot_decode_doc(ot_new_doc(m), doc.history)
<1>6. r.err = "none" /\ r.doc = d
  BY DEF ReloadsTheSame, ot_encode_doc
<1>7. /\ d.history = doc.history /\ d.composed = doc.composed /\ d.size = doc.size
      /\ d.max_size = m /\ DOMAIN d = {"history", "composed", "size", "max_size"}
  BY <1>4
<1> HIDE DEF r
<1>8. ot_decode_doc(ot_new_doc(m), doc'.history) = DecodeNext(r, head)
  BY <1>1, <1>4, ReadLonger DEF r
<1>9. DecodeNext(r, head) = ot_doc_append(d, head)
  BY <1>6 DEF DecodeNext
<1>10. [doc' EXCEPT !.max_size = m] = Extended(d, head, composed)
  <2> DEFINE latest == [composed EXCEPT !.hash = head.hash]
             size == ot_size(composed.comps)
             longer == Append(doc.history, head)
             a == [doc' EXCEPT !.max_size = m]
             b == Extended(d, head, composed)
  <2>1. doc' = [doc EXCEPT !.history = longer, !.composed = latest, !.size = size]
    BY <1>2 DEF Extended
  <2>2. b = [d EXCEPT !.history = longer, !.composed = latest, !.size = size]
    BY <1>7 DEF Extended
  <2> HIDE DEF latest, size, longer, b
  <2>3. b = [doc EXCEPT !.history = longer, !.composed = latest, !.size = size, !.max_size = m]
    BY <1>4, <2>2
  <2>4. a = [doc EXCEPT !.history = longer, !.composed = latest, !.size = size, !.max_size = m]
    BY <1>4, <2>1
  <2> QED
    BY <2>3, <2>4 DEF b
<1> HIDE DEF d
<1>11. ~Exceeds(d, head)
  <2>1. CASE m = 0
    BY <1>7, <2>1 DEF Exceeds
  <2>2. CASE m = doc.max_size
    BY <1>1, <1>2, <1>3, <1>7, <2>2 DEF Exceeds
  <2> QED
    BY <2>1, <2>2
<1>12. Composed(d, head) = composed
  <2>1. CASE doc.history = <<>>
    BY <1>1, <1>2, <1>3, <1>7, <2>1 DEF Composed
  <2>2. CASE doc.history # <<>>
    <3>1. ot_compose(doc.composed, head) = ot_compose(doc.composed, op)
      BY <1>1, <1>3 DEF ot_compose
    <3> QED
      BY <1>2, <1>7, <2>2, <3>1 DEF Composed
  <2> QED
    BY <2>1, <2>2
<1>13. NewHead(d, head, composed) = head
  <2>1. Parent(d) = Parent(doc)
    BY <1>7 DEF Parent
  <2> QED
    BY <1>1, <1>2, <2>1 DEF NewHead
<1>14. ot_doc_append(d, head) = Moved(d, head, composed)
  BY <1>2, <1>11, <1>12, <1>13 DEF ot_doc_append, AppendComposed
<1> QED
  BY <1>8, <1>9, <1>10, <1>14 DEF Moved

-----------------------------------------------------------------------------
(***************************************************************************)
(* All of it together is the inductive invariant.                          *)
(***************************************************************************)
DocInv == ChainInv /\ TextInv /\ HashInv /\ SinceInv /\ ReloadsTheSame

LEMMA InitDoc == Init => DocInv
<1> SUFFICES ASSUME Init PROVE DocInv
  OBVIOUS
<1>1. PICK m \in MaxSize : doc = ot_new_doc(m)
  BY DEF Init
<1>2. /\ DOMAIN doc = {"history", "composed", "size", "max_size"}
      /\ doc.history = <<>> /\ doc.composed = NULL /\ doc.size = 0 /\ doc.max_size = m
  BY <1>1 DEF ot_new_doc
<1>3. Len(doc.history) = 0 /\ doc.history \in Seq(ToSet(doc.history))
  BY <1>2
<1>4. Versions \ {0} = {} /\ 1..Len(doc.history) = {}
  BY <1>3 DEF Versions
<1>5. ChainInv
  BY <1>2, <1>3, <1>4 DEF ChainInv, Linked
<1>6. TextInv /\ HashInv /\ SinceInv
  BY <1>2, <1>4 DEF TextInv, HashInv, SinceInv
<1>7. ReloadsTheSame
  <2> SUFFICES ASSUME NEW n \in {0, doc.max_size}
               PROVE  ot_decode_doc(ot_new_doc(n), <<>>) =
                        [err |-> "none", doc |-> [doc EXCEPT !.max_size = n], op |-> NULL]
    BY <1>2 DEF ReloadsTheSame, ot_encode_doc
  <2>1. [doc EXCEPT !.max_size = n] = ot_new_doc(n)
    BY <1>1 DEF ot_new_doc
  <2>2. ot_decode_doc(ot_new_doc(n), <<>>) = Refused(ot_new_doc(n), "none")
    BY ReadNothing
  <2> QED
    BY <2>1, <2>2 DEF Refused
<1> QED
  BY <1>5, <1>6, <1>7 DEF DocInv

LEMMA SameDoc == DocInv /\ doc' = doc => DocInv'
<1> SUFFICES ASSUME DocInv, doc' = doc PROVE DocInv'
  OBVIOUS
<1>1. ChainInv'
  BY DEF DocInv, ChainInv, Linked, Versions
<1>2. TextInv'
  BY DEF DocInv, TextInv, Version
<1>3. HashInv' /\ SinceInv'
  BY DEF DocInv, HashInv, SinceInv, Version
<1>4. ReloadsTheSame'
  BY DEF DocInv, ReloadsTheSame
<1> QED
  BY <1>1, <1>2, <1>3, <1>4 DEF DocInv

LEMMA NextDoc == DocInv /\ [Next]_vars => DocInv'
<1> SUFFICES ASSUME DocInv, [Next]_vars PROVE DocInv'
  OBVIOUS
<1>1. CASE Next
  <2>1. PICK comps \in IF doc.history = <<>> THEN FirstComps ELSE LaterComps : AppendOp(comps)
    BY <1>1 DEF Next
  <2>2. Appendable(comps)
    BY ChoiceIsAppendable
  <2>3. \/ doc' = doc
        \/ \E head, composed : Grown(comps, head, composed)
    BY <2>1, <2>2, AppendGrows DEF DocInv
  <2>4. CASE doc' = doc
    BY <2>4, SameDoc
  <2>5. CASE \E head, composed : Grown(comps, head, composed)
    <3>1. PICK head, composed : Grown(comps, head, composed)
      BY <2>5
    <3>2. ChainInv /\ TextInv /\ HashInv /\ SinceInv /\ ReloadsTheSame
      BY DEF DocInv
    <3>3. ChainInv'
      BY <3>1, <3>2, ChainKept
    <3>4. TextInv'
      BY <2>2, <3>1, <3>2, TextKept
    <3>5. HashInv'
      BY <2>2, <3>1, <3>2, HashKept
    <3>6. SinceInv'
      BY <2>2, <3>1, <3>2, SinceKept
    <3>7. ReloadsTheSame'
      BY <2>2, <3>1, <3>2, ReloadKept
    <3> QED
      BY <3>3, <3>4, <3>5, <3>6, <3>7 DEF DocInv
  <2> QED
    BY <2>3, <2>4, <2>5
<1>2. CASE UNCHANGED vars
  BY <1>2, SameDoc DEF vars
<1> QED
  BY <1>1, <1>2

LEMMA DocInvHolds == Spec => []DocInv
BY InitDoc, NextDoc, PTL DEF Spec

LEMMA ReplayIsComposed == DocInv => ComposedIsReplay
<1> SUFFICES ASSUME DocInv, doc.composed # NULL PROVE ComposedIsReplay
  BY DEF ComposedIsReplay
<1> DEFINE p == doc.composed.comps
           none == <<>>
           text == Text(doc)
<1>1. /\ p \in OperationsOver(Chars) /\ WellMade(p) /\ BaseLen(p) = 0
      /\ ApplyTo(p, none) = Version /\ doc.size = ot_size(p)
  BY DEF DocInv, TextInv, IsText
<1>2. text = Version /\ Version \in Seq(Chars)
  BY TextIsVersion DEF DocInv
<1>3. text = Replay(Len(doc.history))
  BY <1>2 DEF Version, Replay
<1>4. text = ApplyTo(p, none)
  BY <1>1, <1>2
<1> HIDE DEF p, text
<1>5. p = none \/ \E x \in Seq(Chars) : Len(x) # 0 /\ p = Append(none, InsertComp(x))
  BY <1>1, TextOnly
<1>6. CASE p = none
  <2>1. text = none
    <3>1. none \in Seq(Chars)
      OBVIOUS
    <3>2. ApplyTo(none, none) = none
      BY <3>1, MadeOfEmpty
    <3> QED
      BY <1>4, <1>6, <3>2
  <2>2. ot_size(none) = Bytes(none) % UintRange
    BY SizeOfText
  <2> QED
    BY <1>1, <1>3, <1>6, <2>1, <2>2 DEF ComposedIsReplay, p, text
<1>7. CASE \E x \in Seq(Chars) : Len(x) # 0 /\ p = Append(none, InsertComp(x))
  <2>1. PICK x \in Seq(Chars) : Len(x) # 0 /\ p = Append(none, InsertComp(x))
    BY <1>7
  <2>2. text = x
    <3>1. none \in Seq(Chars) /\ none \in OperationsOver(Chars)
      BY EmptyOperation
    <3>2. none \o x = x
      OBVIOUS
    <3>3. ApplyTo(none, none) = none
      BY <3>1, MadeOfEmpty
    <3> HIDE DEF none
    <3>4. ApplyTo(Append(none, InsertComp(x)), none) = ApplyTo(none, none) \o x
      BY <2>1, <3>1, MadeWithInsert
    <3> QED
      BY <1>4, <2>1, <3>2, <3>3, <3>4
  <2>3. ot_size(p) = Bytes(x) % UintRange
    BY <2>1, SizeOfText
  <2>4. p = ot_insert(none, text)
    BY <2>1, <2>2 DEF ot_insert, AppendComp
  <2> QED
    BY <1>1, <1>3, <2>2, <2>3, <2>4 DEF ComposedIsReplay, p, text
<1> QED
  BY <1>5, <1>6, <1>7

-----------------------------------------------------------------------------
\* The chain of hashes of a document has no gap, and the composition carries the
\* hash of its end: can_append and ot_doc_compose_after look at two copies of the
\* same hash (server.c:27, doc.c:118).
THEOREM LinkedHolds == Spec => []Linked
<1>1. DocInv => Linked
  BY DEF DocInv, ChainInv
<1> QED
  BY <1>1, DocInvHolds, PTL

\* Every hash in the chain is that of the text the operations up to it make, so
\* a client that names a version by its hash names its text.
THEOREM HashChainHolds == Spec => []HashChain
<1>1. DocInv => HashChain
  <2> SUFFICES ASSUME DocInv PROVE HashChain
    OBVIOUS
  <2>1. Len(doc.history) \in Nat
    BY DEF DocInv, ChainInv
  <2>2. Versions \ {0} = 1..Len(doc.history)
    BY <2>1 DEF Versions
  <2> QED
    BY <2>2 DEF DocInv, ChainInv, HashInv, HashChain, Replay
<1> QED
  BY <1>1, DocInvHolds, PTL

\* The composition a document keeps is its history played one operation after the
\* other; it holds only the text, and the size ot_doc_append compares with the
\* maximum is that of the text.
THEOREM ComposedIsReplayHolds == Spec => []ComposedIsReplay
BY ReplayIsComposed, DocInvHolds, PTL

\* What ot_doc_compose_after finds for a hash takes any text with that hash to the
\* text of the document, also when the text came about more than once (doc.c:118).
THEOREM CatchesUpHolds == Spec => []CatchesUp
<1>1. DocInv => CatchesUp
  <2> SUFFICES ASSUME DocInv PROVE CatchesUp
    OBVIOUS
  <2> DEFINE h == doc.history
             N == Len(h)
  <2>1. N \in Nat /\ HashInv /\ SinceInv
    BY DEF DocInv, ChainInv
  <2>2. Text(doc) = Version
    BY TextIsVersion DEF DocInv
  <2> SUFFICES
        ASSUME NEW n \in 0..(N - 1),
               NEW hash, hash = IF n = 0 THEN ZeroHash ELSE h[n].hash,
               hash # Last(h).hash
        PROVE  Brings(ot_doc_compose_after(doc, hash), TextAt(h, n), Version)
    BY <2>2 DEF CatchesUp, Brings, Replay
  <2>3. n \in Nat /\ N \in Nat \ {0} /\ (n # 0 => n \in 1..N) /\ h # <<>>
    <3>1. N # 0
      BY <2>1
    <3> QED
      BY <2>1, <3>1
  <2>4. Last(h) = h[N]
    BY DEF Last
  <2>5. \A k \in 1..N : Brings(ComposeFrom(h, k), TextAt(h, k - 1), Version)
    BY <2>1 DEF SinceInv
  <2>6. \A k \in 1..N : h[k].hash = HashOf(TextAt(h, k))
    BY <2>1 DEF HashInv
  <2>7. CASE n = 0
    <3>1. hash = ZeroHash
      BY <2>7
    <3>2. ot_doc_compose_after(doc, hash) = ComposeFrom(h, 1)
      BY <2>3, <3>1 DEF ot_doc_compose_after, Start
    <3>3. 1 \in 1..N /\ 1 - 1 = n
      BY <2>3, <2>7
    <3> HIDE DEF h, N
    <3> QED
      BY <2>5, <3>2, <3>3
  <2>8. CASE n # 0
    <3> DEFINE s == Positions(doc, hash)
               k == Newest(s)
    <3>1. n \in 1..N /\ hash = h[n].hash
      BY <2>3, <2>8
    <3>2. s \in SUBSET (1..N) /\ s # {} /\ \A i \in s : h[i].hash = hash
      <4>1. s = {i \in 1..N : h[i].hash = hash}
        BY DEF Positions
      <4> HIDE DEF s, h, N
      <4> QED
        BY <3>1, <4>1
    <3>3. hash # ZeroHash
      <4>1. hash = HashOf(TextAt(h, n))
        BY <2>6, <3>1
      <4> QED
        BY <4>1, NoTextHashesToZero
    <3>4. ot_doc_compose_after(doc, hash) = ComposeFrom(h, k + 1)
      BY <2>3, <3>2, <3>3 DEF ot_doc_compose_after, Start
    <3> HIDE DEF s
    <3>5. k \in s
      BY <2>1, <3>2, NewestPosition
    <3> HIDE DEF k, h, N
    <3>6. k \in 1..N /\ h[k].hash = hash
      BY <3>2, <3>5
    <3>7. TextAt(h, k) = TextAt(h, n)
      BY <2>6, <3>1, <3>6 DEF HashOf
    <3>8. k # N
      BY <2>4, <3>6
    <3>9. k + 1 \in 1..N /\ (k + 1) - 1 = k
      BY <2>1, <3>6, <3>8
    <3> QED
      BY <2>5, <3>4, <3>7, <3>9
  <2> QED
    BY <2>7, <2>8
<1> QED
  BY <1>1, DocInvHolds, PTL

\* ot_doc_append fails to compose just when the operation does not span the
\* document, and what it refuses leaves the document as it was (doc.c:60).
THEOREM RefusedForCauseHolds == Spec => RefusedForCause
<1> DEFINE Step ==
      /\ result' = "append_failed" => BaseLen(tried') # Len(Text(doc))
      /\ result' = "none" => \/ doc.history = <<>>
                             \/ BaseLen(tried') = Len(Text(doc))
      /\ result' # "none" => Text(doc') = Text(doc) /\ doc'.history = doc.history
<1>1. DocInv /\ [Next]_vars => [Step]_vars
  <2> SUFFICES ASSUME DocInv, Next PROVE Step
    OBVIOUS
  <2>1. PICK comps \in IF doc.history = <<>> THEN FirstComps ELSE LaterComps : AppendOp(comps)
    BY DEF Next
  <2>2. Appendable(comps)
    BY ChoiceIsAppendable
  <2>3. /\ tried' = comps
        /\ \/ doc' = doc /\ result' = "max_size"
           \/ doc' = doc /\ result' = "append_failed" /\ BaseLen(comps) # Len(Version)
           \/ \E head, composed : Grown(comps, head, composed)
    BY <2>1, <2>2, AppendGrows DEF DocInv
  <2>4. Text(doc) = Version
    BY TextIsVersion DEF DocInv
  <2>5. CASE doc' = doc /\ result' = "max_size"
    BY <2>5
  <2>6. CASE doc' = doc /\ result' = "append_failed" /\ BaseLen(comps) # Len(Version)
    BY <2>3, <2>4, <2>6
  <2>7. CASE \E head, composed : Grown(comps, head, composed)
    <3>1. result' = "none" /\ BaseLen(comps) = Len(Version)
      BY <2>7 DEF Grown
    <3> QED
      BY <2>3, <2>4, <3>1
  <2> QED
    BY <2>3, <2>5, <2>6, <2>7
<1>2. ([][Step]_vars) => RefusedForCause
  BY DEF RefusedForCause
<1> HIDE DEF Step
<1> QED
  BY <1>1, <1>2, DocInvHolds, PTL DEF Spec

\* A document given away with ot_encode_doc is the same document after
\* ot_decode_doc.
THEOREM ReloadsTheSameHolds == Spec => []ReloadsTheSame
<1>1. DocInv => ReloadsTheSame
  BY DEF DocInv
<1> QED
  BY <1>1, DocInvHolds, PTL

-----------------------------------------------------------------------------
(***************************************************************************)
(* The maximum size.  ot_doc_append compares uint32_t sums with it, and an *)
(* operation that deletes more than it inserts wraps one of them; the      *)
(* comparison is right as long as no single operation adds so much that    *)
(* the sum of both passes the range.                                       *)
(***************************************************************************)
TextsFit ==
  /\ MaxSize \subseteq 0..(UintRange - 1)
  /\ \A m \in MaxSize : \A comps \in FirstComps \cup LaterComps :
       m + SumOf(comps, Measure) < UintRange

LEMMA Remainder ==
  ASSUME NEW x \in Int
  PROVE  /\ x \in 0..(UintRange - 1) => x % UintRange = x
         /\ x \in UintRange..(2 * UintRange - 1) => x % UintRange = x - UintRange
         /\ x \in (-UintRange)..(-1) => x % UintRange = x + UintRange
BY UintRangeAssumption

LEMMA SumOfRemainders ==
  ASSUME NEW x \in Int, NEW y \in Nat, y < UintRange, 0 <= x + y, x + y < UintRange
  PROVE  ((x % UintRange) + (y % UintRange)) % UintRange = x + y
<1>1. UintRange \in Nat \ {0}
  BY UintRangeAssumption
<1>2. y % UintRange = y
  BY <1>1, Remainder
<1>3. CASE x >= 0
  <2>1. x \in 0..(UintRange - 1) /\ x + y \in 0..(UintRange - 1)
    BY <1>1, <1>3
  <2> QED
    BY <1>2, <2>1, Remainder
<1>4. CASE x < 0
  <2>1. /\ x \in (-UintRange)..(-1)
        /\ x + UintRange + y \in UintRange..(2 * UintRange - 1)
    BY <1>1, <1>4
  <2>2. x % UintRange = x + UintRange
    BY <2>1, Remainder
  <2>3. (x + UintRange + y) % UintRange = (x + UintRange + y) - UintRange
    BY <1>1, <2>1, Remainder
  <2> QED
    BY <1>1, <1>2, <2>2, <2>3
<1> QED
  BY <1>3, <1>4

LEMMA SizeIsBytes ==
  ASSUME DocInv
  PROVE  doc.size = Bytes(Version) % UintRange
<1>1. Text(doc) = Version
  BY TextIsVersion DEF DocInv
<1>2. CASE doc.composed # NULL
  BY <1>1, <1>2, ReplayIsComposed DEF ComposedIsReplay
<1>3. CASE doc.composed = NULL
  <2>1. doc.size = 0
    BY <1>3 DEF DocInv, TextInv
  <2>2. Bytes(Version) = 0
    BY <1>1, <1>3, BytesOfEmpty DEF Text
  <2>3. 0 % UintRange = 0
    BY UintRangeAssumption
  <2> QED
    BY <2>1, <2>2, <2>3
<1> QED
  BY <1>2, <1>3

SizeInv == doc.max_size \in MaxSize /\ (doc.max_size > 0 => Bytes(Version) <= doc.max_size)

LEMMA SizeKept ==
  ASSUME TextsFit, DocInv, SizeInv, NEW comps \in FirstComps \cup LaterComps,
         Appendable(comps), NEW head, NEW composed, Grown(comps, head, composed)
  PROVE  SizeInv'
<1> DEFINE op == Op(1, ZeroHash, ZeroHash, comps)
           sum == SumOf(comps, Measure)
           old == Bytes(Version)
           new == Bytes(Version')
<1>1. GrownDoc(comps, head, composed)
  BY GrownIsDoc DEF DocInv
<1>2. doc'.max_size = doc.max_size
  BY <1>1 DEF GrownDoc
<1>3. Version' = ApplyTo(comps, Version)
  BY VersionsGrow DEF DocInv
<1>4. Version \in Seq(Chars)
  BY TextIsVersion DEF DocInv
<1>5. comps \in OperationsOver(Chars) /\ BaseLen(comps) = Len(Version)
  BY DEF Appendable, Grown
<1>6. old \in Nat /\ new \in Nat
  BY <1>3, <1>4, <1>5, MadeIsText, BytesOf
<1>7. sum \in Int
  <2>1. SkipComp(0) \in ComponentsOver(Chars)
    <3>1. <<>> \in Seq(Chars) /\ 0 \in Nat
      OBVIOUS
    <3> QED
      BY <3>1, MadeComponents
  <2> QED
    BY <1>5, <2>1, SumOfLonger
<1>8. new <= old + sum
  <2>1. BaseLen(comps) <= Len(Version)
    BY <1>4, <1>5
  <2>2. SubSeq(Version, 1, BaseLen(comps)) = Version
    BY <1>4, <1>5
  <2> QED
    BY <1>3, <1>4, <1>5, <2>1, <2>2, MadeBytes
<1>9. op.comps = comps
  BY DEF Op
<1>10. ~Exceeds(doc, op)
  BY DEF Grown
<1>11. ot_size(comps) = sum % UintRange
  BY DEF ot_size
<1>12. doc.size = old % UintRange
  BY SizeIsBytes
<1> HIDE DEF op, sum, old, new
<1>13. ASSUME doc.max_size > 0 PROVE new <= doc.max_size
  <2>1. /\ doc.max_size \in Nat /\ doc.max_size < UintRange
        /\ old <= doc.max_size /\ doc.max_size + sum < UintRange
    <3>1. doc.max_size \in MaxSize /\ old <= doc.max_size
      BY <1>13 DEF SizeInv, old
    <3>2. doc.max_size \in 0..(UintRange - 1) /\ doc.max_size + sum < UintRange
      BY <3>1 DEF TextsFit, sum
    <3> QED
      BY <3>1, <3>2, UintRangeAssumption
  <2>2. ~((sum % UintRange) + (old % UintRange)) % UintRange > doc.max_size
    BY <1>9, <1>10, <1>11, <1>12, <1>13 DEF Exceeds
  <2>3. old < UintRange /\ 0 <= sum + old /\ sum + old < UintRange
    BY <1>6, <1>7, <1>8, <2>1, UintRangeAssumption
  <2>4. ((sum % UintRange) + (old % UintRange)) % UintRange = sum + old
    BY <1>6, <1>7, <2>3, SumOfRemainders
  <2> QED
    BY <1>6, <1>7, <1>8, <2>1, <2>2, <2>4
<1> QED
  BY <1>2, <1>13 DEF SizeInv, new

\* A document with a maximum size never holds more bytes than that, though
\* ot_doc_append counts a deleted character as one byte and adds in 32 bits
\* (doc.c:52): as long as no operation and maximum together pass the range.
THEOREM WithinMaxSizeHolds ==
  ASSUME TextsFit
  PROVE  Spec => []WithinMaxSize
<1>1. Init => SizeInv
  <2> SUFFICES ASSUME Init PROVE SizeInv
    OBVIOUS
  <2>1. PICK m \in MaxSize : doc = ot_new_doc(m)
    BY DEF Init
  <2>2. doc.max_size = m /\ doc.composed = NULL /\ m >= 0
    BY <2>1, UintRangeAssumption DEF ot_new_doc, TextsFit
  <2>3. Version = <<>>
    <3>1. DocInv
      BY InitDoc
    <3> QED
      BY <2>2, <3>1, TextIsVersion DEF DocInv, Text
  <2>4. Bytes(Version) = 0
    BY <2>3, BytesOfEmpty
  <2> QED
    BY <2>2, <2>4 DEF SizeInv
<1>2. DocInv /\ SizeInv /\ [Next]_vars => SizeInv'
  <2> SUFFICES ASSUME DocInv, SizeInv, [Next]_vars PROVE SizeInv'
    OBVIOUS
  <2>1. CASE doc' = doc
    BY <2>1 DEF SizeInv, Version
  <2>2. CASE Next
    <3>1. PICK comps \in IF doc.history = <<>> THEN FirstComps ELSE LaterComps : AppendOp(comps)
      BY <2>2 DEF Next
    <3>2. Appendable(comps) /\ comps \in FirstComps \cup LaterComps
      BY ChoiceIsAppendable
    <3>3. \/ doc' = doc
          \/ \E head, composed : Grown(comps, head, composed)
      BY <3>1, <3>2, AppendGrows DEF DocInv
    <3>4. CASE \E head, composed : Grown(comps, head, composed)
      <4>1. PICK head, composed : Grown(comps, head, composed)
        BY <3>4
      <4> QED
        BY <3>2, <4>1, SizeKept
    <3> QED
      BY <2>1, <3>3, <3>4
  <2> QED
    BY <2>1, <2>2 DEF vars
<1>3. DocInv /\ SizeInv => WithinMaxSize
  BY TextIsVersion DEF DocInv, SizeInv, WithinMaxSize
<1> QED
  BY <1>1, <1>2, <1>3, DocInvHolds, PTL DEF Spec
=============================================================================
