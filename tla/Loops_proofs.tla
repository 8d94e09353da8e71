---------------------------- MODULE Loops_proofs ----------------------------
(***************************************************************************)
(* ot_xform and ot_compose do what their callers rely on, for operations   *)
(* of any length with components of any size, whether or not one fits the  *)
(* other.  The induction over the turns of a call is that of the           *)
(* specification; what one turn does is in Ops_proofs.                     *)
(***************************************************************************)
EXTENDS Loops, Ops_proofs, FunctionTheorems

-----------------------------------------------------------------------------
(***************************************************************************)
(* What the two operations and the texts consist of.                       *)
(***************************************************************************)
Letters ==
  Alphabet(op1) \cup Alphabet(op2) \cup UNION {{text[i] : i \in DOMAIN text} : text \in Texts}

LEMMA AllOver ==
  ASSUME IsOperation(op1), IsOperation(op2)
  PROVE  /\ op1 \in OperationsOver(Letters) /\ op2 \in OperationsOver(Letters)
         /\ Texts \subseteq Seq(Letters)
<1>1. Alphabet(op1) \subseteq Letters /\ Alphabet(op2) \subseteq Letters
  BY DEF Letters
<1>2. \A text \in Texts : {text[i] : i \in DOMAIN text} \subseteq Letters
  BY DEF Letters
<1> HIDE DEF Letters
<1>3. op1 \in OperationsOver(Letters)
  BY <1>1, OperationOver
<1>4. op2 \in OperationsOver(Letters)
  BY <1>1, OperationOver
<1>5. \A text \in Texts : text \in Seq(Letters)
  BY <1>2, TextOver, TextsAssumption
<1> QED
  BY <1>3, <1>4, <1>5

-----------------------------------------------------------------------------
(***************************************************************************)
(* The invariant: what holds between two turns of the call.                *)
(***************************************************************************)
LoopInv ==
  /\ IsOperation(op1) /\ IsOperation(op2)
  /\ call \in {"ot_xform", "ot_compose"}
  /\ Transforming => XformInv(Letters, op1, op2, loop)
  /\ Composing => ComposeInv(Letters, op1, op2, loop)

LEMMA InitLoop == Init => LoopInv
<1> SUFFICES ASSUME Init PROVE LoopInv
  OBVIOUS
<1>1. IsOperation(op1) /\ IsOperation(op2)
  BY PairsAssumption DEF Init
<1>2. op1 \in OperationsOver(Letters) /\ op2 \in OperationsOver(Letters)
  BY <1>1, AllOver
<1>3. /\ XformInv(Letters, op1, op2, XformStart(op1, op2))
      /\ ComposeInv(Letters, op1, op2, ComposeStart(op1, op2))
  BY <1>2, XformInvAtStart, ComposeInvAtStart
<1> QED
  BY <1>1, <1>3 DEF Init, LoopInv, Transforming, Composing

\* A turn keeps the invariant and, where both operations can be passed, gets
\* further.
Advances ==
  BothPassable =>
    \/ loop'.failed
    \/ Done' > Done
    \/ Composing /\ Done' = Done /\ loop'.it2.offset > loop.it2.offset

LEMMA TurnsAdvance == LoopInv /\ Next => LoopInv' /\ Advances
<1> SUFFICES ASSUME LoopInv, Next PROVE LoopInv' /\ Advances
  OBVIOUS
<1>1. UNCHANGED <<call, op1, op2>> /\ (TurnOfXform \/ TurnOfCompose)
  BY DEF Next
<1>2. /\ Transforming' <=> Transforming
      /\ Composing' <=> Composing
      /\ Done' = Finished(op1, loop'.it1) + Finished(op2, loop'.it2)
      /\ Letters' = Letters
  BY <1>1 DEF Transforming, Composing, Done, Finished, Letters, Alphabet
<1>3. IsOperation(op1) /\ IsOperation(op2) /\ call \in {"ot_xform", "ot_compose"}
  BY DEF LoopInv
<1>4. op1 \in OperationsOver(Letters) /\ op2 \in OperationsOver(Letters)
  BY <1>3, AllOver
<1>5. BothPassable <=> BothPass(op1, op2)
  BY DEF BothPassable, BothPass
<1> HIDE DEF Letters
<1>6. CASE TurnOfXform
  <2>1. /\ XformInv(Letters, op1, op2, loop) /\ XformRunning(loop)
        /\ loop' = XformStep(op1, op2, loop) /\ call = "ot_xform"
    BY <1>6 DEF TurnOfXform, LoopInv, Transforming
  <2>2. /\ XformInv(Letters, op1, op2, loop')
        /\ BothPass(op1, op2) => XformAdvances(op1, op2, loop, loop')
    BY <1>4, <2>1, XformKeepsInv
  <2>3. ~Composing
    BY <2>1 DEF Composing
  <2>4. LoopInv'
    BY <1>1, <1>2, <1>3, <2>2, <2>3 DEF LoopInv
  <2>5. Advances
    BY <1>2, <1>5, <2>2 DEF Advances, XformAdvances, Done
  <2> QED
    BY <2>4, <2>5
<1>7. CASE TurnOfCompose
  <2>1. /\ ComposeInv(Letters, op1, op2, loop) /\ ComposeRunning(loop)
        /\ loop' = ComposeStep(op1, op2, loop) /\ call = "ot_compose"
    BY <1>7 DEF TurnOfCompose, LoopInv, Composing
  <2>2. /\ ComposeInv(Letters, op1, op2, loop')
        /\ BothPass(op1, op2) => ComposeAdvances(op1, op2, loop, loop')
    BY <1>4, <2>1, ComposeKeepsInv
  <2>3. Composing /\ ~Transforming
    BY <2>1 DEF Composing, Transforming
  <2>4. LoopInv'
    BY <1>1, <1>2, <1>3, <2>2, <2>3 DEF LoopInv
  <2>5. Advances
    BY <1>2, <1>5, <2>2, <2>3 DEF Advances, ComposeAdvances, Done
  <2> QED
    BY <2>4, <2>5
<1> QED
  BY <1>1, <1>6, <1>7

LEMMA StutterKeepsLoop == LoopInv /\ UNCHANGED vars => LoopInv'
BY DEF LoopInv, vars, Transforming, Composing, Letters, Alphabet

LEMMA LoopInvariant == Spec => []LoopInv
<1>1. LoopInv /\ [Next]_vars => LoopInv'
  BY TurnsAdvance, StutterKeepsLoop
<1> QED
  BY <1>1, InitLoop, PTL DEF Spec

\* Which of the two it is.
LEMMA EitherCall ==
  ASSUME LoopInv
  PROVE  \/ /\ Transforming /\ ~Composing /\ XformInv(Letters, op1, op2, loop)
         \/ /\ Composing /\ ~Transforming /\ ComposeInv(Letters, op1, op2, loop)
BY DEF LoopInv, Transforming, Composing

\* An iterator that stands somewhere stands inside a component, if all can be
\* passed.
LEMMA StandsInside ==
  ASSUME NEW X, NEW p \in OperationsOver(X), NEW it, Placed(p, it), Passable(p), it.next
  PROVE  Inside(p, it)
<1>1. /\ it.pos \in 1..Len(p) /\ Kind(p, it) = p[it.pos].type
  BY KindOf DEF Placed
<1>2. CanPass(p[it.pos])
  BY <1>1 DEF Passable, CanPass
<1>3. /\ Left(p, it) # 0 /\ ot_comp_size(p[it.pos]) \in Nat /\ it.offset \in Nat
      /\ Left(p, it) \in Nat /\ it.offset + Left(p, it) = ot_comp_size(p[it.pos])
  BY <1>2, ComponentAt DEF CanPass
<1> DEFINE left == Left(p, it)
           size == ot_comp_size(p[it.pos])
<1> HIDE DEF left, size
<1>4. it.offset \in 0..(size - 1)
  BY <1>3 DEF left, size
<1> QED
  BY <1>1, <1>4 DEF Inside, size

-----------------------------------------------------------------------------
\* The iterators of ot_xform and ot_compose never leave their components,
\* where the code takes a component whole they are at its beginning, and both
\* stand at the same character of the text the operations meet in.
THEOREM AlignedHolds == Spec => []Aligned
<1>1. ASSUME LoopInv, BothPassable
      PROVE  InPlace /\ Spanned(Consumed1) = BaseLen(Consumed2)
  <2>1. op1 \in OperationsOver(Letters) /\ op2 \in OperationsOver(Letters)
    BY <1>1, AllOver DEF LoopInv
  <2>2. Passable(op1) /\ Passable(op2)
    BY <1>1 DEF BothPassable
  <2>3. CASE Transforming /\ ~Composing /\ XformInv(Letters, op1, op2, loop)
    <3>1. Placed(op1, loop.it1) /\ Placed(op2, loop.it2)
      BY <2>3 DEF XformInv
    <3>2. /\ loop.it1.next => Inside(op1, loop.it1)
          /\ loop.it2.next => Inside(op2, loop.it2)
      BY <2>1, <2>2, <3>1, StandsInside
    <3>3. BaseLen(Consumed1) = BaseLen(Consumed2)
      BY <2>3 DEF XformInv, Merged, Consumed1, Consumed2
    <3> QED
      BY <2>3, <3>2, <3>3 DEF InPlace, XformInv, Spanned
  <2>4. CASE Composing /\ ~Transforming /\ ComposeInv(Letters, op1, op2, loop)
    <3>1. Placed(op1, loop.it1) /\ Placed(op2, loop.it2)
      BY <2>4 DEF ComposeInv
    <3>2. /\ loop.it1.next => Inside(op1, loop.it1)
          /\ loop.it2.next => Inside(op2, loop.it2)
      BY <2>1, <2>2, <3>1, StandsInside
    <3>3. OutLen(Consumed1) = BaseLen(Consumed2)
      BY <2>4 DEF ComposeInv, InSequence, Consumed1, Consumed2
    <3> QED
      BY <2>4, <3>2, <3>3 DEF InPlace, ComposeInv, Spanned
  <2> QED
    BY <1>1, <2>3, <2>4, EitherCall
<1>2. LoopInv => Aligned
  BY <1>1 DEF Aligned
<1> QED
  BY <1>2, LoopInvariant, PTL

\* What has been made so far fits what has been consumed so far.
THEOREM ResultSpansHolds == Spec => []ResultSpans
<1>1. ASSUME LoopInv, BothPassable
      PROVE  /\ Transforming =>
                  /\ BaseLen(loop.prime1) = OutLen(Consumed2)
                  /\ BaseLen(loop.prime2) = OutLen(Consumed1)
                  /\ OutLen(loop.prime1) = OutLen(loop.prime2)
             /\ Composing =>
                  /\ BaseLen(loop.composed) = BaseLen(Consumed1)
                  /\ OutLen(loop.composed) = OutLen(Consumed2)
                  /\ IsNormal(loop.composed)
  <2>1. CASE Transforming /\ ~Composing /\ XformInv(Letters, op1, op2, loop)
    BY <2>1 DEF XformInv, Merged, Consumed1, Consumed2
  <2>2. CASE Composing /\ ~Transforming /\ ComposeInv(Letters, op1, op2, loop)
    <3>1. BothPass(op1, op2)
      BY <1>1 DEF BothPassable, BothPass
    <3> QED
      BY <2>2, <3>1 DEF ComposeInv, InSequence, WellMade, Consumed1, Consumed2
  <2> QED
    BY <1>1, <2>1, <2>2, EitherCall
<1>2. LoopInv => ResultSpans
  BY <1>1 DEF ResultSpans
<1> QED
  BY <1>2, LoopInvariant, PTL

\* A call that has returned and not failed has consumed both operations.
LEMMA AllConsumed ==
  ASSUME LoopInv, Succeeded
  PROVE  /\ BothPassable
         /\ Transforming => Merged(Letters, op1, op2, loop.prime1, loop.prime2)
         /\ Composing => InSequence(Letters, op1, op2, loop.composed)
<1>1. CASE Transforming /\ ~Composing /\ XformInv(Letters, op1, op2, loop)
  <2>1. ~loop.it1.next /\ ~loop.it2.next
    BY <1>1 DEF Succeeded, Returned, XformRunning
  <2>2. Placed(op1, loop.it1) /\ Placed(op2, loop.it2)
    BY <1>1 DEF XformInv
  <2>3. /\ Passable(op1) /\ Consumed(op1, loop.it1) = op1
        /\ Passable(op2) /\ Consumed(op2, loop.it2) = op2
    BY <2>1, <2>2, AllPassed
  <2> QED
    BY <1>1, <2>3 DEF BothPassable, XformInv
<1>2. CASE Composing /\ ~Transforming /\ ComposeInv(Letters, op1, op2, loop)
  <2>1. ~loop.it1.next /\ ~loop.it2.next
    BY <1>2 DEF Succeeded, Returned, ComposeRunning
  <2>2. Placed(op1, loop.it1) /\ Placed(op2, loop.it2)
    BY <1>2 DEF ComposeInv
  <2>3. /\ Passable(op1) /\ Consumed(op1, loop.it1) = op1
        /\ Passable(op2) /\ Consumed(op2, loop.it2) = op2
    BY <2>1, <2>2, AllPassed
  <2> QED
    BY <1>2, <2>3 DEF BothPassable, ComposeInv
<1> QED
  BY <1>1, <1>2, EitherCall

\* TP1: from the same text, op1 then op2' and op2 then op1' make the same text.
THEOREM TP1Holds == Spec => []TP1
<1>1. ASSUME LoopInv, Transforming, Succeeded,
             NEW text \in Texts, Len(text) = BaseLen(op1)
      PROVE  ApplyTo(loop.prime2, ApplyTo(op1, text)) = ApplyTo(loop.prime1, ApplyTo(op2, text))
  <2>1. text \in Seq(Letters)
    BY <1>1, AllOver DEF LoopInv
  <2>2. Merged(Letters, op1, op2, loop.prime1, loop.prime2)
    BY <1>1, AllConsumed
  <2> QED
    BY <1>1, <2>1, <2>2 DEF Merged
<1>2. LoopInv => TP1
  BY <1>1 DEF TP1
<1> QED
  BY <1>2, LoopInvariant, PTL

\* The composed operation does to every text what op1 followed by op2 does.
THEOREM ComposeIsSequenceHolds == Spec => []ComposeIsSequence
<1>1. ASSUME LoopInv, Composing, Succeeded,
             NEW text \in Texts, Len(text) = BaseLen(op1)
      PROVE  ApplyTo(loop.composed, text) = ApplyTo(op2, ApplyTo(op1, text))
  <2>1. text \in Seq(Letters)
    BY <1>1, AllOver DEF LoopInv
  <2>2. InSequence(Letters, op1, op2, loop.composed)
    BY <1>1, AllConsumed
  <2> QED
    BY <1>1, <2>1, <2>2 DEF InSequence
<1>2. LoopInv => ComposeIsSequence
  BY <1>1 DEF ComposeIsSequence
<1> QED
  BY <1>2, LoopInvariant, PTL

\* A call that returns has failed exactly when the second operation does not
\* span the text it is written against, or one of the two has a component of
\* size zero or an element.
THEOREM FailsForCauseHolds == Spec => []FailsForCause
<1>1. ASSUME LoopInv, Returned, loop.failed
      PROVE  ~BothPassable \/ Spanned(op1) # BaseLen(op2)
  <2>1. CASE Transforming /\ ~Composing /\ XformInv(Letters, op1, op2, loop)
    BY <1>1, <2>1 DEF XformInv, BothPass, BothPassable, Spanned
  <2>2. CASE Composing /\ ~Transforming /\ ComposeInv(Letters, op1, op2, loop)
    BY <1>1, <2>2 DEF ComposeInv, BothPass, BothPassable, Spanned
  <2> QED
    BY <1>1, <2>1, <2>2, EitherCall
<1>2. ASSUME LoopInv, Returned, ~loop.failed
      PROVE  BothPassable /\ Spanned(op1) = BaseLen(op2)
  <2>1. /\ BothPassable
        /\ Transforming => Merged(Letters, op1, op2, loop.prime1, loop.prime2)
        /\ Composing => InSequence(Letters, op1, op2, loop.composed)
    BY <1>2, AllConsumed DEF Succeeded
  <2> QED
    BY <1>2, <2>1, EitherCall DEF Merged, InSequence, Spanned
<1>3. LoopInv => FailsForCause
  BY <1>1, <1>2 DEF FailsForCause
<1> QED
  BY <1>3, LoopInvariant, PTL

\* No turn of either loop leaves everything where it was, so that a call on
\* operations without empty components and elements returns.
THEOREM EveryTurnAdvancesHolds == Spec => EveryTurnAdvances
<1>1. LoopInv /\ [Next]_vars => [Advances]_vars
  BY TurnsAdvance
<1> QED
  BY <1>1, LoopInvariant, PTL DEF Spec, EveryTurnAdvances, Advances
-----------------------------------------------------------------------------
(***************************************************************************)
(* Texts of distinct characters.                                           *)
(***************************************************************************)
LEMMA LettersOfConcat ==
  ASSUME NEW X, NEW a \in Seq(X), NEW b \in Seq(X)
  PROVE  ToSet(a \o b) = ToSet(a) \cup ToSet(b)
<1>1. /\ a \o b \in Seq(X) /\ Len(a \o b) = Len(a) + Len(b) /\ Len(a) \in Nat /\ Len(b) \in Nat
      /\ \A i \in 1..(Len(a) + Len(b)) : (a \o b)[i] = IF i <= Len(a) THEN a[i] ELSE b[i - Len(a)]
  BY ConcatProperties
<1>2. DOMAIN (a \o b) = 1..(Len(a) + Len(b)) /\ DOMAIN a = 1..Len(a) /\ DOMAIN b = 1..Len(b)
  BY <1>1
<1> DEFINE c == a \o b
           m == Len(a)
           n == Len(b)
<1>3. /\ DOMAIN c = 1..(m + n) /\ DOMAIN a = 1..m /\ DOMAIN b = 1..n /\ m \in Nat /\ n \in Nat
      /\ \A i \in 1..(m + n) : c[i] = IF i <= m THEN a[i] ELSE b[i - m]
  BY <1>1, <1>2
<1> HIDE DEF c, m, n
<1>4. ASSUME NEW i \in 1..m PROVE i \in 1..(m + n) /\ c[i] = a[i]
  BY <1>3
<1>5. ASSUME NEW i \in 1..n PROVE m + i \in 1..(m + n) /\ c[m + i] = b[i]
  <2>1. m + i \in 1..(m + n) /\ ~(m + i <= m) /\ (m + i) - m = i
    BY <1>3
  <2> QED
    BY <1>3, <2>1
<1>6. ASSUME NEW i \in 1..(m + n)
      PROVE  (i \in 1..m /\ c[i] = a[i]) \/ (i - m \in 1..n /\ c[i] = b[i - m])
  BY <1>3
<1>7. ToSet(c) = ToSet(a) \cup ToSet(b)
  <2>1. ToSet(c) \subseteq ToSet(a) \cup ToSet(b)
    BY <1>3, <1>6 DEF ToSet
  <2>2. ToSet(a) \subseteq ToSet(c)
    BY <1>3, <1>4 DEF ToSet
  <2>3. ToSet(b) \subseteq ToSet(c)
    BY <1>3, <1>5, SMTT(40) DEF ToSet
  <2> QED
    BY <2>1, <2>2, <2>3
<1> QED
  BY <1>7 DEF c

LEMMA LettersAreFew ==
  ASSUME NEW X, NEW a \in Seq(X)
  PROVE  /\ IsFiniteSet(ToSet(a)) /\ Cardinality(ToSet(a)) \in Nat
         /\ Len(a) \in Nat /\ Cardinality(ToSet(a)) <= Len(a)
<1>1. Len(a) \in Nat /\ DOMAIN a = 1..Len(a) /\ a \in [1..Len(a) -> X]
  OBVIOUS
<1>2. a \in Surjection(1..Len(a), ToSet(a))
  BY <1>1 DEF Surjection, ToSet
<1>3. IsFiniteSet(1..Len(a)) /\ Cardinality(1..Len(a)) = Len(a)
  BY <1>1, FS_Interval
<1>4. IsFiniteSet(ToSet(a)) /\ Cardinality(ToSet(a)) <= Cardinality(1..Len(a))
  BY <1>2, <1>3, FS_Surjection
<1> QED
  BY <1>1, <1>3, <1>4, FS_CardinalityType

LEMMA DistinctConcat ==
  ASSUME NEW X, NEW a \in Seq(X), NEW b \in Seq(X)
  PROVE  Distinct(a \o b) <=> Distinct(a) /\ Distinct(b) /\ ToSet(a) \cap ToSet(b) = {}
<1> DEFINE A == ToSet(a)
           B == ToSet(b)
<1>1. ToSet(a \o b) = A \cup B /\ Len(a \o b) = Len(a) + Len(b)
  BY LettersOfConcat
<1>2. /\ IsFiniteSet(A) /\ Cardinality(A) \in Nat /\ Len(a) \in Nat /\ Cardinality(A) <= Len(a)
      /\ IsFiniteSet(B) /\ Cardinality(B) \in Nat /\ Len(b) \in Nat /\ Cardinality(B) <= Len(b)
  BY LettersAreFew
<1> HIDE DEF A, B
<1>3. Cardinality(A \cup B) = Cardinality(A) + Cardinality(B) - Cardinality(A \cap B)
  BY <1>2, FS_Union
<1>4. IsFiniteSet(A \cap B)
  BY <1>2, FS_Intersection
<1>5. Cardinality(A \cap B) \in Nat /\ (Cardinality(A \cap B) = 0 <=> A \cap B = {})
  BY <1>4, FS_CardinalityType, FS_EmptySet
<1>6. Len(a) + Len(b) = Cardinality(A \cup B) <=>
        Len(a) = Cardinality(A) /\ Len(b) = Cardinality(B) /\ Cardinality(A \cap B) = 0
  BY <1>2, <1>3, <1>5
<1> QED
  BY <1>1, <1>5, <1>6 DEF Distinct, A, B

-----------------------------------------------------------------------------
(***************************************************************************)
(* What a merged text holds, of a text t, the texts s1 and s2 the two      *)
(* operations insert, and m1 and m2, what they make of t.                  *)
(***************************************************************************)
Apart(t, s1, s2) ==
  /\ Distinct(t) /\ Distinct(s1) /\ Distinct(s2)
  /\ ToSet(t) \cap ToSet(s1) = {} /\ ToSet(t) \cap ToSet(s2) = {} /\ ToSet(s1) \cap ToSet(s2) = {}

Intends(t, s1, s2, m1, m2, merged) ==
  /\ ToSet(m1) \subseteq ToSet(t) \cup ToSet(s1)
  /\ ToSet(m2) \subseteq ToSet(t) \cup ToSet(s2)
  /\ Apart(t, s1, s2) =>
       /\ ToSet(merged) = (ToSet(m1) \cap ToSet(m2)) \cup ToSet(s1) \cup ToSet(s2)
       /\ Distinct(merged)

\* One of the two inserts x.
LEMMA IntendsInsert ==
  ASSUME NEW X, NEW t \in Seq(X), NEW s1 \in Seq(X), NEW s2 \in Seq(X),
         NEW m1 \in Seq(X), NEW m2 \in Seq(X), NEW merged \in Seq(X), NEW x \in Seq(X),
         Intends(t, s1, s2, m1, m2, merged)
  PROVE  /\ Intends(t, s1 \o x, s2, m1 \o x, m2, merged \o x)
         /\ Intends(t, s1, s2 \o x, m1, m2 \o x, merged \o x)
<1>1. /\ ToSet(s1 \o x) = ToSet(s1) \cup ToSet(x) /\ ToSet(s2 \o x) = ToSet(s2) \cup ToSet(x)
      /\ ToSet(m1 \o x) = ToSet(m1) \cup ToSet(x) /\ ToSet(m2 \o x) = ToSet(m2) \cup ToSet(x)
      /\ ToSet(merged \o x) = ToSet(merged) \cup ToSet(x)
  BY LettersOfConcat
<1>2. Distinct(s1 \o x) <=> Distinct(s1) /\ Distinct(x) /\ ToSet(s1) \cap ToSet(x) = {}
  BY DistinctConcat
<1>3. Distinct(s2 \o x) <=> Distinct(s2) /\ Distinct(x) /\ ToSet(s2) \cap ToSet(x) = {}
  BY DistinctConcat
<1>4. Distinct(merged \o x) <=> Distinct(merged) /\ Distinct(x) /\ ToSet(merged) \cap ToSet(x) = {}
  BY DistinctConcat
<1>5. Apart(t, s1 \o x, s2) => Apart(t, s1, s2) /\ Distinct(x)
                               /\ ToSet(x) \cap (ToSet(t) \cup ToSet(s1) \cup ToSet(s2)) = {}
  BY <1>1, <1>2 DEF Apart
<1>6. Apart(t, s1, s2 \o x) => Apart(t, s1, s2) /\ Distinct(x)
                               /\ ToSet(x) \cap (ToSet(t) \cup ToSet(s1) \cup ToSet(s2)) = {}
  BY <1>1, <1>3 DEF Apart
<1> QED
  BY <1>1, <1>4, <1>5, <1>6 DEF Intends

\* Both come to the next characters b of the text.
LEMMA IntendsWalk ==
  ASSUME NEW X, NEW t \in Seq(X), NEW s1 \in Seq(X), NEW s2 \in Seq(X),
         NEW m1 \in Seq(X), NEW m2 \in Seq(X), NEW merged \in Seq(X), NEW b \in Seq(X),
         Intends(t, s1, s2, m1, m2, merged)
  PROVE  /\ Intends(t \o b, s1, s2, m1 \o b, m2 \o b, merged \o b)
         /\ Intends(t \o b, s1, s2, m1 \o b, m2, merged)
         /\ Intends(t \o b, s1, s2, m1, m2 \o b, merged)
         /\ Intends(t \o b, s1, s2, m1, m2, merged)
<1>1. /\ ToSet(t \o b) = ToSet(t) \cup ToSet(b)
      /\ ToSet(m1 \o b) = ToSet(m1) \cup ToSet(b) /\ ToSet(m2 \o b) = ToSet(m2) \cup ToSet(b)
      /\ ToSet(merged \o b) = ToSet(merged) \cup ToSet(b)
  BY LettersOfConcat
<1>2. Distinct(t \o b) <=> Distinct(t) /\ Distinct(b) /\ ToSet(t) \cap ToSet(b) = {}
  BY DistinctConcat
<1>3. Distinct(merged \o b) <=> Distinct(merged) /\ Distinct(b) /\ ToSet(merged) \cap ToSet(b) = {}
  BY DistinctConcat
<1>4. Apart(t \o b, s1, s2) => Apart(t, s1, s2) /\ Distinct(b)
                               /\ ToSet(b) \cap (ToSet(t) \cup ToSet(s1) \cup ToSet(s2)) = {}
  BY <1>1, <1>2 DEF Apart
<1> QED
  BY <1>1, <1>3, <1>4 DEF Intends

\* x is found in a text, in one piece.
Within(x, text) ==
  \E k \in 0..(Len(text) - Len(x)) : SubSeq(text, k + 1, k + Len(x)) = x

LEMMA WithinLonger ==
  ASSUME NEW X, NEW a \in Seq(X), NEW b \in Seq(X)
  PROVE  /\ Within(b, a \o b)
         /\ \A x \in Seq(X) : Within(x, a) => Within(x, a \o b)
<1> DEFINE c == a \o b
<1>1. /\ c \in Seq(X) /\ Len(c) = Len(a) + Len(b) /\ Len(a) \in Nat /\ Len(b) \in Nat
      /\ \A i \in 1..(Len(a) + Len(b)) : c[i] = IF i <= Len(a) THEN a[i] ELSE b[i - Len(a)]
  BY ConcatProperties
<1>2. SubSeq(c, Len(a) + 1, Len(a) + Len(b)) = b
  BY LastPiece
<1>3. Within(b, c)
  <2>1. Len(a) \in 0..(Len(c) - Len(b))
    BY <1>1
  <2> HIDE DEF c
  <2> QED
    BY <1>2, <2>1 DEF Within
<1>4. ASSUME NEW x \in Seq(X), NEW k \in 0..(Len(a) - Len(x)), SubSeq(a, k + 1, k + Len(x)) = x
      PROVE  k \in 0..(Len(c) - Len(x)) /\ SubSeq(c, k + 1, k + Len(x)) = x
  <2> DEFINE l == Len(x)
  <2>1. l \in Nat /\ k \in Nat /\ k + l <= Len(a) /\ k + l <= Len(c) /\ k \in 0..(Len(c) - l)
    BY <1>1
  <2>2. \A i \in 1..l : k + i \in 1..Len(a) /\ c[k + i] = a[k + i]
    BY <1>1, <2>1
  <2>3. \A i \in 1..l : SubSeq(a, k + 1, k + l)[i] = a[k + i]
    BY <2>1
  <2> HIDE DEF c
  <2>4. /\ SubSeq(c, k + 1, k + l) \in Seq(X) /\ Len(SubSeq(c, k + 1, k + l)) = l
        /\ \A i \in 1..l : SubSeq(c, k + 1, k + l)[i] = c[k + i]
    BY <1>1, <2>1
  <2>5. SubSeq(c, k + 1, k + l) = x
    <3> DEFINE y == SubSeq(c, k + 1, k + l)
    <3>1. y \in Seq(X) /\ Len(y) = Len(x) /\ \A i \in 1..Len(x) : y[i] = x[i]
      BY <1>4, <2>2, <2>3, <2>4
    <3> HIDE DEF y, l
    <3>2. y = x
      BY <3>1
    <3> QED
      BY <3>2 DEF y
  <2> QED
    BY <2>1, <2>5
<1>5. \A x \in Seq(X) : Within(x, a) => Within(x, c)
  <2> HIDE DEF c
  <2> QED
    BY <1>4 DEF Within
<1> QED
  BY <1>3, <1>5 DEF c

-----------------------------------------------------------------------------
(***************************************************************************)
(* What has been merged so far, of every text that has been consumed so    *)
(* far: P are the texts of the inserts that have been passed.              *)
(***************************************************************************)
Keeps(c1, c2, p2, P, text) ==
  /\ \A x \in P : Within(x, ApplyTo(p2, ApplyTo(c1, text)))
  /\ Intends(text, ApplyTo(c1, <<>>), ApplyTo(c2, <<>>), ApplyTo(c1, text), ApplyTo(c2, text),
             ApplyTo(p2, ApplyTo(c1, text)))

Intact(X, c1, c2, p2, P) ==
  \A text \in Seq(X) : Len(text) = BaseLen(c1) => Keeps(c1, c2, p2, P, text)

LEMMA KeptAlike ==
  ASSUME NEW X, NEW c1, NEW c2, NEW p2, NEW P, NEW d1, NEW d2, NEW q2,
         Intact(X, c1, c2, p2, P), Alike(X, d1, c1), Alike(X, d2, c2), Alike(X, q2, p2)
  PROVE  Intact(X, d1, d2, q2, P)
<1> SUFFICES ASSUME NEW text \in Seq(X), Len(text) = BaseLen(d1)
             PROVE  Keeps(d1, d2, q2, P, text)
  BY DEF Intact
<1> DEFINE none == <<>>
<1>1. none \in Seq(X)
  OBVIOUS
<1> HIDE DEF none
<1>2. /\ ApplyTo(d1, text) = ApplyTo(c1, text) /\ ApplyTo(d2, text) = ApplyTo(c2, text)
      /\ ApplyTo(d1, none) = ApplyTo(c1, none) /\ ApplyTo(d2, none) = ApplyTo(c2, none)
  BY <1>1 DEF Alike
<1>3. ApplyTo(c1, text) \in Seq(X)
  BY MadeIsText DEF Alike
<1>4. ApplyTo(q2, ApplyTo(c1, text)) = ApplyTo(p2, ApplyTo(c1, text))
  BY <1>3 DEF Alike
<1>5. Keeps(c1, c2, p2, P, text)
  BY DEF Intact, Alike
<1> QED
  BY <1>2, <1>4, <1>5 DEF Keeps, none

LEMMA KeptAtStart ==
  ASSUME NEW X
  PROVE  Intact(X, <<>>, <<>>, <<>>, {})
<1> SUFFICES ASSUME NEW text \in Seq(X), Len(text) = BaseLen(<<>>)
             PROVE  Keeps(<<>>, <<>>, <<>>, {}, text)
  BY DEF Intact
<1> DEFINE none == <<>>
<1>1. none \in Seq(X) /\ ToSet(none) = {} /\ Len(none) = 0
  BY DEF ToSet
<1> HIDE DEF none
<1>2. ApplyTo(<<>>, text) = none /\ ApplyTo(<<>>, none) = none
  BY <1>1, MadeOfEmpty DEF none
<1>3. Distinct(none)
  BY <1>1, FS_EmptySet DEF Distinct
<1> QED
  BY <1>1, <1>2, <1>3 DEF Keeps, Intends, none

\* The texts that are of interest when one of the two inserts.
LEMMA KeptInsert ==
  ASSUME NEW X, NEW c1, NEW c2, NEW p1, NEW p2, Merged(X, c1, c2, p1, p2),
         NEW P, P \subseteq Seq(X), Intact(X, c1, c2, p2, P), NEW x \in Seq(X), NEW n, n = Len(x)
  PROVE  /\ Intact(X, Append(c1, InsertComp(x)), c2, Append(p2, SkipComp(n)), P \cup {x})
         /\ Intact(X, c1, Append(c2, InsertComp(x)), Append(p2, InsertComp(x)), P \cup {x})
<1>1. /\ c1 \in OperationsOver(X) /\ c2 \in OperationsOver(X)
      /\ p1 \in OperationsOver(X) /\ p2 \in OperationsOver(X)
      /\ n \in Nat /\ InsertComp(x) \in ComponentsOver(X)
  BY MadeComponents DEF Merged
<1>2. BaseLen(Append(c1, InsertComp(x))) = BaseLen(c1)
  BY <1>1, LengthsWithComponent
<1>3. ASSUME NEW text \in Seq(X), Len(text) = BaseLen(c1)
      PROVE  /\ Keeps(Append(c1, InsertComp(x)), c2, Append(p2, SkipComp(n)), P \cup {x}, text)
             /\ Keeps(c1, Append(c2, InsertComp(x)), Append(p2, InsertComp(x)), P \cup {x}, text)
  <2> DEFINE none == <<>>
             s1 == ApplyTo(c1, none)
             s2 == ApplyTo(c2, none)
             m1 == ApplyTo(c1, text)
             m2 == ApplyTo(c2, text)
             m == ApplyTo(p2, m1)
  <2>1. none \in Seq(X)
    OBVIOUS
  <2>2. Keeps(c1, c2, p2, P, text)
    BY <1>3 DEF Intact
  <2>3. /\ \A y \in P : Within(y, m)
        /\ Intends(text, s1, s2, m1, m2, m)
    BY <2>2 DEF Keeps
  <2> HIDE DEF none
  <2>4. s1 \in Seq(X) /\ s2 \in Seq(X) /\ m1 \in Seq(X) /\ m2 \in Seq(X) /\ m \in Seq(X)
    BY <1>1, <2>1, MadeIsText
  <2>5. Len(m1) = BaseLen(p2)
    <3>1. BaseLen(c1) <= Len(text)
      BY <1>1, <1>3, LengthsAreNat
    <3> QED
      BY <1>1, <3>1, MadeLength DEF Merged
  <2>6. /\ ApplyTo(Append(c1, InsertComp(x)), text) = m1 \o x
        /\ ApplyTo(Append(c2, InsertComp(x)), text) = m2 \o x
        /\ ApplyTo(Append(c1, InsertComp(x)), none) = s1 \o x
        /\ ApplyTo(Append(c2, InsertComp(x)), none) = s2 \o x
    BY <1>1, <2>1, MadeWithInsert, ZenonT(60)
  <2> HIDE DEF s1, s2, m1, m2
  <2>7. ApplyTo(Append(p2, SkipComp(n)), m1 \o x) = m \o x
    <3>1. BothMade(X, p2, n, m1, x)
      BY <1>1, <2>4, <2>5, MadeAtEnd
    <3> QED
      BY <3>1 DEF BothMade
  <2>8. ApplyTo(Append(p2, InsertComp(x)), m1) = m \o x
    BY <1>1, <2>4, MadeWithInsert, ZenonT(60)
  <2> HIDE DEF m
  <2>9. \A y \in P \cup {x} : Within(y, m \o x)
    BY <2>3, <2>4, WithinLonger
  <2>10. /\ Intends(text, s1 \o x, s2, m1 \o x, m2, m \o x)
         /\ Intends(text, s1, s2 \o x, m1, m2 \o x, m \o x)
    BY <2>3, <2>4, IntendsInsert
  <2>11. Keeps(Append(c1, InsertComp(x)), c2, Append(p2, SkipComp(n)), P \cup {x}, text)
    BY <2>6, <2>7, <2>9, <2>10 DEF Keeps, none, s2, m2
  <2>12. Keeps(c1, Append(c2, InsertComp(x)), Append(p2, InsertComp(x)), P \cup {x}, text)
    BY <2>6, <2>8, <2>9, <2>10 DEF Keeps, none, s1, m1
  <2> QED
    BY <2>11, <2>12
<1> QED
  BY <1>2, <1>3 DEF Intact

\* The last n characters of a text that both come to.
LEMMA MadeOfLast ==
  ASSUME NEW X, NEW c \in OperationsOver(X), NEW n \in Nat
  PROVE  /\ ApplyTo(Append(c, SkipComp(n)), <<>>) = ApplyTo(c, <<>>)
         /\ ApplyTo(Append(c, DeleteComp(n)), <<>>) = ApplyTo(c, <<>>)
<1> DEFINE none == <<>>
           last == SubSeq(none, BaseLen(c) + 1, Least(BaseLen(c) + n, Len(none)))
<1>1. none \in Seq(X) /\ Len(none) = 0 /\ \A m \in Nat : SubSeq(none, m + 1, 0) = <<>>
  OBVIOUS
<1> HIDE DEF none
<1>2. BaseLen(c) \in Nat
  BY LengthsAreNat
<1>3. Least(BaseLen(c) + n, Len(none)) = 0
  BY <1>1, <1>2 DEF Least
<1>4. last = <<>>
  BY <1>1, <1>2, <1>3
<1> HIDE DEF last
<1>5. ApplyTo(Append(c, SkipComp(n)), none) = ApplyTo(c, none) \o last
  <2>1. ApplyTo(Append(c, SkipComp(n)), none) =
          ApplyTo(c, none) \o SubSeq(none, BaseLen(c) + 1, Least(BaseLen(c) + n, Len(none)))
    <3>1. none \in Seq(X)
      BY <1>1
    <3> QED
      BY <3>1, MadeOfLonger, ZenonT(60)
  <2> QED
    BY <2>1 DEF last
<1>6. ApplyTo(Append(c, DeleteComp(n)), none) = ApplyTo(c, none)
  BY <1>1, MadeOfLonger
<1>7. ApplyTo(c, none) \in Seq(X)
  BY <1>1, MadeIsText
<1>8. ApplyTo(c, none) \o last = ApplyTo(c, none)
  <2> DEFINE r == ApplyTo(c, none)
  <2> HIDE DEF r
  <2>1. r \in Seq(X)
    BY <1>7 DEF r
  <2>2. r \o <<>> = r
    BY <2>1, ConcatEmptySeq
  <2> QED
    BY <1>4, <2>2 DEF r
<1> QED
  BY <1>5, <1>6, <1>8 DEF none

LEMMA KeptWalk ==
  ASSUME NEW X, NEW c1, NEW c2, NEW p1, NEW p2, Merged(X, c1, c2, p1, p2),
         NEW P, P \subseteq Seq(X), Intact(X, c1, c2, p2, P), NEW n \in Nat
  PROVE  /\ Intact(X, Append(c1, SkipComp(n)), Append(c2, SkipComp(n)), Append(p2, SkipComp(n)), P)
         /\ Intact(X, Append(c1, SkipComp(n)), Append(c2, DeleteComp(n)), Append(p2, DeleteComp(n)), P)
         /\ Intact(X, Append(c1, DeleteComp(n)), Append(c2, SkipComp(n)), p2, P)
         /\ Intact(X, Append(c1, DeleteComp(n)), Append(c2, DeleteComp(n)), p2, P)
<1>1. /\ c1 \in OperationsOver(X) /\ c2 \in OperationsOver(X)
      /\ p1 \in OperationsOver(X) /\ p2 \in OperationsOver(X)
      /\ BaseLen(c1) = BaseLen(c2) /\ BaseLen(p2) = OutLen(c1)
  BY DEF Merged
<1>2. /\ BaseLen(Append(c1, SkipComp(n))) = BaseLen(c1) + n
      /\ BaseLen(Append(c1, DeleteComp(n))) = BaseLen(c1) + n
  BY <1>1, CountedComponents, LengthsWithComponent
<1>3. ASSUME NEW text \in Seq(X), Len(text) = BaseLen(c1) + n
      PROVE  /\ Keeps(Append(c1, SkipComp(n)), Append(c2, SkipComp(n)), Append(p2, SkipComp(n)), P, text)
             /\ Keeps(Append(c1, SkipComp(n)), Append(c2, DeleteComp(n)), Append(p2, DeleteComp(n)), P, text)
             /\ Keeps(Append(c1, DeleteComp(n)), Append(c2, SkipComp(n)), p2, P, text)
             /\ Keeps(Append(c1, DeleteComp(n)), Append(c2, DeleteComp(n)), p2, P, text)
  <2> DEFINE a == Lead(text, BaseLen(c1))
             b == Rest(text, BaseLen(c1))
             none == <<>>
             s1 == ApplyTo(c1, none)
             s2 == ApplyTo(c2, none)
             m1 == ApplyTo(c1, a)
             m2 == ApplyTo(c2, a)
             m == ApplyTo(p2, m1)
  <2>1. SplitMade(X, c1, n, text)
    BY <1>1, <1>3, MadeOfSplit
  <2>2. SplitMade(X, c2, n, text)
    <3>1. Len(text) = BaseLen(c2) + n
      BY <1>1, <1>3
    <3> QED
      BY <1>1, <3>1, MadeOfSplit
  <2>3. /\ a \in Seq(X) /\ b \in Seq(X) /\ Len(a) = BaseLen(c1) /\ Len(b) = n
        /\ m1 \in Seq(X) /\ Len(m1) = OutLen(c1)
        /\ ApplyTo(Append(c1, SkipComp(n)), text) = m1 \o b
        /\ ApplyTo(Append(c1, DeleteComp(n)), text) = m1
    BY <2>1 DEF SplitMade
  <2>4. /\ m2 \in Seq(X)
        /\ ApplyTo(Append(c2, SkipComp(n)), text) = m2 \o b
        /\ ApplyTo(Append(c2, DeleteComp(n)), text) = m2
    BY <1>1, <2>2 DEF SplitMade
  <2>5. text = a \o b
    <3>1. BaseLen(c1) \in Nat /\ BaseLen(c1) <= Len(text)
      BY <1>1, <1>3, LengthsAreNat
    <3> QED
      BY <3>1, TextSplits
  <2>6. none \in Seq(X)
    OBVIOUS
  <2>7. /\ ApplyTo(Append(c1, SkipComp(n)), none) = s1 /\ ApplyTo(Append(c1, DeleteComp(n)), none) = s1
        /\ ApplyTo(Append(c2, SkipComp(n)), none) = s2 /\ ApplyTo(Append(c2, DeleteComp(n)), none) = s2
    BY <1>1, MadeOfLast
  <2>8. Keeps(c1, c2, p2, P, a)
    BY <2>3 DEF Intact
  <2>9. /\ \A y \in P : Within(y, m)
        /\ Intends(a, s1, s2, m1, m2, m)
    BY <2>8 DEF Keeps
  <2> HIDE DEF none, a, b
  <2>10. s1 \in Seq(X) /\ s2 \in Seq(X) /\ m \in Seq(X)
    BY <1>1, <2>3, <2>6, MadeIsText
  <2> HIDE DEF s1, s2, m1, m2
  <2>11. BothMade(X, p2, n, m1, b)
    BY <1>1, <2>3, MadeAtEnd
  <2>12. /\ ApplyTo(Append(p2, SkipComp(n)), m1 \o b) = m \o b
         /\ ApplyTo(Append(p2, DeleteComp(n)), m1 \o b) = m
    BY <2>11 DEF BothMade
  <2>13. \A y \in P : Within(y, m \o b)
    <3> HIDE DEF m
    <3> QED
      BY <2>3, <2>9, <2>10, WithinLonger
  <2>14. /\ Intends(a \o b, s1, s2, m1 \o b, m2 \o b, m \o b)
         /\ Intends(a \o b, s1, s2, m1 \o b, m2, m)
         /\ Intends(a \o b, s1, s2, m1, m2 \o b, m)
         /\ Intends(a \o b, s1, s2, m1, m2, m)
    <3> HIDE DEF m
    <3> QED
      BY <2>3, <2>4, <2>9, <2>10, IntendsWalk
  <2>15. Keeps(Append(c1, SkipComp(n)), Append(c2, SkipComp(n)), Append(p2, SkipComp(n)), P, text)
    BY <2>3, <2>4, <2>5, <2>7, <2>12, <2>13, <2>14 DEF Keeps, none
  <2>16. Keeps(Append(c1, SkipComp(n)), Append(c2, DeleteComp(n)), Append(p2, DeleteComp(n)), P, text)
    BY <2>3, <2>4, <2>5, <2>7, <2>9, <2>12, <2>14 DEF Keeps, none
  <2>17. Keeps(Append(c1, DeleteComp(n)), Append(c2, SkipComp(n)), p2, P, text)
    BY <2>3, <2>4, <2>5, <2>7, <2>9, <2>14 DEF Keeps, none
  <2>18. Keeps(Append(c1, DeleteComp(n)), Append(c2, DeleteComp(n)), p2, P, text)
    BY <2>3, <2>4, <2>5, <2>7, <2>9, <2>14 DEF Keeps, none
  <2> QED
    BY <2>15, <2>16, <2>17, <2>18
<1> QED
  BY <1>2, <1>3 DEF Intact

-----------------------------------------------------------------------------
(***************************************************************************)
(* The same with what the builders make of the result.                     *)
(***************************************************************************)
LEMMA BuiltInsertKeeps ==
  ASSUME NEW X, NEW c1, NEW c2, NEW p1, NEW p2, Merged(X, c1, c2, p1, p2),
         NEW P, P \subseteq Seq(X), Intact(X, c1, c2, p2, P), NEW x \in Seq(X), NEW n, n = Len(x),
         NEW d
  PROVE  /\ Alike(X, d, Append(c1, InsertComp(x))) => Intact(X, d, c2, ot_skip(p2, n), P \cup {x})
         /\ Alike(X, d, Append(c2, InsertComp(x))) => Intact(X, c1, d, ot_insert(p2, x), P \cup {x})
<1>1. c1 \in OperationsOver(X) /\ c2 \in OperationsOver(X) /\ p2 \in OperationsOver(X) /\ n \in Nat
  BY DEF Merged
<1>2. Alike(X, c1, c1) /\ Alike(X, c2, c2)
  BY <1>1, AlikeItself
<1>3. /\ Alike(X, ot_skip(p2, n), Append(p2, SkipComp(n)))
      /\ Alike(X, ot_insert(p2, x), Append(p2, InsertComp(x)))
  BY <1>1, BuildersAlike
<1>4. /\ Intact(X, Append(c1, InsertComp(x)), c2, Append(p2, SkipComp(n)), P \cup {x})
      /\ Intact(X, c1, Append(c2, InsertComp(x)), Append(p2, InsertComp(x)), P \cup {x})
  BY KeptInsert
<1>5. Alike(X, d, Append(c1, InsertComp(x))) => Intact(X, d, c2, ot_skip(p2, n), P \cup {x})
  BY <1>2, <1>3, <1>4, KeptAlike
<1>6. Alike(X, d, Append(c2, InsertComp(x))) => Intact(X, c1, d, ot_insert(p2, x), P \cup {x})
  BY <1>2, <1>3, <1>4, KeptAlike
<1> QED
  BY <1>5, <1>6

LEMMA BuiltWalkKeeps ==
  ASSUME NEW X, NEW c1, NEW c2, NEW p1, NEW p2, Merged(X, c1, c2, p1, p2),
         NEW P, P \subseteq Seq(X), Intact(X, c1, c2, p2, P), NEW d1, NEW d2, NEW n \in Nat
  PROVE  /\ Alike(X, d1, Append(c1, SkipComp(n))) /\ Alike(X, d2, Append(c2, SkipComp(n))) =>
              Intact(X, d1, d2, ot_skip(p2, n), P)
         /\ Alike(X, d1, Append(c1, SkipComp(n))) /\ Alike(X, d2, Append(c2, DeleteComp(n))) =>
              Intact(X, d1, d2, ot_delete(p2, n), P)
         /\ Alike(X, d1, Append(c1, DeleteComp(n))) /\ Alike(X, d2, Append(c2, SkipComp(n))) =>
              Intact(X, d1, d2, p2, P)
         /\ Alike(X, d1, Append(c1, DeleteComp(n))) /\ Alike(X, d2, Append(c2, DeleteComp(n))) =>
              Intact(X, d1, d2, p2, P)
<1>1. c1 \in OperationsOver(X) /\ c2 \in OperationsOver(X) /\ p2 \in OperationsOver(X)
  BY DEF Merged
<1>2. Alike(X, c1, c1) /\ Alike(X, c2, c2) /\ Alike(X, p2, p2)
  BY <1>1, AlikeItself
<1>3. /\ Alike(X, ot_skip(p2, n), Append(p2, SkipComp(n)))
      /\ Alike(X, ot_delete(p2, n), Append(p2, DeleteComp(n)))
  BY <1>1, BuildersAlike
<1>4. /\ Intact(X, Append(c1, SkipComp(n)), Append(c2, SkipComp(n)), Append(p2, SkipComp(n)), P)
      /\ Intact(X, Append(c1, SkipComp(n)), Append(c2, DeleteComp(n)), Append(p2, DeleteComp(n)), P)
      /\ Intact(X, Append(c1, DeleteComp(n)), Append(c2, SkipComp(n)), p2, P)
      /\ Intact(X, Append(c1, DeleteComp(n)), Append(c2, DeleteComp(n)), p2, P)
  BY KeptWalk
<1>5. Alike(X, d1, Append(c1, SkipComp(n))) /\ Alike(X, d2, Append(c2, SkipComp(n))) =>
        Intact(X, d1, d2, ot_skip(p2, n), P)
  BY <1>3, <1>4, KeptAlike
<1>6. Alike(X, d1, Append(c1, SkipComp(n))) /\ Alike(X, d2, Append(c2, DeleteComp(n))) =>
        Intact(X, d1, d2, ot_delete(p2, n), P)
  BY <1>3, <1>4, KeptAlike
<1>7. Alike(X, d1, Append(c1, DeleteComp(n))) /\ Alike(X, d2, Append(c2, SkipComp(n))) =>
        Intact(X, d1, d2, p2, P)
  BY <1>2, <1>4, KeptAlike
<1>8. Alike(X, d1, Append(c1, DeleteComp(n))) /\ Alike(X, d2, Append(c2, DeleteComp(n))) =>
        Intact(X, d1, d2, p2, P)
  BY <1>2, <1>4, KeptAlike
<1> QED
  BY <1>5, <1>6, <1>7, <1>8

\* The texts of the inserts an iterator has behind it.
Passed(p, it) == {p[i].text : i \in {k \in 1..Finished(p, it) : p[k].type = "insert"}}

LEMMA PassedAreTexts ==
  ASSUME NEW X, NEW p \in OperationsOver(X), NEW it, Placed(p, it)
  PROVE  Passed(p, it) \subseteq Seq(X)
<1>1. Finished(p, it) \in Nat /\ Finished(p, it) <= Len(p) /\ Len(p) \in Nat
  <2>1. Len(p) \in Nat
    BY DEF OperationsOver
  <2>2. it.next => it.pos \in 1..Len(p)
    BY DEF Placed
  <2> QED
    BY <2>1, <2>2 DEF Finished
<1>2. ASSUME NEW i \in 1..Finished(p, it), p[i].type = "insert" PROVE p[i].text \in Seq(X)
  <2>1. i \in 1..Len(p)
    BY <1>1
  <2>2. p[i] \in ComponentsOver(X)
    BY <2>1 DEF OperationsOver
  <2> DEFINE c == p[i]
  <2> HIDE DEF c
  <2>3. c.type = "insert" => c.text \in Seq(X)
    BY <2>2, ComponentCases DEF Stubs, c
  <2> QED
    BY <1>2, <2>3 DEF c
<1> QED
  BY <1>2 DEF Passed

\* What is passed when an iterator moves: nothing, or the component it is in.
LEMMA PassedMoves ==
  ASSUME NEW X, NEW p \in OperationsOver(X), NEW it, Placed(p, it), it.next,
         p[it.pos].type \notin Stubs, NEW n \in 0..Left(p, it), NEW moved,
         MovedOn(p, it, n, moved)
  PROVE  /\ p[it.pos].type # "insert" => Passed(p, moved) = Passed(p, it)
         /\ p[it.pos].type = "insert" => Passed(p, moved) \subseteq Passed(p, it) \cup {p[it.pos].text}
<1>1. /\ it.pos \in 1..Len(p) /\ Len(p) \in Nat /\ Finished(p, it) = it.pos - 1
      /\ Left(p, it) \in Nat
  BY ComponentAt
<1>2. Finished(p, moved) \in {it.pos - 1, it.pos}
  <2> DEFINE left == Left(p, it)
  <2>1. left \in Nat /\ n \in 0..left
    BY <1>1
  <2> HIDE DEF left
  <2>2. n = 0 \/ (n # 0 /\ n < left) \/ (n # 0 /\ n = left)
    BY <2>1
  <2>3. CASE n = 0
    BY <1>1, <2>3 DEF MovedOn
  <2>4. CASE n # 0 /\ n < left
    BY <1>1, <2>4 DEF MovedOn, Stays, left
  <2>5. CASE n # 0 /\ n = left
    BY <1>1, <2>5 DEF MovedOn, Ends, left
  <2> QED
    BY <2>2, <2>3, <2>4, <2>5
<1>3. 1..it.pos = (1..(it.pos - 1)) \cup {it.pos}
  BY <1>1
<1> QED
  BY <1>1, <1>2, <1>3 DEF Passed

LEMMA KeptOfFewer ==
  ASSUME NEW X, NEW c1, NEW c2, NEW p2, NEW P, Intact(X, c1, c2, p2, P), NEW Q, Q \subseteq P
  PROVE  Intact(X, c1, c2, p2, Q)
BY DEF Intact, Keeps

MergeInv(X, p, q, s) ==
  Intact(X, Consumed(p, s.it1), Consumed(q, s.it2), s.prime2, Passed(p, s.it1) \cup Passed(q, s.it2))

LEMMA MergeInvAtStart ==
  ASSUME NEW X, NEW p \in OperationsOver(X), NEW q \in OperationsOver(X)
  PROVE  MergeInv(X, p, q, XformStart(p, q))
<1> DEFINE s == XformStart(p, q)
<1>1. s.it1 = ot_iter_next(p) /\ s.it2 = ot_iter_next(q) /\ s.prime2 = <<>>
  BY DEF XformStart
<1> HIDE DEF s
<1>2. /\ Placed(p, ot_iter_next(p)) /\ Placed(q, ot_iter_next(q))
      /\ Alike(X, Consumed(p, ot_iter_next(p)), <<>>)
      /\ Alike(X, Consumed(q, ot_iter_next(q)), <<>>)
  BY ConsumedAtStart
<1>3. ASSUME NEW op \in OperationsOver(X) PROVE Finished(op, ot_iter_next(op)) = 0
  <2> DEFINE it == ot_iter_next(op)
  <2>1. it = [pos |-> 1, offset |-> 0, next |-> op # <<>>]
    BY DEF ot_iter_next
  <2> HIDE DEF it
  <2>2. it.pos = 1 /\ (it.next <=> op # <<>>)
    BY <2>1
  <2>3. op # <<>> \/ Len(op) = 0
    OBVIOUS
  <2> QED
    BY <2>2, <2>3 DEF Finished, it
<1>4. Passed(p, ot_iter_next(p)) \cup Passed(q, ot_iter_next(q)) = {}
  BY <1>3 DEF Passed
<1>5. Alike(X, <<>>, <<>>)
  BY EmptyOperation, AlikeItself
<1>6. Intact(X, Consumed(p, ot_iter_next(p)), Consumed(q, ot_iter_next(q)), <<>>, {})
  BY <1>2, <1>5, KeptAtStart, KeptAlike
<1> QED
  BY <1>1, <1>4, <1>6 DEF MergeInv, s

LEMMA XformKeepsMerge ==
  ASSUME NEW X, NEW p \in OperationsOver(X), NEW q \in OperationsOver(X),
         NEW s, XformInv(X, p, q, s), MergeInv(X, p, q, s), XformRunning(s)
  PROVE  MergeInv(X, p, q, XformStep(p, q, s))
<1> DEFINE t == XformStep(p, q, s)
           k1 == Kind(p, s.it1)
           k2 == Kind(q, s.it2)
           left1 == Left(p, s.it1)
           left2 == Left(q, s.it2)
           c1 == Consumed(p, s.it1)
           c2 == Consumed(q, s.it2)
           P1 == Passed(p, s.it1)
           P2 == Passed(q, s.it2)
           P == P1 \cup P2
<1>1. /\ DOMAIN s = XformLocals /\ Placed(p, s.it1) /\ Placed(q, s.it2)
      /\ k1 = "insert" => s.it1.offset = 0
      /\ k2 = "insert" => s.it2.offset = 0
      /\ Merged(X, c1, c2, s.prime1, s.prime2)
  BY DEF XformInv
<1>2. Intact(X, c1, c2, s.prime2, P)
  BY DEF MergeInv
<1>3. DOMAIN t = XformLocals /\ TurnOfX(p, q, s, t)
  BY <1>1, XformTurns
<1>4. P \subseteq Seq(X)
  BY <1>1, PassedAreTexts
<1> HIDE DEF t
<1>5. CASE t.it1 = s.it1 /\ t.it2 = s.it2 /\ t.prime2 = s.prime2
  BY <1>2, <1>5 DEF MergeInv, t
<1>6. CASE InsertsFirst(p, s, t)
  <2> DEFINE x == LeftText(p, s.it1)
             d1 == Consumed(p, t.it1)
  <2>1. /\ k1 = "insert" /\ t.it1 = ot_iter_skip(p, s.it1, left1) /\ t.it2 = s.it2
        /\ t.prime2 = ot_skip(s.prime2, left1)
    BY <1>6 DEF InsertsFirst
  <2>2. /\ s.it1.next /\ p[s.it1.pos].type \notin Stubs /\ left1 \in Nat /\ left1 \in 0..left1
        /\ p[s.it1.pos].type = "insert"
    BY <1>1, <2>1, LeftOf, KindOf DEF Stubs
  <2>3. x \in Seq(X) /\ Len(x) = left1 /\ Alike(X, d1, Append(c1, InsertComp(x)))
        /\ p[s.it1.pos].text = x
    BY <1>1, <2>1, <2>2, PassesInsert
  <2>4. MovedOn(p, s.it1, left1, t.it1)
    BY <1>1, <2>1, <2>2, Moves
  <2>5. Passed(p, t.it1) \subseteq P1 \cup {x}
    BY <1>1, <2>2, <2>3, <2>4, PassedMoves
  <2> HIDE DEF x, d1, c1, c2, left1, P
  <2>6. Intact(X, d1, c2, t.prime2, P \cup {x})
    <3>1. /\ Merged(X, c1, c2, s.prime1, s.prime2) /\ Intact(X, c1, c2, s.prime2, P)
          /\ P \subseteq Seq(X)
      BY <1>1, <1>2, <1>4
    <3>2. Intact(X, d1, c2, ot_skip(s.prime2, left1), P \cup {x})
      BY <2>3, <3>1, BuiltInsertKeeps
    <3> QED
      BY <2>1, <3>2
  <2>7. Passed(p, t.it1) \cup Passed(q, t.it2) \subseteq P \cup {x}
    BY <2>1, <2>5 DEF P
  <2>8. Intact(X, d1, c2, t.prime2, Passed(p, t.it1) \cup Passed(q, t.it2))
    BY <2>6, <2>7, KeptOfFewer
  <2> QED
    BY <2>1, <2>8 DEF MergeInv, t, d1, c2
<1>7. CASE InsertsSecond(q, s, t)
  <2> DEFINE x == LeftText(q, s.it2)
             d2 == Consumed(q, t.it2)
  <2>1. /\ k2 = "insert" /\ t.it2 = ot_iter_skip(q, s.it2, left2) /\ t.it1 = s.it1
        /\ t.prime2 = ot_insert(s.prime2, x)
    BY <1>7 DEF InsertsSecond
  <2>2. /\ s.it2.next /\ q[s.it2.pos].type \notin Stubs /\ left2 \in Nat /\ left2 \in 0..left2
        /\ q[s.it2.pos].type = "insert"
    BY <1>1, <2>1, LeftOf, KindOf DEF Stubs
  <2>3. x \in Seq(X) /\ Len(x) = left2 /\ Alike(X, d2, Append(c2, InsertComp(x)))
        /\ q[s.it2.pos].text = x
    BY <1>1, <2>1, <2>2, PassesInsert
  <2>4. MovedOn(q, s.it2, left2, t.it2)
    BY <1>1, <2>1, <2>2, Moves
  <2>5. Passed(q, t.it2) \subseteq P2 \cup {x}
    BY <1>1, <2>2, <2>3, <2>4, PassedMoves
  <2> HIDE DEF x, d2, c1, c2, left2, P
  <2>6. Intact(X, c1, d2, t.prime2, P \cup {x})
    <3>1. /\ Merged(X, c1, c2, s.prime1, s.prime2) /\ Intact(X, c1, c2, s.prime2, P)
          /\ P \subseteq Seq(X)
      BY <1>1, <1>2, <1>4
    <3>2. Intact(X, c1, d2, ot_insert(s.prime2, x), P \cup {x})
      BY <2>3, <3>1, BuiltInsertKeeps
    <3> QED
      BY <2>1, <3>2
  <2>7. Passed(p, t.it1) \cup Passed(q, t.it2) \subseteq P \cup {x}
    BY <2>1, <2>5 DEF P
  <2>8. Intact(X, c1, d2, t.prime2, Passed(p, t.it1) \cup Passed(q, t.it2))
    BY <2>6, <2>7, KeptOfFewer
  <2> QED
    BY <2>1, <2>8 DEF MergeInv, t, d2, c1
<1>8. CASE WalksOver(p, q, s, t, Least(left1, left2))
  <2> DEFINE n == Least(left1, left2)
             d1 == Consumed(p, t.it1)
             d2 == Consumed(q, t.it2)
  <2>1. /\ k1 \in {"skip", "delete"} /\ k2 \in {"skip", "delete"}
        /\ t.it1 = ot_iter_skip(p, s.it1, n) /\ t.it2 = ot_iter_skip(q, s.it2, n)
        /\ t.prime2 = CASE k1 = "skip" /\ k2 = "skip" -> ot_skip(s.prime2, n)
                        [] k1 = "skip" /\ k2 = "delete" -> ot_delete(s.prime2, n)
                        [] k1 = "delete" -> s.prime2
    BY <1>8 DEF WalksOver
  <2>2. /\ s.it1.next /\ p[s.it1.pos].type \notin Stubs /\ left1 \in Nat
        /\ s.it2.next /\ q[s.it2.pos].type \notin Stubs /\ left2 \in Nat
        /\ p[s.it1.pos].type # "insert" /\ q[s.it2.pos].type # "insert"
    BY <1>1, <2>1, LeftOf, KindOf DEF Stubs
  <2>3. n \in Nat /\ n \in 0..left1 /\ n \in 0..left2
    <3> HIDE DEF left1, left2
    <3> QED
      BY <2>2 DEF Least
  <2>4. MovedOn(p, s.it1, n, t.it1) /\ MovedOn(q, s.it2, n, t.it2)
    <3> HIDE DEF n
    <3> QED
      BY <1>1, <2>1, <2>2, <2>3, Moves
  <2>5. Passed(p, t.it1) = P1 /\ Passed(q, t.it2) = P2
    <3> HIDE DEF n
    <3> QED
      BY <1>1, <2>2, <2>3, <2>4, PassedMoves
  <2>6. /\ k1 = "skip" => Alike(X, d1, Append(c1, SkipComp(n)))
        /\ k1 = "delete" => Alike(X, d1, Append(c1, DeleteComp(n)))
        /\ k2 = "skip" => Alike(X, d2, Append(c2, SkipComp(n)))
        /\ k2 = "delete" => Alike(X, d2, Append(c2, DeleteComp(n)))
    <3> HIDE DEF n
    <3> QED
      BY <1>1, <2>1, <2>3, PassesCount
  <2> HIDE DEF n, d1, d2, c1, c2, k1, k2, P
  <2>7. Intact(X, d1, d2, t.prime2, P)
    <3>1. CASE k1 = "skip" /\ k2 = "skip"
      BY <1>1, <1>2, <1>4, <2>1, <2>3, <2>6, <3>1, BuiltWalkKeeps
    <3>2. CASE k1 = "skip" /\ k2 = "delete"
      BY <1>1, <1>2, <1>4, <2>1, <2>3, <2>6, <3>2, BuiltWalkKeeps
    <3>3. CASE k1 = "delete"
      BY <1>1, <1>2, <1>4, <2>1, <2>3, <2>6, <3>3, BuiltWalkKeeps
    <3> QED
      BY <2>1, <3>1, <3>2, <3>3
  <2> QED
    BY <2>5, <2>7 DEF MergeInv, t, d1, d2, P
<1> QED
  BY <1>3, <1>5, <1>6, <1>7, <1>8 DEF TurnOfX, SameIterators

-----------------------------------------------------------------------------
(***************************************************************************)
(* The characters an operation inserts.                                    *)
(***************************************************************************)
InsertedBy(p) == UNION {ToSet(c.text) : c \in {d \in ToSet(p) : d.type = "insert"}}

LEMMA InsertedByLonger ==
  ASSUME NEW X, NEW p \in OperationsOver(X), NEW c \in ComponentsOver(X)
  PROVE  /\ c.type # "insert" => InsertedBy(Append(p, c)) = InsertedBy(p)
         /\ c.type = "insert" => InsertedBy(Append(p, c)) = InsertedBy(p) \cup ToSet(c.text)
<1>1. p \in Seq(ComponentsOver(X)) /\ Len(p) \in Nat
  BY DEF OperationsOver
<1> DEFINE C == ComponentsOver(X)
           n == Len(p)
           q == Append(p, c)
<1>2. /\ DOMAIN p = 1..n /\ DOMAIN q = 1..(n + 1) /\ n \in Nat
      /\ \A i \in 1..n : q[i] = p[i]
      /\ q[n + 1] = c
  <2> HIDE DEF C
  <2> QED
    BY <1>1, AppendProperties DEF C
<1> HIDE DEF q, n
<1>3. 1..(n + 1) = (1..n) \cup {n + 1}
  BY <1>2
<1>4. ToSet(q) = ToSet(p) \cup {c}
  BY <1>2, <1>3 DEF ToSet
<1> QED
  BY <1>4 DEF InsertedBy, q

LEMMA InsertsItsLetters ==
  ASSUME NEW X, NEW p \in OperationsOver(X)
  PROVE  ToSet(ApplyTo(p, <<>>)) = InsertedBy(p)
<1> DEFINE none == <<>>
           T == {s \in OperationsOver(X) : ToSet(ApplyTo(s, none)) = InsertedBy(s)}
<1>1. none \in Seq(X) /\ ToSet(none) = {} /\ <<>> \in OperationsOver(X)
  BY EmptyOperation DEF ToSet
<1>2. <<>> \in T
  <2>1. InsertedBy(<<>>) = {}
    BY DEF InsertedBy, ToSet
  <2>2. ApplyTo(<<>>, none) = none
    BY <1>1, MadeOfEmpty
  <2> QED
    BY <1>1, <2>1, <2>2
<1>3. ASSUME NEW s \in OperationsOver(X), s \in T
      PROVE  /\ \A n \in Nat : Append(s, SkipComp(n)) \in T /\ Append(s, DeleteComp(n)) \in T
             /\ \A x \in Seq(X) : Append(s, InsertComp(x)) \in T
             /\ \A c \in ComponentsOver(X) : c.type \in Stubs => Append(s, c) \in T
  <2> HIDE DEF none
  <2>1. ToSet(ApplyTo(s, none)) = InsertedBy(s)
    BY <1>3
  <2>2. ApplyTo(s, none) \in Seq(X)
    BY <1>1, MadeIsText
  <2>3. ASSUME NEW c \in ComponentsOver(X), c.type # "insert",
               ApplyTo(Append(s, c), none) = ApplyTo(s, none)
        PROVE  Append(s, c) \in T
    BY <2>1, <2>3, InsertedByLonger, Longer
  <2>4. ASSUME NEW n \in Nat
        PROVE  Append(s, SkipComp(n)) \in T /\ Append(s, DeleteComp(n)) \in T
    <3>1. /\ SkipComp(n) \in ComponentsOver(X) /\ DeleteComp(n) \in ComponentsOver(X)
          /\ SkipComp(n).type # "insert" /\ DeleteComp(n).type # "insert"
      BY CountedComponents DEF SkipComp, DeleteComp
    <3>2. /\ ApplyTo(Append(s, SkipComp(n)), none) = ApplyTo(s, none)
          /\ ApplyTo(Append(s, DeleteComp(n)), none) = ApplyTo(s, none)
      BY MadeOfLast DEF none
    <3> HIDE DEF T
    <3> QED
      BY <2>3, <3>1, <3>2
  <2>5. ASSUME NEW x \in Seq(X) PROVE Append(s, InsertComp(x)) \in T
    <3> DEFINE c == InsertComp(x)
    <3>1. c \in ComponentsOver(X) /\ c.type = "insert" /\ c.text = x
      BY MadeComponents DEF InsertComp
    <3>2. ApplyTo(Append(s, c), none) = ApplyTo(s, none) \o x
      BY <1>1, MadeWithInsert, SMTT(40)
    <3>3. ToSet(ApplyTo(s, none) \o x) = ToSet(ApplyTo(s, none)) \cup ToSet(x)
      BY <2>2, LettersOfConcat
    <3> HIDE DEF c
    <3>4. InsertedBy(Append(s, c)) = InsertedBy(s) \cup ToSet(x)
      BY <3>1, InsertedByLonger
    <3>5. Append(s, c) \in OperationsOver(X)
      BY <3>1, Longer
    <3> QED
      BY <2>1, <3>2, <3>3, <3>4, <3>5 DEF c
  <2>6. ASSUME NEW c \in ComponentsOver(X), c.type \in Stubs PROVE Append(s, c) \in T
    <3>1. ApplyTo(Append(s, c), none) = ApplyTo(s, none)
      BY <1>1, <2>6, MadeOfLonger
    <3>2. c.type # "insert"
      BY <2>6 DEF Stubs
    <3> HIDE DEF T
    <3> QED
      BY <2>3, <3>1, <3>2
  <2> HIDE DEF T
  <2> QED
    BY <2>4, <2>5, <2>6
<1>4. OneMore(X, T)
  <2> HIDE DEF T
  <2> QED
    BY <1>3 DEF OneMore
<1>5. OperationsOver(X) \subseteq T
  <2> HIDE DEF T
  <2> QED
    BY <1>2, <1>4, OperationInduction
<1> QED
  BY <1>5 DEF none

-----------------------------------------------------------------------------
(***************************************************************************)
(* What has been merged, as an invariant of the specification.             *)
(***************************************************************************)
FromPairs == \E pair \in Pairs : op1 = pair[1] /\ op2 = pair[2]

IntentInv == LoopInv /\ FromPairs /\ (Transforming => MergeInv(Letters, op1, op2, loop))

LEMMA IntentInvariant == Spec => []IntentInv
<1>1. Init => IntentInv
  <2> SUFFICES ASSUME Init PROVE IntentInv
    OBVIOUS
  <2>1. LoopInv /\ FromPairs
    BY InitLoop DEF Init, FromPairs
  <2>2. op1 \in OperationsOver(Letters) /\ op2 \in OperationsOver(Letters)
    BY <2>1, AllOver DEF LoopInv
  <2>3. MergeInv(Letters, op1, op2, XformStart(op1, op2))
    BY <2>2, MergeInvAtStart
  <2>4. Transforming => loop = XformStart(op1, op2)
    BY DEF Init, Transforming
  <2> QED
    BY <2>1, <2>3, <2>4 DEF IntentInv
<1>2. ASSUME IntentInv, [Next]_vars PROVE IntentInv'
  <2>1. LoopInv /\ LoopInv'
    BY <1>2, TurnsAdvance, StutterKeepsLoop DEF IntentInv
  <2>2. UNCHANGED <<call, op1, op2>>
    BY <1>2 DEF Next, vars
  <2>3. FromPairs'
    BY <1>2, <2>2 DEF IntentInv, FromPairs
  <2>4. Letters' = Letters /\ (Transforming' <=> Transforming)
    BY <2>2 DEF Letters, Alphabet, Transforming
  <2>5. op1 \in OperationsOver(Letters) /\ op2 \in OperationsOver(Letters)
    BY <2>1, AllOver DEF LoopInv
  <2> HIDE DEF Letters
  <2>6. ASSUME Transforming PROVE MergeInv(Letters, op1, op2, loop')
    <3>1. MergeInv(Letters, op1, op2, loop) /\ XformInv(Letters, op1, op2, loop)
      BY <1>2, <2>1, <2>6 DEF IntentInv, LoopInv
    <3>2. loop' = loop \/ (XformRunning(loop) /\ loop' = XformStep(op1, op2, loop))
      BY <1>2, <2>6 DEF Next, vars, TurnOfXform, TurnOfCompose, Transforming
    <3> QED
      BY <2>5, <3>1, <3>2, XformKeepsMerge
  <2> QED
    BY <2>1, <2>2, <2>3, <2>4, <2>6 DEF IntentInv
<1> QED
  BY <1>1, <1>2, PTL DEF Spec

\* What the merged text holds: the characters both operations kept and those
\* either inserted, each once, and every inserted text in one piece.  The
\* characters can be followed when none is there twice (CharactersDiffer);
\* ot_xform does not look at them.
THEOREM MergeKeepsIntentionsHolds ==
  ASSUME CharactersDiffer
  PROVE  Spec => []MergeKeepsIntentions
<1>1. ASSUME IntentInv, Transforming, Succeeded,
             NEW text \in Texts, Len(text) = BaseLen(op1)
      PROVE  LET made1 == ApplyTo(op1, text)
                 made2 == ApplyTo(op2, text)
                 merged == ApplyTo(loop.prime2, made1)
             IN  /\ ToSet(merged) =
                      (ToSet(made1) \cap ToSet(made2)) \cup UNION {ToSet(t) : t \in Inserted}
                 /\ Distinct(merged)
                 /\ \A t \in Inserted : Within(t, merged)
  <2> DEFINE X == Letters
             none == <<>>
             s1 == ApplyTo(op1, none)
             s2 == ApplyTo(op2, none)
             P == Passed(op1, loop.it1) \cup Passed(op2, loop.it2)
  <2>1. /\ LoopInv /\ FromPairs /\ MergeInv(X, op1, op2, loop) /\ XformInv(X, op1, op2, loop)
    BY <1>1 DEF IntentInv, LoopInv
  <2>2. op1 \in OperationsOver(X) /\ op2 \in OperationsOver(X) /\ text \in Seq(X)
    BY <2>1, AllOver DEF LoopInv
  <2>3. none \in Seq(X)
    OBVIOUS
  <2> HIDE DEF X, none
  <2>4. ~loop.it1.next /\ ~loop.it2.next /\ Placed(op1, loop.it1) /\ Placed(op2, loop.it2)
    BY <1>1, <2>1 DEF Succeeded, Returned, XformRunning, XformInv
  <2>5. Consumed(op1, loop.it1) = op1 /\ Consumed(op2, loop.it2) = op2
    BY <2>2, <2>4, AllPassed
  <2>6. Finished(op1, loop.it1) = Len(op1) /\ Finished(op2, loop.it2) = Len(op2)
    BY <2>4 DEF Finished
  <2>7. Keeps(op1, op2, loop.prime2, P, text)
    BY <1>1, <2>1, <2>2, <2>5 DEF MergeInv, Intact
  <2>8. Inserted \subseteq P
    <3>1. DOMAIN op1 = 1..Len(op1) /\ DOMAIN op2 = 1..Len(op2)
      BY <2>2 DEF OperationsOver
    <3> QED
      BY <2>6, <3>1 DEF Inserted, Passed, ToSet
  <2>9. UNION {ToSet(t) : t \in Inserted} = ToSet(s1) \cup ToSet(s2)
    <3>1. ToSet(s1) = InsertedBy(op1) /\ ToSet(s2) = InsertedBy(op2)
      BY <2>2, InsertsItsLetters DEF none
    <3>2. UNION {ToSet(t) : t \in Inserted} = InsertedBy(op1) \cup InsertedBy(op2)
      BY DEF Inserted, InsertedBy
    <3> QED
      BY <3>1, <3>2
  <2>10. Apart(text, s1, s2)
    <3>1. Distinct((text \o ot_snapshot(op1)) \o ot_snapshot(op2))
      BY <2>1 DEF CharactersDiffer, FromPairs
    <3>2. ot_snapshot(op1) = s1 /\ ot_snapshot(op2) = s2
      BY <2>2, SnapshotIsMade DEF none
    <3>3. s1 \in Seq(X) /\ s2 \in Seq(X)
      BY <2>2, <2>3, MadeIsText
    <3> HIDE DEF s1, s2
    <3>4. Distinct((text \o s1) \o s2) /\ text \o s1 \in Seq(X)
      BY <2>2, <3>1, <3>2, <3>3
    <3>5. Distinct(text \o s1) /\ Distinct(s2) /\ ToSet(text \o s1) \cap ToSet(s2) = {}
      BY <3>3, <3>4, DistinctConcat
    <3>6. Distinct(text) /\ Distinct(s1) /\ ToSet(text) \cap ToSet(s1) = {}
      BY <2>2, <3>3, <3>5, DistinctConcat
    <3>7. ToSet(text \o s1) = ToSet(text) \cup ToSet(s1)
      BY <2>2, <3>3, LettersOfConcat
    <3> QED
      BY <3>5, <3>6, <3>7 DEF Apart
  <2> QED
    BY <2>7, <2>8, <2>9, <2>10 DEF Keeps, Intends, none
<1>2. IntentInv => MergeKeepsIntentions
  BY <1>1 DEF MergeKeepsIntentions, Within
<1> QED
  BY <1>2, IntentInvariant, PTL
=============================================================================
