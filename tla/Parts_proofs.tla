---------------------------- MODULE Parts_proofs ----------------------------
(***************************************************************************)
(* The parts MCParts puts side by side, whatever is called in whatever     *)
(* order.  An operation under construction does what the calls say, a copy *)
(* of it is equal to it, and a formatting boundary has every name once,    *)
(* with the value given last.  A document uses no memory that is not its   *)
(* own and keeps none it no longer needs, however long its history,        *)
(* wherever malloc puts a block and realloc moves one.                     *)
(***************************************************************************)
EXTENDS DocMemory, Builder, Ops_proofs

-----------------------------------------------------------------------------
(***************************************************************************)
(* What the operation and the calls consist of.                            *)
(***************************************************************************)
Universe == Nat \cup (UNION {ToSet(t) : t \in Strings}) \cup Elements \cup Seq(Fmts)

\* A component whose formats, if it is a formatting boundary, are sequences.
FormatsTyped(c) ==
  c.type = "formattingBoundary" => c.start \in Seq(Fmts) /\ c.end \in Seq(Fmts)

Typed(list) ==
  list \in OperationsOver(Universe) /\ \A k \in 1..Len(list) : FormatsTyped(list[k])

LEMMA GivenTexts ==
  ASSUME NEW text \in Strings
  PROVE  text \in Seq(Universe)
<1>1. IsSequence(text)
  BY InputsAssumption
<1>2. {text[k] : k \in DOMAIN text} \subseteq Universe
  BY DEF Universe, ToSet
<1> QED
  BY <1>1, <1>2, TextOver

LEMMA TypedLonger ==
  ASSUME NEW list, Typed(list), NEW c \in ComponentsOver(Universe), FormatsTyped(c)
  PROVE  Typed(Append(list, c))
<1>1. /\ Append(list, c) \in OperationsOver(Universe)
      /\ Len(list) \in Nat /\ Len(Append(list, c)) = Len(list) + 1
      /\ \A k \in 1..Len(list) : Append(list, c)[k] = list[k]
      /\ Append(list, c)[Len(list) + 1] = c
  BY Longer DEF Typed
<1>2. \A k \in 1..(Len(list) + 1) : k \in 1..Len(list) \/ k = Len(list) + 1
  BY <1>1
<1> QED
  BY <1>1, <1>2 DEF Typed

\* All but the last component, and that.
LEMMA TypedShorter ==
  ASSUME NEW list, Typed(list), list # <<>>
  PROVE  Typed(Front(list)) /\ Last(list) \in ComponentsOver(Universe) /\ FormatsTyped(Last(list))
<1>1. /\ Front(list) \in OperationsOver(Universe) /\ Last(list) \in ComponentsOver(Universe)
      /\ Last(list) = list[Len(list)] /\ Len(list) \in Nat \ {0}
      /\ Len(Front(list)) = Len(list) - 1
      /\ \A k \in 1..(Len(list) - 1) : Front(list)[k] = list[k]
  BY WithoutLast DEF Typed
<1>2. Len(list) \in 1..Len(list) /\ \A k \in 1..(Len(list) - 1) : k \in 1..Len(list)
  BY <1>1
<1> QED
  BY <1>1, <1>2 DEF Typed

\* The builders of ot_op change the last component or append one, and not a
\* formatting boundary.
LEMMA TypedBuilt ==
  ASSUME NEW list, Typed(list), NEW c \in Built(Universe)
  PROVE  Typed(AppendComp(list, c))
<1> DEFINE X == Universe
<1>1. \A d \in Built(X) : d \in ComponentsOver(X) /\ FormatsTyped(d)
  BY BuiltIsComponent DEF Built, FormatsTyped, SkipComp, DeleteComp, InsertComp
<1>2. CASE list # <<>> /\ Last(list).type = c.type
  <2>1. AppendComp(list, c) = Append(Front(list), Merge(Last(list), c))
    BY <1>2 DEF AppendComp
  <2>2. Typed(Front(list)) /\ Last(list) \in ComponentsOver(X)
    BY <1>2, TypedShorter
  <2>3. Front(list) \in OperationsOver(X)
    BY <2>2 DEF Typed
  <2> HIDE DEF X
  <2>4. Merge(Last(list), c) \in Built(X)
    <3>1. c \in Built(X)
      BY DEF X
    <3> QED
      BY <1>2, <2>2, <2>3, <3>1, MergeAlike
  <2>5. Merge(Last(list), c) \in ComponentsOver(X) /\ FormatsTyped(Merge(Last(list), c))
    BY <1>1, <2>4
  <2> QED
    BY <2>1, <2>2, <2>5, TypedLonger DEF X
<1>3. CASE ~(list # <<>> /\ Last(list).type = c.type)
  <2>1. AppendComp(list, c) = Append(list, c)
    BY <1>3 DEF AppendComp
  <2> QED
    BY <1>1, <2>1, TypedLonger
<1> QED
  BY <1>2, <1>3

LEMMA TypedBuilders ==
  ASSUME NEW list, Typed(list)
  PROVE  /\ \A n \in Nat : Typed(ot_skip(list, n)) /\ Typed(ot_delete(list, n))
         /\ \A x \in Seq(Universe) : Typed(ot_insert(list, x))
<1>1. /\ \A n \in Nat : SkipComp(n) \in Built(Universe) /\ DeleteComp(n) \in Built(Universe)
      /\ \A x \in Seq(Universe) : InsertComp(x) \in Built(Universe)
  BY DEF Built
<1> QED
  BY <1>1, TypedBuilt DEF ot_skip, ot_delete, ot_insert

-----------------------------------------------------------------------------
(***************************************************************************)
(* A call does to the operation what it says.                              *)
(***************************************************************************)
LEMMA FormatAppended ==
  ASSUME NEW F, NEW fmts \in Seq(F), NEW fmt \in F
  PROVE  append_fmt(fmts, fmt) \in Seq(F)
<1>1. Append(fmts, fmt) \in Seq(F)
  OBVIOUS
<1>2. [k \in DOMAIN fmts |-> IF fmts[k][1] = fmt[1] THEN fmt ELSE fmts[k]] \in Seq(F)
  <2>1. DOMAIN fmts = 1..Len(fmts) /\ Len(fmts) \in Nat /\ \A k \in 1..Len(fmts) : fmts[k] \in F
    OBVIOUS
  <2>2. [k \in 1..Len(fmts) |-> IF fmts[k][1] = fmt[1] THEN fmt ELSE fmts[k]]
          \in [1..Len(fmts) -> F]
    BY <2>1
  <2> QED
    BY <2>1, <2>2
<1> QED
  BY <1>1, <1>2 DEF append_fmt

LEMMA BoundaryTyped ==
  ASSUME NEW start \in Seq(Fmts), NEW end \in Seq(Fmts)
  PROVE  /\ FmtComp(start, end) \in ComponentsOver(Universe)
         /\ FormatsTyped(FmtComp(start, end))
         /\ FmtComp(start, end).type = "formattingBoundary"
BY DEF FmtComp, ComponentsOver, Universe, FormatsTyped

\* The boundary that is changed or made.
LEMMA BoundaryAtEnd ==
  ASSUME Typed(comps)
  PROVE  /\ Typed(Front(append_fmtbound))
         /\ Last(append_fmtbound) \in ComponentsOver(Universe)
         /\ Last(append_fmtbound).type = "formattingBoundary"
         /\ FormatsTyped(Last(append_fmtbound))
         /\ \A d \in ComponentsOver(Universe) :
              d.type = "formattingBoundary" =>
                Alike(Universe, Append(Front(append_fmtbound), d), comps)
<1> DEFINE X == Universe
           fb == append_fmtbound
           new == FmtComp(<<>>, <<>>)
<1>1. new \in ComponentsOver(X) /\ FormatsTyped(new) /\ new.type = "formattingBoundary"
  <2>1. <<>> \in Seq(Fmts)
    OBVIOUS
  <2> QED
    BY <2>1 DEF FmtComp, ComponentsOver, FormatsTyped, Universe
<1> HIDE DEF new, X
<1>2. \A p \in OperationsOver(X) : \A d \in ComponentsOver(X) :
        d.type = "formattingBoundary" => Alike(X, Append(p, d), p)
  BY NothingMore DEF Stubs
<1>3. comps \in OperationsOver(X)
  BY DEF Typed, X
<1>4. /\ Typed(fb) /\ fb # <<>> /\ Last(fb).type = "formattingBoundary"
      /\ Alike(X, fb, comps)
  <2>1. CASE AtBoundary
    BY <1>3, <2>1, AlikeItself DEF AtBoundary, append_fmtbound
  <2>2. CASE ~AtBoundary
    <3>1. fb = Append(comps, new)
      BY <2>2 DEF append_fmtbound, new
    <3>2. Typed(Append(comps, new))
      BY <1>1, TypedLonger DEF X
    <3>3. Append(comps, new) # <<>> /\ Last(Append(comps, new)) = new
      <4>1. /\ Len(Append(comps, new)) = Len(comps) + 1 /\ Len(comps) \in Nat
            /\ Append(comps, new)[Len(comps) + 1] = new
        BY <1>1, <1>3, Longer
      <4>2. Len(<<>>) = 0
        OBVIOUS
      <4> QED
        BY <4>1, <4>2 DEF Last
    <3> QED
      BY <1>1, <1>2, <1>3, <3>1, <3>2, <3>3
  <2> QED
    BY <2>1, <2>2
<1> HIDE DEF fb
<1>5. /\ Typed(Front(fb)) /\ Last(fb) \in ComponentsOver(X) /\ FormatsTyped(Last(fb))
  BY <1>4, TypedShorter DEF X
<1>6. Front(fb) \in OperationsOver(X) /\ fb = Append(Front(fb), Last(fb))
  <2>1. fb \in OperationsOver(X)
    BY <1>4 DEF Typed, X
  <2> QED
    BY <1>4, <2>1, WithoutLast
<1>7. ASSUME NEW d \in ComponentsOver(X), d.type = "formattingBoundary"
      PROVE  Alike(X, Append(Front(fb), d), comps)
  <2>1. Alike(X, Append(Front(fb), d), Front(fb))
    BY <1>2, <1>6, <1>7
  <2>2. Alike(X, Front(fb), Append(Front(fb), Last(fb)))
    BY <1>2, <1>4, <1>5, <1>6, AlikeSymmetric
  <2>3. Alike(X, Front(fb), comps)
    BY <1>4, <1>6, <2>2, AlikeTransitive
  <2> QED
    BY <2>1, <2>3, AlikeTransitive
<1> QED
  BY <1>4, <1>5, <1>7 DEF X, fb

LEMMA FormatCalls ==
  ASSUME Typed(comps), NEW fmt \in Fmts
  PROVE  /\ Typed(ot_start_fmt(fmt)) /\ Alike(Universe, ot_start_fmt(fmt), comps)
         /\ Typed(ot_end_fmt(fmt)) /\ Alike(Universe, ot_end_fmt(fmt), comps)
<1> DEFINE front == Front(append_fmtbound)
           bound == Last(append_fmtbound)
           started == [bound EXCEPT !.start = append_fmt(@, fmt)]
           ended == [bound EXCEPT !.end = append_fmt(@, fmt)]
<1>1. /\ Typed(front) /\ bound \in ComponentsOver(Universe)
      /\ bound.type = "formattingBoundary" /\ FormatsTyped(bound)
      /\ \A d \in ComponentsOver(Universe) :
           d.type = "formattingBoundary" => Alike(Universe, Append(front, d), comps)
  BY BoundaryAtEnd
<1>2. ot_start_fmt(fmt) = Append(front, started) /\ ot_end_fmt(fmt) = Append(front, ended)
  BY DEF ot_start_fmt, ot_end_fmt
<1> HIDE DEF front, bound
<1>3. bound \in [type : {"formattingBoundary"}, start : Universe, end : Universe]
  BY <1>1 DEF ComponentsOver, CloseComp
<1>4. /\ append_fmt(bound.start, fmt) \in Seq(Fmts) /\ append_fmt(bound.end, fmt) \in Seq(Fmts)
      /\ bound.start \in Seq(Fmts) /\ bound.end \in Seq(Fmts)
  BY <1>1, FormatAppended DEF FormatsTyped
<1>5. Seq(Fmts) \subseteq Universe
  BY DEF Universe
<1>6. ASSUME NEW d, d \in {started, ended}
      PROVE  /\ d \in ComponentsOver(Universe) /\ FormatsTyped(d)
             /\ d.type = "formattingBoundary"
  <2>1. /\ started.start = append_fmt(bound.start, fmt) /\ started.end = bound.end
        /\ ended.end = append_fmt(bound.end, fmt) /\ ended.start = bound.start
        /\ started.type = "formattingBoundary" /\ ended.type = "formattingBoundary"
    BY <1>3
  <2>2. {started, ended} \subseteq
          [type : {"formattingBoundary"}, start : Universe, end : Universe]
    BY <1>3, <1>4, <1>5
  <2> HIDE DEF started, ended
  <2>3. FormatsTyped(d) /\ d.type = "formattingBoundary"
    BY <1>4, <1>6, <2>1 DEF FormatsTyped
  <2> QED
    BY <1>6, <2>2, <2>3 DEF ComponentsOver
<1> HIDE DEF started, ended
<1> QED
  BY <1>1, <1>2, <1>6, TypedLonger

(***************************************************************************)
(* MeansTheCalls is inductive once it is said of every text and not of one *)
(* only: the operation is like the list of the calls.                      *)
(***************************************************************************)
Corresponds == Typed(comps) /\ Typed(calls) /\ Alike(Universe, comps, calls)

LEMMA CallCorresponds ==
  ASSUME Corresponds, NEW comp \in ComponentsOver(Universe), FormatsTyped(comp), NEW built,
         Typed(built), Alike(Universe, built, Append(comps, comp)), Call(comp, built)
  PROVE  Corresponds'
<1>1. comps' = built /\ calls' = Append(calls, comp)
  BY DEF Call
<1>2. Typed(Append(calls, comp))
  BY TypedLonger DEF Corresponds
<1>3. Alike(Universe, Append(comps, comp), Append(calls, comp))
  BY AlikeLonger DEF Corresponds
<1>4. Alike(Universe, built, Append(calls, comp))
  BY <1>3, AlikeTransitive
<1>5. Typed(comps)' /\ Typed(calls)'
  BY <1>1, <1>2 DEF Typed
<1>6. Alike(Universe, comps, calls)'
  BY <1>1, <1>4 DEF Alike, Universe
<1> QED
  BY <1>5, <1>6 DEF Corresponds

LEMMA CorrespondsFirst ==
  ASSUME BuilderInit PROVE Corresponds
<1>1. comps = <<>> /\ calls = <<>>
  BY DEF BuilderInit
<1>2. Typed(<<>>)
  <2>1. Len(<<>>) = 0 /\ <<>> \in OperationsOver(Universe)
    BY EmptyOperation
  <2> QED
    BY <2>1 DEF Typed
<1>3. Alike(Universe, <<>>, <<>>)
  BY EmptyOperation, AlikeItself
<1> QED
  BY <1>1, <1>2, <1>3 DEF Corresponds

LEMMA CorrespondsNext ==
  ASSUME Corresponds, [BuilderNext]_builderVars
  PROVE  Corresponds'
<1> DEFINE X == Universe
<1>1. Typed(comps) /\ comps \in OperationsOver(X) /\ Counts \subseteq Nat
  BY InputsAssumption DEF Corresponds, Typed
<1>2. /\ \A n \in Nat : Alike(X, ot_skip(comps, n), Append(comps, SkipComp(n)))
      /\ \A n \in Nat : Alike(X, ot_delete(comps, n), Append(comps, DeleteComp(n)))
      /\ \A x \in Seq(X) : Alike(X, ot_insert(comps, x), Append(comps, InsertComp(x)))
  <2> HIDE DEF X
  <2> QED
    BY <1>1, BuildersAlike
<1>3. /\ \A n \in Nat : SkipComp(n) \in ComponentsOver(X) /\ FormatsTyped(SkipComp(n))
      /\ \A n \in Nat : DeleteComp(n) \in ComponentsOver(X) /\ FormatsTyped(DeleteComp(n))
      /\ \A x \in Seq(X) : InsertComp(x) \in ComponentsOver(X) /\ FormatsTyped(InsertComp(x))
  BY MadeComponents, CountedComponents DEF FormatsTyped, SkipComp, DeleteComp, InsertComp
<1>4. CASE \E n \in Counts : Call(SkipComp(n), ot_skip(comps, n))
  <2>1. PICK n \in Counts : Call(SkipComp(n), ot_skip(comps, n))
    BY <1>4
  <2>2. n \in Nat /\ Typed(ot_skip(comps, n))
    BY <1>1, TypedBuilders
  <2> QED
    BY <1>2, <1>3, <2>1, <2>2, CallCorresponds
<1>5. CASE \E n \in Counts : Call(DeleteComp(n), ot_delete(comps, n))
  <2>1. PICK n \in Counts : Call(DeleteComp(n), ot_delete(comps, n))
    BY <1>5
  <2>2. n \in Nat /\ Typed(ot_delete(comps, n))
    BY <1>1, TypedBuilders
  <2> QED
    BY <1>2, <1>3, <2>1, <2>2, CallCorresponds
<1>6. CASE \E text \in Strings : Call(InsertComp(text), ot_insert(comps, text))
  <2>1. PICK text \in Strings : Call(InsertComp(text), ot_insert(comps, text))
    BY <1>6
  <2>2. text \in Seq(X)
    BY GivenTexts
  <2>3. Typed(ot_insert(comps, text))
    BY <1>1, <2>2, TypedBuilders
  <2> QED
    BY <1>2, <1>3, <2>1, <2>2, <2>3, CallCorresponds
<1>7. CASE \E elem \in Elements : Call(OpenComp(elem), ot_open_element(comps, elem))
  <2>1. PICK elem \in Elements : Call(OpenComp(elem), ot_open_element(comps, elem))
    BY <1>7
  <2>2. OpenComp(elem) \in ComponentsOver(X) /\ FormatsTyped(OpenComp(elem))
    BY DEF OpenComp, ComponentsOver, Universe, FormatsTyped
  <2>3. Typed(Append(comps, OpenComp(elem)))
    BY <1>1, <2>2, TypedLonger
  <2>4. Alike(X, Append(comps, OpenComp(elem)), Append(comps, OpenComp(elem)))
    BY <2>3, AlikeItself DEF Typed
  <2> QED
    BY <2>1, <2>2, <2>3, <2>4, CallCorresponds DEF ot_open_element
<1>8. CASE Call(CloseComp, ot_close_element(comps))
  <2>2. CloseComp \in ComponentsOver(X) /\ FormatsTyped(CloseComp)
    BY DEF CloseComp, ComponentsOver, FormatsTyped
  <2>3. Typed(Append(comps, CloseComp))
    BY <1>1, <2>2, TypedLonger
  <2>4. Alike(X, Append(comps, CloseComp), Append(comps, CloseComp))
    BY <2>3, AlikeItself DEF Typed
  <2> QED
    BY <1>8, <2>2, <2>3, <2>4, CallCorresponds DEF ot_close_element
<1>9. ASSUME NEW fmt \in Fmts, NEW comp, comp \in {FmtComp(<<fmt>>, <<>>), FmtComp(<<>>, <<fmt>>)}
      PROVE  /\ comp \in ComponentsOver(X) /\ FormatsTyped(comp)
             /\ Alike(X, comps, Append(comps, comp))
  <2>1. <<fmt>> \in Seq(Fmts) /\ <<>> \in Seq(Fmts)
    OBVIOUS
  <2>2. /\ comp \in ComponentsOver(X) /\ FormatsTyped(comp)
        /\ comp.type = "formattingBoundary"
    BY <1>9, <2>1, BoundaryTyped
  <2>3. Alike(X, Append(comps, comp), comps)
    BY <1>1, <2>2, NothingMore DEF Stubs
  <2> QED
    BY <2>2, <2>3, AlikeSymmetric
<1>10. CASE \E fmt \in Fmts : Call(FmtComp(<<fmt>>, <<>>), ot_start_fmt(fmt))
  <2>1. PICK fmt \in Fmts : Call(FmtComp(<<fmt>>, <<>>), ot_start_fmt(fmt))
    BY <1>10
  <2> DEFINE comp == FmtComp(<<fmt>>, <<>>)
             built == ot_start_fmt(fmt)
  <2>2. /\ comp \in ComponentsOver(X) /\ FormatsTyped(comp)
        /\ Alike(X, comps, Append(comps, comp))
    BY <1>9
  <2>3. Typed(built) /\ Alike(X, built, comps)
    BY <1>1, FormatCalls
  <2>4. Alike(X, built, Append(comps, comp))
    BY <2>2, <2>3, AlikeTransitive
  <2> HIDE DEF comp, built
  <2> QED
    BY <2>1, <2>2, <2>3, <2>4, CallCorresponds DEF comp, built
<1>11. CASE \E fmt \in Fmts : Call(FmtComp(<<>>, <<fmt>>), ot_end_fmt(fmt))
  <2>1. PICK fmt \in Fmts : Call(FmtComp(<<>>, <<fmt>>), ot_end_fmt(fmt))
    BY <1>11
  <2> DEFINE comp == FmtComp(<<>>, <<fmt>>)
             built == ot_end_fmt(fmt)
  <2>2. /\ comp \in ComponentsOver(X) /\ FormatsTyped(comp)
        /\ Alike(X, comps, Append(comps, comp))
    BY <1>9
  <2>3. Typed(built) /\ Alike(X, built, comps)
    BY <1>1, FormatCalls
  <2>4. Alike(X, built, Append(comps, comp))
    BY <2>2, <2>3, AlikeTransitive
  <2> HIDE DEF comp, built
  <2> QED
    BY <2>1, <2>2, <2>3, <2>4, CallCorresponds DEF comp, built
<1>12. CASE UNCHANGED builderVars
  BY <1>12 DEF builderVars, Corresponds, Typed, Alike, Universe
<1> QED
  BY <1>4, <1>5, <1>6, <1>7, <1>8, <1>10, <1>11, <1>12 DEF BuilderNext

LEMMA AlwaysCorresponds ==
  BuilderSpec => []Corresponds
<1>1. BuilderInit => Corresponds
  BY CorrespondsFirst
<1>2. Corresponds /\ [BuilderNext]_builderVars => Corresponds'
  BY CorrespondsNext
<1> QED
  BY <1>1, <1>2, PTL DEF BuilderSpec

(***************************************************************************)
(* Whatever the builders merge or drop, the operation spans and makes of a *)
(* text what one component for every call would.                           *)
(***************************************************************************)
THEOREM MeansTheCallsHolds ==
  BuilderSpec => []MeansTheCalls
<1>1. Corresponds => MeansTheCalls
  <2> SUFFICES ASSUME Corresponds PROVE MeansTheCalls
    OBVIOUS
  <2> DEFINE X == Universe
  <2>1. /\ comps \in OperationsOver(X) /\ calls \in OperationsOver(X)
        /\ BaseLen(comps) = BaseLen(calls)
        /\ \A text \in Seq(X) : ApplyTo(comps, text) = ApplyTo(calls, text)
    BY DEF Corresponds, Alike
  <2>2. Document \in Seq(X)
    <3>1. BaseLen(calls) \in Nat
      <4> HIDE DEF X
      <4> QED
        BY <2>1, LengthsAreNat
    <3>2. [k \in 1..BaseLen(calls) |-> k] \in [1..BaseLen(calls) -> X]
      BY <3>1 DEF Universe
    <3> QED
      BY <3>1, <3>2 DEF Document
  <2>3. ot_snapshot(comps) = ApplyTo(comps, <<>>) /\ ot_snapshot(calls) = ApplyTo(calls, <<>>)
    <3> HIDE DEF X
    <3> QED
      BY <2>1, SnapshotIsMade
  <2>4. <<>> \in Seq(X)
    OBVIOUS
  <2> QED
    BY <2>1, <2>2, <2>3, <2>4 DEF MeansTheCalls
<1> QED
  BY <1>1, AlwaysCorresponds, PTL

-----------------------------------------------------------------------------
(***************************************************************************)
(* As long as no format has been started or ended the operation is tidy.   *)
(***************************************************************************)
TidyUnlessFormats == Formats = {} => Tidy(comps)

LEMMA FormatsBefore ==
  ASSUME Corresponds, NEW comp, comp \in ComponentsOver(Universe),
         calls' = Append(calls, comp), Formats' = {}
  PROVE  Formats = {} /\ comp.type # "formattingBoundary"
<1> DEFINE longer == Append(calls, comp)
           N == Len(calls)
<1>1. /\ longer \in OperationsOver(Universe) /\ N \in Nat /\ Len(longer) = N + 1
      /\ longer[N + 1] = comp /\ \A k \in 1..N : longer[k] = calls[k]
  BY Longer DEF Corresponds, Typed
<1>2. DOMAIN calls = 1..N /\ DOMAIN longer = 1..(N + 1)
  <2> HIDE DEF longer
  <2> QED
    BY <1>1 DEF OperationsOver, Corresponds, Typed
<1>3. \A k \in DOMAIN longer : longer[k].type # "formattingBoundary"
  BY DEF Formats
<1> HIDE DEF longer
<1>4. \A k \in 1..N : k \in 1..(N + 1)
  BY <1>1
<1>5. N + 1 \in 1..(N + 1)
  BY <1>1
<1> QED
  BY <1>1, <1>2, <1>3, <1>4, <1>5 DEF Formats

LEMMA TidyNext ==
  ASSUME Corresponds, TidyUnlessFormats, [BuilderNext]_builderVars
  PROVE  TidyUnlessFormats'
<1> SUFFICES ASSUME Formats' = {} PROVE Tidy(comps')
  BY DEF TidyUnlessFormats, Tidy
<1> DEFINE X == Universe
<1>1. comps \in OperationsOver(X) /\ Counts \subseteq Nat
  BY InputsAssumption DEF Corresponds, Typed
<1>2. Tidy(comps) =>
        /\ \A n \in Nat : Tidy(ot_skip(comps, n)) /\ Tidy(ot_delete(comps, n))
        /\ \A x \in Seq(X) : Tidy(ot_insert(comps, x))
  <2> HIDE DEF X
  <2> QED
    BY <1>1, TidyBuilders
<1>3. ASSUME NEW comp \in ComponentsOver(X), NEW built, Call(comp, built)
      PROVE  Tidy(comps) /\ comps' = built /\ comp.type # "formattingBoundary"
  BY <1>3, FormatsBefore DEF Call, TidyUnlessFormats
<1>4. /\ \A n \in Nat : SkipComp(n) \in ComponentsOver(X) /\ DeleteComp(n) \in ComponentsOver(X)
      /\ \A x \in Seq(X) : InsertComp(x) \in ComponentsOver(X)
  BY MadeComponents, CountedComponents
<1>5. CASE \E n \in Counts : Call(SkipComp(n), ot_skip(comps, n))
  BY <1>1, <1>2, <1>3, <1>4, <1>5
<1>6. CASE \E n \in Counts : Call(DeleteComp(n), ot_delete(comps, n))
  BY <1>1, <1>2, <1>3, <1>4, <1>6
<1>7. CASE \E text \in Strings : Call(InsertComp(text), ot_insert(comps, text))
  BY <1>1, <1>2, <1>3, <1>4, <1>7, GivenTexts
<1>8. ASSUME NEW comp \in ComponentsOver(X), comp.type \in {"openElement", "closeElement"},
             Call(comp, Append(comps, comp))
      PROVE  Tidy(comps')
  <2>1. Tidy(comps) /\ comps' = Append(comps, comp)
    BY <1>3, <1>8
  <2> HIDE DEF X
  <2>2. Tidy(Append(comps, comp))
    BY <1>1, <1>8, <2>1, TidyLonger
  <2> QED
    BY <2>1, <2>2
<1>9. CASE \E elem \in Elements : Call(OpenComp(elem), ot_open_element(comps, elem))
  <2>1. PICK elem \in Elements : Call(OpenComp(elem), ot_open_element(comps, elem))
    BY <1>9
  <2>2. OpenComp(elem) \in ComponentsOver(X) /\ OpenComp(elem).type = "openElement"
    BY DEF OpenComp, ComponentsOver, Universe
  <2> QED
    BY <1>8, <2>1, <2>2 DEF ot_open_element
<1>10. CASE Call(CloseComp, ot_close_element(comps))
  <2>1. CloseComp \in ComponentsOver(X) /\ CloseComp.type = "closeElement"
    BY DEF CloseComp, ComponentsOver
  <2> QED
    BY <1>8, <1>10, <2>1 DEF ot_close_element
<1>11. ASSUME NEW fmt \in Fmts, NEW built
       PROVE  ~Call(FmtComp(<<fmt>>, <<>>), built) /\ ~Call(FmtComp(<<>>, <<fmt>>), built)
  <2>1. <<fmt>> \in Seq(Fmts) /\ <<>> \in Seq(Fmts)
    OBVIOUS
  <2>2. /\ FmtComp(<<fmt>>, <<>>) \in ComponentsOver(X)
        /\ FmtComp(<<>>, <<fmt>>) \in ComponentsOver(X)
        /\ FmtComp(<<fmt>>, <<>>).type = "formattingBoundary"
        /\ FmtComp(<<>>, <<fmt>>).type = "formattingBoundary"
    BY <2>1, BoundaryTyped
  <2> QED
    BY <1>3, <2>2
<1>12. CASE UNCHANGED builderVars
  BY <1>12 DEF builderVars, TidyUnlessFormats, Formats
<1> QED
  BY <1>5, <1>6, <1>7, <1>9, <1>10, <1>11, <1>12 DEF BuilderNext

(***************************************************************************)
(* What ot_dup_op makes is equal to the operation but for formatting       *)
(* boundaries, does the same to a text, and is copied as it is.            *)
(***************************************************************************)
THEOREM CopyIsEqualHolds ==
  BuilderSpec => []CopyIsEqual
<1>1. BuilderInit => Corresponds /\ TidyUnlessFormats
  <2> SUFFICES ASSUME BuilderInit PROVE Corresponds /\ TidyUnlessFormats
    OBVIOUS
  <2>1. Tidy(<<>>) /\ comps = <<>>
    BY DEF Tidy, BuilderInit
  <2> QED
    BY <2>1, CorrespondsFirst DEF TidyUnlessFormats
<1>2. Corresponds /\ TidyUnlessFormats /\ [BuilderNext]_builderVars => Corresponds' /\ TidyUnlessFormats'
  BY CorrespondsNext, TidyNext
<1>3. Corresponds /\ TidyUnlessFormats => CopyIsEqual
  <2> SUFFICES ASSUME Corresponds, TidyUnlessFormats PROVE CopyIsEqual
    OBVIOUS
  <2> DEFINE X == Universe
             copied == FoldLeft(Rebuilt, <<>>, comps)
             copy == ot_dup_op(Operation)
  <2>1. comps \in OperationsOver(X) /\ calls \in OperationsOver(X)
        /\ BaseLen(comps) = BaseLen(calls)
    BY DEF Corresponds, Typed, Alike
  <2> HIDE DEF X
  <2>2. Alike(X, copied, comps) /\ Tidy(copied)
    BY <2>1, CopyAlike
  <2>3. Tidy(comps) => copied = comps
    BY <2>1, CopyOfTidy
  <2>4. FoldLeft(Rebuilt, <<>>, copied) = copied
    <3>1. copied \in OperationsOver(X)
      BY <2>2 DEF Alike
    <3> HIDE DEF copied
    <3> QED
      BY <2>2, <3>1, CopyOfTidy
  <2> HIDE DEF copied
  <2>5. copy = Op(1, ZeroHash, ZeroHash, copied)
    BY DEF ot_dup_op, Operation, Op, copied
  <2>6. copy.comps = copied
    BY <2>5 DEF Op
  <2>7. ot_dup_op(copy) = copy
    <3>1. ot_dup_op(copy) =
            Op(copy.client_id, copy.parent, copy.hash, FoldLeft(Rebuilt, <<>>, copy.comps))
      BY DEF ot_dup_op
    <3> HIDE DEF copy
    <3> QED
      BY <2>4, <2>5, <2>6, <3>1 DEF Op
  <2> HIDE DEF copy
  <2>8. \A op : ot_equal(op, op)
    BY DEF ot_equal, SameComp
  <2>9. Formats = {} => copy = Operation
    BY <2>3, <2>5 DEF TidyUnlessFormats, Operation
  <2>10. Document \in Seq(X)
    <3>1. BaseLen(calls) \in Nat
      BY <2>1, LengthsAreNat
    <3>2. [k \in 1..BaseLen(calls) |-> k] \in [1..BaseLen(calls) -> X]
      BY <3>1 DEF Universe, X
    <3> QED
      BY <3>1, <3>2 DEF Document
  <2>11. ApplyTo(copied, Document) = ApplyTo(comps, Document)
    BY <2>2, <2>10 DEF Alike
  <2> QED
    BY <2>6, <2>7, <2>8, <2>9, <2>11 DEF CopyIsEqual, copy
<1> QED
  BY <1>1, <1>2, <1>3, PTL DEF BuilderSpec

-----------------------------------------------------------------------------
(***************************************************************************)
(* The formats a boundary has on one side, and those the calls gave it, in *)
(* terms of a list of calls.                                               *)
(***************************************************************************)
Sides == {"start", "end"}
FmtsOf(c, side) == IF side = "start" THEN c.start ELSE c.end

SinceIn(list) ==
  {k \in 1..Len(list) : /\ list[k].type = "formattingBoundary"
                        /\ \A j \in k..Len(list) : ~Solid(list[j])}

IsNewest(list, side, k) ==
  /\ k \in SinceIn(list) /\ FmtsOf(list[k], side) # <<>>
  /\ \A j \in SinceIn(list) :
       j > k /\ FmtsOf(list[j], side) # <<>> =>
         FmtsOf(list[j], side)[1][1] # FmtsOf(list[k], side)[1][1]

NewestIn(list, side) ==
  {FmtsOf(list[k], side)[1] : k \in {m \in SinceIn(list) : IsNewest(list, side, m)}}

LEMMA SameSince ==
  ASSUME Typed(calls)
  PROVE  /\ Since = SinceIn(calls)
         /\ GivenLast(LAMBDA c : c.start) = NewestIn(calls, "start")
         /\ GivenLast(LAMBDA c : c.end) = NewestIn(calls, "end")
<1>1. DOMAIN calls = 1..Len(calls)
  BY DEF Typed, OperationsOver
<1>2. Since = SinceIn(calls)
  BY <1>1 DEF Since, SinceIn, Formats
<1>3. "end" # "start"
  OBVIOUS
<1>4. GivenLast(LAMBDA c : c.start) = NewestIn(calls, "start")
  BY <1>2 DEF GivenLast, NewestIn, IsNewest, FmtsOf
<1>5. GivenLast(LAMBDA c : c.end) = NewestIn(calls, "end")
  BY <1>2, <1>3 DEF GivenLast, NewestIn, IsNewest, FmtsOf
<1> QED
  BY <1>2, <1>4, <1>5

\* A list of formats that has each name once, and exactly these formats.
Collects(list, newest) ==
  /\ ToSet(list) = newest
  /\ \A k, m \in 1..Len(list) : list[k][1] = list[m][1] => k = m

LEMMA CollectedOnce ==
  ASSUME NEW F, NEW list \in Seq(F), NEW newest, Collects(list, newest)
  PROVE  Collected(list, newest)
<1>1. Len(list) \in Nat /\ DOMAIN list = 1..Len(list) /\ list \in [1..Len(list) -> F]
  OBVIOUS
<1>2. list \in Surjection(1..Len(list), ToSet(list))
  BY <1>1 DEF Surjection, ToSet
<1>3. list \in Injection(1..Len(list), ToSet(list))
  <2>1. \A k, m \in 1..Len(list) : list[k] = list[m] => k = m
    BY DEF Collects
  <2>2. list \in [1..Len(list) -> ToSet(list)]
    BY <1>1 DEF ToSet
  <2> QED
    BY <2>1, <2>2 DEF Injection, IsInjective
<1>4. IsFiniteSet(1..Len(list)) /\ Cardinality(1..Len(list)) = Len(list)
  BY <1>1, FS_Interval
<1>5. Cardinality(ToSet(list)) = Cardinality(1..Len(list))
  BY <1>2, <1>3, <1>4, FS_Surjection
<1> QED
  BY <1>4, <1>5 DEF Collected, Collects

LEMMA CollectsFormat ==
  ASSUME NEW F, NEW list \in Seq(F), NEW fmt \in F, NEW newest, Collects(list, newest)
  PROVE  Collects(append_fmt(list, fmt), {fmt} \cup {x \in newest : x[1] # fmt[1]})
<1> DEFINE N == Len(list)
           replaced == [k \in 1..N |-> IF list[k][1] = fmt[1] THEN fmt ELSE list[k]]
           longer == Append(list, fmt)
           wanted == {fmt} \cup {x \in newest : x[1] # fmt[1]}
<1>1. N \in Nat /\ DOMAIN list = 1..N /\ \A k \in 1..N : list[k] \in F
  OBVIOUS
<1>2. newest = {list[k] : k \in 1..N}
  BY <1>1 DEF Collects, ToSet
<1>3. /\ DOMAIN replaced = 1..N /\ Len(replaced) = N
      /\ \A k \in 1..N : replaced[k] = IF list[k][1] = fmt[1] THEN fmt ELSE list[k]
  <2>1. replaced \in Seq(F)
    BY <1>1
  <2> QED
    BY <1>1
<1>4. /\ DOMAIN longer = 1..(N + 1) /\ Len(longer) = N + 1
      /\ longer[N + 1] = fmt /\ \A k \in 1..N : longer[k] = list[k]
  BY <1>1
<1>5. append_fmt(list, fmt) = IF fmt[1] \in {old[1] : old \in newest} THEN replaced ELSE longer
  BY <1>1 DEF append_fmt, Collects
<1> HIDE DEF replaced, longer, N
<1>6. CASE fmt[1] \in {old[1] : old \in newest}
  <2>1. PICK n \in 1..N : list[n][1] = fmt[1]
    BY <1>2, <1>6
  <2>2. replaced[n] = fmt
    BY <1>3, <2>1
  <2>3. \A k \in 1..N : k # n => list[k][1] # fmt[1] /\ replaced[k] = list[k]
    BY <1>3, <2>1 DEF Collects, N
  <2>4. ToSet(replaced) = wanted
    <3>1. \A k \in 1..N : replaced[k] \in wanted
      BY <1>2, <2>2, <2>3
    <3>2. \A x \in wanted : \E k \in 1..N : replaced[k] = x
      BY <1>2, <2>1, <2>2, <2>3
    <3> HIDE DEF wanted
    <3> QED
      BY <1>3, <3>1, <3>2 DEF ToSet
  <2>5. \A k, m \in 1..N : replaced[k][1] = replaced[m][1] => k = m
    BY <2>1, <2>2, <2>3 DEF Collects, N
  <2> HIDE DEF wanted
  <2>6. append_fmt(list, fmt) = replaced
    BY <1>5, <1>6
  <2> QED
    BY <1>3, <2>4, <2>5, <2>6 DEF Collects, wanted
<1>7. CASE fmt[1] \notin {old[1] : old \in newest}
  <2>1. \A k \in 1..N : list[k][1] # fmt[1]
    BY <1>2, <1>7
  <2>2. \A k \in 1..(N + 1) : k \in 1..N \/ k = N + 1
    BY <1>1
  <2>3. N + 1 \in 1..(N + 1) /\ \A k \in 1..N : k \in 1..(N + 1)
    BY <1>1
  <2>4. ToSet(longer) = wanted
    <3>1. \A k \in 1..(N + 1) : longer[k] \in wanted
      BY <1>2, <1>4, <2>1, <2>2
    <3>2. \A x \in wanted : \E k \in 1..(N + 1) : longer[k] = x
      BY <1>2, <1>4, <2>3
    <3> HIDE DEF wanted
    <3> QED
      BY <1>4, <3>1, <3>2 DEF ToSet
  <2>5. \A k, m \in 1..(N + 1) : longer[k][1] = longer[m][1] => k = m
    <3>1. \A k, m \in 1..N : list[k][1] = list[m][1] => k = m
      BY DEF Collects, N
    <3> QED
      BY <1>4, <2>1, <2>2, <3>1
  <2> HIDE DEF wanted
  <2>6. append_fmt(list, fmt) = longer
    BY <1>5, <1>7
  <2> QED
    BY <1>4, <2>4, <2>5, <2>6 DEF Collects, wanted
<1> QED
  BY <1>6, <1>7

(***************************************************************************)
(* What one call more does to what is collected since the last solid one.  *)
(***************************************************************************)
LEMMA SinceLongerCalls ==
  ASSUME NEW X, NEW list \in OperationsOver(X), NEW c \in ComponentsOver(X)
  PROVE  /\ Solid(c) => SinceIn(Append(list, c)) = {}
         /\ ~Solid(c) => SinceIn(Append(list, c)) =
              SinceIn(list) \cup (IF c.type = "formattingBoundary" THEN {Len(list) + 1} ELSE {})
<1> DEFINE longer == Append(list, c)
           N == Len(list)
<1>1. /\ N \in Nat /\ Len(longer) = N + 1 /\ longer[N + 1] = c
      /\ \A k \in 1..N : longer[k] = list[k]
  BY Longer
<1> HIDE DEF longer, N
<1>2. /\ \A k \in 1..(N + 1) : k \in 1..N \/ k = N + 1
      /\ \A k \in 1..N : k \in 1..(N + 1) /\ N + 1 \in k..(N + 1)
      /\ N + 1 \in 1..(N + 1) /\ \A j \in (N + 1)..(N + 1) : j = N + 1
      /\ N + 1 \in (N + 1)..(N + 1)
      /\ \A k \in 1..N : \A j \in k..(N + 1) : j \in k..N \/ j = N + 1
      /\ \A k \in 1..N : \A j \in k..N : j \in k..(N + 1) /\ j \in 1..N
  BY <1>1
<1>3. ASSUME Solid(c) PROVE SinceIn(longer) = {}
  BY <1>1, <1>2, <1>3 DEF SinceIn
<1>4. ASSUME ~Solid(c)
      PROVE  SinceIn(longer) = SinceIn(list)
               \cup (IF c.type = "formattingBoundary" THEN {N + 1} ELSE {})
  <2>1. \A k \in 1..N : (\A j \in k..(N + 1) : ~Solid(longer[j])) <=>
                        (\A j \in k..N : ~Solid(list[j]))
    BY <1>1, <1>2, <1>4
  <2>2. \A k \in 1..N : k \in SinceIn(longer) <=> k \in SinceIn(list)
    BY <1>1, <1>2, <2>1 DEF SinceIn, N
  <2>3. N + 1 \in SinceIn(longer) <=> c.type = "formattingBoundary"
    BY <1>1, <1>2, <1>4 DEF SinceIn
  <2>4. SinceIn(longer) \subseteq 1..(N + 1) /\ SinceIn(list) \subseteq 1..N
    BY <1>1 DEF SinceIn, N
  <2> QED
    BY <1>1, <1>2, <2>2, <2>3, <2>4
<1> QED
  BY <1>3, <1>4 DEF longer, N

LEMMA NewestUnchanged ==
  ASSUME NEW X, NEW list \in OperationsOver(X), NEW c \in ComponentsOver(X), ~Solid(c),
         NEW side \in Sides, c.type = "formattingBoundary" => FmtsOf(c, side) = <<>>
  PROVE  NewestIn(Append(list, c), side) = NewestIn(list, side)
<1> DEFINE longer == Append(list, c)
           N == Len(list)
           old == SinceIn(list)
           new == SinceIn(longer)
<1>1. /\ N \in Nat /\ longer[N + 1] = c /\ \A k \in 1..N : longer[k] = list[k]
  BY Longer
<1>2. new = old \cup (IF c.type = "formattingBoundary" THEN {N + 1} ELSE {})
  BY SinceLongerCalls
<1>3. old \subseteq 1..N
  BY DEF SinceIn
<1> HIDE DEF longer, N, old, new
<1>4. \A k \in new : k \in old \/ FmtsOf(longer[k], side) = <<>>
  BY <1>1, <1>2
<1>5. \A k \in old : k \in new /\ longer[k] = list[k]
  BY <1>1, <1>2, <1>3
<1>6. \A k \in old : IsNewest(longer, side, k) <=> IsNewest(list, side, k)
  BY <1>4, <1>5 DEF IsNewest, old, new
<1>7. \A k \in new : IsNewest(longer, side, k) => k \in old
  BY <1>4 DEF IsNewest
<1>8. {m \in new : IsNewest(longer, side, m)} = {m \in old : IsNewest(list, side, m)}
  BY <1>5, <1>6, <1>7
<1>9. \A m \in {n \in old : IsNewest(list, side, n)} : longer[m] = list[m]
  BY <1>5
<1> QED
  BY <1>8, <1>9 DEF NewestIn, longer, old, new

LEMMA NewestReplaced ==
  ASSUME NEW X, NEW list \in OperationsOver(X), NEW c \in ComponentsOver(X),
         c.type = "formattingBoundary", NEW side \in Sides, NEW fmt,
         FmtsOf(c, side) = <<fmt>>
  PROVE  NewestIn(Append(list, c), side) =
           {fmt} \cup {x \in NewestIn(list, side) : x[1] # fmt[1]}
<1> DEFINE longer == Append(list, c)
           N == Len(list)
           old == SinceIn(list)
           new == SinceIn(longer)
           At(k) == FmtsOf(longer[k], side)
<1>1. /\ N \in Nat /\ longer[N + 1] = c /\ \A k \in 1..N : longer[k] = list[k]
  BY Longer
<1>2. new = old \cup {N + 1}
  BY SinceLongerCalls DEF Solid
<1>3. old \subseteq 1..N
  BY DEF SinceIn
<1>4. At(N + 1) = <<fmt>> /\ <<fmt>> # <<>> /\ <<fmt>>[1] = fmt
  BY <1>1
<1> HIDE DEF longer, N, old, new
<1>5. /\ \A k \in old : k \in new /\ longer[k] = list[k] /\ N + 1 > k /\ k \in Nat
      /\ N + 1 \in new /\ \A j \in new : ~(j > N + 1)
  BY <1>1, <1>2, <1>3
<1>6. IsNewest(longer, side, N + 1)
  BY <1>4, <1>5 DEF IsNewest, new
<1>7. ASSUME NEW k \in old
      PROVE  IsNewest(longer, side, k) <=> IsNewest(list, side, k) /\ At(k)[1][1] # fmt[1]
  <2>1. IsNewest(longer, side, k) <=>
          /\ At(k) # <<>>
          /\ \A j \in old : j > k /\ At(j) # <<>> => At(j)[1][1] # At(k)[1][1]
          /\ fmt[1] # At(k)[1][1]
    <3>1. \A j \in new : j \in old \/ j = N + 1
      BY <1>2
    <3>2. k \in new /\ N + 1 \in new /\ N + 1 > k /\ At(N + 1) # <<>> /\ At(N + 1)[1] = fmt
      BY <1>4, <1>5
    <3>3. \A j \in old : j \in new
      BY <1>5
    <3>4. IsNewest(longer, side, k) <=>
            /\ k \in new /\ At(k) # <<>>
            /\ \A j \in new : j > k /\ At(j) # <<>> => At(j)[1][1] # At(k)[1][1]
      BY DEF IsNewest, new
    <3> HIDE DEF At
    <3> QED
      BY <3>1, <3>2, <3>3, <3>4
  <2>2. IsNewest(list, side, k) <=>
          /\ At(k) # <<>>
          /\ \A j \in old : j > k /\ At(j) # <<>> => At(j)[1][1] # At(k)[1][1]
    BY <1>5 DEF IsNewest, old
  <2> HIDE DEF At
  <2> QED
    BY <2>1, <2>2
<1> DEFINE WasNewest(x) == \E k \in old : IsNewest(list, side, k) /\ x = At(k)[1]
<1>8. \A x : x \in NewestIn(list, side) <=> WasNewest(x)
  BY <1>5 DEF NewestIn, old
<1>9. \A x : x \in NewestIn(longer, side) <=>
               \E k \in new : IsNewest(longer, side, k) /\ x = At(k)[1]
  BY DEF NewestIn, new
<1>10. At(N + 1)[1] = fmt
  BY <1>4
<1>11. \A x : (\E k \in new : IsNewest(longer, side, k) /\ x = At(k)[1]) <=>
                x = fmt \/ (WasNewest(x) /\ x[1] # fmt[1])
  <2> SUFFICES ASSUME NEW x
               PROVE  (\E k \in new : IsNewest(longer, side, k) /\ x = At(k)[1]) <=>
                        x = fmt \/ (WasNewest(x) /\ x[1] # fmt[1])
    OBVIOUS
  <2> HIDE DEF At
  <2> QED
    BY <1>2, <1>6, <1>7, <1>10
<1> HIDE DEF At, WasNewest
<1>12. \A x : x \in NewestIn(longer, side) <=>
                x = fmt \/ (x \in NewestIn(list, side) /\ x[1] # fmt[1])
  BY <1>8, <1>9, <1>11
<1>13. NewestIn(longer, side) = {fmt} \cup {x \in NewestIn(list, side) : x[1] # fmt[1]}
  BY <1>12
<1> QED
  BY <1>13 DEF longer

(***************************************************************************)
(* The boundary at the end has what was started and ended since the last   *)
(* solid call, and there is one exactly if anything was.                   *)
(***************************************************************************)
BoundaryInv ==
  /\ AtBoundary <=> SinceIn(calls) # {}
  /\ AtBoundary =>
       \A side \in Sides : Collects(FmtsOf(Last(comps), side), NewestIn(calls, side))

LEMMA LastBuilt ==
  ASSUME NEW X, NEW list \in OperationsOver(X), NEW c \in Built(X)
  PROVE  AppendComp(list, c) # <<>> /\ Last(AppendComp(list, c)).type = c.type
<1>1. \A s \in OperationsOver(X), d \in ComponentsOver(X) :
        Append(s, d) # <<>> /\ Last(Append(s, d)) = d
  <2> SUFFICES ASSUME NEW s \in OperationsOver(X), NEW d \in ComponentsOver(X)
               PROVE  Append(s, d) # <<>> /\ Last(Append(s, d)) = d
    OBVIOUS
  <2> DEFINE r == Append(s, d)
  <2>1. Len(s) \in Nat /\ Len(r) = Len(s) + 1 /\ r[Len(s) + 1] = d
    BY Longer
  <2>2. Len(<<>>) = 0
    OBVIOUS
  <2> HIDE DEF r
  <2>3. r # <<>> /\ Last(r) = d
    BY <2>1, <2>2 DEF Last
  <2> QED
    BY <2>3 DEF r
<1>2. CASE list # <<>> /\ Last(list).type = c.type
  <2> DEFINE m == Merge(Last(list), c)
  <2>1. AppendComp(list, c) = Append(Front(list), m)
    BY <1>2 DEF AppendComp
  <2>2. Front(list) \in OperationsOver(X) /\ Last(list) \in ComponentsOver(X)
    BY <1>2, WithoutLast
  <2>3. m \in Built(X) /\ m.type = Last(list).type
    BY <1>2, <2>2, MergeAlike
  <2> HIDE DEF m
  <2>4. m \in ComponentsOver(X)
    BY <2>3, BuiltIsComponent
  <2> QED
    BY <1>1, <1>2, <2>1, <2>2, <2>3, <2>4
<1>3. CASE ~(list # <<>> /\ Last(list).type = c.type)
  <2>1. AppendComp(list, c) = Append(list, c)
    BY <1>3 DEF AppendComp
  <2>2. c \in ComponentsOver(X)
    BY BuiltIsComponent
  <2> QED
    BY <1>1, <2>1, <2>2
<1> QED
  BY <1>2, <1>3

LEMMA SolidCall ==
  ASSUME Corresponds, NEW comp \in ComponentsOver(Universe), Solid(comp), NEW built,
         Call(comp, built), built = <<>> \/ Last(built).type # "formattingBoundary"
  PROVE  BoundaryInv'
<1>1. comps' = built /\ calls' = Append(calls, comp)
  BY DEF Call
<1>2. SinceIn(Append(calls, comp)) = {}
  BY SinceLongerCalls DEF Corresponds, Typed
<1>3. ~AtBoundary'
  BY <1>1 DEF AtBoundary
<1> QED
  BY <1>1, <1>2, <1>3 DEF BoundaryInv

LEMMA BuiltCall ==
  ASSUME Corresponds, NEW comp \in Built(Universe), Solid(comp),
         Call(comp, AppendComp(comps, comp))
  PROVE  BoundaryInv'
<1>1. comp \in ComponentsOver(Universe) /\ comp.type # "formattingBoundary"
  BY BuiltIsComponent DEF Built, SkipComp, DeleteComp, InsertComp
<1>2. comps \in OperationsOver(Universe)
  BY DEF Corresponds, Typed
<1>3. Last(AppendComp(comps, comp)).type = comp.type
  BY <1>2, LastBuilt
<1> QED
  BY <1>1, <1>3, SolidCall

LEMMA EmptyCall ==
  ASSUME Corresponds, BoundaryInv, NEW comp \in ComponentsOver(Universe),
         comp.type # "formattingBoundary", ~Solid(comp), Call(comp, comps)
  PROVE  BoundaryInv'
<1>1. comps' = comps /\ calls' = Append(calls, comp)
  BY DEF Call
<1>2. calls \in OperationsOver(Universe)
  BY DEF Corresponds, Typed
<1>3. SinceIn(Append(calls, comp)) = SinceIn(calls)
  BY <1>2, SinceLongerCalls
<1>4. \A side \in Sides : NewestIn(Append(calls, comp), side) = NewestIn(calls, side)
  BY <1>2, NewestUnchanged
<1>5. AtBoundary' <=> AtBoundary
  BY <1>1 DEF AtBoundary
<1> QED
  BY <1>1, <1>3, <1>4, <1>5 DEF BoundaryInv

\* The boundary that is changed or made has what the calls before gave it.
LEMMA BoundarySoFar ==
  ASSUME Corresponds, BoundaryInv, NEW side \in Sides
  PROVE  /\ Collects(FmtsOf(Last(append_fmtbound), side), NewestIn(calls, side))
         /\ FmtsOf(Last(append_fmtbound), side) \in Seq(Fmts)
<1>1. FmtsOf(Last(append_fmtbound), side) \in Seq(Fmts)
  BY BoundaryAtEnd DEF Corresponds, FormatsTyped, FmtsOf
<1>2. CASE AtBoundary
  BY <1>1, <1>2 DEF BoundaryInv, append_fmtbound
<1>3. CASE ~AtBoundary
  <2>1. NewestIn(calls, side) = {}
    BY <1>3 DEF BoundaryInv, NewestIn
  <2> DEFINE new == FmtComp(<<>>, <<>>)
             r == Append(comps, new)
  <2>2. r = append_fmtbound
    BY <1>3 DEF append_fmtbound
  <2>3. Last(r) = new
    <3>1. new \in ComponentsOver(Universe)
      BY EmptySeq, BoundaryTyped
    <3>2. Len(comps) \in Nat /\ Len(r) = Len(comps) + 1 /\ r[Len(comps) + 1] = new
      BY <3>1, Longer DEF Corresponds, Typed
    <3> HIDE DEF r, new
    <3> QED
      BY <3>2 DEF Last
  <2>4. FmtsOf(new, side) = <<>>
    BY DEF FmtComp, FmtsOf
  <2>5. Collects(<<>>, {})
    BY DEF Collects, ToSet
  <2> HIDE DEF r, new
  <2> QED
    BY <1>1, <2>1, <2>2, <2>3, <2>4, <2>5
<1> QED
  BY <1>2, <1>3

LEMMA FormatCall ==
  ASSUME Corresponds, BoundaryInv, NEW fmt \in Fmts, NEW side \in Sides,
         NEW comp \in ComponentsOver(Universe), comp.type = "formattingBoundary",
         FmtsOf(comp, side) = <<fmt>>,
         \A other \in Sides \ {side} : FmtsOf(comp, other) = <<>>,
         NEW bound, bound \in ComponentsOver(Universe), bound.type = "formattingBoundary",
         FmtsOf(bound, side) = append_fmt(FmtsOf(Last(append_fmtbound), side), fmt),
         \A other \in Sides \ {side} :
           FmtsOf(bound, other) = FmtsOf(Last(append_fmtbound), other),
         Call(comp, Append(Front(append_fmtbound), bound))
  PROVE  BoundaryInv'
<1> DEFINE built == Append(Front(append_fmtbound), bound)
           longer == Append(calls, comp)
<1>1. comps' = built /\ calls' = longer
  BY DEF Call
<1>2. calls \in OperationsOver(Universe) /\ Len(calls) \in Nat
  BY DEF Corresponds, Typed, OperationsOver
<1>3. built # <<>> /\ Last(built) = bound
  <2>1. Front(append_fmtbound) \in OperationsOver(Universe)
    BY BoundaryAtEnd DEF Corresponds, Typed
  <2> DEFINE front == Front(append_fmtbound)
  <2>2. Len(front) \in Nat /\ Len(built) = Len(front) + 1 /\ built[Len(front) + 1] = bound
    BY <2>1, Longer
  <2>3. Len(<<>>) = 0
    OBVIOUS
  <2> HIDE DEF built, front
  <2> QED
    BY <2>2, <2>3 DEF Last
<1>4. AtBoundary'
  BY <1>1, <1>3 DEF AtBoundary
<1>5. SinceIn(longer) # {}
  BY <1>2, SinceLongerCalls DEF Solid
<1>6. Collects(FmtsOf(bound, side), NewestIn(longer, side))
  <2>1. NewestIn(longer, side) = {fmt} \cup {x \in NewestIn(calls, side) : x[1] # fmt[1]}
    BY <1>2, NewestReplaced
  <2>2. /\ Collects(FmtsOf(Last(append_fmtbound), side), NewestIn(calls, side))
        /\ FmtsOf(Last(append_fmtbound), side) \in Seq(Fmts)
    BY BoundarySoFar
  <2> QED
    BY <2>1, <2>2, CollectsFormat
<1>7. ASSUME NEW other \in Sides \ {side}
      PROVE  Collects(FmtsOf(bound, other), NewestIn(longer, other))
  <2>1. other \in Sides /\ FmtsOf(comp, other) = <<>> /\ ~Solid(comp)
    BY DEF Solid
  <2>2. NewestIn(longer, other) = NewestIn(calls, other)
    BY <1>2, <2>1, NewestUnchanged
  <2>3. Collects(FmtsOf(Last(append_fmtbound), other), NewestIn(calls, other))
    BY <2>1, BoundarySoFar
  <2> QED
    BY <2>2, <2>3
<1> HIDE DEF built, longer
<1>8. \A s \in Sides : Collects(FmtsOf(bound, s), NewestIn(longer, s))
  BY <1>6, <1>7
<1> QED
  BY <1>1, <1>3, <1>4, <1>5, <1>8 DEF BoundaryInv

LEMMA BoundaryNext ==
  ASSUME Corresponds, BoundaryInv, [BuilderNext]_builderVars
  PROVE  BoundaryInv'
<1> DEFINE X == Universe
<1>1. /\ \A n \in Nat : SkipComp(n) \in Built(X) /\ DeleteComp(n) \in Built(X)
      /\ \A x \in Seq(X) : InsertComp(x) \in Built(X)
  BY DEF Built
<1>2. /\ \A n \in Nat : (Solid(SkipComp(n)) <=> n # 0) /\ (Solid(DeleteComp(n)) <=> n # 0)
      /\ \A n \in Nat : /\ SkipComp(n).type # "formattingBoundary"
                        /\ DeleteComp(n).type # "formattingBoundary"
      /\ \A x : Solid(InsertComp(x))
      /\ \A elem : Solid(OpenComp(elem)) /\ Solid(CloseComp)
  BY DEF Solid, SkipComp, DeleteComp, InsertComp, OpenComp, CloseComp
<1>3. Counts \subseteq Nat /\ comps \in OperationsOver(X)
  BY InputsAssumption DEF Corresponds, Typed
<1>4. \A n \in Nat : SkipComp(n) \in ComponentsOver(X) /\ DeleteComp(n) \in ComponentsOver(X)
  BY CountedComponents
<1>5. CASE \E n \in Counts : Call(SkipComp(n), ot_skip(comps, n))
  <2>1. PICK n \in Counts : Call(SkipComp(n), ot_skip(comps, n))
    BY <1>5
  <2>2. CASE n = 0
    BY <1>2, <1>3, <1>4, <2>1, <2>2, EmptyCall DEF ot_skip
  <2>3. CASE n # 0
    BY <1>1, <1>2, <1>3, <2>1, <2>3, BuiltCall DEF ot_skip
  <2> QED
    BY <2>2, <2>3
<1>6. CASE \E n \in Counts : Call(DeleteComp(n), ot_delete(comps, n))
  <2>1. PICK n \in Counts : Call(DeleteComp(n), ot_delete(comps, n))
    BY <1>6
  <2>2. CASE n = 0
    BY <1>2, <1>3, <1>4, <2>1, <2>2, EmptyCall DEF ot_delete
  <2>3. CASE n # 0
    BY <1>1, <1>2, <1>3, <2>1, <2>3, BuiltCall DEF ot_delete
  <2> QED
    BY <2>2, <2>3
<1>7. CASE \E text \in Strings : Call(InsertComp(text), ot_insert(comps, text))
  BY <1>1, <1>2, <1>7, GivenTexts, BuiltCall DEF ot_insert
<1>8. ASSUME NEW comp \in ComponentsOver(X), comp.type # "formattingBoundary", Solid(comp),
             Call(comp, Append(comps, comp))
      PROVE  BoundaryInv'
  <2> DEFINE r == Append(comps, comp)
  <2>1. Len(comps) \in Nat /\ Len(r) = Len(comps) + 1 /\ r[Len(comps) + 1] = comp
    BY <1>3, Longer
  <2>2. Call(comp, r)
    BY <1>8
  <2> HIDE DEF r
  <2>3. Last(r).type # "formattingBoundary"
    BY <1>8, <2>1 DEF Last
  <2> QED
    BY <1>8, <2>2, <2>3, SolidCall
<1>9. CASE \E elem \in Elements : Call(OpenComp(elem), ot_open_element(comps, elem))
  <2>1. PICK elem \in Elements : Call(OpenComp(elem), ot_open_element(comps, elem))
    BY <1>9
  <2>2. OpenComp(elem) \in ComponentsOver(X) /\ OpenComp(elem).type # "formattingBoundary"
    BY DEF OpenComp, ComponentsOver, Universe
  <2> QED
    BY <1>2, <1>8, <2>1, <2>2 DEF ot_open_element
<1>10. CASE Call(CloseComp, ot_close_element(comps))
  <2>1. CloseComp \in ComponentsOver(X) /\ CloseComp.type # "formattingBoundary"
    BY DEF CloseComp, ComponentsOver
  <2> QED
    BY <1>2, <1>8, <1>10, <2>1 DEF ot_close_element
<1> DEFINE bound == Last(append_fmtbound)
<1>11. /\ bound \in [type : {"formattingBoundary"}, start : X, end : X]
       /\ bound.start \in Seq(Fmts) /\ bound.end \in Seq(Fmts)
       /\ Seq(Fmts) \subseteq X
  <2>1. bound \in ComponentsOver(X) /\ bound.type = "formattingBoundary" /\ FormatsTyped(bound)
    BY BoundaryAtEnd DEF Corresponds
  <2> HIDE DEF bound, X
  <2> QED
    BY <2>1 DEF ComponentsOver, CloseComp, FormatsTyped, Universe, X
<1>12. CASE \E fmt \in Fmts : Call(FmtComp(<<fmt>>, <<>>), ot_start_fmt(fmt))
  <2>1. PICK fmt \in Fmts : Call(FmtComp(<<fmt>>, <<>>), ot_start_fmt(fmt))
    BY <1>12
  <2> DEFINE comp == FmtComp(<<fmt>>, <<>>)
             changed == [bound EXCEPT !.start = append_fmt(@, fmt)]
  <2>2. /\ comp \in ComponentsOver(X) /\ comp.type = "formattingBoundary"
        /\ FmtsOf(comp, "start") = <<fmt>> /\ FmtsOf(comp, "end") = <<>>
    <3>1. <<fmt>> \in Seq(Fmts) /\ <<>> \in Seq(Fmts)
      OBVIOUS
    <3>2. comp.start = <<fmt>> /\ comp.end = <<>> /\ "end" # "start"
      BY DEF FmtComp
    <3> QED
      BY <3>1, <3>2, BoundaryTyped DEF FmtsOf
  <2>3. append_fmt(bound.start, fmt) \in X
    BY <1>11, FormatAppended
  <2> HIDE DEF bound
  <2>4. /\ changed \in [type : {"formattingBoundary"}, start : X, end : X]
        /\ changed.start = append_fmt(bound.start, fmt) /\ changed.end = bound.end
        /\ changed.type = "formattingBoundary"
    BY <1>11, <2>3
  <2>5. Call(comp, Append(Front(append_fmtbound), changed))
    BY <2>1 DEF ot_start_fmt, bound
  <2> HIDE DEF comp, changed, X
  <2>6. changed \in ComponentsOver(X)
    BY <2>4 DEF ComponentsOver
  <2>7. "start" \in Sides /\ \A other \in Sides \ {"start"} : other = "end"
    BY DEF Sides
  <2>8. /\ FmtsOf(changed, "start") = append_fmt(FmtsOf(bound, "start"), fmt)
        /\ FmtsOf(changed, "end") = FmtsOf(bound, "end")
    <3>1. "end" # "start"
      OBVIOUS
    <3> QED
      BY <2>4, <3>1 DEF FmtsOf
  <2> QED
    BY <2>2, <2>4, <2>5, <2>6, <2>7, <2>8, FormatCall DEF X, bound
<1>13. CASE \E fmt \in Fmts : Call(FmtComp(<<>>, <<fmt>>), ot_end_fmt(fmt))
  <2>1. PICK fmt \in Fmts : Call(FmtComp(<<>>, <<fmt>>), ot_end_fmt(fmt))
    BY <1>13
  <2> DEFINE comp == FmtComp(<<>>, <<fmt>>)
             changed == [bound EXCEPT !.end = append_fmt(@, fmt)]
  <2>2. /\ comp \in ComponentsOver(X) /\ comp.type = "formattingBoundary"
        /\ FmtsOf(comp, "end") = <<fmt>> /\ FmtsOf(comp, "start") = <<>>
    <3>1. <<fmt>> \in Seq(Fmts) /\ <<>> \in Seq(Fmts)
      OBVIOUS
    <3>2. comp.end = <<fmt>> /\ comp.start = <<>> /\ "end" # "start"
      BY DEF FmtComp
    <3> QED
      BY <3>1, <3>2, BoundaryTyped DEF FmtsOf
  <2>3. append_fmt(bound.end, fmt) \in X
    BY <1>11, FormatAppended
  <2> HIDE DEF bound
  <2>4. /\ changed \in [type : {"formattingBoundary"}, start : X, end : X]
        /\ changed.end = append_fmt(bound.end, fmt) /\ changed.start = bound.start
        /\ changed.type = "formattingBoundary"
    BY <1>11, <2>3
  <2>5. Call(comp, Append(Front(append_fmtbound), changed))
    BY <2>1 DEF ot_end_fmt, bound
  <2> HIDE DEF comp, changed, X
  <2>6. changed \in ComponentsOver(X)
    BY <2>4 DEF ComponentsOver
  <2>7. "end" \in Sides /\ \A other \in Sides \ {"end"} : other = "start"
    BY DEF Sides
  <2>8. /\ FmtsOf(changed, "end") = append_fmt(FmtsOf(bound, "end"), fmt)
        /\ FmtsOf(changed, "start") = FmtsOf(bound, "start")
    <3>1. "end" # "start"
      OBVIOUS
    <3> QED
      BY <2>4, <3>1 DEF FmtsOf
  <2> QED
    BY <2>2, <2>4, <2>5, <2>6, <2>7, <2>8, FormatCall DEF X, bound
<1>14. CASE UNCHANGED builderVars
  BY <1>14 DEF builderVars, BoundaryInv, AtBoundary
<1> QED
  BY <1>5, <1>6, <1>7, <1>9, <1>10, <1>12, <1>13, <1>14 DEF BuilderNext

(***************************************************************************)
(* A formatting boundary has each name once, with the value given last.    *)
(***************************************************************************)
THEOREM LastValueCountsHolds ==
  BuilderSpec => []LastValueCounts
<1>1. BuilderInit => Corresponds /\ BoundaryInv
  <2> SUFFICES ASSUME BuilderInit PROVE Corresponds /\ BoundaryInv
    OBVIOUS
  <2>1. comps = <<>> /\ calls = <<>> /\ Len(<<>>) = 0
    BY DEF BuilderInit
  <2>2. ~AtBoundary
    BY <2>1 DEF AtBoundary
  <2>3. SinceIn(calls) = {}
    BY <2>1 DEF SinceIn
  <2> QED
    BY <2>2, <2>3, CorrespondsFirst DEF BoundaryInv
<1>2. Corresponds /\ BoundaryInv /\ [BuilderNext]_builderVars => Corresponds' /\ BoundaryInv'
  BY CorrespondsNext, BoundaryNext
<1>3. Corresponds /\ BoundaryInv => LastValueCounts
  <2> SUFFICES ASSUME Corresponds, BoundaryInv PROVE LastValueCounts
    OBVIOUS
  <2>1. /\ Since = SinceIn(calls)
        /\ GivenLast(LAMBDA c : c.start) = NewestIn(calls, "start")
        /\ GivenLast(LAMBDA c : c.end) = NewestIn(calls, "end")
    BY SameSince DEF Corresponds
  <2>2. ASSUME AtBoundary
        PROVE  /\ Collected(Last(comps).start, NewestIn(calls, "start"))
               /\ Collected(Last(comps).end, NewestIn(calls, "end"))
    <3>1. append_fmtbound = comps
      BY <2>2 DEF append_fmtbound
    <3>2. "start" \in Sides /\ "end" \in Sides /\ "end" # "start"
      BY DEF Sides
    <3>3. \A side \in Sides : /\ FmtsOf(Last(comps), side) \in Seq(Fmts)
                              /\ Collects(FmtsOf(Last(comps), side), NewestIn(calls, side))
      BY <3>1, BoundarySoFar
    <3>4. \A side \in Sides : Collected(FmtsOf(Last(comps), side), NewestIn(calls, side))
      BY <3>3, CollectedOnce
    <3>5. Collected(FmtsOf(Last(comps), "start"), NewestIn(calls, "start"))
      BY <3>2, <3>4
    <3>6. Collected(FmtsOf(Last(comps), "end"), NewestIn(calls, "end"))
      BY <3>2, <3>4
    <3>7. FmtsOf(Last(comps), "start") = Last(comps).start
          /\ FmtsOf(Last(comps), "end") = Last(comps).end
      BY <3>2 DEF FmtsOf
    <3> QED
      BY <3>5, <3>6, <3>7
  <2>3. LastValueCounts <=>
          /\ AtBoundary <=> Since # {}
          /\ AtBoundary =>
               /\ Collected(Last(comps).start, GivenLast(LAMBDA c : c.start))
               /\ Collected(Last(comps).end, GivenLast(LAMBDA c : c.end))
    BY DEF LastValueCounts
  <2> QED
    BY <2>1, <2>2, <2>3 DEF BoundaryInv
<1> QED
  BY <1>1, <1>2, <1>3, PTL DEF BuilderSpec
-----------------------------------------------------------------------------
(***************************************************************************)
(* The invariant says who owns a block: an operation of the history its    *)
(* components, the array, the composition once it is an operation of its   *)
(* own, the caller's operation; and no block has two owners.  NoFault is   *)
(* not inductive alone: that an append finds the composition allocated     *)
(* needs that nothing freed since was a part of it.                        *)
(***************************************************************************)
BlocksTyped ==
  /\ heap \subseteq Blocks
  /\ history \in Seq(Blocks)
  /\ freed \in BOOLEAN
  /\ given = NoOp \/ \E block, inner \in Blocks : block # inner /\ given = OpAt(block, inner)

ArrayHolds ==
  history # <<>> => data \in Blocks /\ cap \in Nat /\ Len(history) <= cap

ComposedFollows ==
  /\ Len(history) = 1 => composed = FirstOf(data)
  /\ Len(history) > 1 => \E block, inner \in Blocks : composed = OpAt(block, inner)

Given == IF given = NoOp THEN {} ELSE BlocksOf(given)

Apart ==
  ~freed =>
    /\ Given \cap Parts = {}
    /\ history # <<>> => data \notin ToSet(history) /\ data \notin Own
    /\ Own \cap ToSet(history) = {}

Owned == BlocksTyped /\ ArrayHolds /\ ComposedFollows /\ Apart /\ NothingLeaked /\ NoFault

-----------------------------------------------------------------------------
LEMMA BlocksOfOp ==
  ASSUME NEW block, NEW inner
  PROVE  /\ BlocksOf(OpAt(block, inner)) = {block, inner}
         /\ OpAt(block, inner).block = block
         /\ OpAt(block, inner).comps = inner
BY DEF BlocksOf, OpAt

LEMMA BlocksOfFirst ==
  ASSUME NEW array
  PROVE  BlocksOf(FirstOf(array)) = {array}
BY DEF BlocksOf, FirstOf

LEMMA GivenIsAnOp ==
  ASSUME NEW block \in Blocks, NEW inner
  PROVE  OpAt(block, inner) # NoOp
BY BlocksAssumption DEF OpAt, NoOp

LEMMA ElementsAfterAppend ==
  ASSUME NEW T, NEW s \in Seq(T), NEW x \in T
  PROVE  /\ ToSet(Append(s, x)) = ToSet(s) \cup {x}
         /\ Append(s, x) \in Seq(T)
         /\ Len(Append(s, x)) = Len(s) + 1
         /\ Append(s, x) # <<>>
<1>1. /\ Append(s, x) \in Seq(T) /\ Len(s) \in Nat
      /\ Len(Append(s, x)) = Len(s) + 1
      /\ DOMAIN s = 1..Len(s) /\ DOMAIN Append(s, x) = 1..(Len(s) + 1)
      /\ \A i \in 1..Len(s) : Append(s, x)[i] = s[i]
      /\ Append(s, x)[Len(s) + 1] = x
  OBVIOUS
<1>2. 1..(Len(s) + 1) = (1..Len(s)) \cup {Len(s) + 1}
  BY <1>1
<1> QED
  BY <1>1, <1>2 DEF ToSet

LEMMA LengthOfHistory ==
  ASSUME NEW T, NEW s \in Seq(T)
  PROVE  /\ Len(s) \in Nat
         /\ s = <<>> <=> Len(s) = 0
         /\ s = <<>> => ToSet(s) = {}
         /\ s # <<>> => Len(s) \in Nat \ {0} /\ (Len(s) = 1 \/ Len(s) > 1)
<1>1. \A n \in Nat \ {0} : n = 1 \/ n > 1
  OBVIOUS
<1>2. Len(s) \in Nat /\ (s = <<>> <=> Len(s) = 0)
  OBVIOUS
<1> QED
  BY <1>1, <1>2 DEF ToSet

LEMMA InitOwned == Init => Owned
<1> SUFFICES ASSUME Init PROVE Owned
  OBVIOUS
<1>1. ToSet(<<>>) = {} /\ Len(<<>>) = 0
  BY DEF ToSet
<1>2. Parts = {} /\ Own = {} /\ Given = {}
  BY <1>1 DEF Init, Parts, Own, Given
<1>3. BlocksTyped
  <2>1. heap = {} /\ history = <<>> /\ freed = FALSE /\ given = NoOp
    BY DEF Init
  <2>2. history \in Seq(Blocks)
    BY <2>1
  <2> QED
    BY <2>1, <2>2 DEF BlocksTyped
<1>4. NoFault
  BY DEF Init, NoFault
<1>5. ArrayHolds /\ ComposedFollows /\ Apart /\ NothingLeaked
  BY <1>1, <1>2 DEF Init, ArrayHolds, ComposedFollows, Apart, NothingLeaked, Given
<1> QED
  BY <1>3, <1>4, <1>5 DEF Owned

-----------------------------------------------------------------------------
(***************************************************************************)
(* The caller.                                                             *)
(***************************************************************************)
LEMMA NewOpKeepsOwned == Owned /\ NewOp => Owned'
<1> SUFFICES ASSUME Owned, NewOp PROVE Owned'
  OBVIOUS
<1>1. PICK block \in Blocks \ heap, inner \in Blocks \ heap :
        /\ block # inner
        /\ given' = OpAt(block, inner)
        /\ heap' = heap \cup {block, inner}
  BY DEF NewOp
<1>2. given = NoOp /\ ~freed
      /\ UNCHANGED <<data, cap, history, composed, freed, fault>>
  BY DEF NewOp
<1>3. heap = Parts
  BY <1>2 DEF Owned, NothingLeaked
<1>4. Parts' = Parts /\ Own' = Own
  BY <1>2 DEF Parts, Own
<1>5. BlocksOf(given)' = {block, inner} /\ Given' = {block, inner} /\ given' # NoOp
  BY <1>1, BlocksOfOp, GivenIsAnOp DEF Given
<1>6. BlocksTyped'
  BY <1>1, <1>2 DEF Owned, BlocksTyped
<1>7. ArrayHolds' /\ ComposedFollows' /\ NoFault'
  BY <1>2 DEF Owned, ArrayHolds, ComposedFollows, NoFault
<1>8. Apart'
  BY <1>2, <1>3, <1>4, <1>5 DEF Owned, Apart
<1>9. NothingLeaked'
  BY <1>1, <1>2, <1>3, <1>4, <1>5 DEF NothingLeaked
<1> QED
  BY <1>6, <1>7, <1>8, <1>9 DEF Owned

LEMMA FreeOpKeepsOwned == Owned /\ FreeOp => Owned'
<1> SUFFICES ASSUME Owned, FreeOp PROVE Owned'
  OBVIOUS
<1>1. /\ given # NoOp /\ given' = NoOp
      /\ fault' = (fault \/ ~Allocated(given))
      /\ heap' = heap \ Given
      /\ UNCHANGED <<data, cap, history, composed, freed>>
  BY DEF FreeOp, Given
<1>2. heap = (IF freed THEN {} ELSE Parts) \cup Given
  BY <1>1 DEF Owned, NothingLeaked, Given
<1>3. Parts' = Parts /\ Own' = Own /\ Given' = {}
  BY <1>1 DEF Parts, Own, Given
<1>4. NoFault'
  BY <1>1, <1>2 DEF Owned, NoFault, Allocated, Given
<1>5. BlocksTyped' /\ ArrayHolds' /\ ComposedFollows'
  BY <1>1 DEF Owned, BlocksTyped, ArrayHolds, ComposedFollows
<1>6. Apart'
  BY <1>1, <1>3 DEF Owned, Apart
<1>7. NothingLeaked'
  <2>1. ~freed => Given \cap Parts = {}
    BY DEF Owned, Apart
  <2> QED
    BY <1>1, <1>2, <1>3, <2>1 DEF NothingLeaked
<1> QED
  BY <1>4, <1>5, <1>6, <1>7 DEF Owned

-----------------------------------------------------------------------------
(***************************************************************************)
(* ot_doc_append on a history that is not empty: what holds once the array *)
(* has got room, whether or not the operation is refused after that.       *)
(***************************************************************************)
LEMMA Grown ==
  ASSUME Owned, given # NoOp, ~freed, history # <<>>,
         NEW array \in Blocks, MayBeAt(array)
  PROVE  /\ ~Faults(array)
         /\ Capacity \in Nat /\ Len(history) + 1 <= Capacity
         /\ Resized(array) = ToSet(history) \cup {array} \cup Own \cup Given
         /\ array \notin ToSet(history) \cup Own \cup Given
         /\ Len(history) = 1 => Pointed(array) = FirstOf(array) /\ Own = {} /\ Dropped(array) = {}
         /\ Len(history) > 1 => Pointed(array) = composed /\ Own = BlocksOf(composed)
                                  /\ Dropped(array) = Own
<1>1. Len(history) \in Nat \ {0} /\ (Len(history) = 1 \/ Len(history) > 1)
  BY LengthOfHistory DEF Owned, BlocksTyped
<1>2. data \in Blocks /\ cap \in Nat /\ Len(history) <= cap
  BY DEF Owned, ArrayHolds
<1>3. Capacity \in Nat /\ Len(history) + 1 <= Capacity
  BY <1>1, <1>2 DEF Capacity
<1>4. /\ heap = ToSet(history) \cup {data} \cup Own \cup Given
      /\ data \notin ToSet(history) \cup Own \cup Given
  BY DEF Owned, NothingLeaked, Apart, Parts, Given
<1>5. array = data \/ array \notin heap
  BY DEF MayBeAt
<1>6. /\ Resized(array) = ToSet(history) \cup {array} \cup Own \cup Given
      /\ array \notin ToSet(history) \cup Own \cup Given
  BY <1>4, <1>5 DEF Resized
<1>7. Len(history) = 1 => Pointed(array) = FirstOf(array) /\ Own = {} /\ Dropped(array) = {}
  BY DEF Pointed, Own, Dropped
<1>8. Len(history) > 1 => Pointed(array) = composed /\ Own = BlocksOf(composed)
                            /\ Dropped(array) = Own
  BY <1>1 DEF Pointed, Own, Dropped
<1>9. BlocksOf(Pointed(array)) \subseteq Resized(array)
  BY <1>1, <1>6, <1>7, <1>8, BlocksOfFirst
<1>10. Allocated(given)
  BY <1>4 DEF Allocated, Given
<1>11. ~Faults(array)
  BY <1>1, <1>3, <1>9, <1>10 DEF Faults
<1> QED
  BY <1>3, <1>6, <1>7, <1>8, <1>11

LEMMA RefuseKeepsOwned == Owned /\ Refuse => Owned'
<1> SUFFICES ASSUME Owned, Refuse PROVE Owned'
  OBVIOUS
<1>1. /\ given # NoOp /\ ~freed /\ history # <<>>
      /\ cap' = Capacity
      /\ UNCHANGED <<history, given, freed>>
  BY DEF Refuse
<1>2. PICK array \in Blocks :
        /\ MayBeAt(array)
        /\ heap' = Resized(array)
        /\ data' = array
        /\ composed' = Pointed(array)
        /\ fault' = (fault \/ Faults(array))
  BY DEF Refuse
<1>3. /\ ~Faults(array)
      /\ Capacity \in Nat /\ Len(history) + 1 <= Capacity
      /\ Resized(array) = ToSet(history) \cup {array} \cup Own \cup Given
      /\ array \notin ToSet(history) \cup Own \cup Given
      /\ Len(history) = 1 => Pointed(array) = FirstOf(array) /\ Own = {}
      /\ Len(history) > 1 => Pointed(array) = composed /\ Own = BlocksOf(composed)
  BY <1>1, <1>2, Grown
<1>4. Len(history) \in Nat \ {0} /\ (Len(history) = 1 \/ Len(history) > 1)
  BY <1>1, LengthOfHistory DEF Owned, BlocksTyped
<1>5. Given' = Given /\ Own' = Own
  BY <1>1, <1>2, <1>3, <1>4 DEF Given, Own
<1>6. Parts' = ToSet(history) \cup {array} \cup Own
  BY <1>1, <1>2, <1>5 DEF Parts
<1>7. BlocksTyped' /\ NoFault'
  <2>1. heap' \subseteq Blocks
    <3>1. heap \subseteq Blocks
      BY DEF Owned, BlocksTyped
    <3> QED
      BY <1>1, <1>2, <3>1 DEF Resized
  <2> QED
    BY <1>1, <1>2, <1>3, <2>1 DEF Owned, BlocksTyped, NoFault
<1>8. ArrayHolds'
  BY <1>1, <1>2, <1>3, <1>4 DEF ArrayHolds
<1>9. ComposedFollows'
  BY <1>1, <1>2, <1>3 DEF Owned, ComposedFollows
<1>10. Apart'
  <2>1. Given \cap Parts = {} /\ Own \cap ToSet(history) = {}
        /\ ToSet(history) \cup Own \subseteq Parts
    BY <1>1 DEF Owned, Apart, Parts
  <2> QED
    BY <1>1, <1>2, <1>3, <1>5, <1>6, <2>1 DEF Apart
<1>11. NothingLeaked'
  BY <1>1, <1>2, <1>3, <1>5, <1>6 DEF NothingLeaked, Given
<1> QED
  BY <1>7, <1>8, <1>9, <1>10, <1>11 DEF Owned

LEMMA AppendNextKeepsOwned == Owned /\ AppendNext => Owned'
<1> SUFFICES ASSUME Owned, AppendNext PROVE Owned'
  OBVIOUS
<1>1. /\ given # NoOp /\ ~freed /\ history # <<>>
      /\ cap' = Capacity
      /\ history' = Append(history, given.comps)
      /\ given' = NoOp /\ freed' = freed
  BY DEF AppendNext
<1>2. PICK array \in Blocks, block \in Blocks \ heap, inner \in Blocks \ heap :
        /\ MayBeAt(array)
        /\ array # block /\ array # inner /\ block # inner
        /\ heap' = ((Resized(array) \cup {block, inner}) \ Dropped(array)) \ {given.block}
        /\ data' = array
        /\ composed' = OpAt(block, inner)
        /\ fault' = (fault \/ Faults(array))
  BY DEF AppendNext
<1>3. /\ ~Faults(array)
      /\ Capacity \in Nat /\ Len(history) + 1 <= Capacity
      /\ Resized(array) = ToSet(history) \cup {array} \cup Own \cup Given
      /\ array \notin ToSet(history) \cup Own \cup Given
      /\ Len(history) = 1 => Own = {} /\ Dropped(array) = {}
      /\ Len(history) > 1 => Dropped(array) = Own
  BY <1>1, <1>2, Grown
<1>4. Len(history) \in Nat \ {0} /\ (Len(history) = 1 \/ Len(history) > 1)
  BY <1>1, LengthOfHistory DEF Owned, BlocksTyped
<1>5. Dropped(array) = Own
  BY <1>3, <1>4
<1>6. PICK b \in Blocks, c \in Blocks :
        b # c /\ given.block = b /\ given.comps = c /\ Given = {b, c}
  BY <1>1, BlocksOfOp DEF Owned, BlocksTyped, Given
<1>7. /\ history' \in Seq(Blocks) /\ Len(history') = Len(history) + 1 /\ history' # <<>>
      /\ ToSet(history') = ToSet(history) \cup {c}
  BY <1>1, <1>6, ElementsAfterAppend DEF Owned, BlocksTyped
<1>8. Own' = {block, inner} /\ Given' = {}
  BY <1>1, <1>2, <1>4, <1>7, BlocksOfOp DEF Own, Given
<1>9. Parts' = ToSet(history) \cup {c} \cup {array} \cup {block, inner}
  BY <1>2, <1>7, <1>8 DEF Parts
<1>10. /\ Given \cap ToSet(history) = {} /\ Given \cap Own = {}
       /\ Own \cap ToSet(history) = {}
       /\ heap = ToSet(history) \cup {data} \cup Own \cup Given
  BY <1>1 DEF Owned, Apart, Parts, NothingLeaked, Given
<1>11. heap' = Parts'
  BY <1>2, <1>3, <1>5, <1>6, <1>9, <1>10
<1>12. BlocksTyped' /\ NoFault'
  <2>1. heap' \subseteq Blocks
    <3>1. heap \subseteq Blocks
      BY DEF Owned, BlocksTyped
    <3> QED
      BY <1>2, <3>1 DEF Resized
  <2> QED
    BY <1>1, <1>2, <1>3, <1>7, <2>1 DEF Owned, BlocksTyped, NoFault
<1>13. ArrayHolds' /\ ComposedFollows'
  BY <1>1, <1>2, <1>3, <1>4, <1>7 DEF ArrayHolds, ComposedFollows
<1>14. Apart'
  BY <1>2, <1>3, <1>6, <1>7, <1>8, <1>10 DEF Apart
<1>15. NothingLeaked'
  BY <1>1, <1>11 DEF NothingLeaked
<1> QED
  BY <1>12, <1>13, <1>14, <1>15 DEF Owned

LEMMA AppendFirstKeepsOwned == Owned /\ AppendFirst => Owned'
<1> SUFFICES ASSUME Owned, AppendFirst PROVE Owned'
  OBVIOUS
<1>1. /\ given # NoOp /\ ~freed /\ history = <<>>
      /\ cap' = Capacity
      /\ history' = <<given.comps>>
      /\ given' = NoOp /\ freed' = freed
  BY DEF AppendFirst
<1>2. PICK array \in Blocks :
        /\ MayBeAt(array)
        /\ heap' = Resized(array) \ {given.block}
        /\ data' = array
        /\ composed' = Pointed(array)
        /\ fault' = (fault \/ Faults(array))
  BY DEF AppendFirst
<1>3. PICK b \in Blocks, c \in Blocks :
        b # c /\ given.block = b /\ given.comps = c /\ Given = {b, c}
  BY <1>1, BlocksOfOp DEF Owned, BlocksTyped, Given
<1>4. Len(history) = 0 /\ ToSet(history) = {} /\ Own = {} /\ Parts = {}
  <2>1. Len(history) = 0 /\ ToSet(history) = {}
    BY <1>1, LengthOfHistory DEF Owned, BlocksTyped
  <2>2. Own = {}
    BY <2>1 DEF Own
  <2> QED
    BY <1>1, <2>1, <2>2 DEF Parts
<1>5. heap = {b, c} /\ array \notin heap
  BY <1>1, <1>2, <1>3, <1>4 DEF Owned, NothingLeaked, Given, MayBeAt
<1>6. heap' = {array, c}
  BY <1>1, <1>2, <1>3, <1>5 DEF Resized
<1>7. Capacity = 1 /\ Pointed(array) = FirstOf(array)
  BY <1>1, <1>4 DEF Capacity, Pointed
<1>8. /\ history' \in Seq(Blocks) /\ Len(history') = 1 /\ history' # <<>>
      /\ ToSet(history') = {c}
  BY <1>1, <1>3 DEF ToSet
<1>9. Own' = {} /\ Given' = {} /\ Parts' = {c, array}
  BY <1>1, <1>2, <1>8 DEF Own, Given, Parts
<1>10. Allocated(given)
  BY <1>1, <1>3, <1>5 DEF Allocated, Given
<1>11. ~Faults(array)
  BY <1>1, <1>4, <1>7, <1>10 DEF Faults
<1>12. BlocksTyped' /\ NoFault'
  BY <1>1, <1>2, <1>3, <1>6, <1>8, <1>11 DEF Owned, BlocksTyped, NoFault
<1>13. ArrayHolds' /\ ComposedFollows'
  BY <1>1, <1>2, <1>7, <1>8 DEF ArrayHolds, ComposedFollows
<1>14. Apart'
  BY <1>2, <1>3, <1>5, <1>8, <1>9 DEF Apart
<1>15. NothingLeaked'
  BY <1>1, <1>6, <1>9 DEF NothingLeaked
<1> QED
  BY <1>12, <1>13, <1>14, <1>15 DEF Owned

LEMMA FreeDocKeepsOwned == Owned /\ ot_free_doc => Owned'
<1> SUFFICES ASSUME Owned, ot_free_doc PROVE Owned'
  OBVIOUS
<1>1. /\ ~freed /\ freed' = TRUE
      /\ fault' = (fault \/ ~(Parts \subseteq heap))
      /\ heap' = heap \ Parts
      /\ UNCHANGED <<data, cap, history, composed, given>>
  BY DEF ot_free_doc
<1>2. heap = Parts \cup Given /\ Given \cap Parts = {}
  BY <1>1 DEF Owned, NothingLeaked, Apart, Given
<1>3. Given' = Given
  BY <1>1 DEF Given
<1>4. heap' = Given
  BY <1>1, <1>2
<1>5. BlocksTyped' /\ ArrayHolds' /\ ComposedFollows' /\ NoFault'
  BY <1>1, <1>2 DEF Owned, BlocksTyped, ArrayHolds, ComposedFollows, NoFault
<1>6. Apart' /\ NothingLeaked'
  BY <1>1, <1>3, <1>4 DEF Apart, NothingLeaked, Given
<1> QED
  BY <1>5, <1>6 DEF Owned

-----------------------------------------------------------------------------
LEMMA NextKeepsOwned == Owned /\ [Next]_vars => Owned'
<1> SUFFICES ASSUME Owned, [Next]_vars PROVE Owned'
  OBVIOUS
<1>1. CASE UNCHANGED vars
  BY <1>1 DEF vars, Owned, BlocksTyped, ArrayHolds, ComposedFollows, Apart, NothingLeaked,
              NoFault, Parts, Own, Given
<1> QED
  BY <1>1, NewOpKeepsOwned, FreeOpKeepsOwned, RefuseKeepsOwned, AppendFirstKeepsOwned,
     AppendNextKeepsOwned, FreeDocKeepsOwned DEF Next

THEOREM OwnedInvariant == Spec => []Owned
BY InitOwned, NextKeepsOwned, PTL DEF Spec

\* ot_doc_append and ot_free_doc never touch what is not allocated: the
\* composition is pointed to the first operation again until it is one of its
\* own, so it never lies in an array realloc has moved away (doc.c).
THEOREM NoFaultHolds == Spec => []NoFault
BY OwnedInvariant, PTL DEF Owned

\* Nothing is leaked: a composition is freed when the next one takes its place,
\* the struct of an appended operation when it was moved (doc.c).
THEOREM NothingLeakedHolds == Spec => []NothingLeaked
BY OwnedInvariant, PTL DEF Owned
=============================================================================
