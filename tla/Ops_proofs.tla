------------------------------ MODULE Ops_proofs ------------------------------
(***************************************************************************)
(* Lemmas about the algorithms and about documents, for operations and     *)
(* texts of any length, in three parts:                                    *)
(*                                                                         *)
(*  - Operations: how long the text is that an operation spans and makes,  *)
(*    what a component more does to it, that the builders' merging changes *)
(*    nothing, and what lies in front of an iterator that has moved.       *)
(*  - Turns: what one turn of ot_xform or ot_compose does, whatever has    *)
(*    been made so far stands to what has been consumed so far as the      *)
(*    result of a call stands to its operations; hence what calls return.  *)
(*  - Documents: what does not depend on who keeps one, what               *)
(*    ot_doc_compose_after and ot_decode_doc do operation by operation,    *)
(*    and what ot_size measures.                                           *)
(***************************************************************************)
EXTENDS Xform, Doc, SequenceTheorems, FiniteSetTheorems, TLAPS

-----------------------------------------------------------------------------
(***************************************************************************)
(* Part 1: operations.                                                     *)
(***************************************************************************)

-----------------------------------------------------------------------------
(***************************************************************************)
(* Induction.  A property of naturals or of sequences is a set of them     *)
(* here; that every set of naturals has a least element follows from the   *)
(* well-foundedness of strict inclusion on finite sets, of the intervals   *)
(* 1..n.                                                                   *)
(***************************************************************************)
LEMMA LeastOf ==
  ASSUME NEW T, T \subseteq Nat, T # {}
  PROVE  \E x \in T : \A y \in T : x <= y
<1> DEFINE R == StrictSubsetOrdering(Nat)
           Below == {1..n : n \in T}
<1>1. IsWellFoundedOn(R, FiniteSubsetsOf(Nat))
  BY FS_StrictSubsetOrderingWellFounded
<1>2. \A n \in T : 1..n \in FiniteSubsetsOf(Nat)
  <2>1. \A n \in T : IsFiniteSet(1..n)
    BY FS_Interval
  <2> QED
    BY <2>1 DEF FiniteSubsetsOf
<1>3. Below \subseteq FiniteSubsetsOf(Nat) /\ Below # {}
  BY <1>2
<1>4. PICK B \in Below : \A C \in Below : ~(<<C, B>> \in R)
  <2> HIDE DEF Below, R
  <2> QED
    BY <1>1, <1>3, WFMin
<1>5. PICK x \in T : B = 1..x
  OBVIOUS
<1>6. ASSUME NEW y \in T, y < x
      PROVE  FALSE
  <2>1. 1..y \in Below
    OBVIOUS
  <2>2. 1..y \subseteq 1..x /\ 1..y # 1..x /\ 1..y \subseteq Nat /\ 1..x \subseteq Nat
    <3>1. x \in 1..x /\ x \notin 1..y
      BY <1>6
    <3> QED
      BY <1>6, <3>1
  <2>3. <<1..y, 1..x>> \in R
    BY <2>2 DEF StrictSubsetOrdering
  <2> QED
    BY <1>4, <1>5, <2>1, <2>3
<1> QED
  BY <1>6

LEMMA SetInduction ==
  ASSUME NEW T, 0 \in T, \A n \in Nat : n \in T => n + 1 \in T
  PROVE  Nat \subseteq T
<1> DEFINE C == Nat \ T
<1>1. SUFFICES ASSUME C # {} PROVE FALSE
  OBVIOUS
<1>2. PICK x \in C : \A y \in C : x <= y
  <2> C \subseteq Nat
    OBVIOUS
  <2> HIDE DEF C
  <2> QED
  BY <1>1, LeastOf
<1>3. x # 0 /\ x - 1 \in Nat /\ x - 1 \notin C
  BY <1>2
<1> QED
  BY <1>2, <1>3

\* A set of sequences that has the empty one and every longer one.
LEMMA SequenceInduction ==
  ASSUME NEW C, NEW T, <<>> \in T,
         \A s \in Seq(C), e \in C : s \in T => Append(s, e) \in T
  PROVE  Seq(C) \subseteq T
<1> DEFINE N == {n \in Nat : \A s \in Seq(C) : Len(s) = n => s \in T}
<1>1. 0 \in N
  <2>1. \A s \in Seq(C) : Len(s) = 0 => s = <<>>
    OBVIOUS
  <2> QED
    BY <2>1
<1>2. ASSUME NEW n \in Nat, n \in N PROVE n + 1 \in N
  <2>1. ASSUME NEW s \in Seq(C), Len(s) = n + 1 PROVE s \in T
    <3>1. s # <<>>
      BY <2>1
    <3>2. PICK t \in Seq(C), e \in C : s = Append(t, e)
      BY <3>1, SequenceEmptyOrAppend
    <3>3. Len(t) = n
      BY <2>1, <3>2
    <3>4. t \in T
      BY <1>2, <3>3
    <3> QED
      BY <3>2, <3>4
  <2> QED
    BY <2>1
<1>3. Nat \subseteq N
  <2> HIDE DEF N
  <2> QED
    BY <1>1, <1>2, SetInduction
<1>4. ASSUME NEW s \in Seq(C) PROVE s \in T
  <2>1. Len(s) \in N
    <3> HIDE DEF N
    <3> QED
      BY <1>3
  <2> QED
    BY <2>1
<1> QED
  BY <1>4

-----------------------------------------------------------------------------
(***************************************************************************)
(* Folds.  FoldLeft is a recursive function on sets of positions that      *)
(* takes away the greatest; on the sets 1..i it is a function f of the     *)
(* prefixes, and that such a function exists is an induction.              *)
(***************************************************************************)
LEMMA MaxOf ==
  ASSUME NEW N \in Nat, NEW s \in SUBSET (1..N), s # {}
  PROVE  Max(s) \in s /\ \A y \in s : Max(s) >= y
<1> DEFINE T == {N - y : y \in s}
<1>1. T \subseteq Nat /\ T # {}
  <2>1. \A y \in s : N - y \in Nat
    OBVIOUS
  <2>2. PICK y \in s : TRUE
    OBVIOUS
  <2>3. N - y \in T
    OBVIOUS
  <2> QED
    BY <2>1, <2>3
<1>2. PICK x \in T : \A y \in T : x <= y
  <2> HIDE DEF T
  <2> QED
    BY <1>1, LeastOf
<1>3. N - x \in s /\ \A y \in s : N - x >= y
  <2>1. PICK z \in s : x = N - z
    BY <1>2
  <2>2. z \in Int /\ N - x = z
    BY <2>1
  <2>3. ASSUME NEW y \in s PROVE N - x >= y
    <3>1. N - y \in T /\ y \in Int
      OBVIOUS
    <3>2. x <= N - y
      BY <1>2, <3>1
    <3> QED
      BY <2>1, <2>2, <3>1, <3>2
  <2> QED
    BY <2>2, <2>3
<1> QED
  BY <1>3 DEF Max

LEMMA MaxOfRange ==
  ASSUME NEW N \in Nat, N # 0
  PROVE  Max(1..N) = N /\ (1..N) \ {N} = 1..(N - 1)
<1>1. 1..N # {} /\ 1..N \in SUBSET (1..N) /\ N \in 1..N
  OBVIOUS
<1>2. Max(1..N) \in 1..N /\ \A y \in 1..N : Max(1..N) >= y
  BY <1>1, MaxOf
<1> QED
  BY <1>1, <1>2

LEMMA MaxOfPrefix ==
  ASSUME NEW N \in Nat, NEW i \in 1..N
  PROVE  /\ Max(1..i) = i /\ (1..i) \ {i} = 1..(i - 1)
         /\ 1..i # {} /\ 1..i \in SUBSET (1..N)
<1>1. i \in Nat /\ i # 0
  OBVIOUS
<1>2. i \in 1..i /\ \A j \in 1..i : j \in 1..N
  BY <1>1
<1> QED
  BY <1>1, <1>2, MaxOfRange

IsFold(g, N, base, step) ==
  \A s \in SUBSET (1..N) :
    g[s] = IF s = {} THEN base ELSE step[Max(s)][g[s \ {Max(s)}]]

LEMMA FoldExists ==
  ASSUME NEW N \in Nat, NEW X, NEW base \in X, NEW step \in [1..N -> [X -> X]]
  PROVE  \E g \in [SUBSET (1..N) -> X] : IsFold(g, N, base, step)
<1> DEFINE Folded(m) == \E g \in [SUBSET (1..m) -> X] : IsFold(g, m, base, step)
           T == {m \in Nat : m <= N => Folded(m)}
<1> HIDE DEF Folded
<1>1. 0 \in T
  <2> DEFINE g == [s \in SUBSET (1..0) |-> base]
  <2>1. g \in [SUBSET (1..0) -> X] /\ IsFold(g, 0, base, step)
    BY DEF IsFold
  <2>2. Folded(0)
    BY <2>1 DEF Folded
  <2> QED
    BY <2>2
<1>2. ASSUME NEW m \in Nat, m \in T
      PROVE  m + 1 \in T
  <2> SUFFICES ASSUME m + 1 <= N PROVE Folded(m + 1)
    OBVIOUS
  <2>0. Folded(m)
    BY <1>2
  <2>1. PICK g \in [SUBSET (1..m) -> X] : IsFold(g, m, base, step)
    BY <2>0 DEF Folded
  <2> DEFINE h == [s \in SUBSET (1..(m + 1)) |->
                     IF m + 1 \in s THEN step[m + 1][g[s \ {m + 1}]] ELSE g[s]]
  <2>2. \A s \in SUBSET (1..(m + 1)) : s \ {m + 1} \in SUBSET (1..m)
    OBVIOUS
  <2>3. ASSUME NEW s \in SUBSET (1..(m + 1)) PROVE h[s] \in X
    <3>1. CASE m + 1 \in s
      <4>1. g[s \ {m + 1}] \in X /\ m + 1 \in 1..N
        BY <2>2
      <4> QED
        BY <3>1, <4>1
    <3>2. CASE m + 1 \notin s
      BY <2>2, <3>2
    <3> QED
      BY <3>1, <3>2
  <2>4. h \in [SUBSET (1..(m + 1)) -> X]
    BY <2>3
  <2>5. ASSUME NEW s \in SUBSET (1..(m + 1))
        PROVE  h[s] = IF s = {} THEN base ELSE step[Max(s)][h[s \ {Max(s)}]]
    <3>1. CASE m + 1 \in s
      <4>1. m + 1 \in Nat /\ s # {}
        BY <3>1
      <4>2. Max(s) \in s /\ \A y \in s : Max(s) >= y
        <5> HIDE DEF h
        <5> QED
          BY <4>1, MaxOf
      <4>3. Max(s) = m + 1
        <5>1. Max(s) \in 1..(m + 1) /\ Max(s) >= m + 1
          BY <3>1, <4>2
        <5> QED
          BY <5>1
      <4>4. h[s \ {m + 1}] = g[s \ {m + 1}]
        BY <2>2
      <4> QED
        BY <3>1, <4>1, <4>3, <4>4
    <3>2. CASE m + 1 \notin s
      <4>1. s \in SUBSET (1..m) /\ s \ {Max(s)} \in SUBSET (1..m)
        <5>1. \A y \in s : y \in 1..m
          BY <3>2
        <5> QED
          BY <5>1
      <4>2. h[s] = g[s] /\ h[s \ {Max(s)}] = g[s \ {Max(s)}]
        BY <3>2, <4>1
      <4> HIDE DEF h
      <4> QED
        BY <2>1, <4>1, <4>2 DEF IsFold
    <3> QED
      BY <3>1, <3>2
  <2> HIDE DEF h
  <2>6. IsFold(h, m + 1, base, step)
    BY <2>5 DEF IsFold
  <2> QED
    BY <2>4, <2>6 DEF Folded
<1>3. Nat \subseteq T
  <2> HIDE DEF T
  <2> QED
    BY <1>1, <1>2, SetInduction
<1>4. Folded(N)
  BY <1>3
<1> QED
  BY <1>4 DEF Folded

IsFoldLeft(f, N, base, step) ==
  /\ f[0] = base
  /\ \A i \in 1..N : f[i] = step[i][f[i - 1]]

Steps(iter, N, X, step) ==
  \A i \in 1..N : iter[1..(i - 1)] \in X => iter[1..i] = step[i][iter[1..(i - 1)]]

\* A function on X for each turn; a fold over N turns that comes to last.
StepsIn(step, N, X) == step \in [1..N -> [X -> X]]
FoldsTo(N, X, base, step, last) ==
  \E f \in [0..N -> X] : IsFoldLeft(f, N, base, step) /\ f[N] = last

LEMMA FoldResult ==
  ASSUME NEW N \in Nat, NEW X, NEW base \in X, NEW step, StepsIn(step, N, X),
         NEW iter, iter[{}] = base, Steps(iter, N, X, step)
  PROVE  FoldsTo(N, X, base, step, iter[1..N])
<1> DEFINE T == {i \in Nat : i <= N => iter[1..i] \in X}
           f == [i \in 0..N |-> iter[1..i]]
<1>0. 1..0 = {}
  OBVIOUS
<1>1. 0 \in T
  BY <1>0
<1>2. ASSUME NEW i \in Nat, i \in T PROVE i + 1 \in T
  <2> SUFFICES ASSUME i + 1 <= N PROVE iter[1..(i + 1)] \in X
    OBVIOUS
  <2>1. i + 1 \in 1..N /\ (i + 1) - 1 = i /\ iter[1..i] \in X
    BY <1>2
  <2>2. iter[1..(i + 1)] = step[i + 1][iter[1..i]]
    BY <2>1 DEF Steps
  <2>3. step[i + 1][iter[1..i]] \in X
    BY <2>1 DEF StepsIn
  <2> QED
    BY <2>2, <2>3
<1>3. Nat \subseteq T
  <2> HIDE DEF T
  <2> QED
    BY <1>1, <1>2, SetInduction
<1>4. \A i \in 0..N : iter[1..i] \in X
  BY <1>3
<1>5. f \in [0..N -> X] /\ f[0] = base /\ f[N] = iter[1..N]
  BY <1>0, <1>4
<1>6. \A i \in 1..N : f[i] = step[i][f[i - 1]]
  BY <1>4 DEF Steps
<1> HIDE DEF f
<1> QED
  BY <1>5, <1>6 DEF IsFoldLeft, FoldsTo

\* Two functions that take the same steps end at the same value.
InStep(f1, f2, N) == \A i \in 1..N : f1[i - 1] = f2[i - 1] => f1[i] = f2[i]

LEMMA SameSteps ==
  ASSUME NEW N \in Nat, NEW f1, NEW f2, f1[0] = f2[0], InStep(f1, f2, N)
  PROVE  f1[N] = f2[N]
<1> DEFINE T == {i \in Nat : i <= N => f1[i] = f2[i]}
<1>1. 0 \in T
  OBVIOUS
<1>2. ASSUME NEW i \in Nat, i \in T PROVE i + 1 \in T
  <2> SUFFICES ASSUME i + 1 <= N PROVE f1[i + 1] = f2[i + 1]
    OBVIOUS
  <2>1. i + 1 \in 1..N /\ (i + 1) - 1 = i /\ f1[i] = f2[i]
    BY <1>2
  <2> QED
    BY <2>1 DEF InStep
<1>3. Nat \subseteq T
  <2> HIDE DEF T
  <2> QED
    BY <1>1, <1>2, SetInduction
<1> QED
  BY <1>3

-----------------------------------------------------------------------------
(***************************************************************************)
(* Operations over the values of a set X: characters, and what is said of  *)
(* elements.                                                               *)
(***************************************************************************)
ComponentsOver(X) ==
  [type : {"skip", "delete"}, count : Nat]
    \cup [type : {"insert"}, text : Seq(X)]
    \cup [type : {"openElement"}, elem : X]
    \cup {CloseComp}
    \cup [type : {"formattingBoundary"}, start : X, end : X]

OperationsOver(X) == Seq(ComponentsOver(X))

LEMMA SizeOf ==
  ASSUME NEW X, NEW c \in ComponentsOver(X), c.type \notin Stubs
  PROVE  ot_comp_size(c) \in Nat
<1>1. CASE c \in [type : {"skip", "delete"}, count : Nat]
  BY <1>1 DEF ot_comp_size
<1>2. CASE c \in [type : {"insert"}, text : Seq(X)]
  BY <1>2 DEF ot_comp_size
<1> QED
  BY <1>1, <1>2 DEF ComponentsOver, Stubs, CloseComp

Weight(c, types) == IF c.type \in types THEN ot_comp_size(c) ELSE 0

LEMMA SizeFold ==
  ASSUME NEW X, NEW comps \in OperationsOver(X), NEW types, types \cap Stubs = {}
  PROVE  \E f \in [0..Len(comps) -> Nat] :
           /\ f[0] = 0
           /\ \A i \in 1..Len(comps) : f[i] = f[i - 1] + Weight(comps[i], types)
           /\ SizeIf(comps, types) = f[Len(comps)]
<1> DEFINE N == Len(comps)
           w == [i \in 1..N |-> Weight(comps[i], types)]
           step == [i \in 1..N |-> [n \in Nat |-> n + w[i]]]
           Is(h) == h = [s \in SUBSET (1..N) |->
                           IF s = {} THEN 0 ELSE h[s \ {Max(s)}] + Weight(comps[Max(s)], types)]
           iter == CHOOSE h : Is(h)
<1>1. N \in Nat /\ DOMAIN comps = 1..N
  BY DEF OperationsOver
<1>2. w \in [1..N -> Nat]
  <2>1. ASSUME NEW i \in 1..N PROVE Weight(comps[i], types) \in Nat
    <3>1. comps[i] \in ComponentsOver(X)
      BY DEF OperationsOver
    <3> QED
      BY <3>1, SizeOf DEF Weight
  <2> QED
    BY <2>1
<1> HIDE DEF N, w
<1>3. step \in [1..N -> [Nat -> Nat]]
  BY <1>2
<1>4. PICK g \in [SUBSET (1..N) -> Nat] : IsFold(g, N, 0, step)
  <2> HIDE DEF step
  <2> QED
    BY <1>1, <1>3, FoldExists
<1>5. SizeIf(comps, types) = iter[1..N]
  BY <1>1 DEF SizeIf, SumOf, FoldLeft, MapThenFoldSet, Weight
<1>6. Is(iter)
  <2>1. ASSUME NEW s \in SUBSET (1..N), s # {}
        PROVE  g[s] = g[s \ {Max(s)}] + Weight(comps[Max(s)], types)
    <3>1. Max(s) \in 1..N
      BY <1>1, <2>1, MaxOf
    <3>2. g[s] = step[Max(s)][g[s \ {Max(s)}]] /\ g[s \ {Max(s)}] \in Nat
      BY <1>4, <2>1 DEF IsFold
    <3> QED
      BY <3>1, <3>2 DEF w
  <2>2. Is(g)
    BY <1>4, <2>1 DEF IsFold
  <2> HIDE DEF Is
  <2> QED
    BY <2>2
<1>7. /\ iter[{}] = 0
      /\ \A s \in SUBSET (1..N) : s # {} =>
           iter[s] = iter[s \ {Max(s)}] + Weight(comps[Max(s)], types)
  BY <1>6
<1> HIDE DEF iter, Is
<1>8. Steps(iter, N, Nat, step)
  <2> SUFFICES ASSUME NEW i \in 1..N, iter[1..(i - 1)] \in Nat
               PROVE  iter[1..i] = step[i][iter[1..(i - 1)]]
    BY DEF Steps
  <2>1. Max(1..i) = i /\ (1..i) \ {i} = 1..(i - 1) /\ 1..i # {} /\ 1..i \in SUBSET (1..N)
    BY <1>1, MaxOfPrefix
  <2>2. iter[1..i] = iter[1..(i - 1)] + Weight(comps[i], types)
    BY <1>7, <2>1
  <2> QED
    BY <2>2 DEF w
<1>9. PICK f \in [0..N -> Nat] : IsFoldLeft(f, N, 0, step) /\ f[N] = iter[1..N]
  <2> DEFINE Y == Nat
  <2>1. 0 \in Y /\ StepsIn(step, N, Y) /\ Steps(iter, N, Y, step)
    BY <1>3, <1>8 DEF StepsIn
  <2>2. N \in Nat /\ iter[{}] = 0
    BY <1>1, <1>7
  <2> HIDE DEF step, Y
  <2>3. FoldsTo(N, Y, 0, step, iter[1..N])
    BY <2>1, <2>2, FoldResult
  <2> QED
    BY <2>3 DEF FoldsTo, Y
<1>10. ASSUME NEW i \in 1..N PROVE f[i] = f[i - 1] + Weight(comps[i], types)
  <2>1. f[i] = step[i][f[i - 1]] /\ f[i - 1] \in Nat
    BY <1>1, <1>9 DEF IsFoldLeft
  <2> QED
    BY <2>1 DEF w
<1> QED
  BY <1>5, <1>9, <1>10 DEF IsFoldLeft, N

Readings(X) == [out : Seq(X), at : Nat]

LEMMA ComponentCases ==
  ASSUME NEW X, NEW c \in ComponentsOver(X)
  PROVE  \/ c.type \in {"skip", "delete"} /\ c \in [type : {"skip", "delete"}, count : Nat]
         \/ c.type = "insert" /\ c \in [type : {"insert"}, text : Seq(X)]
         \/ c.type \in Stubs
<1>1. CASE c \in [type : {"skip", "delete"}, count : Nat]
  BY <1>1
<1>2. CASE c \in [type : {"insert"}, text : Seq(X)]
  BY <1>2
<1>3. CASE c \in [type : {"openElement"}, elem : X]
  BY <1>3 DEF Stubs
<1>4. CASE c = CloseComp
  BY <1>4 DEF CloseComp, Stubs
<1>5. CASE c \in [type : {"formattingBoundary"}, start : X, end : X]
  BY <1>5 DEF Stubs
<1> QED
  BY <1>1, <1>2, <1>3, <1>4, <1>5 DEF ComponentsOver

\* The piece of a text between two places.
LEMMA Between ==
  ASSUME NEW X, NEW text \in Seq(X), NEW m \in Nat, NEW n \in Nat, n <= Len(text)
  PROVE  /\ SubSeq(text, m + 1, n) \in Seq(X)
         /\ Len(SubSeq(text, m + 1, n)) = IF m <= n THEN n - m ELSE 0
         /\ \A i \in 1..(n - m) : SubSeq(text, m + 1, n)[i] = text[m + i]
<1>1. \A i \in (m + 1)..n : text[i] \in X
  OBVIOUS
<1>2. m + 1 \in Int /\ n \in Int
  OBVIOUS
<1>3. /\ SubSeq(text, m + 1, n) \in Seq(X)
      /\ Len(SubSeq(text, m + 1, n)) = IF m + 1 <= n THEN n - (m + 1) + 1 ELSE 0
      /\ \A i \in 1..(n - (m + 1) + 1) : SubSeq(text, m + 1, n)[i] = text[m + 1 + i - 1]
  BY <1>1, <1>2, SubSeqProperties
<1> QED
  BY <1>3

LEMMA TakenSkip ==
  ASSUME NEW c, c.type = "skip", NEW text, NEW s
  PROVE  Taken(s, c, text) =
           [out |-> s.out \o SubSeq(text, s.at + 1, Least(s.at + c.count, Len(text))),
            at |-> s.at + c.count]
BY DEF Taken, Stubs

LEMMA TakenInsert ==
  ASSUME NEW c, c.type = "insert", NEW text, NEW s, s = [out |-> s.out, at |-> s.at]
  PROVE  Taken(s, c, text) = [out |-> s.out \o c.text, at |-> s.at]
<1>1. Taken(s, c, text) = [s EXCEPT !.out = @ \o c.text]
  BY DEF Taken, Stubs
<1> QED
  BY <1>1

LEMMA TakenDelete ==
  ASSUME NEW c, c.type = "delete", NEW text, NEW s, s = [out |-> s.out, at |-> s.at]
  PROVE  Taken(s, c, text) = [out |-> s.out, at |-> s.at + c.count]
<1>1. Taken(s, c, text) = [s EXCEPT !.at = @ + c.count]
  BY DEF Taken, Stubs
<1> QED
  BY <1>1

LEMMA TakenStub ==
  ASSUME NEW c, c.type \in Stubs, NEW text, NEW s
  PROVE  Taken(s, c, text) = s
BY DEF Taken, Stubs

LEMMA TakenIsReading ==
  ASSUME NEW X, NEW c \in ComponentsOver(X), NEW text \in Seq(X), NEW s \in Readings(X)
  PROVE  Taken(s, c, text) \in Readings(X)
<1>1. s.out \in Seq(X) /\ s.at \in Nat /\ s = [out |-> s.out, at |-> s.at]
  BY DEF Readings
<1>2. CASE c.type = "skip" /\ c \in [type : {"skip", "delete"}, count : Nat]
  <2>1. Taken(s, c, text) =
          [out |-> s.out \o SubSeq(text, s.at + 1, Least(s.at + c.count, Len(text))),
           at |-> s.at + c.count]
    BY <1>2, TakenSkip
  <2>2. c.count \in Nat /\ Len(text) \in Nat
    BY <1>2
  <2>3. Least(s.at + c.count, Len(text)) \in Nat /\ Least(s.at + c.count, Len(text)) <= Len(text)
    BY <1>1, <2>2 DEF Least
  <2>4. SubSeq(text, s.at + 1, Least(s.at + c.count, Len(text))) \in Seq(X)
    BY <1>1, <2>3, Between
  <2>5. s.out \o SubSeq(text, s.at + 1, Least(s.at + c.count, Len(text))) \in Seq(X)
    BY <1>1, <2>4
  <2> QED
    BY <1>1, <2>1, <2>2, <2>5 DEF Readings
<1>3. CASE c.type = "delete" /\ c \in [type : {"skip", "delete"}, count : Nat]
  <2>1. Taken(s, c, text) = [out |-> s.out, at |-> s.at + c.count]
    BY <1>1, <1>3, TakenDelete
  <2> QED
    BY <1>1, <1>3, <2>1 DEF Readings
<1>4. CASE c.type = "insert" /\ c \in [type : {"insert"}, text : Seq(X)]
  <2>1. Taken(s, c, text) = [out |-> s.out \o c.text, at |-> s.at]
    BY <1>1, <1>4, TakenInsert
  <2>2. s.out \o c.text \in Seq(X)
    BY <1>1, <1>4
  <2> QED
    BY <1>1, <2>1, <2>2 DEF Readings
<1>5. CASE c.type \in Stubs
  BY <1>5, TakenStub
<1> QED
  BY <1>2, <1>3, <1>4, <1>5, ComponentCases

LEMMA ReadingFold ==
  ASSUME NEW X, NEW comps \in OperationsOver(X), NEW text \in Seq(X)
  PROVE  \E f \in [0..Len(comps) -> Readings(X)] :
           /\ f[0] = [out |-> <<>>, at |-> 0]
           /\ \A i \in 1..Len(comps) : f[i] = Taken(f[i - 1], comps[i], text)
           /\ Reading(comps, text) = f[Len(comps)]
<1> DEFINE N == Len(comps)
           Y == Readings(X)
           base == [out |-> <<>>, at |-> 0]
           step == [i \in 1..N |-> [s \in Y |-> Taken(s, comps[i], text)]]
           Is(h) == h = [s \in SUBSET (1..N) |->
                           IF s = {} THEN base ELSE Taken(h[s \ {Max(s)}], comps[Max(s)], text)]
           iter == CHOOSE h : Is(h)
<1>1. N \in Nat /\ DOMAIN comps = 1..N /\ \A i \in 1..N : comps[i] \in ComponentsOver(X)
  BY DEF OperationsOver
<1>2. base \in Y
  BY DEF Readings
<1>3. step \in [1..N -> [Y -> Y]]
  <2>1. \A i \in 1..N, s \in Y : Taken(s, comps[i], text) \in Y
    BY <1>1, TakenIsReading
  <2> HIDE DEF Y, N
  <2> QED
    BY <2>1
<1>4. Reading(comps, text) = iter[1..N]
  BY <1>1 DEF Reading, FoldLeft, MapThenFoldSet
<1> HIDE DEF N, Y, base
<1>5. PICK g \in [SUBSET (1..N) -> Y] : IsFold(g, N, base, step)
  <2> HIDE DEF step
  <2> QED
    BY <1>1, <1>2, <1>3, FoldExists
<1>6. Is(iter)
  <2>1. ASSUME NEW s \in SUBSET (1..N), s # {}
        PROVE  g[s] = Taken(g[s \ {Max(s)}], comps[Max(s)], text)
    <3>1. Max(s) \in 1..N
      BY <1>1, <2>1, MaxOf
    <3>2. g[s] = step[Max(s)][g[s \ {Max(s)}]] /\ g[s \ {Max(s)}] \in Y
      BY <1>5, <2>1 DEF IsFold
    <3> QED
      BY <3>1, <3>2
  <2>2. Is(g)
    BY <1>5, <2>1 DEF IsFold
  <2> HIDE DEF Is
  <2> QED
    BY <2>2
<1>7. /\ iter[{}] = base
      /\ \A s \in SUBSET (1..N) : s # {} =>
           iter[s] = Taken(iter[s \ {Max(s)}], comps[Max(s)], text)
  BY <1>6
<1> HIDE DEF iter, Is
<1>8. Steps(iter, N, Y, step)
  <2> SUFFICES ASSUME NEW i \in 1..N, iter[1..(i - 1)] \in Y
               PROVE  iter[1..i] = step[i][iter[1..(i - 1)]]
    BY DEF Steps
  <2>1. Max(1..i) = i /\ (1..i) \ {i} = 1..(i - 1) /\ 1..i # {} /\ 1..i \in SUBSET (1..N)
    BY <1>1, MaxOfPrefix
  <2>2. iter[1..i] = Taken(iter[1..(i - 1)], comps[i], text)
    BY <1>7, <2>1
  <2> QED
    BY <2>2
<1>9. PICK f \in [0..N -> Y] : IsFoldLeft(f, N, base, step) /\ f[N] = iter[1..N]
  <2>1. N \in Nat /\ base \in Y /\ iter[{}] = base
    BY <1>1, <1>2, <1>7
  <2>2. StepsIn(step, N, Y)
    BY <1>3 DEF StepsIn
  <2> HIDE DEF step
  <2>3. FoldsTo(N, Y, base, step, iter[1..N])
    BY <1>8, <2>1, <2>2, FoldResult
  <2> QED
    BY <2>3 DEF FoldsTo
<1>10. ASSUME NEW i \in 1..N PROVE f[i] = Taken(f[i - 1], comps[i], text)
  <2>1. f[i] = step[i][f[i - 1]] /\ f[i - 1] \in Y
    BY <1>1, <1>9 DEF IsFoldLeft
  <2> QED
    BY <2>1
<1> QED
  BY <1>4, <1>9, <1>10 DEF IsFoldLeft, N, Y, base

-----------------------------------------------------------------------------
\* One component more.
LEMMA Longer ==
  ASSUME NEW X, NEW comps \in OperationsOver(X), NEW c \in ComponentsOver(X)
  PROVE  /\ Append(comps, c) \in OperationsOver(X)
         /\ Len(comps) \in Nat /\ Len(Append(comps, c)) = Len(comps) + 1
         /\ \A i \in 1..Len(comps) : Append(comps, c)[i] = comps[i]
         /\ Append(comps, c)[Len(comps) + 1] = c
         /\ \A i \in 1..Len(comps) : comps[i] \in ComponentsOver(X)
BY DEF OperationsOver

LEMMA EmptyOperation ==
  ASSUME NEW X
  PROVE  <<>> \in OperationsOver(X) /\ Len(<<>>) = 0
BY DEF OperationsOver

LEMMA SizeIsNat ==
  ASSUME NEW X, NEW comps \in OperationsOver(X), NEW types, types \cap Stubs = {}
  PROVE  SizeIf(comps, types) \in Nat
<1>1. PICK f \in [0..Len(comps) -> Nat] : SizeIf(comps, types) = f[Len(comps)]
  BY SizeFold
<1> QED
  BY <1>1 DEF OperationsOver

LEMMA SizeOfEmpty ==
  ASSUME NEW types, types \cap Stubs = {}
  PROVE  SizeIf(<<>>, types) = 0
<1>1. PICK f : f[0] = 0 /\ SizeIf(<<>>, types) = f[Len(<<>>)]
  <2> DEFINE X == {}
  <2> <<>> \in OperationsOver(X)
    BY EmptyOperation
  <2> HIDE DEF X
  <2> QED
    BY SizeFold
<1> QED
  BY <1>1

LEMMA SizeOfLonger ==
  ASSUME NEW X, NEW comps \in OperationsOver(X), NEW c \in ComponentsOver(X),
         NEW types, types \cap Stubs = {}
  PROVE  SizeIf(Append(comps, c), types) = SizeIf(comps, types) + Weight(c, types)
<1> DEFINE longer == Append(comps, c)
           N == Len(comps)
<1>1. /\ longer \in OperationsOver(X) /\ N \in Nat /\ Len(longer) = N + 1
      /\ longer[N + 1] = c /\ \A i \in 1..N : longer[i] = comps[i]
  BY Longer
<1>2. PICK f \in [0..N -> Nat] :
        /\ f[0] = 0
        /\ \A i \in 1..N : f[i] = f[i - 1] + Weight(comps[i], types)
        /\ SizeIf(comps, types) = f[N]
  BY SizeFold
<1> HIDE DEF longer
<1>3. PICK g \in [0..Len(longer) -> Nat] :
        /\ g[0] = 0
        /\ \A i \in 1..Len(longer) : g[i] = g[i - 1] + Weight(longer[i], types)
        /\ SizeIf(longer, types) = g[Len(longer)]
  BY <1>1, SizeFold
<1>4. InStep(f, g, N)
  BY <1>1, <1>2, <1>3 DEF InStep
<1>5. f[N] = g[N]
  BY <1>1, <1>2, <1>3, <1>4, SameSteps
<1>6. N + 1 \in 1..Len(longer)
  BY <1>1
<1>7. g[N + 1] = g[N] + Weight(c, types)
  BY <1>1, <1>3, <1>6
<1> QED
  BY <1>1, <1>2, <1>3, <1>5, <1>7 DEF longer

LEMMA ReadingIsTyped ==
  ASSUME NEW X, NEW comps \in OperationsOver(X), NEW text \in Seq(X)
  PROVE  Reading(comps, text) \in Readings(X)
<1>1. PICK f \in [0..Len(comps) -> Readings(X)] : Reading(comps, text) = f[Len(comps)]
  BY ReadingFold
<1> QED
  BY <1>1 DEF OperationsOver

LEMMA ReadingOfEmpty ==
  ASSUME NEW X, NEW text \in Seq(X)
  PROVE  Reading(<<>>, text) = [out |-> <<>>, at |-> 0]
<1>1. PICK f \in [0..Len(<<>>) -> Readings(X)] :
        /\ f[0] = [out |-> <<>>, at |-> 0]
        /\ Reading(<<>>, text) = f[Len(<<>>)]
  BY EmptyOperation, ReadingFold, ZenonT(60)
<1> QED
  BY <1>1

LEMMA ReadingOfLonger ==
  ASSUME NEW X, NEW comps \in OperationsOver(X), NEW c \in ComponentsOver(X),
         NEW text \in Seq(X)
  PROVE  Reading(Append(comps, c), text) = Taken(Reading(comps, text), c, text)
<1> DEFINE longer == Append(comps, c)
           N == Len(comps)
<1>1. /\ longer \in OperationsOver(X) /\ N \in Nat /\ Len(longer) = N + 1
      /\ longer[N + 1] = c /\ \A i \in 1..N : longer[i] = comps[i]
  BY Longer
<1>2. PICK f \in [0..N -> Readings(X)] :
        /\ f[0] = [out |-> <<>>, at |-> 0]
        /\ \A i \in 1..N : f[i] = Taken(f[i - 1], comps[i], text)
        /\ Reading(comps, text) = f[N]
  BY ReadingFold
<1> HIDE DEF longer
<1>3. PICK g \in [0..Len(longer) -> Readings(X)] :
        /\ g[0] = [out |-> <<>>, at |-> 0]
        /\ \A i \in 1..Len(longer) : g[i] = Taken(g[i - 1], longer[i], text)
        /\ Reading(longer, text) = g[Len(longer)]
  BY <1>1, ReadingFold
<1>4. InStep(f, g, N)
  <2> SUFFICES ASSUME NEW i \in 1..N, f[i - 1] = g[i - 1] PROVE f[i] = g[i]
    BY DEF InStep
  <2>1. i \in 1..Len(longer) /\ longer[i] = comps[i]
    BY <1>1
  <2> QED
    BY <1>2, <1>3, <2>1
<1>5. f[N] = g[N]
  BY <1>1, <1>2, <1>3, <1>4, SameSteps, SMTT(40)
<1>6. N + 1 \in 1..Len(longer)
  BY <1>1
<1>7. g[N + 1] = Taken(g[N], c, text)
  <2>1. N + 1 - 1 = N
    BY <1>1
  <2>2. g[N + 1] = Taken(g[N + 1 - 1], longer[N + 1], text)
    BY <1>3, <1>6
  <2> QED
    BY <1>1, <2>1, <2>2
<1> QED
  BY <1>1, <1>2, <1>3, <1>5, <1>7 DEF longer

-----------------------------------------------------------------------------
(***************************************************************************)
(* How long a text an operation spans and makes.                           *)
(***************************************************************************)
LEMMA LengthsAreNat ==
  ASSUME NEW X, NEW comps \in OperationsOver(X)
  PROVE  BaseLen(comps) \in Nat /\ OutLen(comps) \in Nat /\ Volume(comps) \in Nat
BY SizeIsNat DEF BaseLen, OutLen, Volume, Stubs

LEMMA LengthsOfEmpty == BaseLen(<<>>) = 0 /\ OutLen(<<>>) = 0 /\ Volume(<<>>) = 0
BY SizeOfEmpty DEF BaseLen, OutLen, Volume, Stubs

LEMMA LengthsOfLonger ==
  ASSUME NEW X, NEW comps \in OperationsOver(X), NEW c \in ComponentsOver(X)
  PROVE  /\ BaseLen(Append(comps, c)) = BaseLen(comps) + Weight(c, {"skip", "delete"})
         /\ OutLen(Append(comps, c)) = OutLen(comps) + Weight(c, {"skip", "insert"})
         /\ Volume(Append(comps, c)) = Volume(comps) + Weight(c, {"skip", "insert", "delete"})
<1>1. /\ {"skip", "delete"} \cap Stubs = {}
      /\ {"skip", "insert"} \cap Stubs = {}
      /\ {"skip", "insert", "delete"} \cap Stubs = {}
  BY DEF Stubs
<1> QED
  BY <1>1, SizeOfLonger DEF BaseLen, OutLen, Volume

LEMMA MadeComponents ==
  ASSUME NEW X, NEW n \in Nat, NEW x \in Seq(X)
  PROVE  /\ SkipComp(n) \in ComponentsOver(X)
         /\ DeleteComp(n) \in ComponentsOver(X)
         /\ InsertComp(x) \in ComponentsOver(X)
BY DEF SkipComp, DeleteComp, InsertComp, ComponentsOver

LEMMA CountedComponents ==
  ASSUME NEW X
  PROVE  \A n \in Nat : SkipComp(n) \in ComponentsOver(X) /\ DeleteComp(n) \in ComponentsOver(X)
BY MadeComponents, EmptySeq

\* A skip, a delete or an insert is the component its builder makes.
LEMMA BuiltComponent ==
  ASSUME NEW X, NEW c \in ComponentsOver(X)
  PROVE  \/ c.type = "skip" /\ c = SkipComp(c.count) /\ c.count \in Nat
         \/ c.type = "delete" /\ c = DeleteComp(c.count) /\ c.count \in Nat
         \/ c.type = "insert" /\ c = InsertComp(c.text) /\ c.text \in Seq(X)
         \/ c.type \in Stubs
BY ComponentCases DEF SkipComp, DeleteComp, InsertComp

LEMMA LengthsWithComponent ==
  ASSUME NEW X, NEW comps \in OperationsOver(X)
  PROVE  /\ \A n \in Nat :
              /\ BaseLen(Append(comps, SkipComp(n))) = BaseLen(comps) + n
              /\ OutLen(Append(comps, SkipComp(n))) = OutLen(comps) + n
              /\ Volume(Append(comps, SkipComp(n))) = Volume(comps) + n
         /\ \A n \in Nat :
              /\ BaseLen(Append(comps, DeleteComp(n))) = BaseLen(comps) + n
              /\ OutLen(Append(comps, DeleteComp(n))) = OutLen(comps)
              /\ Volume(Append(comps, DeleteComp(n))) = Volume(comps) + n
         /\ \A x \in Seq(X) :
              /\ BaseLen(Append(comps, InsertComp(x))) = BaseLen(comps)
              /\ OutLen(Append(comps, InsertComp(x))) = OutLen(comps) + Len(x)
              /\ Volume(Append(comps, InsertComp(x))) = Volume(comps) + Len(x)
         /\ \A c \in ComponentsOver(X) :
              c.type \in Stubs =>
                /\ BaseLen(Append(comps, c)) = BaseLen(comps)
                /\ OutLen(Append(comps, c)) = OutLen(comps)
                /\ Volume(Append(comps, c)) = Volume(comps)
<1>1. BaseLen(comps) \in Nat /\ OutLen(comps) \in Nat /\ Volume(comps) \in Nat
  BY LengthsAreNat
<1>2. ASSUME NEW n \in Nat
      PROVE  /\ BaseLen(Append(comps, SkipComp(n))) = BaseLen(comps) + n
             /\ OutLen(Append(comps, SkipComp(n))) = OutLen(comps) + n
             /\ Volume(Append(comps, SkipComp(n))) = Volume(comps) + n
  <2>1. /\ Weight(SkipComp(n), {"skip", "delete"}) = n
        /\ Weight(SkipComp(n), {"skip", "insert"}) = n
        /\ Weight(SkipComp(n), {"skip", "insert", "delete"}) = n
    BY DEF Weight, SkipComp, ot_comp_size
  <2>2. SkipComp(n) \in ComponentsOver(X)
    BY MadeComponents, EmptySeq
  <2> QED
    BY <2>1, <2>2, LengthsOfLonger
<1>3. ASSUME NEW n \in Nat
      PROVE  /\ BaseLen(Append(comps, DeleteComp(n))) = BaseLen(comps) + n
             /\ OutLen(Append(comps, DeleteComp(n))) = OutLen(comps)
             /\ Volume(Append(comps, DeleteComp(n))) = Volume(comps) + n
  <2>1. /\ Weight(DeleteComp(n), {"skip", "delete"}) = n
        /\ Weight(DeleteComp(n), {"skip", "insert"}) = 0
        /\ Weight(DeleteComp(n), {"skip", "insert", "delete"}) = n
    BY DEF Weight, DeleteComp, ot_comp_size
  <2>2. DeleteComp(n) \in ComponentsOver(X)
    BY MadeComponents, EmptySeq
  <2> QED
    BY <1>1, <2>1, <2>2, LengthsOfLonger
<1>4. ASSUME NEW x \in Seq(X)
      PROVE  /\ BaseLen(Append(comps, InsertComp(x))) = BaseLen(comps)
             /\ OutLen(Append(comps, InsertComp(x))) = OutLen(comps) + Len(x)
             /\ Volume(Append(comps, InsertComp(x))) = Volume(comps) + Len(x)
  <2>1. /\ Weight(InsertComp(x), {"skip", "delete"}) = 0
        /\ Weight(InsertComp(x), {"skip", "insert"}) = Len(x)
        /\ Weight(InsertComp(x), {"skip", "insert", "delete"}) = Len(x)
    BY DEF Weight, InsertComp, ot_comp_size
  <2>2. InsertComp(x) \in ComponentsOver(X)
    BY MadeComponents
  <2> QED
    BY <1>1, <2>1, <2>2, LengthsOfLonger
<1>5. ASSUME NEW c \in ComponentsOver(X), c.type \in Stubs
      PROVE  /\ BaseLen(Append(comps, c)) = BaseLen(comps)
             /\ OutLen(Append(comps, c)) = OutLen(comps)
             /\ Volume(Append(comps, c)) = Volume(comps)
  <2>1. /\ Weight(c, {"skip", "delete"}) = 0
        /\ Weight(c, {"skip", "insert"}) = 0
        /\ Weight(c, {"skip", "insert", "delete"}) = 0
    BY <1>5 DEF Weight, Stubs
  <2> QED
    BY <1>1, <2>1, LengthsOfLonger
<1> QED
  BY <1>2, <1>3, <1>4, <1>5

-----------------------------------------------------------------------------
(***************************************************************************)
(* What an operation makes of a text.                                      *)
(***************************************************************************)
LEMMA MadeIsText ==
  ASSUME NEW X, NEW comps \in OperationsOver(X), NEW text \in Seq(X)
  PROVE  ApplyTo(comps, text) \in Seq(X)
BY ReadingIsTyped DEF ApplyTo, Readings

LEMMA MadeOfEmpty ==
  ASSUME NEW X, NEW text \in Seq(X)
  PROVE  ApplyTo(<<>>, text) = <<>>
BY ReadingOfEmpty DEF ApplyTo

LEMMA ReadSoFar ==
  ASSUME NEW X, NEW comps \in OperationsOver(X), NEW text \in Seq(X)
  PROVE  Reading(comps, text).at = BaseLen(comps)
<1> DEFINE C == ComponentsOver(X)
           T == {s \in Seq(C) : Reading(s, text).at = BaseLen(s)}
<1>1. <<>> \in T
  BY ReadingOfEmpty, LengthsOfEmpty
<1>2. ASSUME NEW s \in Seq(C), NEW c \in C, s \in T
      PROVE  Append(s, c) \in T
  <2>1. s \in OperationsOver(X) /\ Append(s, c) \in Seq(C) /\ Reading(s, text).at = BaseLen(s)
    BY <1>2 DEF OperationsOver
  <2>2. Reading(s, text) \in Readings(X)
    BY <2>1, ReadingIsTyped
  <2> DEFINE r == Reading(s, text)
  <2>3. r = [out |-> r.out, at |-> r.at] /\ r.at \in Nat
    BY <2>2 DEF Readings
  <2>4. Reading(Append(s, c), text) = Taken(r, c, text)
    BY <2>1, ReadingOfLonger
  <2> HIDE DEF r
  <2>5. CASE c.type = "skip" /\ c = SkipComp(c.count) /\ c.count \in Nat
    <3>1. Taken(r, c, text).at = r.at + c.count
      BY <2>5, TakenSkip
    <3>2. BaseLen(Append(s, c)) = BaseLen(s) + c.count
      BY <2>1, <2>5, LengthsWithComponent
    <3> QED
      BY <2>1, <2>4, <3>1, <3>2 DEF r
  <2>6. CASE c.type = "delete" /\ c = DeleteComp(c.count) /\ c.count \in Nat
    <3>1. Taken(r, c, text).at = r.at + c.count
      BY <2>3, <2>6, TakenDelete
    <3>2. BaseLen(Append(s, c)) = BaseLen(s) + c.count
      BY <2>1, <2>6, LengthsWithComponent
    <3> QED
      BY <2>1, <2>4, <3>1, <3>2 DEF r
  <2>7. CASE c.type = "insert" /\ c = InsertComp(c.text) /\ c.text \in Seq(X)
    <3>1. Taken(r, c, text) = [out |-> r.out \o c.text, at |-> r.at]
      BY <2>3, <2>7, TakenInsert
    <3>2. BaseLen(Append(s, c)) = BaseLen(s)
      BY <2>1, <2>7, LengthsWithComponent
    <3> QED
      BY <2>1, <2>4, <3>1, <3>2 DEF r
  <2>8. CASE c.type \in Stubs
    <3>1. Taken(r, c, text).at = r.at
      BY <2>8, TakenStub
    <3>2. BaseLen(Append(s, c)) = BaseLen(s)
      BY <2>1, <2>8, LengthsWithComponent
    <3> QED
      BY <2>1, <2>4, <3>1, <3>2 DEF r
  <2> QED
    BY <2>5, <2>6, <2>7, <2>8, BuiltComponent
<1>3. Seq(C) \subseteq T
  <2> HIDE DEF C, T
  <2> QED
    BY <1>1, <1>2, SequenceInduction
<1> QED
  BY <1>3 DEF OperationsOver

\* What one component more makes of a text.
LEMMA MadeOfLonger ==
  ASSUME NEW X, NEW comps \in OperationsOver(X), NEW text \in Seq(X)
  PROVE  /\ \A n \in Nat :
              ApplyTo(Append(comps, SkipComp(n)), text) =
                ApplyTo(comps, text) \o
                  SubSeq(text, BaseLen(comps) + 1, Least(BaseLen(comps) + n, Len(text)))
         /\ \A n \in Nat : ApplyTo(Append(comps, DeleteComp(n)), text) = ApplyTo(comps, text)
         /\ \A x \in Seq(X) :
              ApplyTo(Append(comps, InsertComp(x)), text) = ApplyTo(comps, text) \o x
         /\ \A c \in ComponentsOver(X) :
              c.type \in Stubs => ApplyTo(Append(comps, c), text) = ApplyTo(comps, text)
<1> DEFINE r == Reading(comps, text)
<1>1. r = [out |-> r.out, at |-> r.at] /\ r.out = ApplyTo(comps, text) /\ r.at = BaseLen(comps)
  BY ReadingIsTyped, ReadSoFar DEF Readings, ApplyTo
<1>2. \A c \in ComponentsOver(X) : ApplyTo(Append(comps, c), text) = Taken(r, c, text).out
  BY ReadingOfLonger DEF ApplyTo
<1> HIDE DEF r
<1>3. ASSUME NEW n \in Nat
      PROVE  ApplyTo(Append(comps, SkipComp(n)), text) =
               r.out \o SubSeq(text, r.at + 1, Least(r.at + n, Len(text)))
  <2>1. SkipComp(n).type = "skip" /\ SkipComp(n).count = n
    BY DEF SkipComp
  <2> DEFINE c == SkipComp(n)
  <2>2. Taken(r, c, text).out = r.out \o SubSeq(text, r.at + 1, Least(r.at + n, Len(text)))
    <3> c.type = "skip" /\ c.count = n
      BY <2>1
    <3> HIDE DEF c
    <3>1. Taken(r, c, text) =
            [out |-> r.out \o SubSeq(text, r.at + 1, Least(r.at + c.count, Len(text))),
             at |-> r.at + c.count]
      BY TakenSkip
    <3>2. r.at \in Nat
      BY <1>1, LengthsAreNat
    <3>3. Least(r.at + c.count, Len(text)) = Least(r.at + n, Len(text))
      BY DEF Least
    <3> DEFINE x == SubSeq(text, r.at + 1, Least(r.at + n, Len(text)))
    <3>4. Taken(r, c, text) = [out |-> r.out \o x, at |-> r.at + c.count]
      BY <3>1, <3>3
    <3> HIDE DEF x
    <3>5. Taken(r, c, text).out = r.out \o x
      BY <3>4
    <3> QED
      BY <3>5 DEF x
  <2> QED
    BY <1>2, <2>2, MadeComponents, EmptySeq
<1>4. ASSUME NEW n \in Nat
      PROVE  ApplyTo(Append(comps, DeleteComp(n)), text) = r.out
  <2>1. DeleteComp(n).type = "delete"
    BY DEF DeleteComp
  <2>2. Taken(r, DeleteComp(n), text).out = r.out
    BY <1>1, <2>1, TakenDelete
  <2> QED
    BY <1>2, <2>2, MadeComponents, EmptySeq
<1>5. ASSUME NEW x \in Seq(X)
      PROVE  ApplyTo(Append(comps, InsertComp(x)), text) = r.out \o x
  <2>1. InsertComp(x).type = "insert" /\ InsertComp(x).text = x
    BY DEF InsertComp
  <2> DEFINE c == InsertComp(x)
  <2>2. Taken(r, c, text).out = r.out \o x
    <3>1. Taken(r, c, text) = [out |-> r.out \o c.text, at |-> r.at]
      <4> c.type = "insert"
        BY <2>1
      <4> HIDE DEF c
      <4> QED
        BY <1>1, TakenInsert
    <3> QED
      BY <2>1, <3>1
  <2> QED
    BY <1>2, <2>2, MadeComponents
<1>6. ASSUME NEW c \in ComponentsOver(X), c.type \in Stubs
      PROVE  ApplyTo(Append(comps, c), text) = r.out
  BY <1>2, <1>6, TakenStub
<1> QED
  BY <1>1, <1>3, <1>4, <1>5, <1>6

LEMMA MadeWithInsert ==
  ASSUME NEW X, NEW comps \in OperationsOver(X), NEW text \in Seq(X), NEW x \in Seq(X)
  PROVE  ApplyTo(Append(comps, InsertComp(x)), text) = ApplyTo(comps, text) \o x
BY MadeOfLonger

LEMMA MadeWithDelete ==
  ASSUME NEW X, NEW comps \in OperationsOver(X), NEW text \in Seq(X), NEW n \in Nat
  PROVE  ApplyTo(Append(comps, DeleteComp(n)), text) = ApplyTo(comps, text)
BY MadeOfLonger

\* Induction over operations, by the component that comes last.
OneMore(X, T) ==
  \A s \in OperationsOver(X) \cap T :
    /\ \A n \in Nat : Append(s, SkipComp(n)) \in T /\ Append(s, DeleteComp(n)) \in T
    /\ \A x \in Seq(X) : Append(s, InsertComp(x)) \in T
    /\ \A c \in ComponentsOver(X) : c.type \in Stubs => Append(s, c) \in T

LEMMA OperationInduction ==
  ASSUME NEW X, NEW T, <<>> \in T, OneMore(X, T)
  PROVE  OperationsOver(X) \subseteq T
<1> DEFINE C == ComponentsOver(X)
<1>1. ASSUME NEW s \in Seq(C), NEW c \in C, s \in T PROVE Append(s, c) \in T
  <2>1. s \in OperationsOver(X)
    BY DEF OperationsOver
  <2>2. CASE c = SkipComp(c.count) /\ c.count \in Nat
    BY <1>1, <2>1, <2>2 DEF OneMore
  <2>3. CASE c = DeleteComp(c.count) /\ c.count \in Nat
    BY <1>1, <2>1, <2>3 DEF OneMore
  <2>4. CASE c = InsertComp(c.text) /\ c.text \in Seq(X)
    BY <1>1, <2>1, <2>4 DEF OneMore
  <2>5. CASE c.type \in Stubs
    <3>1. s \in OperationsOver(X) \cap T
      BY <1>1, <2>1
    <3> QED
      BY <2>5, <3>1 DEF OneMore
  <2> QED
    BY <2>2, <2>3, <2>4, <2>5, BuiltComponent
<1> HIDE DEF C
<1>2. Seq(C) \subseteq T
  BY <1>1, SequenceInduction
<1> QED
  BY <1>2 DEF C, OperationsOver

\* A skip within the text.
LEMMA MadeWithSkip ==
  ASSUME NEW X, NEW comps \in OperationsOver(X), NEW text \in Seq(X), NEW n \in Nat,
         BaseLen(comps) + n <= Len(text)
  PROVE  LET piece == SubSeq(text, BaseLen(comps) + 1, BaseLen(comps) + n)
         IN  /\ ApplyTo(Append(comps, SkipComp(n)), text) = ApplyTo(comps, text) \o piece
             /\ piece \in Seq(X) /\ Len(piece) = n
<1> DEFINE m == BaseLen(comps) + n
<1>1. BaseLen(comps) \in Nat /\ m \in Nat /\ m <= Len(text) /\ BaseLen(comps) <= m
      /\ m - BaseLen(comps) = n
  BY LengthsAreNat
<1>2. Least(m, Len(text)) = m
  BY <1>1 DEF Least
<1>3. ApplyTo(Append(comps, SkipComp(n)), text) =
        ApplyTo(comps, text) \o SubSeq(text, BaseLen(comps) + 1, Least(m, Len(text)))
  BY MadeOfLonger, ZenonT(60)
<1> HIDE DEF m
<1>4. /\ SubSeq(text, BaseLen(comps) + 1, m) \in Seq(X)
      /\ Len(SubSeq(text, BaseLen(comps) + 1, m)) = n
  BY <1>1, Between
<1> QED
  BY <1>2, <1>3, <1>4 DEF m

\* What is made of the first characters of a longer text.
LEMMA PieceOfConcat ==
  ASSUME NEW X, NEW s \in Seq(X), NEW t \in Seq(X),
         NEW m \in Nat, NEW n \in Nat, m <= n, n <= Len(s)
  PROVE  SubSeq(s \o t, m + 1, n) = SubSeq(s, m + 1, n)
<1>1. /\ s \o t \in Seq(X) /\ Len(s \o t) = Len(s) + Len(t)
      /\ \A i \in 1..Len(s) : (s \o t)[i] = s[i]
  BY ConcatProperties
<1>2. Len(s) \in Nat /\ Len(t) \in Nat
  OBVIOUS
<1> DEFINE st == s \o t
           u == SubSeq(st, m + 1, n)
           v == SubSeq(s, m + 1, n)
<1>long. st \in Seq(X) /\ n <= Len(st)
  BY <1>1, <1>2
<1> HIDE DEF st
<1>3. /\ u \in Seq(X) /\ Len(u) = n - m
      /\ \A i \in 1..(n - m) : u[i] = st[m + i]
  BY <1>long, Between
<1>4. /\ v \in Seq(X) /\ Len(v) = n - m
      /\ \A i \in 1..(n - m) : v[i] = s[m + i]
  BY <1>2, Between
<1>5. \A i \in 1..(n - m) : m + i \in 1..Len(s)
  BY <1>2
<1> HIDE DEF u, v
<1>alike. \A i \in 1..Len(s) : st[i] = s[i]
  BY <1>1 DEF st
<1>6. \A i \in 1..Len(u) : u[i] = v[i]
  BY <1>alike, <1>3, <1>4, <1>5
<1>7. u = v
  BY <1>3, <1>4, <1>6, SeqEqual
<1> QED
  BY <1>7 DEF u, v, st

LEMMA LastPiece ==
  ASSUME NEW X, NEW s \in Seq(X), NEW t \in Seq(X)
  PROVE  SubSeq(s \o t, Len(s) + 1, Len(s) + Len(t)) = t
<1>1. /\ s \o t \in Seq(X) /\ Len(s \o t) = Len(s) + Len(t)
      /\ \A i \in 1..(Len(s) + Len(t)) : (s \o t)[i] = IF i <= Len(s) THEN s[i] ELSE t[i - Len(s)]
  BY ConcatProperties
<1>2. Len(s) \in Nat /\ Len(t) \in Nat
  OBVIOUS
<1> DEFINE u == SubSeq(s \o t, Len(s) + 1, Len(s) + Len(t))
<1>3. /\ u \in Seq(X) /\ Len(u) = Len(t)
      /\ \A i \in 1..Len(t) : u[i] = (s \o t)[Len(s) + i]
  <2> DEFINE m == Len(s)
             n == Len(s) + Len(t)
  <2>1. m \in Nat /\ n \in Nat /\ n <= Len(s \o t) /\ m <= n /\ n - m = Len(t)
    BY <1>1, <1>2
  <2> HIDE DEF m, n
  <2>2. /\ SubSeq(s \o t, m + 1, n) \in Seq(X)
        /\ Len(SubSeq(s \o t, m + 1, n)) = IF m <= n THEN n - m ELSE 0
        /\ \A i \in 1..(n - m) : SubSeq(s \o t, m + 1, n)[i] = (s \o t)[m + i]
    BY <1>1, <2>1, Between
  <2> QED
    BY <2>1, <2>2 DEF m, n
<1> HIDE DEF u
<1>4. ASSUME NEW i \in 1..Len(u) PROVE u[i] = t[i]
  <2>1. /\ Len(s) + i \in 1..(Len(s) + Len(t))
        /\ ~(Len(s) + i <= Len(s)) /\ (Len(s) + i) - Len(s) = i
    BY <1>2, <1>3
  <2> QED
    BY <1>1, <1>3, <2>1
<1>5. u = t
  BY <1>3, <1>4, SeqEqual
<1> QED
  BY <1>5 DEF u

LEMMA MadeLength ==
  ASSUME NEW X, NEW text \in Seq(X), NEW comps \in OperationsOver(X),
         BaseLen(comps) <= Len(text)
  PROVE  Len(ApplyTo(comps, text)) = OutLen(comps)
<1> DEFINE Fits(s) == BaseLen(s) <= Len(text) => Len(ApplyTo(s, text)) = OutLen(s)
           T == {s \in OperationsOver(X) : Fits(s)}
<1>1. <<>> \in T
  <2>1. ApplyTo(<<>>, text) = <<>>
    BY MadeOfEmpty
  <2> QED
    BY <2>1, EmptyOperation, LengthsOfEmpty
<1>2. ASSUME NEW s \in OperationsOver(X), Fits(s)
      PROVE  /\ \A n \in Nat : Fits(Append(s, SkipComp(n)))
             /\ \A n \in Nat : Fits(Append(s, DeleteComp(n)))
             /\ \A x \in Seq(X) : Fits(Append(s, InsertComp(x)))
             /\ \A c \in ComponentsOver(X) : c.type \in Stubs => Fits(Append(s, c))
  <2>1. BaseLen(s) \in Nat /\ OutLen(s) \in Nat /\ Len(text) \in Nat /\ ApplyTo(s, text) \in Seq(X)
    BY LengthsAreNat, MadeIsText
  <2>2. ASSUME NEW n \in Nat, BaseLen(Append(s, SkipComp(n))) <= Len(text)
        PROVE  Len(ApplyTo(Append(s, SkipComp(n)), text)) = OutLen(Append(s, SkipComp(n)))
    <3> DEFINE piece == SubSeq(text, BaseLen(s) + 1, BaseLen(s) + n)
    <3>1. /\ BaseLen(Append(s, SkipComp(n))) = BaseLen(s) + n
          /\ OutLen(Append(s, SkipComp(n))) = OutLen(s) + n
      BY LengthsWithComponent
    <3>2. /\ ApplyTo(Append(s, SkipComp(n)), text) = ApplyTo(s, text) \o piece
          /\ piece \in Seq(X) /\ Len(piece) = n
      BY <2>2, <3>1, MadeWithSkip
    <3> HIDE DEF piece
    <3>3. Len(ApplyTo(s, text) \o piece) = Len(ApplyTo(s, text)) + n
      BY <2>1, <3>2, ConcatProperties
    <3>4. Len(ApplyTo(s, text)) = OutLen(s)
      BY <1>2, <2>1, <2>2, <3>1
    <3> QED
      BY <3>1, <3>2, <3>3, <3>4
  <2>3. ASSUME NEW n \in Nat PROVE Fits(Append(s, DeleteComp(n)))
    <3>1. /\ BaseLen(Append(s, DeleteComp(n))) = BaseLen(s) + n
          /\ OutLen(Append(s, DeleteComp(n))) = OutLen(s)
          /\ ApplyTo(Append(s, DeleteComp(n)), text) = ApplyTo(s, text)
      BY LengthsWithComponent, MadeOfLonger
    <3> QED
      BY <1>2, <2>1, <3>1
  <2>4. ASSUME NEW x \in Seq(X) PROVE Fits(Append(s, InsertComp(x)))
    <3>1. /\ BaseLen(Append(s, InsertComp(x))) = BaseLen(s)
          /\ OutLen(Append(s, InsertComp(x))) = OutLen(s) + Len(x)
          /\ ApplyTo(Append(s, InsertComp(x)), text) = ApplyTo(s, text) \o x
      BY LengthsWithComponent, MadeOfLonger
    <3>2. Len(ApplyTo(s, text) \o x) = Len(ApplyTo(s, text)) + Len(x)
      BY <2>1, ConcatProperties
    <3> QED
      BY <1>2, <3>1, <3>2
  <2>5. ASSUME NEW c \in ComponentsOver(X), c.type \in Stubs PROVE Fits(Append(s, c))
    <3>1. /\ BaseLen(Append(s, c)) = BaseLen(s)
          /\ OutLen(Append(s, c)) = OutLen(s)
          /\ ApplyTo(Append(s, c), text) = ApplyTo(s, text)
      BY <2>5, LengthsWithComponent, MadeOfLonger
    <3> QED
      BY <1>2, <3>1
  <2>6. \A n \in Nat : Fits(Append(s, SkipComp(n)))
    BY <2>2
  <2> HIDE DEF Fits
  <2> QED
    BY <2>3, <2>4, <2>5, <2>6
<1> HIDE DEF Fits
<1>3. OneMore(X, T)
  <2>1. /\ \A n \in Nat : SkipComp(n) \in ComponentsOver(X) /\ DeleteComp(n) \in ComponentsOver(X)
        /\ \A x \in Seq(X) : InsertComp(x) \in ComponentsOver(X)
    BY MadeComponents, EmptySeq
  <2>2. \A s \in OperationsOver(X), c \in ComponentsOver(X) : Append(s, c) \in OperationsOver(X)
    BY Longer
  <2> QED
    BY <1>2, <2>1, <2>2 DEF OneMore
<1>4. OperationsOver(X) \subseteq T
  <2> HIDE DEF T
  <2> QED
    BY <1>1, <1>3, OperationInduction
<1> QED
  BY <1>4 DEF Fits

\* An operation reads no further than it spans.
LEMMA MadeOfBeginning ==
  ASSUME NEW X, NEW text \in Seq(X), NEW more \in Seq(X), NEW comps \in OperationsOver(X),
         BaseLen(comps) <= Len(text)
  PROVE  ApplyTo(comps, text \o more) = ApplyTo(comps, text)
<1> DEFINE whole == text \o more
           Fits(s) == BaseLen(s) <= Len(text) => ApplyTo(s, whole) = ApplyTo(s, text)
           T == {s \in OperationsOver(X) : Fits(s)}
<1>0. /\ whole \in Seq(X) /\ Len(whole) = Len(text) + Len(more)
      /\ Len(text) \in Nat /\ Len(more) \in Nat
  BY ConcatProperties
<1>1. \A m, n \in Nat : m <= n /\ n <= Len(text) => SubSeq(whole, m + 1, n) = SubSeq(text, m + 1, n)
  BY PieceOfConcat
<1> HIDE DEF whole
<1>2. <<>> \in T
  <2>1. ApplyTo(<<>>, text) = <<>> /\ ApplyTo(<<>>, whole) = <<>>
    BY <1>0, MadeOfEmpty
  <2> QED
    BY <2>1, EmptyOperation
<1>3. ASSUME NEW s \in OperationsOver(X), Fits(s)
      PROVE  /\ \A n \in Nat : Fits(Append(s, SkipComp(n)))
             /\ \A n \in Nat : Fits(Append(s, DeleteComp(n)))
             /\ \A x \in Seq(X) : Fits(Append(s, InsertComp(x)))
             /\ \A c \in ComponentsOver(X) : c.type \in Stubs => Fits(Append(s, c))
  <2>1. BaseLen(s) \in Nat
    BY LengthsAreNat
  <2>2. ASSUME NEW n \in Nat, BaseLen(Append(s, SkipComp(n))) <= Len(text)
        PROVE  ApplyTo(Append(s, SkipComp(n)), whole) = ApplyTo(Append(s, SkipComp(n)), text)
    <3> DEFINE m == BaseLen(s)
    <3>1. BaseLen(Append(s, SkipComp(n))) = m + n
      BY LengthsWithComponent
    <3>2. m \in Nat /\ m + n \in Nat /\ m <= m + n /\ m + n <= Len(text) /\ m + n <= Len(whole)
      BY <1>0, <2>1, <2>2, <3>1
    <3>3. /\ ApplyTo(Append(s, SkipComp(n)), text) = ApplyTo(s, text) \o SubSeq(text, m + 1, m + n)
          /\ ApplyTo(Append(s, SkipComp(n)), whole) = ApplyTo(s, whole) \o SubSeq(whole, m + 1, m + n)
      BY <1>0, <3>2, MadeWithSkip, ZenonT(60)
    <3>4. SubSeq(whole, m + 1, m + n) = SubSeq(text, m + 1, m + n)
      <4> DEFINE k == m + n
      <4>1. k \in Nat /\ m <= k /\ k <= Len(text)
        BY <3>2
      <4> HIDE DEF k, m
      <4>2. SubSeq(whole, m + 1, k) = SubSeq(text, m + 1, k)
        BY <1>1, <3>2, <4>1
      <4> QED
        BY <4>2 DEF k
    <3>5. ApplyTo(s, whole) = ApplyTo(s, text)
      BY <1>3, <3>2
    <3> QED
      BY <3>3, <3>4, <3>5
  <2>3. ASSUME NEW n \in Nat PROVE Fits(Append(s, DeleteComp(n)))
    <3>1. /\ BaseLen(Append(s, DeleteComp(n))) = BaseLen(s) + n
          /\ ApplyTo(Append(s, DeleteComp(n)), text) = ApplyTo(s, text)
          /\ ApplyTo(Append(s, DeleteComp(n)), whole) = ApplyTo(s, whole)
      BY <1>0, LengthsWithComponent, MadeOfLonger
    <3> QED
      BY <1>0, <1>3, <2>1, <3>1
  <2>4. ASSUME NEW x \in Seq(X) PROVE Fits(Append(s, InsertComp(x)))
    <3>1. BaseLen(Append(s, InsertComp(x))) = BaseLen(s)
      BY LengthsWithComponent
    <3>2. ApplyTo(Append(s, InsertComp(x)), text) = ApplyTo(s, text) \o x
      BY MadeWithInsert
    <3>3. ApplyTo(Append(s, InsertComp(x)), whole) = ApplyTo(s, whole) \o x
      BY <1>0, MadeWithInsert
    <3> QED
      BY <1>3, <3>1, <3>2, <3>3
  <2>5. ASSUME NEW c \in ComponentsOver(X), c.type \in Stubs PROVE Fits(Append(s, c))
    <3>1. /\ BaseLen(Append(s, c)) = BaseLen(s)
          /\ ApplyTo(Append(s, c), text) = ApplyTo(s, text)
          /\ ApplyTo(Append(s, c), whole) = ApplyTo(s, whole)
      BY <1>0, <2>5, LengthsWithComponent, MadeOfLonger, ZenonT(60)
    <3> QED
      BY <1>3, <3>1
  <2>6. \A n \in Nat : Fits(Append(s, SkipComp(n)))
    BY <2>2
  <2> HIDE DEF Fits
  <2> QED
    BY <2>3, <2>4, <2>5, <2>6
<1> HIDE DEF Fits
<1>4. OneMore(X, T)
  <2>1. /\ \A n \in Nat : SkipComp(n) \in ComponentsOver(X) /\ DeleteComp(n) \in ComponentsOver(X)
        /\ \A x \in Seq(X) : InsertComp(x) \in ComponentsOver(X)
    BY MadeComponents, EmptySeq
  <2>2. \A s \in OperationsOver(X), c \in ComponentsOver(X) : Append(s, c) \in OperationsOver(X)
    BY Longer
  <2> QED
    BY <1>3, <2>1, <2>2 DEF OneMore
<1>5. OperationsOver(X) \subseteq T
  <2> HIDE DEF T
  <2> QED
    BY <1>2, <1>4, OperationInduction
<1> QED
  BY <1>5 DEF Fits, whole

\* An operation that spans a text, with a component more for what follows it.
LEMMA MadeOfBoth ==
  ASSUME NEW X, NEW comps \in OperationsOver(X), NEW text \in Seq(X), NEW more \in Seq(X),
         BaseLen(comps) = Len(text)
  PROVE  /\ ApplyTo(Append(comps, SkipComp(Len(more))), text \o more) =
              ApplyTo(comps, text) \o more
         /\ ApplyTo(Append(comps, DeleteComp(Len(more))), text \o more) = ApplyTo(comps, text)
<1> DEFINE whole == text \o more
           n == Len(more)
<1>1. /\ whole \in Seq(X) /\ Len(whole) = Len(text) + n
      /\ Len(text) \in Nat /\ n \in Nat
      /\ ApplyTo(comps, whole) = ApplyTo(comps, text)
  BY ConcatProperties, MadeOfBeginning
<1>2. SubSeq(whole, Len(text) + 1, Len(text) + n) = more
  BY LastPiece
<1> HIDE DEF whole, n
<1>3. BaseLen(comps) + n <= Len(whole)
  BY <1>1
<1>4. ApplyTo(Append(comps, SkipComp(n)), whole) = ApplyTo(comps, whole) \o more
  <2>1. ApplyTo(Append(comps, SkipComp(n)), whole) =
          ApplyTo(comps, whole) \o SubSeq(whole, BaseLen(comps) + 1, BaseLen(comps) + n)
    BY <1>1, <1>3, MadeWithSkip, ZenonT(60)
  <2> QED
    BY <1>2, <2>1
<1>5. ApplyTo(Append(comps, DeleteComp(n)), whole) = ApplyTo(comps, whole)
  BY <1>1, MadeOfLonger
<1> QED
  BY <1>1, <1>4, <1>5 DEF whole, n

-----------------------------------------------------------------------------
(***************************************************************************)
(* Where an operation inserts: the word of all it inserts, for each of     *)
(* these characters the gap of the text it goes into (after how many       *)
(* characters of the text that is), and for each gap of the text where     *)
(* what goes into it ends in the text that is made.                        *)
(***************************************************************************)
Advanced(s, n) == [at |-> s.at + n, word |-> s.word, gaps |-> s.gaps, lift |-> s.lift]

Repeated(a, n) == [i \in 1..n |-> a]

Raised(lift, at, n) == [h \in Nat |-> IF at <= h THEN lift[h] + n ELSE lift[h]]

Widened(s, x) ==
  [at |-> s.at, word |-> s.word \o x, gaps |-> s.gaps \o Repeated(s.at, Len(x)),
   lift |-> Raised(s.lift, s.at, Len(x))]

Laid(s, c) ==
  CASE c.type \in {"skip", "delete"} -> Advanced(s, c.count)
    [] c.type = "insert" -> Widened(s, c.text)
    [] c.type \in Stubs -> s

NoLayout == [at |-> 0, word |-> <<>>, gaps |-> <<>>, lift |-> [h \in Nat |-> h]]

Layout(comps) == FoldLeft(Laid, NoLayout, comps)

Layouts(X) == [at : Nat, word : Seq(X), gaps : Seq(Nat), lift : [Nat -> Nat]]

LEMMA LayoutParts ==
  ASSUME NEW X, NEW s \in Layouts(X)
  PROVE  /\ s.at \in Nat /\ s.word \in Seq(X) /\ s.gaps \in Seq(Nat) /\ s.lift \in [Nat -> Nat]
         /\ s = [at |-> s.at, word |-> s.word, gaps |-> s.gaps, lift |-> s.lift]
BY DEF Layouts

LEMMA PartsAreLayout ==
  ASSUME NEW X, NEW a \in Nat, NEW w \in Seq(X), NEW g \in Seq(Nat), NEW l \in [Nat -> Nat]
  PROVE  [at |-> a, word |-> w, gaps |-> g, lift |-> l] \in Layouts(X)
BY DEF Layouts

LEMMA NoLayoutIsLayout ==
  ASSUME NEW X
  PROVE  NoLayout \in Layouts(X)
<1>1. <<>> \in Seq(X) /\ <<>> \in Seq(Nat) /\ [h \in Nat |-> h] \in [Nat -> Nat]
  OBVIOUS
<1> QED
  BY <1>1, PartsAreLayout DEF NoLayout

LEMMA Copies ==
  ASSUME NEW a \in Nat, NEW n \in Nat
  PROVE  /\ Repeated(a, n) \in Seq(Nat) /\ Len(Repeated(a, n)) = n
         /\ \A i \in 1..n : Repeated(a, n)[i] = a
         /\ n = 0 => Repeated(a, n) = <<>>
BY DEF Repeated

LEMMA MoreCopies ==
  ASSUME NEW a \in Nat, NEW l \in Nat, NEW m \in Nat
  PROVE  Repeated(a, l + m) = Repeated(a, l) \o Repeated(a, m)
<1> DEFINE u == Repeated(a, l)
           v == Repeated(a, m)
           k == l + m
           w == Repeated(a, k)
<1>1. k \in Nat
  OBVIOUS
<1>2. /\ u \in Seq(Nat) /\ Len(u) = l /\ \A i \in 1..l : u[i] = a
      /\ v \in Seq(Nat) /\ Len(v) = m /\ \A i \in 1..m : v[i] = a
  BY Copies
<1> HIDE DEF k
<1>3. w \in Seq(Nat) /\ Len(w) = k /\ \A i \in 1..k : w[i] = a
  BY <1>1, Copies
<1> HIDE DEF u, v, w
<1>4. /\ u \o v \in Seq(Nat) /\ Len(u \o v) = l + m
      /\ \A i \in 1..(l + m) : (u \o v)[i] = IF i <= l THEN u[i] ELSE v[i - l]
  BY <1>2
<1>5. ASSUME NEW i \in 1..k PROVE w[i] = (u \o v)[i]
  <2>1. i \in 1..(l + m) /\ (i <= l => i \in 1..l) /\ (~(i <= l) => i - l \in 1..m)
    BY DEF k
  <2> QED
    BY <1>2, <1>3, <1>4, <2>1
<1>6. w = u \o v
  BY <1>3, <1>4, <1>5, SeqEqual DEF k
<1> QED
  BY <1>6 DEF u, v, w, k

LEMMA RaisedLift ==
  ASSUME NEW l \in [Nat -> Nat], NEW a \in Nat, NEW n \in Nat
  PROVE  /\ Raised(l, a, n) \in [Nat -> Nat]
         /\ \A h \in Nat : Raised(l, a, n)[h] = IF a <= h THEN l[h] + n ELSE l[h]
         /\ n = 0 => Raised(l, a, n) = l
<1>1. \A h \in Nat : l[h] \in Nat
  OBVIOUS
<1>2. n = 0 => \A h \in Nat : (IF a <= h THEN l[h] + n ELSE l[h]) = l[h]
  BY <1>1
<1> QED
  BY <1>1, <1>2 DEF Raised

LEMMA RaisedTwice ==
  ASSUME NEW l \in [Nat -> Nat], NEW a \in Nat, NEW m \in Nat, NEW n \in Nat
  PROVE  Raised(Raised(l, a, m), a, n) = Raised(l, a, m + n)
<1> DEFINE r == Raised(l, a, m)
           k == m + n
<1>1. k \in Nat /\ r \in [Nat -> Nat]
  <2>1. k \in Nat
    OBVIOUS
  <2> HIDE DEF k
  <2> QED
    BY <2>1, RaisedLift
<1>2. \A h \in Nat : r[h] = IF a <= h THEN l[h] + m ELSE l[h]
  BY RaisedLift
<1> HIDE DEF r
<1>3. Raised(r, a, n) \in [Nat -> Nat] /\ \A h \in Nat : Raised(r, a, n)[h] = IF a <= h THEN r[h] + n ELSE r[h]
  BY <1>1, RaisedLift
<1> HIDE DEF k
<1>4. Raised(l, a, k) \in [Nat -> Nat] /\ \A h \in Nat : Raised(l, a, k)[h] = IF a <= h THEN l[h] + k ELSE l[h]
  BY <1>1, RaisedLift
<1>5. ASSUME NEW h \in Nat PROVE Raised(r, a, n)[h] = Raised(l, a, k)[h]
  <2>1. l[h] \in Nat /\ (l[h] + m) + n = l[h] + k
    BY DEF k
  <2>2. CASE a <= h
    BY <1>2, <1>3, <1>4, <2>1, <2>2
  <2>3. CASE ~(a <= h)
    BY <1>2, <1>3, <1>4, <2>3
  <2> QED
    BY <2>2, <2>3
<1>6. Raised(r, a, n) = Raised(l, a, k)
  BY <1>3, <1>4, <1>5
<1> QED
  BY <1>6 DEF r, k

LEMMA AdvancedLayout ==
  ASSUME NEW X, NEW s \in Layouts(X), NEW n \in Nat
  PROVE  /\ Advanced(s, n) \in Layouts(X)
         /\ Advanced(s, 0) = s
         /\ \A m \in Nat : Advanced(Advanced(s, m), n) = Advanced(s, m + n)
<1>1. /\ s.at \in Nat /\ s.word \in Seq(X) /\ s.gaps \in Seq(Nat) /\ s.lift \in [Nat -> Nat]
      /\ s = [at |-> s.at, word |-> s.word, gaps |-> s.gaps, lift |-> s.lift]
  BY LayoutParts
<1>2. s.at + n \in Nat /\ s.at + 0 = s.at
  <2> DEFINE a == s.at
  <2>1. a \in Nat
    BY <1>1
  <2> HIDE DEF a
  <2>2. a + n \in Nat /\ a + 0 = a
    BY <2>1
  <2> QED
    BY <2>2 DEF a
<1>3. Advanced(s, n) \in Layouts(X)
  BY <1>1, <1>2, PartsAreLayout DEF Advanced
<1>4. Advanced(s, 0) = s
  BY <1>1, <1>2 DEF Advanced
<1>5. ASSUME NEW m \in Nat PROVE Advanced(Advanced(s, m), n) = Advanced(s, m + n)
  <2>1. (s.at + m) + n = s.at + (m + n)
    <3> DEFINE a == s.at
    <3>1. a \in Nat
      BY <1>1
    <3> HIDE DEF a
    <3>2. (a + m) + n = a + (m + n)
      BY <3>1
    <3> QED
      BY <3>2 DEF a
  <2> QED
    BY <2>1 DEF Advanced
<1> QED
  BY <1>3, <1>4, <1>5

LEMMA ThreeTexts ==
  ASSUME NEW X, NEW u \in Seq(X), NEW v \in Seq(X), NEW w \in Seq(X)
  PROVE  (u \o v) \o w = u \o (v \o w)
BY ConcatAssociative

LEMMA WidenedLayout ==
  ASSUME NEW X, NEW s \in Layouts(X), NEW x \in Seq(X)
  PROVE  /\ Widened(s, x) \in Layouts(X)
         /\ x = <<>> => Widened(s, x) = s
         /\ \A y \in Seq(X) : Widened(Widened(s, x), y) = Widened(s, x \o y)
<1> DEFINE a == s.at
           w == s.word
           g == s.gaps
           f == s.lift
           l == Len(x)
<1>1. a \in Nat /\ w \in Seq(X) /\ g \in Seq(Nat) /\ f \in [Nat -> Nat]
  BY LayoutParts
<1>2. s = [at |-> a, word |-> w, gaps |-> g, lift |-> f]
  BY LayoutParts
<1>3. l \in Nat
  OBVIOUS
<1>4. Widened(s, x) = [at |-> a, word |-> w \o x, gaps |-> g \o Repeated(a, l), lift |-> Raised(f, a, l)]
  BY DEF Widened
<1>5. Widened(s, x) \in Layouts(X)
  <2> HIDE DEF a, w, g, f, l
  <2>1. Repeated(a, l) \in Seq(Nat)
    BY <1>1, <1>3, Copies
  <2>2. w \o x \in Seq(X) /\ g \o Repeated(a, l) \in Seq(Nat)
    BY <1>1, <2>1
  <2>3. Raised(f, a, l) \in [Nat -> Nat]
    BY <1>1, <1>3, RaisedLift
  <2> QED
    BY <1>1, <1>4, <2>2, <2>3, PartsAreLayout
<1>6. ASSUME x = <<>> PROVE Widened(s, x) = s
  <2>1. l = 0
    BY <1>6
  <2> HIDE DEF a, w, g, f, l
  <2>2. Repeated(a, l) = <<>> /\ Raised(f, a, l) = f
    BY <1>1, <1>3, <2>1, Copies, RaisedLift
  <2>3. w \o x = w /\ g \o Repeated(a, l) = g
    BY <1>1, <1>6, <2>2, ConcatEmptySeq
  <2> QED
    BY <1>2, <1>4, <2>2, <2>3
<1>7. ASSUME NEW y \in Seq(X) PROVE Widened(Widened(s, x), y) = Widened(s, x \o y)
  <2> DEFINE m == Len(y)
             xy == x \o y
  <2>1. m \in Nat /\ Len(xy) = l + m
    BY ConcatProperties
  <2>2. Widened(s, xy) = [at |-> a, word |-> w \o xy, gaps |-> g \o Repeated(a, Len(xy)),
                        lift |-> Raised(f, a, Len(xy))]
    BY DEF Widened
  <2>3. Widened(Widened(s, x), y) =
          [at |-> a, word |-> (w \o x) \o y, gaps |-> (g \o Repeated(a, l)) \o Repeated(a, m),
           lift |-> Raised(Raised(f, a, l), a, m)]
    <3> HIDE DEF a, w, g, f, l
    <3> QED
      BY <1>4 DEF Widened
  <2> HIDE DEF a, w, g, f, l
  <2>4. (w \o x) \o y = w \o xy
    <3>1. (w \o x) \o y = w \o (x \o y)
      <4> HIDE DEF m, xy
      <4>1. w \in Seq(X) /\ x \in Seq(X) /\ y \in Seq(X)
        BY <1>1
      <4> QED
        BY <4>1, ThreeTexts
    <3> QED
      BY <3>1
  <2> HIDE DEF m, xy
  <2>5. Repeated(a, l) \in Seq(Nat) /\ Repeated(a, m) \in Seq(Nat)
    BY <1>1, <1>3, <2>1, Copies
  <2>6. (g \o Repeated(a, l)) \o Repeated(a, m) = g \o (Repeated(a, l) \o Repeated(a, m))
    <3> DEFINE u == Repeated(a, l)
               v == Repeated(a, m)
    <3> HIDE DEF u, v
    <3>1. (g \o u) \o v = g \o (u \o v)
      <4>1. g \in Seq(Nat) /\ u \in Seq(Nat) /\ v \in Seq(Nat)
        BY <1>1, <2>5 DEF u, v
      <4> QED
        BY <4>1, ThreeTexts, SMTT(40)
    <3> QED
      BY <3>1 DEF u, v
  <2>7. Repeated(a, l + m) = Repeated(a, l) \o Repeated(a, m)
    BY <1>1, <1>3, <2>1, MoreCopies
  <2>8. Raised(Raised(f, a, l), a, m) = Raised(f, a, l + m)
    BY <1>1, <1>3, <2>1, RaisedTwice
  <2>9. Widened(s, xy) = Widened(Widened(s, x), y)
    <3> DEFINE u == Repeated(a, l)
               v == Repeated(a, m)
               k == Len(xy)
               r == Raised(f, a, l)
    <3>1. k = l + m
      BY <2>1
    <3>2. Repeated(a, k) = u \o v /\ Raised(r, a, m) = Raised(f, a, k)
      <4> HIDE DEF k
      <4> QED
        BY <2>7, <2>8, <3>1
    <3> QED
      BY <2>2, <2>3, <2>4, <2>6, <3>2
  <2> QED
    BY <2>9 DEF xy
<1> QED
  BY <1>5, <1>6, <1>7

LEMMA LaidCases ==
  ASSUME NEW X, NEW s, NEW c \in ComponentsOver(X)
  PROVE  /\ c.type \in {"skip", "delete"} => Laid(s, c) = Advanced(s, c.count) /\ c.count \in Nat
         /\ c.type = "insert" => Laid(s, c) = Widened(s, c.text) /\ c.text \in Seq(X)
         /\ c.type \in Stubs => Laid(s, c) = s
         /\ c.type \in {"skip", "delete", "insert"} \cup Stubs
<1>1. CASE c.type \in {"skip", "delete"} /\ c \in [type : {"skip", "delete"}, count : Nat]
  BY <1>1 DEF Laid, Stubs
<1>2. CASE c.type = "insert" /\ c \in [type : {"insert"}, text : Seq(X)]
  BY <1>2 DEF Laid, Stubs
<1>3. CASE c.type \in Stubs
  BY <1>3 DEF Laid, Stubs
<1> QED
  BY <1>1, <1>2, <1>3, ComponentCases

LEMMA LaidIsLayout ==
  ASSUME NEW X, NEW c \in ComponentsOver(X), NEW s \in Layouts(X)
  PROVE  Laid(s, c) \in Layouts(X)
<1>1. CASE c.type \in {"skip", "delete"}
  BY <1>1, LaidCases, AdvancedLayout
<1>2. CASE c.type = "insert"
  BY <1>2, LaidCases, WidenedLayout
<1>3. CASE c.type \in Stubs
  BY <1>3, LaidCases
<1> QED
  BY <1>1, <1>2, <1>3, LaidCases

LEMMA LayoutFold ==
  ASSUME NEW X, NEW comps \in OperationsOver(X)
  PROVE  \E f \in [0..Len(comps) -> Layouts(X)] :
           /\ f[0] = NoLayout
           /\ \A i \in 1..Len(comps) : f[i] = Laid(f[i - 1], comps[i])
           /\ Layout(comps) = f[Len(comps)]
<1> DEFINE N == Len(comps)
           Y == Layouts(X)
           base == NoLayout
           step == [i \in 1..N |-> [s \in Y |-> Laid(s, comps[i])]]
           Is(h) == h = [s \in SUBSET (1..N) |->
                           IF s = {} THEN base ELSE Laid(h[s \ {Max(s)}], comps[Max(s)])]
           iter == CHOOSE h : Is(h)
<1>1. N \in Nat /\ DOMAIN comps = 1..N /\ \A i \in 1..N : comps[i] \in ComponentsOver(X)
  BY DEF OperationsOver
<1>2. base \in Y
  BY NoLayoutIsLayout
<1>3. step \in [1..N -> [Y -> Y]]
  <2>1. \A i \in 1..N, s \in Y : Laid(s, comps[i]) \in Y
    BY <1>1, LaidIsLayout
  <2> HIDE DEF Y, N
  <2> QED
    BY <2>1
<1>4. Layout(comps) = iter[1..N]
  BY <1>1 DEF Layout, FoldLeft, MapThenFoldSet
<1> HIDE DEF N, Y, base
<1>5. PICK g \in [SUBSET (1..N) -> Y] : IsFold(g, N, base, step)
  <2> HIDE DEF step
  <2> QED
    BY <1>1, <1>2, <1>3, FoldExists
<1>6. Is(iter)
  <2>1. ASSUME NEW s \in SUBSET (1..N), s # {}
        PROVE  g[s] = Laid(g[s \ {Max(s)}], comps[Max(s)])
    <3>1. Max(s) \in 1..N
      BY <1>1, <2>1, MaxOf
    <3>2. g[s] = step[Max(s)][g[s \ {Max(s)}]] /\ g[s \ {Max(s)}] \in Y
      BY <1>5, <2>1 DEF IsFold
    <3> QED
      BY <3>1, <3>2
  <2>2. Is(g)
    BY <1>5, <2>1 DEF IsFold
  <2> HIDE DEF Is
  <2> QED
    BY <2>2
<1>7. /\ iter[{}] = base
      /\ \A s \in SUBSET (1..N) : s # {} =>
           iter[s] = Laid(iter[s \ {Max(s)}], comps[Max(s)])
  BY <1>6
<1> HIDE DEF iter, Is
<1>8. Steps(iter, N, Y, step)
  <2> SUFFICES ASSUME NEW i \in 1..N, iter[1..(i - 1)] \in Y
               PROVE  iter[1..i] = step[i][iter[1..(i - 1)]]
    BY DEF Steps
  <2>1. Max(1..i) = i /\ (1..i) \ {i} = 1..(i - 1) /\ 1..i # {} /\ 1..i \in SUBSET (1..N)
    BY <1>1, MaxOfPrefix
  <2>2. iter[1..i] = Laid(iter[1..(i - 1)], comps[i])
    BY <1>7, <2>1
  <2> QED
    BY <2>2
<1>9. PICK f \in [0..N -> Y] : IsFoldLeft(f, N, base, step) /\ f[N] = iter[1..N]
  <2>1. N \in Nat /\ base \in Y /\ iter[{}] = base
    BY <1>1, <1>2, <1>7
  <2>2. StepsIn(step, N, Y)
    BY <1>3 DEF StepsIn
  <2> HIDE DEF step
  <2>3. FoldsTo(N, Y, base, step, iter[1..N])
    BY <1>8, <2>1, <2>2, FoldResult
  <2> QED
    BY <2>3 DEF FoldsTo
<1>10. ASSUME NEW i \in 1..N PROVE f[i] = Laid(f[i - 1], comps[i])
  <2>1. f[i] = step[i][f[i - 1]] /\ f[i - 1] \in Y
    BY <1>1, <1>9 DEF IsFoldLeft
  <2> QED
    BY <2>1
<1> QED
  BY <1>4, <1>9, <1>10 DEF IsFoldLeft, N, Y, base

LEMMA LayoutIsTyped ==
  ASSUME NEW X, NEW comps \in OperationsOver(X)
  PROVE  Layout(comps) \in Layouts(X)
<1>1. PICK f \in [0..Len(comps) -> Layouts(X)] : Layout(comps) = f[Len(comps)]
  BY LayoutFold
<1> QED
  BY <1>1 DEF OperationsOver

LEMMA LayoutOfEmpty ==
  ASSUME NEW X
  PROVE  Layout(<<>>) = NoLayout
<1>1. PICK f \in [0..Len(<<>>) -> Layouts(X)] :
        /\ f[0] = NoLayout
        /\ Layout(<<>>) = f[Len(<<>>)]
  BY EmptyOperation, LayoutFold
<1> QED
  BY <1>1

LEMMA LayoutOfLonger ==
  ASSUME NEW X, NEW comps \in OperationsOver(X), NEW c \in ComponentsOver(X)
  PROVE  Layout(Append(comps, c)) = Laid(Layout(comps), c)
<1> DEFINE longer == Append(comps, c)
           N == Len(comps)
<1>1. /\ longer \in OperationsOver(X) /\ N \in Nat /\ Len(longer) = N + 1
      /\ longer[N + 1] = c /\ \A i \in 1..N : longer[i] = comps[i]
  BY Longer
<1>2. PICK f \in [0..N -> Layouts(X)] :
        /\ f[0] = NoLayout
        /\ \A i \in 1..N : f[i] = Laid(f[i - 1], comps[i])
        /\ Layout(comps) = f[N]
  BY LayoutFold
<1> HIDE DEF longer
<1>3. PICK g \in [0..Len(longer) -> Layouts(X)] :
        /\ g[0] = NoLayout
        /\ \A i \in 1..Len(longer) : g[i] = Laid(g[i - 1], longer[i])
        /\ Layout(longer) = g[Len(longer)]
  BY <1>1, LayoutFold
<1>4. InStep(f, g, N)
  <2> SUFFICES ASSUME NEW i \in 1..N, f[i - 1] = g[i - 1] PROVE f[i] = g[i]
    BY DEF InStep
  <2>1. i \in 1..Len(longer) /\ longer[i] = comps[i]
    BY <1>1
  <2> QED
    BY <1>2, <1>3, <2>1
<1>5. f[N] = g[N]
  BY <1>1, <1>2, <1>3, <1>4, SameSteps
<1>6. N + 1 \in 1..Len(longer)
  BY <1>1
<1>7. g[N + 1] = Laid(g[N], c)
  <2>1. N + 1 - 1 = N
    BY <1>1
  <2>2. g[N + 1] = Laid(g[N + 1 - 1], longer[N + 1])
    BY <1>3, <1>6
  <2> QED
    BY <1>1, <2>1, <2>2
<1> QED
  BY <1>1, <1>2, <1>3, <1>5, <1>7 DEF longer

LEMMA LayoutWith ==
  ASSUME NEW X, NEW comps \in OperationsOver(X)
  PROVE  /\ \A n \in Nat : /\ Layout(Append(comps, SkipComp(n))) = Advanced(Layout(comps), n)
                           /\ Layout(Append(comps, DeleteComp(n))) = Advanced(Layout(comps), n)
         /\ \A x \in Seq(X) : Layout(Append(comps, InsertComp(x))) = Widened(Layout(comps), x)
         /\ \A c \in ComponentsOver(X) : c.type \in Stubs => Layout(Append(comps, c)) = Layout(comps)
<1>1. \A c \in ComponentsOver(X) : Layout(Append(comps, c)) = Laid(Layout(comps), c)
  BY LayoutOfLonger
<1>2. ASSUME NEW n \in Nat
      PROVE  /\ Layout(Append(comps, SkipComp(n))) = Advanced(Layout(comps), n)
             /\ Layout(Append(comps, DeleteComp(n))) = Advanced(Layout(comps), n)
  <2> DEFINE c == SkipComp(n)
             d == DeleteComp(n)
  <2>1. /\ c \in ComponentsOver(X) /\ d \in ComponentsOver(X)
        /\ c.type = "skip" /\ c.count = n /\ d.type = "delete" /\ d.count = n
    BY CountedComponents DEF SkipComp, DeleteComp
  <2> HIDE DEF c, d
  <2>2. Laid(Layout(comps), c) = Advanced(Layout(comps), n) /\ Laid(Layout(comps), d) = Advanced(Layout(comps), n)
    BY <2>1, LaidCases
  <2>3. Layout(Append(comps, c)) = Advanced(Layout(comps), n) /\ Layout(Append(comps, d)) = Advanced(Layout(comps), n)
    BY <1>1, <2>1, <2>2
  <2> QED
    BY <2>3 DEF c, d
<1>3. ASSUME NEW x \in Seq(X)
      PROVE  Layout(Append(comps, InsertComp(x))) = Widened(Layout(comps), x)
  <2> DEFINE c == InsertComp(x)
  <2>1. c \in ComponentsOver(X) /\ c.type = "insert" /\ c.text = x
    BY MadeComponents DEF InsertComp
  <2> HIDE DEF c
  <2>2. Layout(Append(comps, c)) = Widened(Layout(comps), x)
    BY <1>1, <2>1, LaidCases
  <2> QED
    BY <2>2 DEF c
<1>4. ASSUME NEW c \in ComponentsOver(X), c.type \in Stubs PROVE Layout(Append(comps, c)) = Layout(comps)
  BY <1>1, <1>4, LaidCases
<1> QED
  BY <1>2, <1>3, <1>4

\* Splitting a component lays nothing out differently, and neither does one
\* of nothing.
LEMMA LayoutSplits ==
  ASSUME NEW X, NEW p \in OperationsOver(X)
  PROVE  /\ \A m, n \in Nat :
              /\ Layout(Append(p, SkipComp(m + n))) = Layout(Append(Append(p, SkipComp(m)), SkipComp(n)))
              /\ Layout(Append(p, DeleteComp(m + n))) =
                   Layout(Append(Append(p, DeleteComp(m)), DeleteComp(n)))
         /\ \A x, y \in Seq(X) :
              Layout(Append(p, InsertComp(x \o y))) = Layout(Append(Append(p, InsertComp(x)), InsertComp(y)))
         /\ Layout(Append(p, SkipComp(0))) = Layout(p)
         /\ Layout(Append(p, DeleteComp(0))) = Layout(p)
         /\ Layout(Append(p, InsertComp(<<>>))) = Layout(p)
<1>1. Layout(p) \in Layouts(X)
  BY LayoutIsTyped
<1>2. ASSUME NEW m \in Nat, NEW n \in Nat
      PROVE  /\ Layout(Append(p, SkipComp(m + n))) = Layout(Append(Append(p, SkipComp(m)), SkipComp(n)))
             /\ Layout(Append(p, DeleteComp(m + n))) =
                  Layout(Append(Append(p, DeleteComp(m)), DeleteComp(n)))
  <2> DEFINE k == m + n
             c == Append(p, SkipComp(m))
             d == Append(p, DeleteComp(m))
  <2>1. k \in Nat
    OBVIOUS
  <2>2. Advanced(Advanced(Layout(p), m), n) = Advanced(Layout(p), k)
    BY <1>1, AdvancedLayout
  <2>3. /\ c \in OperationsOver(X) /\ Layout(c) = Advanced(Layout(p), m)
        /\ d \in OperationsOver(X) /\ Layout(d) = Advanced(Layout(p), m)
    BY CountedComponents, Longer, LayoutWith
  <2> HIDE DEF k, c, d
  <2>4. /\ Layout(Append(p, SkipComp(k))) = Advanced(Layout(p), k)
        /\ Layout(Append(p, DeleteComp(k))) = Advanced(Layout(p), k)
    BY <2>1, LayoutWith
  <2>5. /\ Layout(Append(c, SkipComp(n))) = Advanced(Layout(c), n)
        /\ Layout(Append(d, DeleteComp(n))) = Advanced(Layout(d), n)
    BY <2>3, LayoutWith
  <2>6. /\ Layout(Append(p, SkipComp(k))) = Layout(Append(c, SkipComp(n)))
        /\ Layout(Append(p, DeleteComp(k))) = Layout(Append(d, DeleteComp(n)))
    BY <2>2, <2>3, <2>4, <2>5
  <2> QED
    BY <2>6 DEF k, c, d
<1>3. ASSUME NEW x \in Seq(X), NEW y \in Seq(X)
      PROVE  Layout(Append(p, InsertComp(x \o y))) = Layout(Append(Append(p, InsertComp(x)), InsertComp(y)))
  <2> DEFINE xy == x \o y
             q == Append(p, InsertComp(x))
  <2>1. xy \in Seq(X)
    BY ConcatProperties
  <2>2. q \in OperationsOver(X) /\ Layout(q) = Widened(Layout(p), x)
    BY MadeComponents, Longer, LayoutWith
  <2>3. Widened(Widened(Layout(p), x), y) = Widened(Layout(p), xy)
    BY <1>1, WidenedLayout
  <2> HIDE DEF xy, q
  <2>4. Layout(Append(p, InsertComp(xy))) = Widened(Layout(p), xy)
    BY <2>1, LayoutWith
  <2>5. Layout(Append(q, InsertComp(y))) = Widened(Layout(q), y)
    BY <2>2, LayoutWith
  <2>6. Layout(Append(p, InsertComp(xy))) = Layout(Append(q, InsertComp(y)))
    BY <2>2, <2>3, <2>4, <2>5
  <2> QED
    BY <2>6 DEF xy, q
<1>4. Layout(Append(p, SkipComp(0))) = Layout(p) /\ Layout(Append(p, DeleteComp(0))) = Layout(p)
  <2> DEFINE n == 0
  <2>1. n \in Nat /\ Advanced(Layout(p), n) = Layout(p)
    BY <1>1, AdvancedLayout
  <2> HIDE DEF n
  <2>2. Layout(Append(p, SkipComp(n))) = Layout(p) /\ Layout(Append(p, DeleteComp(n))) = Layout(p)
    BY <2>1, LayoutWith
  <2> QED
    BY <2>2 DEF n
<1>5. Layout(Append(p, InsertComp(<<>>))) = Layout(p)
  <2> DEFINE x == <<>>
  <2>1. x \in Seq(X)
    OBVIOUS
  <2>2. Widened(Layout(p), x) = Layout(p)
    BY <1>1, <2>1, WidenedLayout
  <2> HIDE DEF x
  <2>3. Layout(Append(p, InsertComp(x))) = Layout(p)
    BY <2>1, <2>2, LayoutWith
  <2> QED
    BY <2>3 DEF x
<1> QED
  BY <1>2, <1>3, <1>4, <1>5

-----------------------------------------------------------------------------
(***************************************************************************)
(* Operations that are alike: they span and make texts of the same length, *)
(* make the same of every text, and insert the same in the same places.    *)
(* The builders' merging and an iterator's splitting lead from an          *)
(* operation to one like it.                                               *)
(***************************************************************************)
Alike(X, p, q) ==
  /\ p \in OperationsOver(X) /\ q \in OperationsOver(X)
  /\ BaseLen(p) = BaseLen(q) /\ OutLen(p) = OutLen(q) /\ Volume(p) = Volume(q)
  /\ \A text \in Seq(X) : ApplyTo(p, text) = ApplyTo(q, text)
  /\ Layout(p) = Layout(q)

LEMMA AlikeItself ==
  ASSUME NEW X, NEW p \in OperationsOver(X) PROVE Alike(X, p, p)
BY DEF Alike

LEMMA AlikeTransitive ==
  ASSUME NEW X, NEW p, NEW q, NEW r, Alike(X, p, q), Alike(X, q, r) PROVE Alike(X, p, r)
BY DEF Alike

LEMMA AlikeSymmetric ==
  ASSUME NEW X, NEW p, NEW q, Alike(X, p, q) PROVE Alike(X, q, p)
BY DEF Alike

LEMMA AlikeLonger ==
  ASSUME NEW X, NEW p, NEW q, Alike(X, p, q), NEW c \in ComponentsOver(X)
  PROVE  Alike(X, Append(p, c), Append(q, c))
<1>1. /\ p \in OperationsOver(X) /\ q \in OperationsOver(X)
      /\ Append(p, c) \in OperationsOver(X) /\ Append(q, c) \in OperationsOver(X)
  BY Longer DEF Alike
<1>2. /\ BaseLen(Append(p, c)) = BaseLen(Append(q, c))
      /\ OutLen(Append(p, c)) = OutLen(Append(q, c))
      /\ Volume(Append(p, c)) = Volume(Append(q, c))
  BY <1>1, LengthsOfLonger DEF Alike
<1>3. ASSUME NEW text \in Seq(X) PROVE ApplyTo(Append(p, c), text) = ApplyTo(Append(q, c), text)
  <2>1. Reading(p, text) \in Readings(X) /\ Reading(q, text) \in Readings(X)
    BY <1>1, ReadingIsTyped
  <2>2. /\ Reading(p, text).at = BaseLen(p) /\ Reading(q, text).at = BaseLen(q)
        /\ Reading(p, text).out = ApplyTo(p, text) /\ Reading(q, text).out = ApplyTo(q, text)
    BY <1>1, ReadSoFar DEF ApplyTo
  <2>3. Reading(p, text) = Reading(q, text)
    BY <2>1, <2>2 DEF Alike, Readings
  <2> QED
    BY <1>1, <2>3, ReadingOfLonger DEF ApplyTo
<1>4. Layout(Append(p, c)) = Layout(Append(q, c))
  BY <1>1, LayoutOfLonger DEF Alike
<1> QED
  BY <1>1, <1>2, <1>3, <1>4 DEF Alike

\* Two pieces of a text, one after the other, however far the text goes.
LEMMA TwoPieces ==
  ASSUME NEW X, NEW t \in Seq(X), NEW m \in Nat, NEW n \in Nat, NEW k \in Nat
  PROVE  SubSeq(t, m + 1, Least(m + n, Len(t))) \o
           SubSeq(t, m + n + 1, Least(m + n + k, Len(t))) =
         SubSeq(t, m + 1, Least(m + n + k, Len(t)))
<1>1. Len(t) \in Nat
  OBVIOUS
<1>2. CASE m + n <= Len(t)
  <2> DEFINE b == m + n
             e == Least(b + k, Len(t))
  <2>1. b \in Nat /\ e \in Nat /\ Least(b, Len(t)) = b /\ b <= e /\ e <= Len(t) /\ m <= b
    BY <1>1, <1>2 DEF Least
  <2> HIDE DEF b, e
  <2>2. m + 1 \in 1..(Len(t) + 1) /\ b \in ((m + 1) - 1)..Len(t) /\ e \in b..Len(t)
    BY <1>1, <2>1
  <2>3. SubSeq(t, m + 1, b) \o SubSeq(t, b + 1, e) = SubSeq(t, m + 1, e)
    BY <2>2, ConcatAdjacentSubSeq
  <2> QED
    BY <2>1, <2>3 DEF b, e
<1>3. CASE m + n > Len(t)
  <2>1. Least(m + n, Len(t)) = Len(t) /\ Least(m + n + k, Len(t)) = Len(t)
    BY <1>1, <1>3 DEF Least
  <2>2. m + n + 1 \in Int /\ Len(t) < m + n + 1
    BY <1>1, <1>3
  <2>3. SubSeq(t, m + n + 1, Len(t)) = <<>>
    BY <1>1, <2>2, SubSeqEmpty
  <2>4. SubSeq(t, m + 1, Len(t)) \in Seq(X)
    BY <1>1, Between
  <2>5. SubSeq(t, m + 1, Len(t)) \o <<>> = SubSeq(t, m + 1, Len(t))
    BY <2>4, ConcatEmptySeq
  <2> QED
    BY <2>1, <2>3, <2>5
<1>4. m + n <= Len(t) \/ m + n > Len(t)
  BY <1>1
<1> QED
  BY <1>2, <1>3, <1>4

LEMMA SplitSkip ==
  ASSUME NEW X, NEW p \in OperationsOver(X), NEW m \in Nat, NEW n \in Nat
  PROVE  Alike(X, Append(p, SkipComp(m + n)), Append(Append(p, SkipComp(m)), SkipComp(n)))
<1> DEFINE q == Append(p, SkipComp(m))
<1>0. m + n \in Nat
  OBVIOUS
<1>1. /\ SkipComp(m) \in ComponentsOver(X) /\ SkipComp(n) \in ComponentsOver(X)
      /\ SkipComp(m + n) \in ComponentsOver(X) /\ m + n \in Nat
  BY <1>0, CountedComponents
<1>2. /\ q \in OperationsOver(X)
      /\ Append(p, SkipComp(m + n)) \in OperationsOver(X)
  BY <1>1, Longer
<1>3. /\ BaseLen(q) = BaseLen(p) + m
      /\ OutLen(q) = OutLen(p) + m
      /\ Volume(q) = Volume(p) + m
      /\ BaseLen(Append(p, SkipComp(m + n))) = BaseLen(p) + (m + n)
      /\ OutLen(Append(p, SkipComp(m + n))) = OutLen(p) + (m + n)
      /\ Volume(Append(p, SkipComp(m + n))) = Volume(p) + (m + n)
  BY <1>1, LengthsWithComponent
<1>4. ASSUME NEW text \in Seq(X)
      PROVE  ApplyTo(q, text) = ApplyTo(p, text) \o
               SubSeq(text, BaseLen(p) + 1, Least(BaseLen(p) + m, Len(text)))
  BY MadeOfLonger, ZenonT(60)
<1>5. ASSUME NEW text \in Seq(X)
      PROVE  ApplyTo(Append(p, SkipComp(m + n)), text) = ApplyTo(p, text) \o
               SubSeq(text, BaseLen(p) + 1, Least(BaseLen(p) + (m + n), Len(text)))
  BY <1>1, MadeOfLonger
<1> HIDE DEF q
<1>6. /\ Append(q, SkipComp(n)) \in OperationsOver(X)
      /\ BaseLen(Append(q, SkipComp(n))) = BaseLen(q) + n
      /\ OutLen(Append(q, SkipComp(n))) = OutLen(q) + n
      /\ Volume(Append(q, SkipComp(n))) = Volume(q) + n
  BY <1>1, <1>2, Longer, LengthsWithComponent
<1>7. BaseLen(p) \in Nat /\ OutLen(p) \in Nat /\ Volume(p) \in Nat
  BY LengthsAreNat
<1>8. ASSUME NEW text \in Seq(X)
      PROVE  ApplyTo(Append(p, SkipComp(m + n)), text) = ApplyTo(Append(q, SkipComp(n)), text)
  <2> DEFINE at == BaseLen(p)
             a == SubSeq(text, at + 1, Least(at + m, Len(text)))
             b == SubSeq(text, at + m + 1, Least(at + m + n, Len(text)))
  <2>0. Len(text) \in Nat
    OBVIOUS
  <2>1. ApplyTo(Append(q, SkipComp(n)), text) = (ApplyTo(p, text) \o a) \o b
    <3>1. ApplyTo(Append(q, SkipComp(n)), text) =
            ApplyTo(q, text) \o SubSeq(text, BaseLen(q) + 1, Least(BaseLen(q) + n, Len(text)))
      BY <1>2, MadeOfLonger, ZenonT(60)
    <3> QED
      BY <1>3, <1>4, <3>1
  <2>2. a \o b = SubSeq(text, at + 1, Least(at + m + n, Len(text)))
    BY <1>7, TwoPieces, ZenonT(60)
  <2>3. at + (m + n) = at + m + n
    BY <1>7
  <2>4. ApplyTo(Append(p, SkipComp(m + n)), text) = ApplyTo(p, text) \o (a \o b)
    BY <1>5, <2>2, <2>3
  <2>5. a \in Seq(X) /\ b \in Seq(X) /\ ApplyTo(p, text) \in Seq(X)
    <3>1. /\ Least(at + m, Len(text)) \in Nat /\ Least(at + m, Len(text)) <= Len(text)
          /\ Least(at + m + n, Len(text)) \in Nat /\ Least(at + m + n, Len(text)) <= Len(text)
          /\ at + m \in Nat
      BY <1>7, <2>0 DEF Least
    <3>2. a \in Seq(X)
      BY <1>7, <3>1, Between
    <3>3. b \in Seq(X)
      <4> DEFINE k == at + m
      <4> k \in Nat
        BY <3>1
      <4> HIDE DEF k
      <4>1. SubSeq(text, k + 1, Least(at + m + n, Len(text))) \in Seq(X)
        BY <3>1, Between
      <4> QED
        BY <4>1 DEF k
    <3> QED
      BY <3>2, <3>3, MadeIsText
  <2> HIDE DEF a, b
  <2>6. (ApplyTo(p, text) \o a) \o b = ApplyTo(p, text) \o (a \o b)
    BY <2>5, ConcatAssociative
  <2> QED
    BY <2>1, <2>4, <2>6
<1>9. /\ BaseLen(p) + (m + n) = BaseLen(p) + m + n
      /\ OutLen(p) + (m + n) = OutLen(p) + m + n
      /\ Volume(p) + (m + n) = Volume(p) + m + n
  BY <1>7
<1>10. Layout(Append(p, SkipComp(m + n))) = Layout(Append(q, SkipComp(n)))
  BY LayoutSplits DEF q
<1>11. Alike(X, Append(p, SkipComp(m + n)), Append(q, SkipComp(n)))
  BY <1>2, <1>3, <1>6, <1>8, <1>9, <1>10 DEF Alike
<1> QED
  BY <1>11 DEF q

LEMMA SplitDelete ==
  ASSUME NEW X, NEW p \in OperationsOver(X), NEW m \in Nat, NEW n \in Nat
  PROVE  Alike(X, Append(p, DeleteComp(m + n)), Append(Append(p, DeleteComp(m)), DeleteComp(n)))
<1> DEFINE q == Append(p, DeleteComp(m))
<1>0. m + n \in Nat
  OBVIOUS
<1>1. /\ DeleteComp(m) \in ComponentsOver(X) /\ DeleteComp(n) \in ComponentsOver(X)
      /\ DeleteComp(m + n) \in ComponentsOver(X) /\ m + n \in Nat
  BY <1>0, CountedComponents
<1>2. /\ q \in OperationsOver(X)
      /\ Append(p, DeleteComp(m + n)) \in OperationsOver(X)
  BY <1>1, Longer
<1>3. /\ BaseLen(q) = BaseLen(p) + m
      /\ OutLen(q) = OutLen(p)
      /\ Volume(q) = Volume(p) + m
      /\ BaseLen(Append(p, DeleteComp(m + n))) = BaseLen(p) + (m + n)
      /\ OutLen(Append(p, DeleteComp(m + n))) = OutLen(p)
      /\ Volume(Append(p, DeleteComp(m + n))) = Volume(p) + (m + n)
  BY <1>1, LengthsWithComponent
<1>4. \A text \in Seq(X) : /\ ApplyTo(q, text) = ApplyTo(p, text)
                           /\ ApplyTo(Append(p, DeleteComp(m + n)), text) = ApplyTo(p, text)
  BY <1>1, MadeWithDelete
<1> HIDE DEF q
<1>5. /\ Append(q, DeleteComp(n)) \in OperationsOver(X)
      /\ BaseLen(Append(q, DeleteComp(n))) = BaseLen(q) + n
      /\ OutLen(Append(q, DeleteComp(n))) = OutLen(q)
      /\ Volume(Append(q, DeleteComp(n))) = Volume(q) + n
  BY <1>1, <1>2, Longer, LengthsWithComponent
<1>6. \A text \in Seq(X) : ApplyTo(Append(q, DeleteComp(n)), text) = ApplyTo(q, text)
  BY <1>2, MadeWithDelete
<1>7. BaseLen(p) \in Nat /\ OutLen(p) \in Nat /\ Volume(p) \in Nat
  BY LengthsAreNat
<1>8. /\ BaseLen(p) + (m + n) = BaseLen(p) + m + n
      /\ Volume(p) + (m + n) = Volume(p) + m + n
  BY <1>7
<1>9. Layout(Append(p, DeleteComp(m + n))) = Layout(Append(q, DeleteComp(n)))
  BY LayoutSplits DEF q
<1>10. Alike(X, Append(p, DeleteComp(m + n)), Append(q, DeleteComp(n)))
  BY <1>2, <1>3, <1>4, <1>5, <1>6, <1>8, <1>9 DEF Alike
<1> QED
  BY <1>10 DEF q

LEMMA SplitInsert ==
  ASSUME NEW X, NEW p \in OperationsOver(X), NEW x \in Seq(X), NEW y \in Seq(X)
  PROVE  Alike(X, Append(p, InsertComp(x \o y)), Append(Append(p, InsertComp(x)), InsertComp(y)))
<1> DEFINE q == Append(p, InsertComp(x))
           xy == x \o y
<1>0. xy \in Seq(X) /\ Len(xy) = Len(x) + Len(y) /\ Len(x) \in Nat /\ Len(y) \in Nat
  BY ConcatProperties
<1> HIDE DEF xy
<1>1. /\ InsertComp(x) \in ComponentsOver(X) /\ InsertComp(y) \in ComponentsOver(X)
      /\ InsertComp(xy) \in ComponentsOver(X)
  BY <1>0, MadeComponents
<1>2. /\ q \in OperationsOver(X)
      /\ Append(p, InsertComp(xy)) \in OperationsOver(X)
  BY <1>1, Longer
<1>3. /\ BaseLen(q) = BaseLen(p)
      /\ OutLen(q) = OutLen(p) + Len(x)
      /\ Volume(q) = Volume(p) + Len(x)
  BY LengthsWithComponent
<1>4. /\ BaseLen(Append(p, InsertComp(xy))) = BaseLen(p)
      /\ OutLen(Append(p, InsertComp(xy))) = OutLen(p) + Len(xy)
      /\ Volume(Append(p, InsertComp(xy))) = Volume(p) + Len(xy)
  BY <1>0, LengthsWithComponent
<1>5. \A text \in Seq(X) : ApplyTo(q, text) = ApplyTo(p, text) \o x
  BY MadeWithInsert
<1>6. \A text \in Seq(X) : ApplyTo(Append(p, InsertComp(xy)), text) = ApplyTo(p, text) \o xy
  BY <1>0, MadeWithInsert
<1> HIDE DEF q
<1>7. /\ Append(q, InsertComp(y)) \in OperationsOver(X)
      /\ BaseLen(Append(q, InsertComp(y))) = BaseLen(q)
      /\ OutLen(Append(q, InsertComp(y))) = OutLen(q) + Len(y)
      /\ Volume(Append(q, InsertComp(y))) = Volume(q) + Len(y)
  BY <1>1, <1>2, Longer, LengthsWithComponent
<1>8. \A text \in Seq(X) : ApplyTo(Append(q, InsertComp(y)), text) = ApplyTo(q, text) \o y
  BY <1>2, MadeWithInsert
<1>9. BaseLen(p) \in Nat /\ OutLen(p) \in Nat /\ Volume(p) \in Nat
  BY LengthsAreNat
<1>10. ASSUME NEW text \in Seq(X)
       PROVE  ApplyTo(Append(p, InsertComp(xy)), text) = ApplyTo(Append(q, InsertComp(y)), text)
  <2>1. ApplyTo(p, text) \in Seq(X)
    BY MadeIsText
  <2>2. (ApplyTo(p, text) \o x) \o y = ApplyTo(p, text) \o (x \o y)
    BY <2>1, ConcatAssociative, SMTT(40)
  <2> QED
    BY <1>5, <1>6, <1>8, <2>2 DEF xy
<1>11. Layout(Append(p, InsertComp(xy))) = Layout(Append(q, InsertComp(y)))
  BY LayoutSplits DEF q, xy
<1>12. Alike(X, Append(p, InsertComp(xy)), Append(q, InsertComp(y)))
  BY <1>0, <1>2, <1>3, <1>4, <1>7, <1>9, <1>10, <1>11 DEF Alike
<1> QED
  BY <1>12 DEF q, xy
-----------------------------------------------------------------------------
(***************************************************************************)
(* The builders: merging and dropping change nothing of what an operation  *)
(* does.                                                                   *)
(***************************************************************************)
LEMMA NothingMore ==
  ASSUME NEW X, NEW p \in OperationsOver(X)
  PROVE  /\ Alike(X, Append(p, SkipComp(0)), p)
         /\ Alike(X, Append(p, DeleteComp(0)), p)
         /\ Alike(X, Append(p, InsertComp(<<>>)), p)
         /\ \A c \in ComponentsOver(X) : c.type \in Stubs => Alike(X, Append(p, c), p)
<1>1. /\ SkipComp(0) \in ComponentsOver(X) /\ DeleteComp(0) \in ComponentsOver(X)
      /\ InsertComp(<<>>) \in ComponentsOver(X)
  BY MadeComponents, EmptySeq
<1>2. BaseLen(p) \in Nat /\ OutLen(p) \in Nat /\ Volume(p) \in Nat
  BY LengthsAreNat
<1>3. Alike(X, Append(p, SkipComp(0)), p)
  <2>1. ASSUME NEW text \in Seq(X) PROVE ApplyTo(Append(p, SkipComp(0)), text) = ApplyTo(p, text)
    <3> DEFINE n == 0
               end == Least(BaseLen(p) + n, Len(text))
    <3>0. n \in Nat
      OBVIOUS
    <3>1. end \in Nat /\ end < BaseLen(p) + 1
      BY <1>2 DEF Least
    <3>2. ApplyTo(Append(p, SkipComp(0)), text) =
            ApplyTo(p, text) \o SubSeq(text, BaseLen(p) + 1, end)
      <4> HIDE DEF n
      <4>1. ApplyTo(Append(p, SkipComp(n)), text) =
              ApplyTo(p, text) \o SubSeq(text, BaseLen(p) + 1, Least(BaseLen(p) + n, Len(text)))
        BY <3>0, MadeOfLonger, ZenonT(60)
      <4> QED
        BY <4>1 DEF n
    <3> HIDE DEF end
    <3>3. SubSeq(text, BaseLen(p) + 1, end) = <<>>
      BY <1>2, <3>1, SubSeqEmpty
    <3>4. ApplyTo(p, text) \o <<>> = ApplyTo(p, text)
      BY MadeIsText, ConcatEmptySeq
    <3> QED
      BY <3>2, <3>3, <3>4
  <2>2. /\ BaseLen(Append(p, SkipComp(0))) = BaseLen(p)
        /\ OutLen(Append(p, SkipComp(0))) = OutLen(p)
        /\ Volume(Append(p, SkipComp(0))) = Volume(p)
    BY <1>2, LengthsWithComponent
  <2> QED
    BY <1>1, <2>1, <2>2, Longer, LayoutSplits DEF Alike
<1>4. Alike(X, Append(p, DeleteComp(0)), p)
  <2>1. /\ BaseLen(Append(p, DeleteComp(0))) = BaseLen(p)
        /\ OutLen(Append(p, DeleteComp(0))) = OutLen(p)
        /\ Volume(Append(p, DeleteComp(0))) = Volume(p)
    BY <1>2, LengthsWithComponent
  <2> QED
    BY <1>1, <2>1, MadeWithDelete, Longer, LayoutSplits DEF Alike
<1>5. Alike(X, Append(p, InsertComp(<<>>)), p)
  <2>1. /\ BaseLen(Append(p, InsertComp(<<>>))) = BaseLen(p)
        /\ OutLen(Append(p, InsertComp(<<>>))) = OutLen(p)
        /\ Volume(Append(p, InsertComp(<<>>))) = Volume(p)
    <3> DEFINE x == <<>>
    <3>1. x \in Seq(X) /\ Len(x) = 0
      OBVIOUS
    <3> HIDE DEF x
    <3>2. /\ BaseLen(Append(p, InsertComp(x))) = BaseLen(p)
          /\ OutLen(Append(p, InsertComp(x))) = OutLen(p) + Len(x)
          /\ Volume(Append(p, InsertComp(x))) = Volume(p) + Len(x)
      BY <3>1, LengthsWithComponent
    <3> QED
      BY <1>2, <3>1, <3>2 DEF x
  <2>2. ASSUME NEW text \in Seq(X) PROVE ApplyTo(Append(p, InsertComp(<<>>)), text) = ApplyTo(p, text)
    <3> DEFINE x == <<>>
    <3>3. x \in Seq(X)
      BY EmptySeq
    <3> HIDE DEF x
    <3>4. ApplyTo(Append(p, InsertComp(x)), text) = ApplyTo(p, text) \o x
      BY <3>3, MadeWithInsert, ZenonT(60)
    <3>1. ApplyTo(Append(p, InsertComp(<<>>)), text) = ApplyTo(p, text) \o <<>>
      BY <3>4 DEF x
    <3>2. ApplyTo(p, text) \o <<>> = ApplyTo(p, text)
      BY MadeIsText, ConcatEmptySeq
    <3> QED
      BY <3>1, <3>2
  <2> QED
    BY <1>1, <2>1, <2>2, Longer, LayoutSplits DEF Alike
<1>6. ASSUME NEW c \in ComponentsOver(X), c.type \in Stubs PROVE Alike(X, Append(p, c), p)
  <2>1. \A text \in Seq(X) : ApplyTo(Append(p, c), text) = ApplyTo(p, text)
    BY <1>6, MadeOfLonger
  <2> QED
    BY <1>6, <2>1, LengthsWithComponent, Longer, LayoutWith DEF Alike
<1> QED
  BY <1>3, <1>4, <1>5, <1>6

\* An operation and its last component.
LEMMA WithoutLast ==
  ASSUME NEW X, NEW p \in OperationsOver(X), p # <<>>
  PROVE  /\ Front(p) \in OperationsOver(X) /\ Last(p) \in ComponentsOver(X)
         /\ p = Append(Front(p), Last(p))
         /\ Last(p) = p[Len(p)] /\ Len(p) \in Nat \ {0}
         /\ Len(Front(p)) = Len(p) - 1
         /\ \A i \in 1..(Len(p) - 1) : Front(p)[i] = p[i]
<1> DEFINE C == ComponentsOver(X)
<1>1. PICK s \in Seq(C), c \in C : p = Append(s, c)
  BY SequenceEmptyOrAppend DEF OperationsOver
<1>2. Len(s) \in Nat /\ Len(p) = Len(s) + 1 /\ p[Len(p)] = c /\ \A i \in 1..Len(s) : p[i] = s[i]
  BY <1>1
<1>3. Front(p) = s
  <2>1. Front(p) = SubSeq(p, 1, Len(s))
    BY <1>2 DEF Front
  <2>2. SubSeq(p, 1, Len(s)) = s
    BY <1>1
  <2> QED
    BY <2>1, <2>2
<1> QED
  BY <1>1, <1>2, <1>3 DEF Last, OperationsOver

\* What ot_op's builders append is one of the three.
Built(X) == {SkipComp(n) : n \in Nat} \cup {DeleteComp(n) : n \in Nat}
              \cup {InsertComp(x) : x \in Seq(X)}

LEMMA BuiltIsComponent ==
  ASSUME NEW X
  PROVE  Built(X) \subseteq ComponentsOver(X)
<1>1. \A x \in Seq(X) : InsertComp(x) \in ComponentsOver(X)
  BY MadeComponents
<1> QED
  BY <1>1, CountedComponents DEF Built

LEMMA MergeAlike ==
  ASSUME NEW X, NEW s \in OperationsOver(X), NEW d \in ComponentsOver(X), NEW c \in Built(X),
         d.type = c.type
  PROVE  /\ Merge(d, c) \in Built(X)
         /\ Merge(d, c).type = c.type
         /\ ~IsEmpty(c) => ~IsEmpty(Merge(d, c))
         /\ Alike(X, Append(s, Merge(d, c)), Append(Append(s, d), c))
<1>1. CASE \E n \in Nat : c = SkipComp(n)
  <2>1. PICK n \in Nat : c = SkipComp(n)
    BY <1>1
  <2>2. d.type = "skip" /\ c.type = "skip" /\ c.count = n
    BY <2>1 DEF SkipComp
  <2>3. d = SkipComp(d.count) /\ d.count \in Nat
    BY <2>2, BuiltComponent DEF Stubs
  <2> DEFINE m == d.count
  <2>4. Merge(d, c) = [d EXCEPT !.count = m + n]
    BY <2>2 DEF Merge
  <2>5. Merge(d, c) = SkipComp(m + n)
    BY <2>3, <2>4 DEF SkipComp
  <2>6. m + n \in Nat /\ (n # 0 => m + n # 0)
    BY <2>3
  <2>7. Alike(X, Append(s, SkipComp(m + n)), Append(Append(s, SkipComp(m)), SkipComp(n)))
    BY <2>3, SplitSkip
  <2>8. \A k \in Nat : /\ IsEmpty(SkipComp(k)) <=> k = 0
                       /\ SkipComp(k).type = "skip"
                       /\ SkipComp(k) \in Built(X)
    BY DEF IsEmpty, SkipComp, Stubs, ot_comp_size, Built
  <2> QED
    BY <2>1, <2>2, <2>3, <2>5, <2>6, <2>7, <2>8
<1>2. CASE \E n \in Nat : c = DeleteComp(n)
  <2>1. PICK n \in Nat : c = DeleteComp(n)
    BY <1>2
  <2>2. d.type = "delete" /\ c.type = "delete" /\ c.count = n
    BY <2>1 DEF DeleteComp
  <2>3. d = DeleteComp(d.count) /\ d.count \in Nat
    BY <2>2, BuiltComponent DEF Stubs
  <2> DEFINE m == d.count
  <2>4. Merge(d, c) = [d EXCEPT !.count = m + n]
    BY <2>2 DEF Merge
  <2>5. Merge(d, c) = DeleteComp(m + n)
    BY <2>3, <2>4 DEF DeleteComp
  <2>6. m + n \in Nat /\ (n # 0 => m + n # 0)
    BY <2>3
  <2>7. Alike(X, Append(s, DeleteComp(m + n)), Append(Append(s, DeleteComp(m)), DeleteComp(n)))
    BY <2>3, SplitDelete
  <2>8. \A k \in Nat : /\ IsEmpty(DeleteComp(k)) <=> k = 0
                       /\ DeleteComp(k).type = "delete"
                       /\ DeleteComp(k) \in Built(X)
    BY DEF IsEmpty, DeleteComp, Stubs, ot_comp_size, Built
  <2> QED
    BY <2>1, <2>2, <2>3, <2>5, <2>6, <2>7, <2>8
<1>3. CASE \E x \in Seq(X) : c = InsertComp(x)
  <2>1. PICK x \in Seq(X) : c = InsertComp(x)
    BY <1>3
  <2>2. d.type = "insert" /\ c.type = "insert" /\ c.text = x
    BY <2>1 DEF InsertComp
  <2>3. d = InsertComp(d.text) /\ d.text \in Seq(X)
    BY <2>2, BuiltComponent DEF Stubs
  <2> DEFINE y == d.text
  <2>4. Merge(d, c) = [d EXCEPT !.text = y \o x]
    BY <2>2 DEF Merge
  <2>5. Merge(d, c) = InsertComp(y \o x)
    <3> DEFINE yx == y \o x
    <3>1. Merge(d, c) = [d EXCEPT !.text = yx]
      BY <2>4
    <3> HIDE DEF yx
    <3>2. Merge(d, c) = InsertComp(yx)
      BY <2>3, <3>1 DEF InsertComp
    <3> QED
      BY <3>2 DEF yx
  <2>6. y \o x \in Seq(X) /\ (Len(x) # 0 => Len(y \o x) # 0)
    <3>1. y \o x \in Seq(X) /\ Len(y \o x) = Len(y) + Len(x) /\ Len(y) \in Nat /\ Len(x) \in Nat
      BY <2>3, ConcatProperties
    <3> HIDE DEF y
    <3> QED
      BY <3>1
  <2>7. Alike(X, Append(s, InsertComp(y \o x)), Append(Append(s, InsertComp(y)), InsertComp(x)))
    BY <2>3, SplitInsert
  <2>8. \A z \in Seq(X) : /\ IsEmpty(InsertComp(z)) <=> Len(z) = 0
                          /\ InsertComp(z).type = "insert"
                          /\ InsertComp(z) \in Built(X)
    BY DEF IsEmpty, InsertComp, Stubs, ot_comp_size, Built
  <2> HIDE DEF y
  <2>9. d = InsertComp(y)
    BY <2>3 DEF y
  <2> QED
    BY <2>1, <2>2, <2>5, <2>6, <2>7, <2>8, <2>9
<1> QED
  BY <1>1, <1>2, <1>3 DEF Built

LEMMA AppendCompAlike ==
  ASSUME NEW X, NEW p \in OperationsOver(X), NEW c \in Built(X)
  PROVE  Alike(X, AppendComp(p, c), Append(p, c))
<1>1. c \in ComponentsOver(X)
  BY BuiltIsComponent
<1>2. Append(p, c) \in OperationsOver(X)
  BY <1>1, Longer
<1>3. CASE p # <<>> /\ Last(p).type = c.type
  <2>1. /\ Front(p) \in OperationsOver(X) /\ Last(p) \in ComponentsOver(X)
        /\ p = Append(Front(p), Last(p))
    BY <1>3, WithoutLast
  <2>2. AppendComp(p, c) = Append(Front(p), Merge(Last(p), c))
    BY <1>3 DEF AppendComp
  <2> DEFINE s == Front(p)
             d == Last(p)
  <2>3. s \in OperationsOver(X) /\ d \in ComponentsOver(X) /\ d.type = c.type
    BY <1>3, <2>1
  <2>4. p = Append(s, d) /\ AppendComp(p, c) = Append(s, Merge(d, c))
    BY <2>1, <2>2
  <2> HIDE DEF s, d
  <2>5. Alike(X, Append(s, Merge(d, c)), Append(Append(s, d), c))
    BY <2>3, MergeAlike
  <2> QED
    BY <2>4, <2>5
<1>4. CASE ~(p # <<>> /\ Last(p).type = c.type)
  <2>1. AppendComp(p, c) = Append(p, c)
    BY <1>4 DEF AppendComp
  <2> QED
    BY <1>2, <2>1, AlikeItself
<1> QED
  BY <1>3, <1>4

\* The builders do what appending the component does.
LEMMA BuildersAlike ==
  ASSUME NEW X, NEW p \in OperationsOver(X)
  PROVE  /\ \A n \in Nat : Alike(X, ot_skip(p, n), Append(p, SkipComp(n)))
         /\ \A n \in Nat : Alike(X, ot_delete(p, n), Append(p, DeleteComp(n)))
         /\ \A x \in Seq(X) : Alike(X, ot_insert(p, x), Append(p, InsertComp(x)))
<1>1. ASSUME NEW n \in Nat PROVE Alike(X, ot_skip(p, n), Append(p, SkipComp(n)))
  <2>1. CASE n = 0
    <3>1. Alike(X, Append(p, SkipComp(0)), p) /\ ot_skip(p, n) = p
      BY <2>1, NothingMore DEF ot_skip
    <3> QED
      BY <2>1, <3>1, AlikeSymmetric
  <2>2. CASE n # 0
    <3>1. SkipComp(n) \in Built(X) /\ ot_skip(p, n) = AppendComp(p, SkipComp(n))
      BY <2>2 DEF Built, ot_skip
    <3> QED
      BY <3>1, AppendCompAlike
  <2> QED
    BY <2>1, <2>2
<1>2. ASSUME NEW n \in Nat PROVE Alike(X, ot_delete(p, n), Append(p, DeleteComp(n)))
  <2>1. CASE n = 0
    <3>1. Alike(X, Append(p, DeleteComp(0)), p) /\ ot_delete(p, n) = p
      BY <2>1, NothingMore DEF ot_delete
    <3> QED
      BY <2>1, <3>1, AlikeSymmetric
  <2>2. CASE n # 0
    <3>1. DeleteComp(n) \in Built(X) /\ ot_delete(p, n) = AppendComp(p, DeleteComp(n))
      BY <2>2 DEF Built, ot_delete
    <3> QED
      BY <3>1, AppendCompAlike
  <2> QED
    BY <2>1, <2>2
<1>3. ASSUME NEW x \in Seq(X) PROVE Alike(X, ot_insert(p, x), Append(p, InsertComp(x)))
  <2>1. InsertComp(x) \in Built(X) /\ ot_insert(p, x) = AppendComp(p, InsertComp(x))
    BY DEF Built, ot_insert
  <2> QED
    BY <2>1, AppendCompAlike
<1> QED
  BY <1>1, <1>2, <1>3

\* The builders keep an operation normal.
LEMMA AppendCompNormal ==
  ASSUME NEW X, NEW p \in OperationsOver(X), IsNormal(p), NEW c \in Built(X), ~IsEmpty(c)
  PROVE  IsNormal(AppendComp(p, c))
<1>1. c \in ComponentsOver(X)
  BY BuiltIsComponent
<1>2. CASE p # <<>> /\ Last(p).type = c.type
  <2> DEFINE s == Front(p)
             d == Last(p)
             m == Merge(d, c)
             r == Append(s, m)
  <2>1. /\ s \in OperationsOver(X) /\ d \in ComponentsOver(X)
        /\ Len(p) \in Nat \ {0} /\ Len(s) = Len(p) - 1
        /\ \A i \in 1..(Len(p) - 1) : s[i] = p[i]
        /\ d = p[Len(p)] /\ d.type = c.type
    BY <1>2, WithoutLast
  <2>2. AppendComp(p, c) = r
    BY <1>2 DEF AppendComp
  <2> HIDE DEF s, d
  <2>3. m \in Built(X) /\ m.type = d.type /\ ~IsEmpty(m)
    BY <2>1, MergeAlike
  <2> HIDE DEF m
  <2>4. m \in ComponentsOver(X)
    BY <2>3, BuiltIsComponent
  <2>5. /\ Len(r) = Len(p) /\ r[Len(p)] = m
        /\ \A i \in 1..(Len(p) - 1) : r[i] = p[i]
    <3>0. s \in OperationsOver(X) /\ m \in ComponentsOver(X)
      BY <2>1, <2>4
    <3>1. /\ Len(r) = Len(s) + 1 /\ r[Len(s) + 1] = m
          /\ \A i \in 1..Len(s) : r[i] = s[i]
      BY <3>0, Longer
    <3> HIDE DEF r
    <3> QED
      BY <2>1, <3>1
  <2> HIDE DEF r
  <2>6. \A i \in 1..Len(r) : ~IsEmpty(r[i]) /\ r[i].type = p[i].type
    BY <2>1, <2>3, <2>5 DEF IsNormal
  <2>7. IsNormal(r)
    BY <2>1, <2>5, <2>6 DEF IsNormal
  <2> QED
    BY <2>2, <2>7
<1>3. CASE ~(p # <<>> /\ Last(p).type = c.type)
  <2> DEFINE r == Append(p, c)
  <2>1. AppendComp(p, c) = r
    BY <1>3 DEF AppendComp
  <2>2. /\ Len(p) \in Nat /\ Len(r) = Len(p) + 1 /\ r[Len(p) + 1] = c
        /\ \A i \in 1..Len(p) : r[i] = p[i]
    BY <1>1, Longer
  <2> HIDE DEF r
  <2>3. Len(p) # 0 => p[Len(p)].type # c.type
    <3>1. CASE p # <<>>
      BY <1>3, <3>1 DEF Last
    <3>2. CASE p = <<>>
      BY <3>2
    <3> QED
      BY <3>1, <3>2
  <2>4. \A i \in 1..Len(r) : ~IsEmpty(r[i])
    <3>1. \A i \in 1..Len(r) : i \in 1..Len(p) \/ i = Len(p) + 1
      BY <2>2
    <3> QED
      BY <2>2, <3>1 DEF IsNormal
  <2>5. ASSUME NEW i \in 1..(Len(r) - 1) PROVE r[i].type # r[i + 1].type
    <3>1. CASE i = Len(p)
      BY <2>2, <2>3, <3>1
    <3>2. CASE i # Len(p)
      <4>1. i \in 1..(Len(p) - 1) /\ i \in 1..Len(p) /\ i + 1 \in 1..Len(p)
        BY <2>2, <3>2
      <4> QED
        BY <2>2, <4>1 DEF IsNormal
    <3> QED
      BY <3>1, <3>2
  <2>6. IsNormal(r)
    BY <2>4, <2>5 DEF IsNormal
  <2> QED
    BY <2>1, <2>6
<1> QED
  BY <1>2, <1>3

\* They keep it passable, too.
LEMMA AppendCompPassable ==
  ASSUME NEW X, NEW p \in OperationsOver(X), Passable(p), NEW c \in Built(X), ~IsEmpty(c)
  PROVE  Passable(AppendComp(p, c))
<1>1. c \in ComponentsOver(X)
  BY BuiltIsComponent
<1>2. \A d \in Built(X) : d.type \notin Stubs
  BY DEF Built, SkipComp, DeleteComp, InsertComp, Stubs
<1>3. CASE p # <<>> /\ Last(p).type = c.type
  <2> DEFINE s == Front(p)
             d == Last(p)
             m == Merge(d, c)
             r == Append(s, m)
  <2>1. /\ s \in OperationsOver(X) /\ d \in ComponentsOver(X)
        /\ Len(p) \in Nat \ {0} /\ Len(s) = Len(p) - 1
        /\ \A i \in 1..(Len(p) - 1) : s[i] = p[i]
        /\ d = p[Len(p)] /\ d.type = c.type
    BY <1>3, WithoutLast
  <2>2. AppendComp(p, c) = r
    BY <1>3 DEF AppendComp
  <2> HIDE DEF s, d
  <2>3. m \in Built(X) /\ ~IsEmpty(m)
    BY <2>1, MergeAlike
  <2> HIDE DEF m
  <2>4. m \in ComponentsOver(X)
    BY <2>3, BuiltIsComponent
  <2>5. s \in OperationsOver(X) /\ m \in ComponentsOver(X)
    BY <2>1, <2>4
  <2>6. /\ Len(r) = Len(s) + 1 /\ r[Len(s) + 1] = m
        /\ \A i \in 1..Len(s) : r[i] = s[i]
    BY <2>5, Longer
  <2> HIDE DEF r
  <2>7. \A i \in 1..Len(r) : i \in 1..(Len(p) - 1) \/ i = Len(p)
    BY <2>1, <2>6
  <2>8. \A i \in 1..(Len(p) - 1) : r[i].type \notin Stubs /\ ~IsEmpty(r[i])
    BY <2>1, <2>6 DEF Passable
  <2>9. r[Len(p)].type \notin Stubs /\ ~IsEmpty(r[Len(p)])
    BY <1>2, <2>1, <2>3, <2>6
  <2>10. Passable(r)
    BY <2>7, <2>8, <2>9 DEF Passable
  <2> QED
    BY <2>2, <2>10
<1>4. CASE ~(p # <<>> /\ Last(p).type = c.type)
  <2> DEFINE r == Append(p, c)
  <2>1. AppendComp(p, c) = r
    BY <1>4 DEF AppendComp
  <2>2. /\ Len(p) \in Nat /\ Len(r) = Len(p) + 1 /\ r[Len(p) + 1] = c
        /\ \A i \in 1..Len(p) : r[i] = p[i]
    BY <1>1, Longer
  <2> HIDE DEF r
  <2>3. \A i \in 1..Len(r) : i \in 1..Len(p) \/ i = Len(p) + 1
    BY <2>2
  <2>4. Passable(r)
    BY <1>2, <2>2, <2>3 DEF Passable
  <2> QED
    BY <2>1, <2>4
<1> QED
  BY <1>3, <1>4

\* What the loops make of operations they can pass.
WellMade(p) == IsNormal(p) /\ Passable(p)

LEMMA NothingIsWellMade == WellMade(<<>>)
BY DEF WellMade, IsNormal, Passable

LEMMA BuildersWellMade ==
  ASSUME NEW X, NEW p \in OperationsOver(X), WellMade(p)
  PROVE  /\ \A n \in Nat : WellMade(ot_skip(p, n)) /\ WellMade(ot_delete(p, n))
         /\ \A x \in Seq(X) : Len(x) # 0 => WellMade(ot_insert(p, x))
<1>1. /\ \A n \in Nat : /\ SkipComp(n) \in Built(X) /\ DeleteComp(n) \in Built(X)
                        /\ n # 0 => ~IsEmpty(SkipComp(n)) /\ ~IsEmpty(DeleteComp(n))
      /\ \A x \in Seq(X) : InsertComp(x) \in Built(X) /\ (Len(x) # 0 => ~IsEmpty(InsertComp(x)))
  BY DEF Built, IsEmpty, SkipComp, DeleteComp, InsertComp, ot_comp_size
<1>2. \A c \in Built(X) : ~IsEmpty(c) => WellMade(AppendComp(p, c))
  BY AppendCompNormal, AppendCompPassable DEF WellMade
<1> QED
  BY <1>1, <1>2 DEF ot_skip, ot_delete, ot_insert
-----------------------------------------------------------------------------
(***************************************************************************)
(* The first components of an operation.                                   *)
(***************************************************************************)
LEMMA Prefix ==
  ASSUME NEW X, NEW p \in OperationsOver(X), NEW k \in 0..Len(p)
  PROVE  /\ SubSeq(p, 1, k) \in OperationsOver(X) /\ Len(SubSeq(p, 1, k)) = k
         /\ \A i \in 1..k : SubSeq(p, 1, k)[i] = p[i]
<1>1. Len(p) \in Nat /\ k \in Int /\ \A i \in 1..k : p[i] \in ComponentsOver(X)
  BY DEF OperationsOver
<1>2. /\ SubSeq(p, 1, k) \in Seq(ComponentsOver(X))
      /\ Len(SubSeq(p, 1, k)) = IF 1 <= k THEN k - 1 + 1 ELSE 0
      /\ \A i \in 1..(k - 1 + 1) : SubSeq(p, 1, k)[i] = p[1 + i - 1]
  BY <1>1, SubSeqProperties
<1> HIDE DEF OperationsOver
<1> QED
  BY <1>1, <1>2 DEF OperationsOver

LEMMA NextPrefix ==
  ASSUME NEW X, NEW p \in OperationsOver(X), NEW k \in Nat, k < Len(p)
  PROVE  SubSeq(p, 1, k + 1) = Append(SubSeq(p, 1, k), p[k + 1])
<1> DEFINE s == SubSeq(p, 1, k)
           t == SubSeq(p, 1, k + 1)
<1>1. Len(p) \in Nat /\ k \in 0..Len(p) /\ k + 1 \in 0..Len(p) /\ k + 1 \in 1..Len(p)
  BY DEF OperationsOver
<1>2. p[k + 1] \in ComponentsOver(X)
  BY <1>1 DEF OperationsOver
<1>3. s \in OperationsOver(X) /\ Len(s) = k /\ \A i \in 1..k : s[i] = p[i]
  BY <1>1, Prefix
<1>4. t \in OperationsOver(X) /\ Len(t) = k + 1 /\ \A i \in 1..(k + 1) : t[i] = p[i]
  BY <1>1, Prefix
<1> HIDE DEF s, t
<1> DEFINE r == Append(s, p[k + 1])
<1>5. /\ r \in OperationsOver(X) /\ Len(r) = k + 1 /\ r[k + 1] = p[k + 1]
      /\ \A i \in 1..k : r[i] = s[i]
  BY <1>2, <1>3, Longer
<1> HIDE DEF r
<1>6. \A i \in 1..Len(t) : t[i] = r[i]
  BY <1>3, <1>4, <1>5
<1>7. t = r
  BY <1>4, <1>5, <1>6, SeqEqual DEF OperationsOver
<1> QED
  BY <1>7 DEF r, s, t

LEMMA WholePrefix ==
  ASSUME NEW X, NEW p \in OperationsOver(X)
  PROVE  SubSeq(p, 1, Len(p)) = p /\ SubSeq(p, 1, 0) = <<>>
<1>1. SubSeq(p, 1, Len(p)) = p
  BY SubSeqFull DEF OperationsOver
<1>2. SubSeq(p, 1, 0) = <<>>
  BY SubSeqEmpty
<1> QED
  BY <1>1, <1>2

\* The sizes of the first components grow with their number.
LEMMA WeightIsNat ==
  ASSUME NEW X, NEW c \in ComponentsOver(X), NEW types, types \cap Stubs = {}
  PROVE  Weight(c, types) \in Nat
BY SizeOf DEF Weight

LEMMA PrefixGrows ==
  ASSUME NEW X, NEW p \in OperationsOver(X), NEW types, types \cap Stubs = {},
         NEW k \in 0..Len(p)
  PROVE  SizeIf(SubSeq(p, 1, k), types) <= SizeIf(p, types)
<1> DEFINE Size(m) == SizeIf(SubSeq(p, 1, m), types)
           T == {i \in Nat : k + i <= Len(p) => Size(k) <= Size(k + i)}
<1>1. Len(p) \in Nat /\ k \in Nat /\ Len(p) - k \in Nat
  BY DEF OperationsOver
<1>2. \A m \in 0..Len(p) : Size(m) \in Nat
  BY Prefix, SizeIsNat
<1>3. \A m \in Nat : m < Len(p) => Size(m) <= Size(m + 1)
  <2> SUFFICES ASSUME NEW m \in Nat, m < Len(p) PROVE Size(m) <= Size(m + 1)
    OBVIOUS
  <2>1. /\ m \in 0..Len(p) /\ m + 1 \in 1..Len(p) /\ p[m + 1] \in ComponentsOver(X)
        /\ SubSeq(p, 1, m) \in OperationsOver(X)
    <3>1. m \in 0..Len(p) /\ m + 1 \in 1..Len(p)
      BY <1>1
    <3> QED
      BY <3>1, Prefix DEF OperationsOver
  <2> DEFINE s == SubSeq(p, 1, m)
             c == p[m + 1]
  <2>2. SubSeq(p, 1, m + 1) = Append(s, c)
    BY NextPrefix
  <2>3. s \in OperationsOver(X) /\ c \in ComponentsOver(X)
    BY <2>1
  <2> HIDE DEF s, c
  <2>4. SizeIf(Append(s, c), types) = SizeIf(s, types) + Weight(c, types)
    BY <2>3, SizeOfLonger
  <2>5. SizeIf(s, types) \in Nat /\ Weight(c, types) \in Nat
    BY <2>3, SizeIsNat, WeightIsNat
  <2>6. SizeIf(s, types) <= SizeIf(Append(s, c), types)
    BY <2>4, <2>5
  <2> QED
    BY <2>2, <2>6 DEF s
<1> HIDE DEF Size
<1>4. 0 \in T
  BY <1>1, <1>2
<1>5. ASSUME NEW i \in Nat, i \in T PROVE i + 1 \in T
  <2> SUFFICES ASSUME k + (i + 1) <= Len(p) PROVE Size(k) <= Size(k + (i + 1))
    OBVIOUS
  <2>1. k + i \in 0..Len(p) /\ k + i + 1 \in 0..Len(p) /\ k + (i + 1) = k + i + 1
        /\ k \in 0..Len(p) /\ k + i < Len(p)
    BY <1>1
  <2>2. Size(k) <= Size(k + i) /\ Size(k + i) <= Size(k + i + 1)
    BY <1>3, <1>5, <2>1
  <2>3. Size(k) \in Nat /\ Size(k + i) \in Nat /\ Size(k + i + 1) \in Nat
    BY <1>2, <2>1
  <2>4. Size(k) <= Size(k + i + 1)
    BY <2>2, <2>3
  <2> QED
    BY <2>1, <2>4
<1>6. Nat \subseteq T
  <2> HIDE DEF T
  <2> QED
    BY <1>4, <1>5, SetInduction
<1>7. Len(p) - k \in T /\ k + (Len(p) - k) = Len(p)
  BY <1>1, <1>6, SMTT(40)
<1>8. Size(k) <= Size(Len(p))
  BY <1>1, <1>7
<1> QED
  BY <1>8, WholePrefix DEF Size

-----------------------------------------------------------------------------
(***************************************************************************)
(* What lies in front of an iterator.                                      *)
(***************************************************************************)
Part(c, from, n) ==
  CASE c.type = "skip" -> SkipComp(n)
    [] c.type = "insert" -> InsertComp(SubSeq(c.text, from + 1, from + n))
    [] c.type = "delete" -> DeleteComp(n)

LEMMA PieceCases ==
  ASSUME NEW X, NEW c \in ComponentsOver(X)
  PROVE  /\ c.type = "skip" => /\ c = SkipComp(c.count) /\ c.count \in Nat
                               /\ ot_comp_size(c) = c.count
                               /\ \A n : Piece(c, n) = SkipComp(n)
                               /\ \A m, n : Part(c, m, n) = SkipComp(n)
         /\ c.type = "delete" => /\ c = DeleteComp(c.count) /\ c.count \in Nat
                                 /\ ot_comp_size(c) = c.count
                                 /\ \A n : Piece(c, n) = DeleteComp(n)
                                 /\ \A m, n : Part(c, m, n) = DeleteComp(n)
         /\ c.type = "insert" => /\ c = InsertComp(c.text) /\ c.text \in Seq(X)
                                 /\ ot_comp_size(c) = Len(c.text)
                                 /\ \A n : Piece(c, n) = InsertComp(SubSeq(c.text, 1, n))
                                 /\ \A m, n : Part(c, m, n) = InsertComp(SubSeq(c.text, m + 1, m + n))
         /\ c.type \in Stubs => \A n : Piece(c, n) = c
         /\ c.type \in {"skip", "delete", "insert"} \cup Stubs
<1>1. CASE c.type = "skip"
  BY <1>1, BuiltComponent DEF Stubs, Piece, Part, ot_comp_size
<1>2. CASE c.type = "delete"
  BY <1>2, BuiltComponent DEF Stubs, Piece, Part, ot_comp_size
<1>3. CASE c.type = "insert"
  BY <1>3, BuiltComponent DEF Stubs, Piece, Part, ot_comp_size
<1>4. CASE c.type \in Stubs
  BY <1>4 DEF Stubs, Piece
<1> QED
  BY <1>1, <1>2, <1>3, <1>4, BuiltComponent

LEMMA PieceIsComponent ==
  ASSUME NEW X, NEW c \in ComponentsOver(X), NEW n \in Nat,
         c.type \notin Stubs => n <= ot_comp_size(c)
  PROVE  /\ Piece(c, n) \in ComponentsOver(X)
         /\ c.type \notin Stubs => Piece(c, ot_comp_size(c)) = c
<1>1. CASE c.type \in {"skip", "delete"}
  BY <1>1, PieceCases, CountedComponents
<1>2. CASE c.type = "insert"
  <2>1. /\ c = InsertComp(c.text) /\ c.text \in Seq(X) /\ ot_comp_size(c) = Len(c.text)
        /\ \A k : Piece(c, k) = InsertComp(SubSeq(c.text, 1, k))
    BY <1>2, PieceCases
  <2>2. SubSeq(c.text, 1, Len(c.text)) = c.text
    BY <2>1, SubSeqFull
  <2>3. SubSeq(c.text, 0 + 1, n) \in Seq(X)
    <3>1. n <= Len(c.text)
      BY <1>2, <2>1 DEF Stubs
    <3> QED
      BY <2>1, <3>1, Between
  <2>4. InsertComp(SubSeq(c.text, 1, n)) \in ComponentsOver(X)
    <3> DEFINE x == SubSeq(c.text, 1, n)
    <3>1. x \in Seq(X)
      BY <2>3
    <3> HIDE DEF x
    <3>2. InsertComp(x) \in ComponentsOver(X)
      BY <3>1, MadeComponents
    <3> QED
      BY <3>2 DEF x
  <2> QED
    BY <2>1, <2>2, <2>4
<1>3. CASE c.type \in Stubs
  BY <1>3, PieceCases
<1> QED
  BY <1>1, <1>2, <1>3, PieceCases

LEMMA PieceGrows ==
  ASSUME NEW X, NEW s \in OperationsOver(X), NEW c \in ComponentsOver(X), c.type \notin Stubs,
         NEW m \in Nat, NEW n \in Nat, m + n <= ot_comp_size(c)
  PROVE  /\ Part(c, m, n) \in ComponentsOver(X)
         /\ Alike(X, Append(s, Piece(c, m + n)), Append(Append(s, Piece(c, m)), Part(c, m, n)))
<1>1. CASE c.type = "skip"
  <2>1. /\ Piece(c, m + n) = SkipComp(m + n) /\ Piece(c, m) = SkipComp(m)
        /\ Part(c, m, n) = SkipComp(n)
    BY <1>1, PieceCases
  <2> QED
    BY <2>1, SplitSkip, CountedComponents
<1>2. CASE c.type = "delete"
  <2>1. /\ Piece(c, m + n) = DeleteComp(m + n) /\ Piece(c, m) = DeleteComp(m)
        /\ Part(c, m, n) = DeleteComp(n)
    BY <1>2, PieceCases
  <2> QED
    BY <2>1, SplitDelete, CountedComponents
<1>3. CASE c.type = "insert"
  <2> DEFINE t == c.text
             x == SubSeq(t, 1, m)
             y == SubSeq(t, m + 1, m + n)
  <2>1. /\ t \in Seq(X) /\ Len(t) \in Nat /\ m + n <= Len(t)
        /\ Piece(c, m + n) = InsertComp(SubSeq(t, 1, m + n)) /\ Piece(c, m) = InsertComp(x)
        /\ Part(c, m, n) = InsertComp(y)
    BY <1>3, PieceCases
  <2>2. x \o y = SubSeq(t, 1, m + n)
    <3>1. 1 \in 1..(Len(t) + 1) /\ m \in (1 - 1)..Len(t) /\ m + n \in m..Len(t)
      BY <2>1
    <3> HIDE DEF t
    <3> QED
      BY <2>1, <3>1, ConcatAdjacentSubSeq
  <2>3. x \in Seq(X) /\ y \in Seq(X)
    <3>1. m <= Len(t) /\ m + n \in Nat /\ 0 \in Nat
      BY <2>1
    <3> HIDE DEF t
    <3>2. SubSeq(t, 0 + 1, m) \in Seq(X)
      BY <2>1, <3>1, Between
    <3>3. SubSeq(t, m + 1, m + n) \in Seq(X)
      BY <2>1, <3>1, Between
    <3> QED
      BY <3>2, <3>3
  <2> HIDE DEF x, y
  <2>4. Alike(X, Append(s, InsertComp(x \o y)), Append(Append(s, InsertComp(x)), InsertComp(y)))
    BY <2>3, SplitInsert
  <2> QED
    BY <2>1, <2>2, <2>3, <2>4, MadeComponents
<1> QED
  BY <1>1, <1>2, <1>3, PieceCases

LEMMA PieceOfNothing ==
  ASSUME NEW X, NEW s \in OperationsOver(X), NEW c \in ComponentsOver(X)
  PROVE  Alike(X, Append(s, Piece(c, 0)), s)
<1>1. CASE c.type = "skip"
  BY <1>1, PieceCases, NothingMore
<1>2. CASE c.type = "delete"
  BY <1>2, PieceCases, NothingMore
<1>3. CASE c.type = "insert"
  <2>1. Piece(c, 0) = InsertComp(SubSeq(c.text, 1, 0))
    BY <1>3, PieceCases
  <2>2. SubSeq(c.text, 1, 0) = <<>>
    BY SubSeqEmpty
  <2> QED
    BY <2>1, <2>2, NothingMore
<1>4. CASE c.type \in Stubs
  BY <1>4, PieceCases, NothingMore
<1> QED
  BY <1>1, <1>2, <1>3, <1>4, PieceCases
-----------------------------------------------------------------------------
(***************************************************************************)
(* Where an iterator stands: inside a component, or at the beginning of    *)
(* one it cannot pass; the components behind it it has passed.             *)
(***************************************************************************)
Iterators == [pos : Nat, offset : Nat, next : BOOLEAN]

CanPass(c) == c.type \notin Stubs /\ ~IsEmpty(c)

Placed(p, it) ==
  /\ it \in Iterators
  /\ it.next => /\ it.pos \in 1..Len(p)
                /\ \/ it.offset = 0
                   \/ p[it.pos].type \notin Stubs /\ it.offset < ot_comp_size(p[it.pos])
  /\ \A i \in 1..Finished(p, it) : CanPass(p[i])

LEMMA ComponentAt ==
  ASSUME NEW X, NEW p \in OperationsOver(X), NEW it, Placed(p, it), it.next
  PROVE  /\ it.pos \in 1..Len(p) /\ Len(p) \in Nat /\ p[it.pos] \in ComponentsOver(X)
         /\ it.offset \in Nat /\ it = [pos |-> it.pos, offset |-> it.offset, next |-> TRUE]
         /\ Finished(p, it) = it.pos - 1
         /\ p[it.pos].type \notin Stubs => /\ ot_comp_size(p[it.pos]) \in Nat
                                           /\ it.offset <= ot_comp_size(p[it.pos])
                                           /\ Left(p, it) \in Nat
                                           /\ it.offset + Left(p, it) = ot_comp_size(p[it.pos])
         /\ CanPass(p[it.pos]) => Left(p, it) # 0
         /\ p[it.pos].type \notin Stubs /\ Left(p, it) # 0 => CanPass(p[it.pos])
         /\ p[it.pos].type \in Stubs => it.offset = 0
<1> DEFINE c == p[it.pos]
<1>1. /\ it.pos \in 1..Len(p) /\ Len(p) \in Nat /\ c \in ComponentsOver(X)
      /\ it.offset = 0 \/ (c.type \notin Stubs /\ it.offset < ot_comp_size(c))
      /\ it.offset \in Nat /\ it = [pos |-> it.pos, offset |-> it.offset, next |-> TRUE]
  BY DEF Placed, OperationsOver, Iterators
<1>2. c.type \notin Stubs => ot_comp_size(c) \in Nat
  BY <1>1, SizeOf
<1> HIDE DEF c
<1>3. Left(p, it) = ot_comp_size(c) - it.offset
  BY DEF Left, c
<1>4. CanPass(c) => c.type \notin Stubs /\ ot_comp_size(c) # 0
  BY DEF CanPass, IsEmpty
<1>5. CanPass(c) => Left(p, it) # 0
  BY <1>1, <1>2, <1>3, <1>4
<1>6. c.type \notin Stubs => /\ it.offset <= ot_comp_size(c) /\ Left(p, it) \in Nat
                             /\ it.offset + Left(p, it) = ot_comp_size(c)
  BY <1>1, <1>2, <1>3
<1>7. c.type \notin Stubs /\ Left(p, it) # 0 => CanPass(c)
  BY <1>1, <1>2, <1>3 DEF CanPass, IsEmpty
<1>8. c.type \in Stubs => it.offset = 0
  BY <1>1
<1> QED
  BY <1>1, <1>2, <1>5, <1>6, <1>7, <1>8 DEF c, Finished

LEMMA SkipCases ==
  ASSUME NEW p, NEW it \in Iterators, NEW n \in Nat
  PROVE  LET size == ot_comp_size(p[it.pos])
             moved == ot_iter_skip(p, it, n)
         IN  \/ n = 0 /\ moved = it
             \/ /\ n # 0 /\ it.offset + n < size
                /\ moved = [pos |-> it.pos, offset |-> it.offset + n, next |-> it.next]
             \/ /\ n # 0 /\ ~(it.offset + n < size) /\ it.pos < Len(p)
                /\ moved = [pos |-> it.pos + 1, offset |-> 0, next |-> it.next]
             \/ /\ n # 0 /\ ~(it.offset + n < size) /\ ~(it.pos < Len(p))
                /\ moved = [pos |-> it.pos, offset |-> it.offset, next |-> FALSE]
<1> DEFINE size == ot_comp_size(p[it.pos])
           moved == ot_iter_skip(p, it, n)
<1>1. it = [pos |-> it.pos, offset |-> it.offset, next |-> it.next]
  BY DEF Iterators
<1>2. CASE n = 0
  BY <1>2 DEF ot_iter_skip
<1>3. CASE n # 0 /\ it.offset + n < size
  <2>1. moved = [it EXCEPT !.offset = @ + n]
    BY <1>3 DEF ot_iter_skip
  <2> QED
    BY <1>1, <1>3, <2>1
<1>4. CASE n # 0 /\ ~(it.offset + n < size) /\ it.pos < Len(p)
  <2>1. moved = [it EXCEPT !.pos = @ + 1, !.offset = 0]
    BY <1>4 DEF ot_iter_skip
  <2> QED
    BY <1>1, <1>4, <2>1
<1>5. CASE n # 0 /\ ~(it.offset + n < size) /\ ~(it.pos < Len(p))
  <2>1. moved = [it EXCEPT !.next = FALSE]
    BY <1>5 DEF ot_iter_skip
  <2> QED
    BY <1>1, <1>5, <2>1
<1> QED
  BY <1>2, <1>3, <1>4, <1>5

LEMMA ConsumedIsOperation ==
  ASSUME NEW X, NEW p \in OperationsOver(X), NEW it, Placed(p, it)
  PROVE  Consumed(p, it) \in OperationsOver(X)
<1>1. CASE it.next
  <2> DEFINE s == SubSeq(p, 1, it.pos - 1)
             c == Piece(p[it.pos], it.offset)
  <2>1. it.pos - 1 \in 0..Len(p)
    BY <1>1, ComponentAt
  <2>2. s \in OperationsOver(X)
    BY <2>1, Prefix
  <2>3. c \in ComponentsOver(X)
    BY <1>1, ComponentAt, PieceIsComponent
  <2>4. Consumed(p, it) = Append(s, c)
    BY <1>1 DEF Consumed
  <2> HIDE DEF s, c
  <2> QED
    BY <2>2, <2>3, <2>4, Longer
<1>2. CASE ~it.next
  BY <1>2 DEF Consumed
<1> QED
  BY <1>1, <1>2

\* An iterator that starts has nothing behind it.
LEMMA ConsumedAtStart ==
  ASSUME NEW X, NEW p \in OperationsOver(X)
  PROVE  /\ Placed(p, ot_iter_next(p))
         /\ Alike(X, Consumed(p, ot_iter_next(p)), <<>>)
<1> DEFINE it == ot_iter_next(p)
<1>1. it = [pos |-> 1, offset |-> 0, next |-> p # <<>>]
  BY DEF ot_iter_next
<1>2. <<>> \in OperationsOver(X)
  BY EmptyOperation
<1> HIDE DEF it
<1>5. it.pos = 1 /\ it.offset = 0 /\ (it.next <=> p # <<>>) /\ it \in Iterators
  BY <1>1 DEF Iterators
<1>3. CASE p = <<>>
  <2>1. Placed(p, it)
    BY <1>3, <1>5 DEF Placed, Finished
  <2>2. Consumed(p, it) = <<>>
    BY <1>3, <1>5 DEF Consumed
  <2> QED
    BY <1>2, <2>1, <2>2, AlikeItself DEF it
<1>4. CASE p # <<>>
  <2>1. Len(p) \in Nat \ {0} /\ p[1] \in ComponentsOver(X)
    BY <1>4, WithoutLast DEF OperationsOver
  <2>2. Placed(p, it)
    BY <1>4, <1>5, <2>1 DEF Placed, Finished
  <2>3. Consumed(p, it) = Append(SubSeq(p, 1, 0), Piece(p[1], 0))
    BY <1>4, <1>5 DEF Consumed
  <2>4. Consumed(p, it) = Append(<<>>, Piece(p[1], 0))
    BY <2>3, WholePrefix
  <2>5. Alike(X, Append(<<>>, Piece(p[1], 0)), <<>>)
    BY <1>2, <2>1, PieceOfNothing
  <2> QED
    BY <2>2, <2>4, <2>5 DEF it
<1> QED
  BY <1>3, <1>4

\* An iterator that moves has what it moved over behind it.
LEMMA ConsumedMoves ==
  ASSUME NEW X, NEW p \in OperationsOver(X), NEW it, Placed(p, it), it.next,
         p[it.pos].type \notin Stubs, NEW n \in 0..Left(p, it)
  PROVE  /\ Placed(p, ot_iter_skip(p, it, n))
         /\ Part(p[it.pos], it.offset, n) \in ComponentsOver(X)
         /\ Alike(X, Consumed(p, ot_iter_skip(p, it, n)),
                     Append(Consumed(p, it), Part(p[it.pos], it.offset, n)))
<1> DEFINE c == p[it.pos]
           k == it.pos - 1
           s == SubSeq(p, 1, k)
           m == it.offset
           size == ot_comp_size(c)
           moved == ot_iter_skip(p, it, n)
<1>1. /\ it.pos \in 1..Len(p) /\ Len(p) \in Nat /\ c \in ComponentsOver(X) /\ m \in Nat
      /\ it = [pos |-> it.pos, offset |-> m, next |-> TRUE]
      /\ size \in Nat /\ m <= size /\ Left(p, it) \in Nat /\ m + Left(p, it) = size
      /\ Finished(p, it) = k /\ k \in 0..Len(p) /\ k < Len(p)
      /\ it \in Iterators /\ n \in Nat /\ m + n <= size
  <2>1. /\ it.pos \in 1..Len(p) /\ Len(p) \in Nat /\ c \in ComponentsOver(X) /\ m \in Nat
        /\ it = [pos |-> it.pos, offset |-> m, next |-> TRUE]
        /\ size \in Nat /\ m <= size /\ Left(p, it) \in Nat /\ m + Left(p, it) = size
        /\ Finished(p, it) = k
    BY ComponentAt
  <2>2. it \in Iterators
    BY DEF Placed
  <2> HIDE DEF size, m
  <2> QED
    BY <2>1, <2>2
<1>2. s \in OperationsOver(X)
  BY <1>1, Prefix
<1>3. SubSeq(p, 1, it.pos) = Append(s, c)
  <2>1. k \in Nat /\ k + 1 = it.pos
    BY <1>1
  <2> HIDE DEF k
  <2>2. SubSeq(p, 1, k + 1) = Append(SubSeq(p, 1, k), p[k + 1])
    BY <1>1, <2>1, NextPrefix
  <2> QED
    BY <2>1, <2>2
<1>4. Consumed(p, it) = Append(s, Piece(c, m))
  BY DEF Consumed
<1>5. /\ Part(c, m, n) \in ComponentsOver(X)
      /\ Alike(X, Append(s, Piece(c, m + n)), Append(Append(s, Piece(c, m)), Part(c, m, n)))
  <2> HIDE DEF s, c, m
  <2> QED
    BY <1>1, <1>2, PieceGrows DEF c
<1>6. /\ \A i \in 1..k : CanPass(p[i])
      /\ c.type \notin Stubs
  BY <1>1 DEF Placed
<1>7. SUFFICES Placed(p, moved) /\ Alike(X, Consumed(p, moved), Append(s, Piece(c, m + n)))
  BY <1>4, <1>5, AlikeTransitive
<1>8. /\ Piece(c, size) = c
      /\ Piece(c, m + n) \in ComponentsOver(X)
  BY <1>1, <1>6, PieceIsComponent, SMTT(40)
<1>9. Append(s, Piece(c, m + n)) \in OperationsOver(X)
  <2> HIDE DEF s, c, m
  <2> QED
    BY <1>2, <1>8, Longer
<1>10. \/ n = 0 /\ moved = it
       \/ /\ n # 0 /\ m + n < size
          /\ moved = [pos |-> it.pos, offset |-> m + n, next |-> it.next]
       \/ /\ n # 0 /\ ~(m + n < size) /\ it.pos < Len(p)
          /\ moved = [pos |-> it.pos + 1, offset |-> 0, next |-> it.next]
       \/ /\ n # 0 /\ ~(m + n < size) /\ ~(it.pos < Len(p))
          /\ moved = [pos |-> it.pos, offset |-> m, next |-> FALSE]
  BY <1>1, SkipCases
<1> HIDE DEF moved, s
<1>11. CASE n = 0 /\ moved = it
  <2>1. m + n = m
    BY <1>1, <1>11
  <2>2. Consumed(p, moved) = Append(s, Piece(c, m + n))
    BY <1>4, <1>11, <2>1
  <2> QED
    BY <1>9, <1>11, <2>2, AlikeItself
<1>12. CASE m + n < size /\ moved = [pos |-> it.pos, offset |-> m + n, next |-> it.next]
  <2>1. moved.pos = it.pos /\ moved.offset = m + n /\ moved.next /\ moved \in Iterators
    BY <1>1, <1>12 DEF Iterators
  <2>2. Consumed(p, moved) = Append(s, Piece(c, m + n))
    BY <2>1 DEF Consumed, s
  <2>3. Finished(p, moved) = k
    BY <2>1 DEF Finished
  <2>4. Placed(p, moved)
    BY <1>1, <1>6, <1>12, <2>1, <2>3 DEF Placed
  <2> QED
    BY <1>9, <2>2, <2>4, AlikeItself
<1>13. ASSUME ~(m + n < size), n # 0
       PROVE  Append(s, Piece(c, m + n)) = SubSeq(p, 1, it.pos) /\ CanPass(c)
  <2>1. m + n = size /\ size # 0
    BY <1>1, <1>13
  <2>2. Piece(c, m + n) = c
    BY <1>8, <2>1
  <2> QED
    BY <1>3, <1>6, <2>1, <2>2 DEF CanPass, IsEmpty
<1>14. CASE /\ n # 0 /\ ~(m + n < size) /\ it.pos < Len(p)
            /\ moved = [pos |-> it.pos + 1, offset |-> 0, next |-> it.next]
  <2>1. moved.pos = it.pos + 1 /\ moved.offset = 0 /\ moved.next /\ moved \in Iterators
    BY <1>1, <1>14 DEF Iterators
  <2>2. it.pos + 1 \in 1..Len(p) /\ (it.pos + 1) - 1 = it.pos /\ it.pos \in 0..Len(p)
    BY <1>1, <1>14
  <2> DEFINE d == p[it.pos + 1]
             r == SubSeq(p, 1, it.pos)
  <2>3. Consumed(p, moved) = Append(r, Piece(d, 0))
    BY <2>1, <2>2 DEF Consumed
  <2>4. d \in ComponentsOver(X) /\ r \in OperationsOver(X)
    BY <2>2, Prefix DEF OperationsOver
  <2>5. r = Append(s, Piece(c, m + n)) /\ CanPass(c)
    BY <1>13, <1>14
  <2> HIDE DEF d, r
  <2>6. Alike(X, Append(r, Piece(d, 0)), r)
    BY <2>4, PieceOfNothing
  <2>7. Finished(p, moved) = it.pos
    BY <2>1, <2>2 DEF Finished
  <2>8. \A i \in 1..it.pos : i \in 1..k \/ i = it.pos
    BY <1>1
  <2>9. Placed(p, moved)
    BY <1>6, <2>1, <2>2, <2>5, <2>7, <2>8 DEF Placed
  <2> QED
    BY <2>3, <2>5, <2>6, <2>9
<1>15. CASE /\ n # 0 /\ ~(m + n < size) /\ ~(it.pos < Len(p))
            /\ moved = [pos |-> it.pos, offset |-> m, next |-> FALSE]
  <2>1. moved.pos = it.pos /\ moved.offset = m /\ ~moved.next /\ moved \in Iterators
    BY <1>1, <1>15 DEF Iterators
  <2>2. it.pos = Len(p)
    BY <1>1, <1>15
  <2>3. Consumed(p, moved) = p
    BY <2>1 DEF Consumed
  <2>4. p = Append(s, Piece(c, m + n)) /\ CanPass(c)
    BY <1>13, <1>15, <2>2, WholePrefix
  <2>5. Finished(p, moved) = it.pos
    BY <2>1, <2>2 DEF Finished
  <2>6. \A i \in 1..it.pos : i \in 1..k \/ i = it.pos
    BY <1>1
  <2>7. Placed(p, moved)
    BY <1>6, <2>1, <2>4, <2>5, <2>6 DEF Placed
  <2> QED
    BY <2>3, <2>4, <2>7, AlikeItself
<1> QED
  BY <1>10, <1>11, <1>12, <1>14, <1>15
-----------------------------------------------------------------------------
(***************************************************************************)
(* The text an operation inserts is the one it makes of no text.           *)
(***************************************************************************)
Joined(text, c) == IF c.type = "insert" THEN text \o c.text ELSE text

LEMMA JoinedIsText ==
  ASSUME NEW X, NEW c \in ComponentsOver(X), NEW text \in Seq(X)
  PROVE  Joined(text, c) \in Seq(X)
<1>1. c.type = "insert" => c.text \in Seq(X)
  BY ComponentCases DEF Stubs
<1> QED
  BY <1>1 DEF Joined

LEMMA SnapshotFold ==
  ASSUME NEW X, NEW comps \in OperationsOver(X)
  PROVE  \E f \in [0..Len(comps) -> Seq(X)] :
           /\ f[0] = <<>>
           /\ \A i \in 1..Len(comps) : f[i] = Joined(f[i - 1], comps[i])
           /\ ot_snapshot(comps) = f[Len(comps)]
<1> DEFINE N == Len(comps)
           Y == Seq(X)
           base == <<>>
           step == [i \in 1..N |-> [s \in Y |-> Joined(s, comps[i])]]
           Is(h) == h = [s \in SUBSET (1..N) |->
                           IF s = {} THEN base ELSE Joined(h[s \ {Max(s)}], comps[Max(s)])]
           iter == CHOOSE h : Is(h)
<1>1. N \in Nat /\ DOMAIN comps = 1..N /\ \A i \in 1..N : comps[i] \in ComponentsOver(X)
  BY DEF OperationsOver
<1>2. base \in Y
  OBVIOUS
<1>3. step \in [1..N -> [Y -> Y]]
  <2>1. \A i \in 1..N, s \in Y : Joined(s, comps[i]) \in Y
    BY <1>1, JoinedIsText
  <2> HIDE DEF Y, N
  <2> QED
    BY <2>1
<1>4. ot_snapshot(comps) = iter[1..N]
  BY <1>1 DEF ot_snapshot, Joined, FoldLeft, MapThenFoldSet
<1> HIDE DEF N, Y, base
<1>5. PICK g \in [SUBSET (1..N) -> Y] : IsFold(g, N, base, step)
  <2> HIDE DEF step
  <2> QED
    BY <1>1, <1>2, <1>3, FoldExists
<1>6. Is(iter)
  <2>1. ASSUME NEW s \in SUBSET (1..N), s # {}
        PROVE  g[s] = Joined(g[s \ {Max(s)}], comps[Max(s)])
    <3>1. Max(s) \in 1..N
      BY <1>1, <2>1, MaxOf
    <3>2. g[s] = step[Max(s)][g[s \ {Max(s)}]] /\ g[s \ {Max(s)}] \in Y
      BY <1>5, <2>1 DEF IsFold
    <3> QED
      BY <3>1, <3>2
  <2>2. Is(g)
    BY <1>5, <2>1 DEF IsFold
  <2> HIDE DEF Is
  <2> QED
    BY <2>2
<1>7. /\ iter[{}] = base
      /\ \A s \in SUBSET (1..N) : s # {} =>
           iter[s] = Joined(iter[s \ {Max(s)}], comps[Max(s)])
  BY <1>6
<1> HIDE DEF iter, Is
<1>8. Steps(iter, N, Y, step)
  <2> SUFFICES ASSUME NEW i \in 1..N, iter[1..(i - 1)] \in Y
               PROVE  iter[1..i] = step[i][iter[1..(i - 1)]]
    BY DEF Steps
  <2>1. Max(1..i) = i /\ (1..i) \ {i} = 1..(i - 1) /\ 1..i # {} /\ 1..i \in SUBSET (1..N)
    BY <1>1, MaxOfPrefix
  <2>2. iter[1..i] = Joined(iter[1..(i - 1)], comps[i])
    BY <1>7, <2>1
  <2> QED
    BY <2>2
<1>9. PICK f \in [0..N -> Y] : IsFoldLeft(f, N, base, step) /\ f[N] = iter[1..N]
  <2>1. N \in Nat /\ base \in Y /\ iter[{}] = base
    BY <1>1, <1>2, <1>7
  <2>2. StepsIn(step, N, Y)
    BY <1>3 DEF StepsIn
  <2> HIDE DEF step
  <2>3. FoldsTo(N, Y, base, step, iter[1..N])
    BY <1>8, <2>1, <2>2, FoldResult
  <2> QED
    BY <2>3 DEF FoldsTo
<1>10. ASSUME NEW i \in 1..N PROVE f[i] = Joined(f[i - 1], comps[i])
  <2>1. f[i] = step[i][f[i - 1]] /\ f[i - 1] \in Y
    BY <1>1, <1>9 DEF IsFoldLeft
  <2> QED
    BY <2>1
<1> QED
  BY <1>4, <1>9, <1>10 DEF IsFoldLeft, N, Y, base


LEMMA SnapshotIsMade ==
  ASSUME NEW X, NEW p \in OperationsOver(X)
  PROVE  ot_snapshot(p) = ApplyTo(p, <<>>)
<1> DEFINE N == Len(p)
           none == <<>>
<1>0. Len(none) = 0 /\ \A m \in Nat : SubSeq(none, m + 1, 0) = <<>>
  OBVIOUS
<1>8. none \in Seq(X)
  OBVIOUS
<1> HIDE DEF none
<1>1. N \in Nat /\ \A i \in 1..N : p[i] \in ComponentsOver(X)
  BY DEF OperationsOver
<1>2. PICK f \in [0..N -> Seq(X)] :
        /\ f[0] = <<>>
        /\ \A i \in 1..N : f[i] = Joined(f[i - 1], p[i])
        /\ ot_snapshot(p) = f[N]
  BY SnapshotFold
<1>3. PICK g \in [0..N -> Readings(X)] :
        /\ g[0] = [out |-> <<>>, at |-> 0]
        /\ \A i \in 1..N : g[i] = Taken(g[i - 1], p[i], none)
        /\ Reading(p, none) = g[N]
  BY <1>8, ReadingFold
<1> HIDE DEF N
<1> DEFINE h == [i \in 0..N |-> g[i].out]
<1>4. f[0] = h[0]
  BY <1>1, <1>2, <1>3
<1>5. InStep(f, h, N)
  <2> SUFFICES ASSUME NEW i \in 1..N, f[i - 1] = h[i - 1] PROVE f[i] = h[i]
    BY DEF InStep
  <2> DEFINE s == g[i - 1]
             c == p[i]
             t == f[i - 1]
  <2>1. i - 1 \in 0..N /\ i \in 0..N /\ c \in ComponentsOver(X)
    BY <1>1
  <2>2. s \in Readings(X) /\ t \in Seq(X) /\ s.out = t
    BY <2>1
  <2>3. f[i] = Joined(t, c) /\ h[i] = Taken(s, c, none).out
    BY <1>2, <1>3, <2>1
  <2> HIDE DEF s, c, t
  <2>4. s = [out |-> t, at |-> s.at] /\ s = [out |-> s.out, at |-> s.at] /\ s.at \in Nat
    BY <2>2 DEF Readings
  <2>5. CASE c.type = "skip"
    <3>1. c.count \in Nat
      BY <2>1, <2>5, ComponentCases DEF Stubs
    <3> DEFINE e == SubSeq(none, s.at + 1, Least(s.at + c.count, Len(none)))
    <3>2. Taken(s, c, none).out = t \o e
      <4>1. Taken(s, c, none) = [out |-> s.out \o e, at |-> s.at + c.count]
        BY <2>5, TakenSkip
      <4> HIDE DEF e
      <4> QED
        BY <2>2, <4>1
    <3>3. e = <<>>
      <4>1. Least(s.at + c.count, Len(none)) = 0
        BY <1>0, <2>4, <3>1 DEF Least
      <4>2. SubSeq(none, s.at + 1, 0) = <<>>
        BY <1>0, <2>4
      <4> QED
        BY <4>1, <4>2
    <3> HIDE DEF e
    <3>4. t \o <<>> = t
      BY <2>2, ConcatEmptySeq
    <3> QED
      BY <2>3, <2>5, <3>2, <3>3, <3>4 DEF Joined
  <2>6. CASE c.type = "insert"
    <3>1. Taken(s, c, none).out = t \o c.text
      <4>1. Taken(s, c, none) = [out |-> s.out \o c.text, at |-> s.at]
        BY <2>4, <2>6, TakenInsert
      <4> QED
        BY <2>2, <4>1
    <3> QED
      BY <2>3, <2>6, <3>1 DEF Joined
  <2>7. CASE c.type = "delete"
    <3>1. Taken(s, c, none).out = t
      BY <2>2, <2>4, <2>7, TakenDelete
    <3> QED
      BY <2>3, <2>7, <3>1 DEF Joined
  <2>8. CASE c.type \in Stubs
    <3>1. Taken(s, c, none) = s
      BY <2>8, TakenStub
    <3> QED
      BY <2>2, <2>3, <2>8, <3>1 DEF Joined, Stubs
  <2> QED
    BY <2>1, <2>5, <2>6, <2>7, <2>8, ComponentCases
<1>6. f[N] = h[N]
  <2> HIDE DEF h
  <2> QED
    BY <1>1, <1>4, <1>5, SameSteps
<1>7. h[N] = Reading(p, none).out
  BY <1>1, <1>3
<1> QED
  BY <1>2, <1>6, <1>7 DEF ApplyTo, none
-----------------------------------------------------------------------------
(***************************************************************************)
(* What an operation consists of.                                          *)
(***************************************************************************)
LettersOf(c) ==
  CASE c.type = "insert" -> {c.text[i] : i \in DOMAIN c.text}
    [] c.type = "openElement" -> {c.elem}
    [] c.type = "formattingBoundary" -> {c.start, c.end}
    [] c.type \notin {"insert", "openElement", "formattingBoundary"} -> {}

Alphabet(op) == UNION {LettersOf(op[i]) : i \in 1..Len(op)}
LEMMA ComponentOver ==
  ASSUME NEW c, IsComponent(c), NEW X, LettersOf(c) \subseteq X
  PROVE  c \in ComponentsOver(X)
<1>1. CASE c.type \in {"skip", "delete"} /\ c \in [type : {c.type}, count : Nat]
  BY <1>1 DEF ComponentsOver
<1>2. CASE c.type = "insert" /\ c = InsertComp(c.text) /\ IsSequence(c.text)
  <2> DEFINE t == c.text
             Y == {t[i] : i \in DOMAIN t}
  <2>1. Y \subseteq X
    BY <1>2 DEF LettersOf
  <2>2. t \in Seq(Y)
    BY <1>2 DEF IsSequence
  <2> HIDE DEF Y
  <2>3. t \in Seq(X)
    BY <2>1, <2>2
  <2>4. InsertComp(t) \in ComponentsOver(X)
    BY <2>3, MadeComponents
  <2> QED
    BY <1>2, <2>4
<1>3. CASE c.type = "openElement" /\ c = OpenComp(c.elem)
  <2>1. c.elem \in X
    BY <1>3 DEF LettersOf
  <2>2. OpenComp(c.elem) \in [type : {"openElement"}, elem : X]
    BY <2>1 DEF OpenComp
  <2> QED
    BY <1>3, <2>2 DEF ComponentsOver
<1>4. CASE c.type = "closeElement" /\ c = CloseComp
  BY <1>4 DEF ComponentsOver
<1>5. CASE c.type = "formattingBoundary" /\ c = FmtComp(c.start, c.end)
  <2>1. c.start \in X /\ c.end \in X
    BY <1>5 DEF LettersOf
  <2>2. FmtComp(c.start, c.end) \in [type : {"formattingBoundary"}, start : X, end : X]
    BY <2>1 DEF FmtComp
  <2> QED
    BY <1>5, <2>2 DEF ComponentsOver
<1> QED
  BY <1>1, <1>2, <1>3, <1>4, <1>5 DEF IsComponent

LEMMA OperationOver ==
  ASSUME NEW op, IsOperation(op), NEW X, Alphabet(op) \subseteq X
  PROVE  op \in OperationsOver(X)
<1> DEFINE Y == {op[i] : i \in DOMAIN op}
<1>1. op \in Seq(Y)
  BY DEF IsOperation, IsSequence
<1>2. ASSUME NEW i \in 1..Len(op) PROVE op[i] \in ComponentsOver(X)
  <2>1. LettersOf(op[i]) \subseteq Alphabet(op)
    BY DEF Alphabet
  <2>2. IsComponent(op[i])
    BY DEF IsOperation
  <2> QED
    BY <2>1, <2>2, ComponentOver
<1>3. Len(op) \in Nat /\ op \in [1..Len(op) -> Y]
  <2> HIDE DEF Y
  <2> QED
    BY <1>1
<1>4. op \in [1..Len(op) -> ComponentsOver(X)]
  <2> HIDE DEF Y
  <2> QED
    BY <1>2, <1>3
<1> QED
  BY <1>3, <1>4 DEF OperationsOver

LEMMA TextOver ==
  ASSUME NEW text, IsSequence(text), NEW X, {text[i] : i \in DOMAIN text} \subseteq X
  PROVE  text \in Seq(X)
<1> DEFINE Y == {text[i] : i \in DOMAIN text}
<1>1. text \in Seq(Y) /\ Y \subseteq X
  BY DEF IsSequence
<1> HIDE DEF Y
<1> QED
  BY <1>1

-----------------------------------------------------------------------------
(***************************************************************************)
(* An operation that spans nothing and holds nothing it need not is one    *)
(* insert, or nothing at all.                                              *)
(***************************************************************************)
LEMMA SpansItsParts ==
  ASSUME NEW X, NEW p \in OperationsOver(X), NEW i \in 1..Len(p),
         p[i].type \in {"skip", "delete"}
  PROVE  ot_comp_size(p[i]) \in Nat /\ ot_comp_size(p[i]) <= BaseLen(p)
<1> DEFINE types == {"skip", "delete"}
           k == i - 1
           s == SubSeq(p, 1, k)
           c == p[i]
<1>1. types \cap Stubs = {} /\ c.type \notin Stubs
  BY DEF Stubs
<1>2. Len(p) \in Nat /\ c \in ComponentsOver(X) /\ k \in Nat /\ k < Len(p) /\ k + 1 = i
  BY DEF OperationsOver
<1>3. k \in 0..Len(p) /\ k + 1 \in 0..Len(p)
  BY <1>2
<1> HIDE DEF k
<1>4. s \in OperationsOver(X) /\ SubSeq(p, 1, k + 1) = Append(s, c)
  BY <1>2, <1>3, Prefix, NextPrefix
<1>5. SizeIf(SubSeq(p, 1, k + 1), types) <= SizeIf(p, types)
  <2> HIDE DEF types
  <2> QED
    BY <1>1, <1>3, PrefixGrows
<1> HIDE DEF s, c
<1>6. SizeIf(Append(s, c), types) = SizeIf(s, types) + Weight(c, types)
  <2> HIDE DEF types
  <2> QED
    BY <1>1, <1>2, <1>4, SizeOfLonger
<1>7. Weight(c, types) = ot_comp_size(c)
  BY DEF Weight, c
<1>8. ot_comp_size(c) \in Nat /\ SizeIf(s, types) \in Nat /\ SizeIf(p, types) \in Nat
  <2>1. ot_comp_size(c) \in Nat
    BY <1>1, <1>2, SizeOf
  <2> HIDE DEF types
  <2> QED
    BY <1>1, <1>4, <2>1, SizeIsNat
<1> DEFINE a == SizeIf(s, types)
           b == SizeIf(p, types)
<1>9. a + ot_comp_size(c) <= b /\ a \in Nat /\ b \in Nat
  BY <1>4, <1>5, <1>6, <1>7, <1>8
<1>10. b = BaseLen(p)
  BY DEF BaseLen
<1> HIDE DEF a, b
<1> QED
  BY <1>8, <1>9, <1>10 DEF c

LEMMA TextOnly ==
  ASSUME NEW X, NEW p \in OperationsOver(X), WellMade(p), BaseLen(p) = 0
  PROVE  \/ p = <<>>
         \/ \E x \in Seq(X) : Len(x) # 0 /\ p = Append(<<>>, InsertComp(x))
<1>1. Len(p) \in Nat /\ \A i \in 1..Len(p) : p[i] \in ComponentsOver(X)
  BY DEF OperationsOver
<1>2. ASSUME NEW i \in 1..Len(p)
      PROVE  /\ p[i] = InsertComp(p[i].text) /\ p[i].text \in Seq(X) /\ Len(p[i].text) # 0
             /\ p[i].type = "insert"
  <2> DEFINE c == p[i]
  <2>1. c.type \notin Stubs /\ ot_comp_size(c) # 0 /\ c \in ComponentsOver(X)
    BY <1>1 DEF WellMade, Passable, IsEmpty
  <2>2. c.type \notin {"skip", "delete"}
    <3> SUFFICES ASSUME c.type \in {"skip", "delete"} PROVE FALSE
      OBVIOUS
    <3>1. ot_comp_size(c) \in Nat /\ ot_comp_size(c) <= BaseLen(p)
      BY SpansItsParts
    <3> QED
      BY <2>1, <3>1
  <2> HIDE DEF c
  <2>3. c.type = "insert" /\ c = InsertComp(c.text) /\ c.text \in Seq(X)
    BY <2>1, <2>2, BuiltComponent
  <2>4. ot_comp_size(c) = Len(c.text)
    BY <2>3 DEF ot_comp_size
  <2> QED
    BY <2>1, <2>3, <2>4 DEF c
<1>3. Len(p) <= 1
  <2> SUFFICES ASSUME Len(p) > 1 PROVE FALSE
    BY <1>1
  <2>1. 1 \in 1..(Len(p) - 1) /\ 1 \in 1..Len(p) /\ 1 + 1 \in 1..Len(p)
    BY <1>1
  <2> QED
    BY <1>2, <2>1 DEF WellMade, IsNormal
<1>4. CASE p # <<>>
  <2>1. /\ Front(p) \in OperationsOver(X) /\ p = Append(Front(p), Last(p))
        /\ Last(p) = p[Len(p)] /\ Len(p) \in Nat \ {0} /\ Len(Front(p)) = Len(p) - 1
    BY <1>4, WithoutLast
  <2> DEFINE f == Front(p)
             x == p[1].text
  <2>2. Len(p) = 1
    BY <1>3, <2>1
  <2>3. f \in Seq(ComponentsOver(X)) /\ Len(f) = 0
    BY <2>1, <2>2 DEF OperationsOver
  <2>4. f = <<>>
    <3> HIDE DEF f
    <3> QED
      BY <2>3, EmptySeq
  <2>5. x \in Seq(X) /\ Len(x) # 0 /\ p[1] = InsertComp(x)
    BY <1>2, <2>2
  <2> QED
    BY <2>1, <2>2, <2>4, <2>5
<1> QED
  BY <1>4

-----------------------------------------------------------------------------
\* A layout reaches as far as its operation spans, and lifts no gap further
\* than by what is inserted.
LaidOut(s, base, volume) ==
  /\ s.at = base /\ volume = base + Len(s.word) /\ Len(s.gaps) = Len(s.word)
  /\ \A j \in 1..Len(s.gaps) : s.gaps[j] <= base
  /\ \A h \in Nat : /\ h <= s.lift[h] /\ s.lift[h] <= h + Len(s.word)
                    /\ base <= h => s.lift[h] = h + Len(s.word)

LEMMA AdvancedReach ==
  ASSUME NEW X, NEW s \in Layouts(X), NEW b \in Nat, NEW v \in Nat, NEW n \in Nat, LaidOut(s, b, v)
  PROVE  LaidOut(Advanced(s, n), b + n, v + n)
<1> DEFINE l == Len(s.word)
           r == Advanced(s, n)
<1>1. l \in Nat /\ s.gaps \in Seq(Nat) /\ s.lift \in [Nat -> Nat]
  <2> DEFINE w == s.word
  <2>1. w \in Seq(X) /\ s.gaps \in Seq(Nat) /\ s.lift \in [Nat -> Nat]
    BY LayoutParts
  <2> HIDE DEF w
  <2>2. Len(w) \in Nat
    BY <2>1
  <2> QED
    BY <2>1, <2>2 DEF w
<1>2. r.at = s.at + n /\ r.word = s.word /\ r.gaps = s.gaps /\ r.lift = s.lift
  BY DEF Advanced
<1>3. /\ s.at = b /\ v = b + l /\ Len(s.gaps) = l
      /\ \A j \in 1..l : s.gaps[j] <= b
      /\ \A h \in Nat : h <= s.lift[h] /\ s.lift[h] <= h + l /\ (b <= h => s.lift[h] = h + l)
  BY DEF LaidOut
<1>4. \A j \in 1..l : s.gaps[j] \in Nat
  <2> DEFINE g == s.gaps
  <2>1. g \in Seq(Nat) /\ Len(g) = l
    BY <1>1, <1>3
  <2> HIDE DEF g
  <2>2. \A j \in 1..l : g[j] \in Nat
    BY <2>1
  <2> QED
    BY <2>2 DEF g
<1> HIDE DEF l, r
<1>5. r.at = b + n /\ v + n = (b + n) + l
  BY <1>1, <1>2, <1>3
<1>6. ASSUME NEW j \in 1..l PROVE r.gaps[j] <= b + n
  <2> DEFINE k == s.gaps[j]
  <2>1. k \in Nat /\ k <= b /\ r.gaps[j] = k
    BY <1>2, <1>3, <1>4
  <2> HIDE DEF k
  <2> QED
    BY <2>1
<1>7. ASSUME NEW h \in Nat
      PROVE  h <= r.lift[h] /\ r.lift[h] <= h + l /\ (b + n <= h => r.lift[h] = h + l)
  <2>1. b + n <= h => b <= h
    OBVIOUS
  <2> QED
    BY <1>2, <1>3, <2>1
<1> QED
  BY <1>2, <1>3, <1>5, <1>6, <1>7 DEF LaidOut, l, r

LEMMA WidenedReach ==
  ASSUME NEW X, NEW s \in Layouts(X), NEW b \in Nat, NEW v \in Nat, NEW x \in Seq(X),
         LaidOut(s, b, v)
  PROVE  /\ LaidOut(Widened(s, x), b, v + Len(x))
         /\ Len(Widened(s, x).gaps) = Len(s.gaps) + Len(x)
         /\ \A j \in 1..Len(s.gaps) : Widened(s, x).gaps[j] = s.gaps[j]
         /\ \A j \in 1..Len(Widened(s, x).gaps) : j > Len(s.gaps) => Widened(s, x).gaps[j] = b
<1> DEFINE l == Len(s.word)
           m == Len(x)
           r == Widened(s, x)
           g == s.gaps
           f == s.lift
           u == Repeated(b, m)
<1>1. l \in Nat /\ m \in Nat /\ g \in Seq(Nat) /\ f \in [Nat -> Nat] /\ s.word \in Seq(X)
  <2> DEFINE w == s.word
  <2>1. w \in Seq(X) /\ g \in Seq(Nat) /\ f \in [Nat -> Nat]
    BY LayoutParts
  <2> HIDE DEF w, g, f
  <2>2. Len(w) \in Nat
    BY <2>1
  <2>3. m \in Nat
    OBVIOUS
  <2> QED
    BY <2>1, <2>2, <2>3 DEF w
<1>2. /\ s.at = b /\ v = b + l /\ Len(g) = l
      /\ \A j \in 1..l : g[j] <= b
      /\ \A h \in Nat : h <= f[h] /\ f[h] <= h + l /\ (b <= h => f[h] = h + l)
  BY DEF LaidOut
<1>3. r.at = b /\ r.word = s.word \o x /\ r.gaps = g \o u /\ r.lift = Raised(f, b, m)
  BY <1>2 DEF Widened
<1>4. Len(r.word) = l + m
  BY <1>1, <1>3, ConcatProperties
<1> HIDE DEF g, f, l, m
<1>5. u \in Seq(Nat) /\ Len(u) = m /\ \A i \in 1..m : u[i] = b
  BY <1>1, Copies
<1> HIDE DEF u
<1>6. /\ Len(g \o u) = l + m
      /\ \A j \in 1..(l + m) : (g \o u)[j] = IF j <= l THEN g[j] ELSE u[j - l]
  <2>1. g \in Seq(Nat) /\ u \in Seq(Nat)
    BY <1>1, <1>5
  <2>2. Len(g \o u) = Len(g) + Len(u)
    BY <2>1
  <2>3. \A j \in 1..(Len(g) + Len(u)) : (g \o u)[j] = IF j <= Len(g) THEN g[j] ELSE u[j - Len(g)]
    BY <2>1
  <2> QED
    BY <1>2, <1>5, <2>2, <2>3
<1>7. \A j \in 1..(l + m) : /\ j <= l => (g \o u)[j] = g[j] /\ j \in 1..l
                            /\ j > l => (g \o u)[j] = b
  <2> SUFFICES ASSUME NEW j \in 1..(l + m)
               PROVE  /\ j <= l => (g \o u)[j] = g[j] /\ j \in 1..l
                      /\ j > l => (g \o u)[j] = b
    OBVIOUS
  <2>1. CASE j <= l
    <3>1. j \in 1..l /\ ~(j > l)
      BY <1>1, <2>1
    <3> QED
      BY <1>6, <2>1, <3>1
  <2>2. CASE j > l
    <3>1. j - l \in 1..m /\ ~(j <= l)
      BY <1>1, <2>2
    <3> QED
      BY <1>5, <1>6, <3>1, <2>2
  <2> QED
    BY <1>1, <2>1, <2>2
<1>8. \A h \in Nat : Raised(f, b, m)[h] = IF b <= h THEN f[h] + m ELSE f[h]
  BY <1>1, RaisedLift
<1>9. ASSUME NEW h \in Nat
      PROVE  /\ h <= Raised(f, b, m)[h] /\ Raised(f, b, m)[h] <= h + (l + m)
             /\ b <= h => Raised(f, b, m)[h] = h + (l + m)
  <2>1. f[h] \in Nat /\ h <= f[h] /\ f[h] <= h + l /\ (b <= h => f[h] = h + l)
    BY <1>1, <1>2
  <2>2. CASE b <= h
    <3>1. Raised(f, b, m)[h] = f[h] + m
      BY <1>8, <2>2
    <3> QED
      BY <1>1, <2>1, <2>2, <3>1
  <2>3. CASE ~(b <= h)
    <3>1. Raised(f, b, m)[h] = f[h]
      BY <1>8, <2>3
    <3> QED
      BY <1>1, <2>1, <2>3, <3>1
  <2> QED
    BY <2>2, <2>3
<1>10. \A j \in 1..(l + m) : (g \o u)[j] <= b
  <2> SUFFICES ASSUME NEW j \in 1..(l + m) PROVE (g \o u)[j] <= b
    OBVIOUS
  <2>1. j <= l \/ j > l
    BY <1>1
  <2>2. b <= b
    OBVIOUS
  <2> QED
    BY <1>2, <1>7, <2>1, <2>2
<1>11. v + m = b + (l + m)
  BY <1>1, <1>2
<1> HIDE DEF r
<1>12. LaidOut(r, b, v + m)
  BY <1>3, <1>4, <1>6, <1>9, <1>10, <1>11 DEF LaidOut
<1>13. \A j \in 1..l : j \in 1..(l + m) /\ j <= l
  BY <1>1
<1>14. \A j \in 1..l : (g \o u)[j] = g[j]
  BY <1>7, <1>13
<1>15. /\ Len(r.gaps) = Len(g) + m
       /\ \A j \in 1..Len(g) : r.gaps[j] = g[j]
       /\ \A j \in 1..Len(r.gaps) : j > Len(g) => r.gaps[j] = b
  BY <1>2, <1>3, <1>6, <1>7, <1>14
<1> QED
  BY <1>12, <1>15 DEF r, g, m

LEMMA LayoutBounds ==
  ASSUME NEW X, NEW comps \in OperationsOver(X)
  PROVE  LaidOut(Layout(comps), BaseLen(comps), Volume(comps))
<1> DEFINE T == {p \in OperationsOver(X) : LaidOut(Layout(p), BaseLen(p), Volume(p))}
<1>1. <<>> \in T
  <2>1. Layout(<<>>) = NoLayout /\ BaseLen(<<>>) = 0 /\ Volume(<<>>) = 0
    BY LayoutOfEmpty, LengthsOfEmpty
  <2>2. LaidOut(NoLayout, 0, 0)
    BY DEF LaidOut, NoLayout
  <2> QED
    BY <2>1, <2>2, EmptyOperation
<1>2. OneMore(X, T)
  <2> SUFFICES ASSUME NEW p \in OperationsOver(X) \cap T
               PROVE  /\ \A n \in Nat : Append(p, SkipComp(n)) \in T /\ Append(p, DeleteComp(n)) \in T
                      /\ \A x \in Seq(X) : Append(p, InsertComp(x)) \in T
                      /\ \A c \in ComponentsOver(X) : c.type \in Stubs => Append(p, c) \in T
    BY DEF OneMore
  <2>0. /\ p \in OperationsOver(X) /\ LaidOut(Layout(p), BaseLen(p), Volume(p))
        /\ Layout(p) \in Layouts(X) /\ BaseLen(p) \in Nat /\ Volume(p) \in Nat
    BY LayoutIsTyped, LengthsAreNat
  <2>1. ASSUME NEW n \in Nat PROVE Append(p, SkipComp(n)) \in T /\ Append(p, DeleteComp(n)) \in T
    <3> DEFINE c == SkipComp(n)
               d == DeleteComp(n)
    <3>1. Append(p, c) \in OperationsOver(X) /\ Append(p, d) \in OperationsOver(X)
      BY <2>0, CountedComponents, Longer
    <3>2. /\ Layout(Append(p, c)) = Advanced(Layout(p), n) /\ Layout(Append(p, d)) = Advanced(Layout(p), n)
          /\ BaseLen(Append(p, c)) = BaseLen(p) + n /\ BaseLen(Append(p, d)) = BaseLen(p) + n
          /\ Volume(Append(p, c)) = Volume(p) + n /\ Volume(Append(p, d)) = Volume(p) + n
      BY <2>0, LayoutWith, LengthsWithComponent
    <3>3. LaidOut(Advanced(Layout(p), n), BaseLen(p) + n, Volume(p) + n)
      BY <2>0, AdvancedReach
    <3> HIDE DEF c, d
    <3>4. Append(p, c) \in T /\ Append(p, d) \in T
      BY <3>1, <3>2, <3>3
    <3> QED
      BY <3>4 DEF c, d
  <2>2. ASSUME NEW x \in Seq(X) PROVE Append(p, InsertComp(x)) \in T
    <3> DEFINE c == InsertComp(x)
    <3>1. Append(p, c) \in OperationsOver(X)
      BY <2>0, MadeComponents, Longer
    <3>2. /\ Layout(Append(p, c)) = Widened(Layout(p), x)
          /\ BaseLen(Append(p, c)) = BaseLen(p) /\ Volume(Append(p, c)) = Volume(p) + Len(x)
      BY <2>0, LayoutWith, LengthsWithComponent
    <3>3. LaidOut(Widened(Layout(p), x), BaseLen(p), Volume(p) + Len(x))
      BY <2>0, WidenedReach
    <3> HIDE DEF c
    <3>4. Append(p, c) \in T
      BY <3>1, <3>2, <3>3
    <3> QED
      BY <3>4 DEF c
  <2>3. ASSUME NEW c \in ComponentsOver(X), c.type \in Stubs PROVE Append(p, c) \in T
    BY <2>0, <2>3, LayoutWith, LengthsWithComponent, Longer, ZenonT(60)
  <2> QED
    BY <2>1, <2>2, <2>3
<1> HIDE DEF T
<1>3. OperationsOver(X) \subseteq T
  BY <1>1, <1>2, OperationInduction
<1> QED
  BY <1>3 DEF T

(***************************************************************************)
(* Operations that delete nothing and have no more components than they    *)
(* need.                                                                   *)
(***************************************************************************)
DeletesNothing(p) == Volume(p) = OutLen(p)

Plain(p) == WellMade(p) /\ DeletesNothing(p)

LEMMA NothingIsPlain == Plain(<<>>)
BY NothingIsWellMade, LengthsOfEmpty DEF Plain, DeletesNothing

OnlyKeeps(p) == \A i \in 1..Len(p) : p[i].type = "delete" => ot_comp_size(p[i]) = 0

LEMMA KeepsAll ==
  ASSUME NEW X, NEW comps \in OperationsOver(X)
  PROVE  OutLen(comps) <= Volume(comps) /\ (Volume(comps) = OutLen(comps) <=> OnlyKeeps(comps))
<1> DEFINE T == {p \in OperationsOver(X) :
                   OutLen(p) <= Volume(p) /\ (Volume(p) = OutLen(p) <=> OnlyKeeps(p))}
<1>1. <<>> \in T
  BY EmptyOperation, LengthsOfEmpty DEF OnlyKeeps
<1>2. OneMore(X, T)
  <2> SUFFICES ASSUME NEW p \in OperationsOver(X), p \in T, NEW c \in ComponentsOver(X)
               PROVE  Append(p, c) \in T
    BY CountedComponents, MadeComponents DEF OneMore
  <2> DEFINE r == Append(p, c)
             n == Len(p)
             d == Weight(c, {"skip", "insert", "delete"})
             e == Weight(c, {"skip", "insert"})
  <2>1. /\ r \in OperationsOver(X) /\ n \in Nat /\ Len(r) = n + 1 /\ r[n + 1] = c
        /\ \A i \in 1..n : r[i] = p[i]
    BY Longer
  <2>2. Volume(r) = Volume(p) + d /\ OutLen(r) = OutLen(p) + e
    BY LengthsOfLonger
  <2>3. Volume(p) \in Nat /\ OutLen(p) \in Nat
    BY LengthsAreNat
  <2>4. d \in Nat /\ e \in Nat
    BY WeightIsNat DEF Stubs
  <2>5. e <= d /\ (d = e <=> (c.type = "delete" => ot_comp_size(c) = 0))
    <3>1. CASE c.type = "delete"
      <4>1. e = 0 /\ d = ot_comp_size(c)
        BY <3>1 DEF Weight
      <4> QED
        BY <2>4, <3>1, <4>1
    <3>2. CASE c.type # "delete"
      <4>1. d = e
        BY <3>2 DEF Weight
      <4> QED
        BY <2>4, <3>2, <4>1
    <3> QED
      BY <3>1, <3>2
  <2> HIDE DEF r, d, e, n
  <2>6. OnlyKeeps(r) <=> OnlyKeeps(p) /\ (c.type = "delete" => ot_comp_size(c) = 0)
    <3>1. ASSUME OnlyKeeps(r) PROVE OnlyKeeps(p) /\ (c.type = "delete" => ot_comp_size(c) = 0)
      <4>1. \A i \in 1..n : i \in 1..Len(r) /\ r[i] = p[i]
        BY <2>1
      <4>2. n + 1 \in 1..Len(r)
        BY <2>1
      <4>3. \A i \in 1..n : p[i].type = "delete" => ot_comp_size(p[i]) = 0
        BY <3>1, <4>1 DEF OnlyKeeps
      <4> QED
        BY <2>1, <3>1, <4>2, <4>3 DEF OnlyKeeps, n
    <3>2. ASSUME OnlyKeeps(p), c.type = "delete" => ot_comp_size(c) = 0 PROVE OnlyKeeps(r)
      <4>1. \A i \in 1..Len(r) : i \in 1..n \/ i = n + 1
        BY <2>1
      <4> QED
        BY <2>1, <3>2, <4>1 DEF OnlyKeeps, n
    <3> QED
      BY <3>1, <3>2
  <2>7. OutLen(r) <= Volume(r) /\ (Volume(r) = OutLen(r) <=> OnlyKeeps(r))
    <3>1. OutLen(p) <= Volume(p) /\ (Volume(p) = OutLen(p) <=> OnlyKeeps(p))
      OBVIOUS
    <3>2. OutLen(r) <= Volume(r) /\ (Volume(r) = OutLen(r) <=> Volume(p) = OutLen(p) /\ d = e)
      BY <2>2, <2>3, <2>4, <2>5, <3>1
    <3> QED
      BY <2>5, <2>6, <3>1, <3>2
  <2>8. r \in T
    BY <2>1, <2>7
  <2> QED
    BY <2>8 DEF r
<1> HIDE DEF T
<1>3. OperationsOver(X) \subseteq T
  BY <1>1, <1>2, OperationInduction
<1> QED
  BY <1>3 DEF T

LEMMA PlainKinds ==
  ASSUME NEW X, NEW p \in OperationsOver(X)
  PROVE  Plain(p) <=> WellMade(p) /\ \A i \in 1..Len(p) : p[i].type \in {"skip", "insert"}
<1>1. \A i \in 1..Len(p) : p[i] \in ComponentsOver(X)
  BY DEF OperationsOver
<1>2. \A i \in 1..Len(p) : p[i].type \in {"skip", "delete", "insert"} \cup Stubs
  BY <1>1, LaidCases
<1>3. Plain(p) <=> WellMade(p) /\ OnlyKeeps(p)
  BY KeepsAll DEF Plain, DeletesNothing
<1>4. ASSUME WellMade(p), NEW i \in 1..Len(p)
      PROVE  p[i].type \notin Stubs /\ ot_comp_size(p[i]) # 0
  BY <1>4 DEF WellMade, Passable, IsEmpty
<1>5. ASSUME WellMade(p), OnlyKeeps(p), NEW i \in 1..Len(p) PROVE p[i].type \in {"skip", "insert"}
  BY <1>2, <1>4, <1>5 DEF OnlyKeeps
<1>6. ASSUME \A i \in 1..Len(p) : p[i].type \in {"skip", "insert"} PROVE OnlyKeeps(p)
  BY <1>6 DEF OnlyKeeps
<1> QED
  BY <1>3, <1>5, <1>6

LEMMA DeletesNothingMore ==
  ASSUME NEW X, NEW p \in OperationsOver(X), DeletesNothing(p)
  PROVE  /\ \A n \in Nat : DeletesNothing(Append(p, SkipComp(n)))
         /\ \A x \in Seq(X) : DeletesNothing(Append(p, InsertComp(x)))
BY LengthsWithComponent DEF DeletesNothing

LEMMA DeletesNothingAlike ==
  ASSUME NEW X, NEW p, NEW q, Alike(X, p, q), DeletesNothing(p)
  PROVE  DeletesNothing(q)
BY DEF DeletesNothing, Alike

\* The last component of a plain operation: what is before it is plain and
\* ends with the other kind.
LEMMA PlainEnd ==
  ASSUME NEW X, NEW s \in OperationsOver(X), NEW c \in ComponentsOver(X), Plain(Append(s, c))
  PROVE  /\ Plain(s)
         /\ s # <<>> => Len(s) \in 1..Len(s) /\ s[Len(s)].type # c.type
         /\ \/ c.type = "skip" /\ c = SkipComp(c.count) /\ c.count \in Nat /\ c.count # 0
            \/ c.type = "insert" /\ c = InsertComp(c.text) /\ c.text \in Seq(X) /\ Len(c.text) # 0
<1> DEFINE p == Append(s, c)
           n == Len(s)
<1>1. /\ p \in OperationsOver(X) /\ n \in Nat /\ Len(p) = n + 1 /\ p[n + 1] = c
      /\ \A i \in 1..n : p[i] = s[i]
  BY Longer
<1>2. Plain(p)
  OBVIOUS
<1> HIDE DEF p, n
<1>3. /\ \A i \in 1..Len(p) : p[i].type \in {"skip", "insert"} /\ ~IsEmpty(p[i])
      /\ \A i \in 1..(Len(p) - 1) : p[i].type # p[i + 1].type
  BY <1>1, <1>2, PlainKinds DEF WellMade, IsNormal
<1>4. \A i \in 1..n : i \in 1..Len(p) /\ p[i] = s[i]
  BY <1>1
<1>5. \A i \in 1..n : s[i].type \in {"skip", "insert"} /\ ~IsEmpty(s[i])
  BY <1>3, <1>4
<1>6. ASSUME NEW i \in 1..(n - 1) PROVE s[i].type # s[i + 1].type
  <2>1. i \in 1..n /\ i + 1 \in 1..n /\ i \in 1..(Len(p) - 1)
    BY <1>1
  <2> QED
    BY <1>1, <1>3, <2>1
<1>7. Plain(s)
  <2>1. IsNormal(s) /\ Passable(s)
    BY <1>5, <1>6 DEF IsNormal, Passable, Stubs, n
  <2> QED
    BY <1>5, <2>1, PlainKinds DEF WellMade, n
<1>8. s # <<>> => n \in 1..n /\ s[n].type # c.type
  <2> SUFFICES ASSUME s # <<>> PROVE n \in 1..n /\ s[n].type # c.type
    OBVIOUS
  <2>1. n # 0
    BY DEF n, OperationsOver
  <2>2. n \in 1..n /\ n \in 1..(Len(p) - 1)
    BY <1>1, <2>1
  <2> QED
    BY <1>1, <1>3, <2>2
<1>9. c.type \in {"skip", "insert"} /\ ~IsEmpty(c)
  <2>1. n + 1 \in 1..Len(p)
    BY <1>1
  <2> QED
    BY <1>1, <1>3, <2>1
<1>10. \/ c.type = "skip" /\ c = SkipComp(c.count) /\ c.count \in Nat /\ c.count # 0
       \/ c.type = "insert" /\ c = InsertComp(c.text) /\ c.text \in Seq(X) /\ Len(c.text) # 0
  <2>1. c.type \notin Stubs
    BY <1>9 DEF Stubs
  <2>2. ot_comp_size(c) # 0
    BY <1>9, <2>1 DEF IsEmpty
  <2> QED
    BY <1>9, <2>2, PieceCases
<1> QED
  BY <1>7, <1>8, <1>10 DEF n

LEMMA EndsWithSkip ==
  ASSUME NEW X, NEW s \in OperationsOver(X), NEW n \in Nat, n # 0
  PROVE  LET p == Append(s, SkipComp(n))
         IN  /\ BaseLen(p) = BaseLen(s) + n /\ BaseLen(p) # 0
             /\ Layout(p).gaps = Layout(s).gaps /\ Layout(p).word = Layout(s).word
             /\ \A j \in 1..Len(Layout(p).gaps) : Layout(p).gaps[j] < BaseLen(p)
<1> DEFINE p == Append(s, SkipComp(n))
           b == BaseLen(s)
           g == Layout(s).gaps
<1>1. BaseLen(p) = b + n /\ Layout(p) = Advanced(Layout(s), n) /\ b \in Nat
  BY LengthsWithComponent, LayoutWith, LengthsAreNat
<1> HIDE DEF p
<1>2. Layout(p).gaps = g /\ Layout(p).word = Layout(s).word
  BY <1>1 DEF Advanced
<1>3. g \in Seq(Nat) /\ \A j \in 1..Len(g) : g[j] <= b
  BY LayoutBounds, LayoutIsTyped, LayoutParts DEF LaidOut
<1> HIDE DEF g, b
<1>4. ASSUME NEW j \in 1..Len(g) PROVE g[j] < b + n
  <2>1. g[j] \in Nat /\ g[j] <= b
    BY <1>3
  <2> QED
    BY <1>1, <2>1
<1> QED
  BY <1>1, <1>2, <1>4 DEF p, g, b

LEMMA EndsWithInsert ==
  ASSUME NEW X, NEW s \in OperationsOver(X), NEW x \in Seq(X), Len(x) # 0
  PROVE  LET p == Append(s, InsertComp(x))
             g == Layout(p).gaps
             h == Layout(s).gaps
         IN  /\ BaseLen(p) = BaseLen(s)
             /\ Layout(p).word = Layout(s).word \o x
             /\ Len(h) \in Nat /\ Len(g) = Len(h) + Len(x)
             /\ \A j \in 1..Len(h) : g[j] = h[j]
             /\ \A j \in 1..Len(g) : j > Len(h) => g[j] = BaseLen(p)
             /\ Len(g) \in 1..Len(g) /\ g[Len(g)] = BaseLen(p)
<1> DEFINE p == Append(s, InsertComp(x))
           b == BaseLen(s)
           h == Layout(s).gaps
           g == Layout(p).gaps
           l == Len(h)
           m == Len(x)
<1>1. BaseLen(p) = b /\ Layout(p) = Widened(Layout(s), x) /\ b \in Nat
  BY LengthsWithComponent, LayoutWith, LengthsAreNat
<1>2. Layout(p).word = Layout(s).word \o x
  BY <1>1 DEF Widened
<1>3. LaidOut(Layout(s), b, Volume(s)) /\ Layout(s) \in Layouts(X) /\ Volume(s) \in Nat
  BY LayoutBounds, LayoutIsTyped, LengthsAreNat
<1>4. /\ Len(g) = l + m
      /\ \A j \in 1..l : g[j] = h[j]
      /\ \A j \in 1..Len(g) : j > l => g[j] = b
  <2>1. /\ Len(Widened(Layout(s), x).gaps) = l + m
        /\ \A j \in 1..l : Widened(Layout(s), x).gaps[j] = h[j]
        /\ \A j \in 1..Len(Widened(Layout(s), x).gaps) : j > l => Widened(Layout(s), x).gaps[j] = b
    BY <1>1, <1>3, WidenedReach
  <2> QED
    BY <1>1, <2>1
<1>5. l \in Nat /\ m \in Nat /\ m # 0
  <2>1. h \in Seq(Nat)
    BY <1>3, LayoutParts
  <2> HIDE DEF h
  <2> QED
    BY <2>1
<1> HIDE DEF p, b, h, g, l, m
<1>6. Len(g) \in 1..Len(g) /\ Len(g) > l
  BY <1>4, <1>5
<1>7. g[Len(g)] = b
  BY <1>4, <1>6
<1> QED
  BY <1>1, <1>2, <1>4, <1>5, <1>6, <1>7 DEF p, b, h, g, l, m

LEMMA SameEnds ==
  ASSUME NEW S, NEW u \in Seq(S), NEW v \in Seq(S), NEW x \in Seq(S), NEW y \in Seq(S),
         u \o x = v \o y, Len(u) = Len(v)
  PROVE  u = v /\ x = y
<1> DEFINE l == Len(u)
           k == Len(x)
<1>1. /\ l \in Nat /\ k \in Nat /\ Len(u \o x) = l + k
      /\ \A i \in 1..(l + k) : (u \o x)[i] = IF i <= l THEN u[i] ELSE x[i - l]
  <2>0. Len(u) \in Nat /\ Len(x) \in Nat
    OBVIOUS
  <2>1. Len(u \o x) = Len(u) + Len(x)
    BY ConcatProperties
  <2>2. \A i \in 1..(Len(u) + Len(x)) : (u \o x)[i] = IF i <= Len(u) THEN u[i] ELSE x[i - Len(u)]
    BY ConcatProperties
  <2> QED
    BY <2>0, <2>1, <2>2
<1>2. /\ Len(v) = l /\ Len(v \o y) = l + Len(y) /\ Len(y) \in Nat
      /\ \A i \in 1..(l + Len(y)) : (v \o y)[i] = IF i <= l THEN v[i] ELSE y[i - l]
  BY ConcatProperties
<1>3. Len(y) = k
  BY <1>1, <1>2
<1> HIDE DEF l, k
<1>4. ASSUME NEW i \in 1..l PROVE u[i] = v[i]
  <2>1. i \in 1..(l + k) /\ i <= l
    BY <1>1
  <2> QED
    BY <1>1, <1>2, <1>3, <2>1
<1>5. ASSUME NEW i \in 1..k PROVE x[i] = y[i]
  <2>1. i + l \in 1..(l + k) /\ ~(i + l <= l) /\ (i + l) - l = i
    BY <1>1
  <2> QED
    BY <1>1, <1>2, <1>3, <2>1
<1>6. u = v
  BY <1>2, <1>4, SeqEqual DEF l
<1>7. x = y
  BY <1>3, <1>5, SeqEqual DEF k
<1> QED
  BY <1>6, <1>7

\* A plain operation is what it spans and inserts, and where.
Same(p, q) == /\ BaseLen(p) = BaseLen(q)
              /\ Layout(p).gaps = Layout(q).gaps /\ Layout(p).word = Layout(q).word

LEMMA SameWhenSkips ==
  ASSUME NEW X, NEW s \in OperationsOver(X), NEW t \in OperationsOver(X),
         NEW m \in Nat, NEW n \in Nat, m # 0, n # 0,
         Plain(Append(s, SkipComp(m))), Plain(Append(t, SkipComp(n))),
         Same(Append(s, SkipComp(m)), Append(t, SkipComp(n)))
  PROVE  Same(s, t) /\ m = n
<1> DEFINE p == Append(s, SkipComp(m))
           q == Append(t, SkipComp(n))
           g == Layout(s).gaps
<1>1. /\ BaseLen(p) = BaseLen(s) + m /\ BaseLen(q) = BaseLen(t) + n
      /\ Layout(p).gaps = g /\ Layout(q).gaps = Layout(t).gaps
      /\ Layout(p).word = Layout(s).word /\ Layout(q).word = Layout(t).word
  BY EndsWithSkip
<1>2. Layout(t).gaps = g /\ Layout(s).word = Layout(t).word /\ BaseLen(s) + m = BaseLen(t) + n
  BY <1>1 DEF Same
<1>3. BaseLen(s) \in Nat /\ BaseLen(t) \in Nat
  BY LengthsAreNat
<1>4. ASSUME NEW r \in OperationsOver(X), NEW k \in Nat, k # 0, Plain(Append(r, SkipComp(k)))
      PROVE  \/ BaseLen(r) = 0 /\ Len(Layout(r).gaps) = 0
             \/ Len(Layout(r).gaps) # 0 /\ BaseLen(r) = Layout(r).gaps[Len(Layout(r).gaps)]
  <2> DEFINE c == SkipComp(k)
  <2>0. c \in ComponentsOver(X) /\ c.type = "skip"
    BY CountedComponents DEF SkipComp
  <2> HIDE DEF c
  <2>1. Plain(r) /\ (r # <<>> => Len(r) \in 1..Len(r) /\ r[Len(r)].type # "skip")
    BY <1>4, <2>0, PlainEnd DEF c
  <2>2. CASE r = <<>>
    <3>1. BaseLen(r) = 0 /\ Layout(r) = NoLayout
      BY <2>2, LengthsOfEmpty, LayoutOfEmpty
    <3> QED
      BY <3>1 DEF NoLayout
  <2>3. CASE r # <<>>
    <3>1. PICK w \in OperationsOver(X), e \in ComponentsOver(X) : r = Append(w, e)
      BY <2>3, SequenceEmptyOrAppend DEF OperationsOver
    <3>2. r[Len(r)] = e
      BY <3>1, Longer
    <3>3. e = InsertComp(e.text) /\ e.text \in Seq(X) /\ Len(e.text) # 0
      <4>1. Plain(Append(w, e))
        BY <2>1, <3>1
      <4> QED
        BY <2>1, <2>3, <3>2, <4>1, PlainEnd
    <3> DEFINE x == e.text
    <3>4. r = Append(w, InsertComp(x)) /\ x \in Seq(X) /\ Len(x) # 0
      BY <3>1, <3>3
    <3> HIDE DEF x
    <3>5. Len(Layout(r).gaps) \in 1..Len(Layout(r).gaps) /\ Layout(r).gaps[Len(Layout(r).gaps)] = BaseLen(r)
      BY <3>4, EndsWithInsert
    <3> QED
      BY <3>5
  <2> QED
    BY <2>2, <2>3
<1>5. \/ BaseLen(s) = 0 /\ Len(g) = 0
      \/ Len(g) # 0 /\ BaseLen(s) = g[Len(g)]
  BY <1>4
<1>6. \/ BaseLen(t) = 0 /\ Len(g) = 0
      \/ Len(g) # 0 /\ BaseLen(t) = g[Len(g)]
  <2>1. \/ BaseLen(t) = 0 /\ Len(Layout(t).gaps) = 0
        \/ Len(Layout(t).gaps) # 0 /\ BaseLen(t) = Layout(t).gaps[Len(Layout(t).gaps)]
    BY <1>4
  <2> QED
    BY <1>2, <2>1
<1>7. BaseLen(s) = BaseLen(t)
  BY <1>5, <1>6
<1>8. m = n
  BY <1>2, <1>3, <1>7
<1> QED
  BY <1>2, <1>7, <1>8 DEF Same

LEMMA SameWhenInserts ==
  ASSUME NEW X, NEW s \in OperationsOver(X), NEW t \in OperationsOver(X),
         NEW x \in Seq(X), NEW y \in Seq(X), Len(x) # 0, Len(y) # 0,
         Plain(Append(s, InsertComp(x))), Plain(Append(t, InsertComp(y))),
         Same(Append(s, InsertComp(x)), Append(t, InsertComp(y)))
  PROVE  Same(s, t) /\ x = y
<1> DEFINE p == Append(s, InsertComp(x))
           q == Append(t, InsertComp(y))
           g == Layout(p).gaps
           b == BaseLen(p)
           u == Layout(s).gaps
           v == Layout(t).gaps
           w == Layout(s).word
           z == Layout(t).word
<1>1. /\ b = BaseLen(s) /\ Layout(p).word = w \o x
      /\ Len(u) \in Nat /\ Len(g) = Len(u) + Len(x)
      /\ \A j \in 1..Len(u) : g[j] = u[j]
      /\ \A j \in 1..Len(g) : j > Len(u) => g[j] = b
  BY EndsWithInsert
<1>2. /\ BaseLen(q) = BaseLen(t) /\ Layout(q).word = z \o y
      /\ Len(v) \in Nat /\ Len(Layout(q).gaps) = Len(v) + Len(y)
      /\ \A j \in 1..Len(v) : Layout(q).gaps[j] = v[j]
      /\ \A j \in 1..Len(Layout(q).gaps) : j > Len(v) => Layout(q).gaps[j] = BaseLen(q)
  BY EndsWithInsert
<1>3. Layout(q).gaps = g /\ w \o x = z \o y /\ BaseLen(q) = b
  BY <1>1, <1>2 DEF Same
<1>4. /\ b = BaseLen(t) /\ Len(g) = Len(v) + Len(y)
      /\ \A j \in 1..Len(v) : g[j] = v[j]
      /\ \A j \in 1..Len(g) : j > Len(v) => g[j] = b
  BY <1>2, <1>3
<1>5. ASSUME NEW r \in OperationsOver(X), NEW a \in Seq(X), Len(a) # 0, Plain(Append(r, InsertComp(a)))
      PROVE  \A j \in 1..Len(Layout(r).gaps) : Layout(r).gaps[j] # BaseLen(r)
  <2> DEFINE c == InsertComp(a)
  <2>0. c \in ComponentsOver(X) /\ c.type = "insert"
    BY MadeComponents DEF InsertComp
  <2> HIDE DEF c
  <2>1. Plain(r) /\ (r # <<>> => Len(r) \in 1..Len(r) /\ r[Len(r)].type # "insert")
    BY <1>5, <2>0, PlainEnd DEF c
  <2>2. CASE r = <<>>
    <3>1. Layout(r).gaps = <<>>
      BY <2>2, LayoutOfEmpty DEF NoLayout
    <3> QED
      BY <3>1
  <2>3. CASE r # <<>>
    <3>1. PICK f \in OperationsOver(X), e \in ComponentsOver(X) : r = Append(f, e)
      BY <2>3, SequenceEmptyOrAppend DEF OperationsOver
    <3>2. r[Len(r)] = e
      BY <3>1, Longer
    <3>3. e = SkipComp(e.count) /\ e.count \in Nat /\ e.count # 0
      <4>1. Plain(Append(f, e))
        BY <2>1, <3>1
      <4> QED
        BY <2>1, <2>3, <3>2, <4>1, PlainEnd
    <3> DEFINE k == e.count
    <3>4. r = Append(f, SkipComp(k)) /\ k \in Nat /\ k # 0
      BY <3>1, <3>3
    <3> HIDE DEF k
    <3>5. \A j \in 1..Len(Layout(r).gaps) : Layout(r).gaps[j] < BaseLen(r)
      BY <3>4, EndsWithSkip
    <3>6. Layout(r).gaps \in Seq(Nat) /\ BaseLen(r) \in Nat
      BY LayoutIsTyped, LayoutParts, LengthsAreNat
    <3> DEFINE h == Layout(r).gaps
    <3> HIDE DEF h
    <3>7. h \in Seq(Nat) /\ \A j \in 1..Len(h) : h[j] < BaseLen(r)
      BY <3>5, <3>6 DEF h
    <3>8. \A j \in 1..Len(h) : h[j] # BaseLen(r)
      BY <3>6, <3>7
    <3> QED
      BY <3>8 DEF h
  <2> QED
    BY <2>2, <2>3
<1>6. /\ \A j \in 1..Len(u) : u[j] # b
      /\ \A j \in 1..Len(v) : v[j] # b
  BY <1>1, <1>4, <1>5
<1>7. u \in Seq(Nat) /\ v \in Seq(Nat) /\ w \in Seq(X) /\ z \in Seq(X) /\ b \in Nat
  BY <1>1, LayoutIsTyped, LayoutParts, LengthsAreNat
<1>8. Len(w) = Len(u) /\ Len(z) = Len(v)
  BY LayoutBounds DEF LaidOut
<1> DEFINE a == Len(u)
           d == Len(v)
           k == Len(x)
           l == Len(y)
<1>9. k \in Nat /\ l \in Nat /\ k # 0 /\ l # 0
  OBVIOUS
<1> HIDE DEF p, q, g, b, u, v, w, z, k, l
<1>10. a = d
  <2> HIDE DEF a, d
  <2>0. /\ a \in Nat /\ d \in Nat /\ Len(g) = a + k /\ Len(g) = d + l
        /\ \A j \in 1..a : g[j] # b
        /\ \A j \in 1..d : g[j] # b
        /\ \A j \in 1..Len(g) : (j > a => g[j] = b) /\ (j > d => g[j] = b)
    <3>1. a \in Nat /\ Len(g) = a + k /\ \A j \in 1..Len(g) : j > a => g[j] = b
      BY <1>1 DEF a, k
    <3>2. d \in Nat /\ Len(g) = d + l /\ \A j \in 1..Len(g) : j > d => g[j] = b
      BY <1>2, <1>4 DEF d, l
    <3>3. \A j \in 1..a : g[j] = u[j] /\ u[j] # b
      BY <1>1, <1>6 DEF a
    <3>4. \A j \in 1..d : g[j] = v[j] /\ v[j] # b
      BY <1>4, <1>6 DEF d
    <3> QED
      BY <3>1, <3>2, <3>3, <3>4
  <2>1. CASE a < d
    <3>1. d \in 1..d /\ d \in 1..Len(g) /\ d > a
      BY <1>9, <2>0, <2>1
    <3> QED
      BY <2>0, <3>1
  <2>2. CASE d < a
    <3>1. a \in 1..a /\ a \in 1..Len(g) /\ a > d
      BY <1>9, <2>0, <2>2
    <3> QED
      BY <2>0, <3>1
  <2> QED
    BY <2>0, <2>1, <2>2
<1>11. u = v
  <2>1. \A j \in 1..Len(u) : u[j] = v[j]
    BY <1>1, <1>4, <1>10
  <2> QED
    BY <1>7, <1>10, <2>1, SeqEqual
<1>12. w = z /\ x = y
  <2>1. Len(w) = Len(z)
    BY <1>8, <1>10
  <2> QED
    BY <1>3, <1>7, <2>1, SameEnds
<1>13. BaseLen(s) = BaseLen(t)
  BY <1>1, <1>4
<1> QED
  BY <1>11, <1>12, <1>13 DEF Same, u, v, w, z

LEMMA SameOperation ==
  ASSUME NEW X, NEW p \in OperationsOver(X), NEW q \in OperationsOver(X),
         Plain(p), Plain(q), Same(p, q)
  PROVE  p = q
<1> DEFINE C == ComponentsOver(X)
           T == {s \in OperationsOver(X) :
                   \A r \in OperationsOver(X) : Plain(s) /\ Plain(r) /\ Same(s, r) => s = r}
<1>1. ASSUME NEW s \in OperationsOver(X), NEW c \in C, Plain(Append(s, c))
      PROVE  ~Same(Append(s, c), <<>>)
  <2>1. /\ Plain(s)
        /\ \/ c.type = "skip" /\ c = SkipComp(c.count) /\ c.count \in Nat /\ c.count # 0
           \/ c.type = "insert" /\ c = InsertComp(c.text) /\ c.text \in Seq(X) /\ Len(c.text) # 0
    BY <1>1, PlainEnd
  <2>2. BaseLen(<<>>) = 0 /\ Layout(<<>>).gaps = <<>>
    BY LengthsOfEmpty, LayoutOfEmpty DEF NoLayout
  <2>3. CASE c = SkipComp(c.count) /\ c.count \in Nat /\ c.count # 0
    <3> DEFINE n == c.count
    <3>1. c = SkipComp(n) /\ n \in Nat /\ n # 0
      BY <2>3
    <3> HIDE DEF n
    <3>2. BaseLen(Append(s, SkipComp(n))) # 0
      BY <3>1, EndsWithSkip
    <3> QED
      BY <2>2, <3>1, <3>2 DEF Same
  <2>4. CASE c = InsertComp(c.text) /\ c.text \in Seq(X) /\ Len(c.text) # 0
    <3> DEFINE x == c.text
    <3>1. c = InsertComp(x) /\ x \in Seq(X) /\ Len(x) # 0
      BY <2>4
    <3> HIDE DEF x
    <3> DEFINE g == Layout(Append(s, InsertComp(x))).gaps
    <3>2. Len(g) \in 1..Len(g)
      BY <3>1, EndsWithInsert
    <3>3. g # <<>>
      <4> HIDE DEF g
      <4> QED
        BY <3>2
    <3> QED
      BY <2>2, <3>1, <3>3 DEF Same
  <2> QED
    BY <2>1, <2>3, <2>4
<1>2. <<>> \in T
  <2> SUFFICES ASSUME NEW r \in OperationsOver(X), Plain(r), Same(<<>>, r) PROVE <<>> = r
    BY EmptyOperation
  <2> SUFFICES ASSUME r # <<>> PROVE FALSE
    OBVIOUS
  <2>1. PICK s \in OperationsOver(X), c \in C : r = Append(s, c)
    BY SequenceEmptyOrAppend DEF OperationsOver
  <2>2. Same(r, <<>>)
    BY DEF Same
  <2> QED
    BY <1>1, <2>1, <2>2
<1>3. ASSUME NEW s \in OperationsOver(X), s \in T, NEW c \in C PROVE Append(s, c) \in T
  <2>0. Append(s, c) \in OperationsOver(X)
    BY Longer
  <2>11. \A r \in OperationsOver(X) : Plain(s) /\ Plain(r) /\ Same(s, r) => s = r
    BY <1>3
  <2> SUFFICES ASSUME NEW r \in OperationsOver(X), Plain(Append(s, c)), Plain(r), Same(Append(s, c), r)
               PROVE  Append(s, c) = r
    BY <2>0
  <2>1. r # <<>>
    BY <1>1
  <2>2. PICK t \in OperationsOver(X), d \in C : r = Append(t, d)
    BY <2>1, SequenceEmptyOrAppend DEF OperationsOver
  <2>3. Plain(Append(t, d)) /\ Same(Append(s, c), Append(t, d))
    BY <2>2
  <2>4. /\ Plain(s)
        /\ \/ c.type = "skip" /\ c = SkipComp(c.count) /\ c.count \in Nat /\ c.count # 0
           \/ c.type = "insert" /\ c = InsertComp(c.text) /\ c.text \in Seq(X) /\ Len(c.text) # 0
    BY PlainEnd
  <2>5. /\ Plain(t)
        /\ \/ d.type = "skip" /\ d = SkipComp(d.count) /\ d.count \in Nat /\ d.count # 0
           \/ d.type = "insert" /\ d = InsertComp(d.text) /\ d.text \in Seq(X) /\ Len(d.text) # 0
    BY <2>3, PlainEnd
  <2> DEFINE m == c.count
             n == d.count
             x == c.text
             y == d.text
  <2>6. \/ c = SkipComp(m) /\ m \in Nat /\ m # 0
        \/ c = InsertComp(x) /\ x \in Seq(X) /\ Len(x) # 0
    BY <2>4
  <2>7. \/ d = SkipComp(n) /\ n \in Nat /\ n # 0
        \/ d = InsertComp(y) /\ y \in Seq(X) /\ Len(y) # 0
    BY <2>5
  <2> HIDE DEF m, n, x, y
  <2>8. CASE c = SkipComp(m) /\ m \in Nat /\ m # 0 /\ d = SkipComp(n) /\ n \in Nat /\ n # 0
    <3>1. Plain(Append(s, SkipComp(m))) /\ Plain(Append(t, SkipComp(n)))
          /\ Same(Append(s, SkipComp(m)), Append(t, SkipComp(n)))
      BY <2>3, <2>8
    <3>2. Same(s, t) /\ m = n
      BY <2>8, <3>1, SameWhenSkips
    <3>3. s = t
      BY <2>4, <2>5, <2>11, <3>2
    <3> QED
      BY <2>2, <2>8, <3>2, <3>3
  <2>9. CASE /\ c = InsertComp(x) /\ x \in Seq(X) /\ Len(x) # 0
             /\ d = InsertComp(y) /\ y \in Seq(X) /\ Len(y) # 0
    <3>1. Plain(Append(s, InsertComp(x))) /\ Plain(Append(t, InsertComp(y)))
          /\ Same(Append(s, InsertComp(x)), Append(t, InsertComp(y)))
      BY <2>3, <2>9
    <3>2. Same(s, t) /\ x = y
      BY <2>9, <3>1, SameWhenInserts
    <3>3. s = t
      BY <2>4, <2>5, <2>11, <3>2
    <3> QED
      BY <2>2, <2>9, <3>2, <3>3
  <2>10. ASSUME NEW u \in OperationsOver(X), NEW v \in OperationsOver(X),
                NEW k \in Nat, k # 0, NEW w \in Seq(X), Len(w) # 0
         PROVE  /\ ~Same(Append(u, SkipComp(k)), Append(v, InsertComp(w)))
                /\ ~Same(Append(v, InsertComp(w)), Append(u, SkipComp(k)))
    <3> DEFINE a == Append(u, SkipComp(k))
               b == Append(v, InsertComp(w))
               g == Layout(a).gaps
               h == Layout(b).gaps
    <3>1. \A j \in 1..Len(g) : g[j] < BaseLen(a)
      BY <2>10, EndsWithSkip
    <3>2. Len(h) \in 1..Len(h) /\ h[Len(h)] = BaseLen(b)
      BY <2>10, EndsWithInsert
    <3>3. BaseLen(b) \in Nat
      BY LengthsAreNat, MadeComponents, Longer
    <3> HIDE DEF g, h, a, b
    <3>4. ~(g = h /\ BaseLen(a) = BaseLen(b))
      BY <3>1, <3>2, <3>3
    <3>5. ~Same(a, b) /\ ~Same(b, a)
      BY <3>4 DEF Same, g, h
    <3> QED
      BY <3>5 DEF a, b
  <2> QED
    BY <2>3, <2>6, <2>7, <2>8, <2>9, <2>10
<1> HIDE DEF T
<1>4. Seq(C) \subseteq T
  <2>1. \A s \in Seq(C), c \in C : s \in T => Append(s, c) \in T
    BY <1>3 DEF OperationsOver
  <2> HIDE DEF C
  <2> QED
    BY <1>2, <2>1, SequenceInduction
<1> QED
  BY <1>4 DEF T, OperationsOver

-----------------------------------------------------------------------------
(***************************************************************************)
(* Part 2: turns of the loops.                                             *)
(***************************************************************************)

-----------------------------------------------------------------------------
(***************************************************************************)
(* Two operations on texts of one length, and the two that bring what they *)
(* make together again.                                                    *)
(***************************************************************************)
Merged(X, c1, c2, p1, p2) ==
  /\ c1 \in OperationsOver(X) /\ c2 \in OperationsOver(X)
  /\ p1 \in OperationsOver(X) /\ p2 \in OperationsOver(X)
  /\ BaseLen(c1) = BaseLen(c2)
  /\ BaseLen(p1) = OutLen(c2) /\ BaseLen(p2) = OutLen(c1) /\ OutLen(p1) = OutLen(p2)
  /\ \A text \in Seq(X) :
       Len(text) = BaseLen(c1) =>
         ApplyTo(p2, ApplyTo(c1, text)) = ApplyTo(p1, ApplyTo(c2, text))

LEMMA MergedSymmetric ==
  ASSUME NEW X, NEW c1, NEW c2, NEW p1, NEW p2, Merged(X, c1, c2, p1, p2)
  PROVE  Merged(X, c2, c1, p2, p1)
BY DEF Merged

LEMMA MergedAlike ==
  ASSUME NEW X, NEW c1, NEW c2, NEW p1, NEW p2, NEW d1, NEW d2, NEW q1, NEW q2,
         Merged(X, c1, c2, p1, p2),
         Alike(X, d1, c1), Alike(X, d2, c2), Alike(X, q1, p1), Alike(X, q2, p2)
  PROVE  Merged(X, d1, d2, q1, q2)
<1>1. ASSUME NEW text \in Seq(X), Len(text) = BaseLen(d1)
      PROVE  ApplyTo(q2, ApplyTo(d1, text)) = ApplyTo(q1, ApplyTo(d2, text))
  <2>1. ApplyTo(d1, text) = ApplyTo(c1, text) /\ ApplyTo(d2, text) = ApplyTo(c2, text)
    BY DEF Alike
  <2>2. ApplyTo(c1, text) \in Seq(X) /\ ApplyTo(c2, text) \in Seq(X)
    BY MadeIsText DEF Merged
  <2>3. /\ ApplyTo(q2, ApplyTo(c1, text)) = ApplyTo(p2, ApplyTo(c1, text))
        /\ ApplyTo(q1, ApplyTo(c2, text)) = ApplyTo(p1, ApplyTo(c2, text))
    BY <2>2 DEF Alike
  <2>4. Len(text) = BaseLen(c1)
    BY <1>1 DEF Alike
  <2> QED
    BY <2>1, <2>3, <2>4 DEF Merged
<1> QED
  BY <1>1 DEF Merged, Alike

LEMMA MergedAtStart ==
  ASSUME NEW X
  PROVE  Merged(X, <<>>, <<>>, <<>>, <<>>)
BY EmptyOperation, LengthsOfEmpty, SMTT(40) DEF Merged

\* The first m characters of a text, and the others.
Lead(text, m) == SubSeq(text, 1, m)
Rest(text, m) == SubSeq(text, m + 1, Len(text))

LEMMA TextSplits ==
  ASSUME NEW X, NEW text \in Seq(X), NEW m \in Nat, m <= Len(text)
  PROVE  /\ text = Lead(text, m) \o Rest(text, m)
         /\ Lead(text, m) \in Seq(X) /\ Len(Lead(text, m)) = m
         /\ Rest(text, m) \in Seq(X) /\ Len(Rest(text, m)) = Len(text) - m
<1> DEFINE a == SubSeq(text, 1, m)
           b == SubSeq(text, m + 1, Len(text))
<1>1. 1 \in 1..(Len(text) + 1) /\ m \in (1 - 1)..Len(text) /\ Len(text) \in m..Len(text)
  OBVIOUS
<1>2. a \o b = SubSeq(text, 1, Len(text))
  BY <1>1, ConcatAdjacentSubSeq
<1>3. SubSeq(text, 1, Len(text)) = text
  BY SubSeqFull
<1>4. /\ SubSeq(text, 0 + 1, m) \in Seq(X)
      /\ Len(SubSeq(text, 0 + 1, m)) = IF 0 <= m THEN m - 0 ELSE 0
  BY Between
<1>5. b \in Seq(X) /\ Len(b) = Len(text) - m
  BY Between
<1>6. a \in Seq(X) /\ Len(a) = m
  BY <1>4
<1> HIDE DEF a, b
<1> QED
  BY <1>2, <1>3, <1>5, <1>6, ZenonT(60) DEF Lead, Rest, a, b

LEMMA SkipAtEnd ==
  ASSUME NEW X, NEW c \in OperationsOver(X), NEW a \in Seq(X), NEW b \in Seq(X),
         Len(a) = BaseLen(c), NEW n \in Nat, Len(b) = n
  PROVE  ApplyTo(Append(c, SkipComp(n)), a \o b) = ApplyTo(c, a) \o b
BY MadeOfBoth

LEMMA DeleteAtEnd ==
  ASSUME NEW X, NEW c \in OperationsOver(X), NEW a \in Seq(X), NEW b \in Seq(X),
         Len(a) = BaseLen(c), NEW n \in Nat, Len(b) = n
  PROVE  ApplyTo(Append(c, DeleteComp(n)), a \o b) = ApplyTo(c, a)
BY MadeOfBoth

LEMMA MadeExactly ==
  ASSUME NEW X, NEW c \in OperationsOver(X), NEW a \in Seq(X), Len(a) = BaseLen(c)
  PROVE  ApplyTo(c, a) \in Seq(X) /\ Len(ApplyTo(c, a)) = OutLen(c)
<1>1. BaseLen(c) <= Len(a)
  OBVIOUS
<1> QED
  BY <1>1, MadeIsText, MadeLength

\* What an operation with a component more does to a text that is longer.
BothMade(X, c, n, a, b) ==
  /\ ApplyTo(c, a) \in Seq(X) /\ Len(ApplyTo(c, a)) = OutLen(c)
  /\ ApplyTo(Append(c, SkipComp(n)), a \o b) = ApplyTo(c, a) \o b
  /\ ApplyTo(Append(c, DeleteComp(n)), a \o b) = ApplyTo(c, a)

LEMMA MadeAtEnd ==
  ASSUME NEW X, NEW c, c \in OperationsOver(X), NEW a, a \in Seq(X), NEW b, b \in Seq(X),
         Len(a) = BaseLen(c), NEW n, n \in Nat, Len(b) = n
  PROVE  BothMade(X, c, n, a, b)
<1>1. ApplyTo(Append(c, SkipComp(n)), a \o b) = ApplyTo(c, a) \o b
  BY SkipAtEnd
<1>2. ApplyTo(Append(c, DeleteComp(n)), a \o b) = ApplyTo(c, a)
  BY DeleteAtEnd
<1>3. ApplyTo(c, a) \in Seq(X) /\ Len(ApplyTo(c, a)) = OutLen(c)
  BY MadeExactly
<1> QED
  BY <1>1, <1>2, <1>3 DEF BothMade

\* The same of a text that is n characters longer than the operation spans.
SplitMade(X, c, n, text) ==
  LET a == Lead(text, BaseLen(c))
      b == Rest(text, BaseLen(c))
  IN  /\ a \in Seq(X) /\ b \in Seq(X) /\ Len(a) = BaseLen(c) /\ Len(b) = n
      /\ ApplyTo(c, a) \in Seq(X) /\ Len(ApplyTo(c, a)) = OutLen(c)
      /\ ApplyTo(Append(c, SkipComp(n)), text) = ApplyTo(c, a) \o b
      /\ ApplyTo(Append(c, DeleteComp(n)), text) = ApplyTo(c, a)

LEMMA MadeOfSplit ==
  ASSUME NEW X, NEW c, c \in OperationsOver(X), NEW n \in Nat, NEW text \in Seq(X),
         Len(text) = BaseLen(c) + n
  PROVE  SplitMade(X, c, n, text)
<1> DEFINE m == BaseLen(c)
           a == Lead(text, m)
           b == Rest(text, m)
<1>1. m \in Nat /\ m <= Len(text) /\ Len(text) - m = n
  BY LengthsAreNat
<1> HIDE DEF m
<1>2. text = a \o b /\ a \in Seq(X) /\ Len(a) = m /\ b \in Seq(X) /\ Len(b) = Len(text) - m
  BY <1>1, TextSplits
<1> HIDE DEF a, b
<1>3. Len(b) = n /\ Len(a) = BaseLen(c)
  BY <1>1, <1>2 DEF m
<1>4. BothMade(X, c, n, a, b)
  BY <1>2, <1>3, MadeAtEnd
<1> QED
  BY <1>2, <1>3, <1>4 DEF SplitMade, BothMade, a, b, m

\* One of the two inserts.
LEMMA MergedInsert ==
  ASSUME NEW X, NEW c1, NEW c2, NEW p1, NEW p2, Merged(X, c1, c2, p1, p2),
         NEW x \in Seq(X), NEW n, n = Len(x)
  PROVE  Merged(X, Append(c1, InsertComp(x)), c2,
                   Append(p1, InsertComp(x)), Append(p2, SkipComp(n)))
<1>1. /\ c1 \in OperationsOver(X) /\ c2 \in OperationsOver(X)
      /\ p1 \in OperationsOver(X) /\ p2 \in OperationsOver(X)
      /\ n \in Nat /\ InsertComp(x) \in ComponentsOver(X) /\ SkipComp(n) \in ComponentsOver(X)
  BY MadeComponents, CountedComponents DEF Merged
<1>2. /\ BaseLen(Append(c1, InsertComp(x))) = BaseLen(c1)
      /\ OutLen(Append(c1, InsertComp(x))) = OutLen(c1) + Len(x)
      /\ BaseLen(Append(p1, InsertComp(x))) = BaseLen(p1)
      /\ OutLen(Append(p1, InsertComp(x))) = OutLen(p1) + Len(x)
      /\ BaseLen(Append(p2, SkipComp(n))) = BaseLen(p2) + n
      /\ OutLen(Append(p2, SkipComp(n))) = OutLen(p2) + n
  BY <1>1, LengthsWithComponent
<1>3. /\ Append(c1, InsertComp(x)) \in OperationsOver(X)
      /\ Append(p1, InsertComp(x)) \in OperationsOver(X)
      /\ Append(p2, SkipComp(n)) \in OperationsOver(X)
  BY <1>1, Longer
<1>4. ASSUME NEW text \in Seq(X), Len(text) = BaseLen(c1)
      PROVE  ApplyTo(Append(p2, SkipComp(n)), ApplyTo(Append(c1, InsertComp(x)), text)) =
               ApplyTo(Append(p1, InsertComp(x)), ApplyTo(c2, text))
  <2> DEFINE a == ApplyTo(c1, text)
             b == ApplyTo(c2, text)
  <2>1. a \in Seq(X) /\ b \in Seq(X) /\ Len(a) = BaseLen(p2) /\ ApplyTo(p2, a) = ApplyTo(p1, b)
    <3>1. BaseLen(c1) <= Len(text)
      BY <1>1, <1>4, LengthsAreNat
    <3> QED
      BY <1>1, <1>4, <3>1, MadeIsText, MadeLength DEF Merged
  <2>2. ApplyTo(Append(c1, InsertComp(x)), text) = a \o x
    BY <1>1, MadeWithInsert
  <2> HIDE DEF a, b
  <2>3. ApplyTo(Append(p2, SkipComp(n)), a \o x) = ApplyTo(p2, a) \o x
    <3>1. BothMade(X, p2, n, a, x)
      BY <1>1, <2>1, MadeAtEnd
    <3> QED
      BY <3>1 DEF BothMade
  <2>4. ApplyTo(Append(p1, InsertComp(x)), b) = ApplyTo(p1, b) \o x
    BY <1>1, <2>1, MadeWithInsert, ZenonT(60)
  <2> QED
    BY <2>1, <2>2, <2>3, <2>4 DEF b
<1>5. Merged(X, c1, c2, p1, p2)
  OBVIOUS
<1> QED
  BY <1>1, <1>2, <1>3, <1>4, <1>5 DEF Merged

\* What both make of a text that is n characters longer: a1 or a1 \o b the
\* first, a2 or a2 \o b the second, for the last n characters b.
WalkMade(X, c1, c2, p1, p2, n, text, a1, a2, b) ==
  /\ a1 \in Seq(X) /\ a2 \in Seq(X) /\ b \in Seq(X) /\ Len(b) = n
  /\ Len(a1) = BaseLen(p2) /\ Len(a2) = BaseLen(p1)
  /\ ApplyTo(p2, a1) = ApplyTo(p1, a2)
  /\ ApplyTo(Append(c1, SkipComp(n)), text) = a1 \o b
  /\ ApplyTo(Append(c1, DeleteComp(n)), text) = a1
  /\ ApplyTo(Append(c2, SkipComp(n)), text) = a2 \o b
  /\ ApplyTo(Append(c2, DeleteComp(n)), text) = a2

\* Both walk over n characters of the text: whether they keep or delete them.
LEMMA MergedWalk ==
  ASSUME NEW X, NEW c1, NEW c2, NEW p1, NEW p2, Merged(X, c1, c2, p1, p2), NEW n \in Nat
  PROVE  /\ Merged(X, Append(c1, SkipComp(n)), Append(c2, SkipComp(n)),
                      Append(p1, SkipComp(n)), Append(p2, SkipComp(n)))
         /\ Merged(X, Append(c1, SkipComp(n)), Append(c2, DeleteComp(n)),
                      p1, Append(p2, DeleteComp(n)))
         /\ Merged(X, Append(c1, DeleteComp(n)), Append(c2, DeleteComp(n)), p1, p2)
<1>1. /\ c1 \in OperationsOver(X) /\ c2 \in OperationsOver(X)
      /\ p1 \in OperationsOver(X) /\ p2 \in OperationsOver(X)
      /\ BaseLen(c1) = BaseLen(c2)
      /\ BaseLen(p1) = OutLen(c2) /\ BaseLen(p2) = OutLen(c1) /\ OutLen(p1) = OutLen(p2)
  BY DEF Merged
<1>2. ASSUME NEW s \in OperationsOver(X)
      PROVE  /\ BaseLen(Append(s, SkipComp(n))) = BaseLen(s) + n
             /\ OutLen(Append(s, SkipComp(n))) = OutLen(s) + n
             /\ BaseLen(Append(s, DeleteComp(n))) = BaseLen(s) + n
             /\ OutLen(Append(s, DeleteComp(n))) = OutLen(s)
             /\ Append(s, SkipComp(n)) \in OperationsOver(X)
             /\ Append(s, DeleteComp(n)) \in OperationsOver(X)
             /\ BaseLen(s) \in Nat
  BY CountedComponents, Longer, LengthsWithComponent, LengthsAreNat
<1>3. ASSUME NEW text \in Seq(X), Len(text) = BaseLen(c1) + n
      PROVE  \E a1, a2, b : WalkMade(X, c1, c2, p1, p2, n, text, a1, a2, b)
  <2> DEFINE a == Lead(text, BaseLen(c1))
             b == Rest(text, BaseLen(c1))
             a1 == ApplyTo(c1, a)
             a2 == ApplyTo(c2, a)
  <2>1. SplitMade(X, c1, n, text)
    BY <1>1, <1>3, MadeOfSplit
  <2>2. SplitMade(X, c2, n, text)
    <3>1. Len(text) = BaseLen(c2) + n
      BY <1>1, <1>3
    <3> QED
      BY <1>1, <3>1, MadeOfSplit
  <2>3. /\ a \in Seq(X) /\ b \in Seq(X) /\ Len(a) = BaseLen(c1) /\ Len(b) = n
        /\ a1 \in Seq(X) /\ Len(a1) = OutLen(c1)
        /\ ApplyTo(Append(c1, SkipComp(n)), text) = a1 \o b
        /\ ApplyTo(Append(c1, DeleteComp(n)), text) = a1
    BY <2>1 DEF SplitMade
  <2>4. /\ a2 \in Seq(X) /\ Len(a2) = OutLen(c2)
        /\ ApplyTo(Append(c2, SkipComp(n)), text) = a2 \o b
        /\ ApplyTo(Append(c2, DeleteComp(n)), text) = a2
    BY <1>1, <2>2 DEF SplitMade
  <2>5. ApplyTo(p2, a1) = ApplyTo(p1, a2)
    BY <2>3 DEF Merged
  <2>6. WalkMade(X, c1, c2, p1, p2, n, text, a1, a2, b)
    <3> HIDE DEF a1, a2, b
    <3> QED
      BY <1>1, <2>3, <2>4, <2>5 DEF WalkMade
  <2> QED
    BY <2>6
<1>4. Merged(X, Append(c1, SkipComp(n)), Append(c2, SkipComp(n)),
                Append(p1, SkipComp(n)), Append(p2, SkipComp(n)))
  <2>1. ASSUME NEW text \in Seq(X), Len(text) = BaseLen(c1) + n
        PROVE  ApplyTo(Append(p2, SkipComp(n)), ApplyTo(Append(c1, SkipComp(n)), text)) =
                 ApplyTo(Append(p1, SkipComp(n)), ApplyTo(Append(c2, SkipComp(n)), text))
    <3>1. PICK a1, a2, b : WalkMade(X, c1, c2, p1, p2, n, text, a1, a2, b)
      BY <1>3, <2>1
    <3>2. /\ a1 \in Seq(X) /\ a2 \in Seq(X) /\ b \in Seq(X) /\ Len(b) = n
          /\ Len(a1) = BaseLen(p2) /\ Len(a2) = BaseLen(p1)
      BY <3>1 DEF WalkMade
    <3>3. BothMade(X, p2, n, a1, b) /\ BothMade(X, p1, n, a2, b)
      BY <1>1, <3>2, MadeAtEnd
    <3> QED
      BY <3>1, <3>3 DEF BothMade, WalkMade
  <2> QED
    BY <1>1, <1>2, <2>1 DEF Merged
<1>5. Merged(X, Append(c1, SkipComp(n)), Append(c2, DeleteComp(n)),
                p1, Append(p2, DeleteComp(n)))
  <2>1. ASSUME NEW text \in Seq(X), Len(text) = BaseLen(c1) + n
        PROVE  ApplyTo(Append(p2, DeleteComp(n)), ApplyTo(Append(c1, SkipComp(n)), text)) =
                 ApplyTo(p1, ApplyTo(Append(c2, DeleteComp(n)), text))
    <3>1. PICK a1, a2, b : WalkMade(X, c1, c2, p1, p2, n, text, a1, a2, b)
      BY <1>3, <2>1
    <3>2. a1 \in Seq(X) /\ b \in Seq(X) /\ Len(b) = n /\ Len(a1) = BaseLen(p2)
      BY <3>1 DEF WalkMade
    <3>3. BothMade(X, p2, n, a1, b)
      BY <1>1, <3>2, MadeAtEnd
    <3> QED
      BY <3>1, <3>3 DEF BothMade, WalkMade
  <2> QED
    BY <1>1, <1>2, <2>1 DEF Merged
<1>6. Merged(X, Append(c1, DeleteComp(n)), Append(c2, DeleteComp(n)), p1, p2)
  <2>1. ASSUME NEW text \in Seq(X), Len(text) = BaseLen(c1) + n
        PROVE  ApplyTo(p2, ApplyTo(Append(c1, DeleteComp(n)), text)) =
                 ApplyTo(p1, ApplyTo(Append(c2, DeleteComp(n)), text))
    <3>1. PICK a1, a2, b : WalkMade(X, c1, c2, p1, p2, n, text, a1, a2, b)
      BY <1>3, <2>1
    <3> QED
      BY <3>1 DEF WalkMade
  <2> QED
    BY <1>1, <1>2, <2>1 DEF Merged
<1> QED
  BY <1>4, <1>5, <1>6

-----------------------------------------------------------------------------
(***************************************************************************)
(* Two operations one after the other, and one that does what both do.     *)
(***************************************************************************)
InSequence(X, c1, c2, r) ==
  /\ c1 \in OperationsOver(X) /\ c2 \in OperationsOver(X) /\ r \in OperationsOver(X)
  /\ OutLen(c1) = BaseLen(c2)
  /\ BaseLen(r) = BaseLen(c1) /\ OutLen(r) = OutLen(c2)
  /\ \A text \in Seq(X) :
       Len(text) = BaseLen(c1) => ApplyTo(r, text) = ApplyTo(c2, ApplyTo(c1, text))

LEMMA InSequenceAlike ==
  ASSUME NEW X, NEW c1, NEW c2, NEW r, NEW d1, NEW d2, NEW t, InSequence(X, c1, c2, r),
         Alike(X, d1, c1), Alike(X, d2, c2), Alike(X, t, r)
  PROVE  InSequence(X, d1, d2, t)
<1>1. ASSUME NEW text \in Seq(X), Len(text) = BaseLen(d1)
      PROVE  ApplyTo(t, text) = ApplyTo(d2, ApplyTo(d1, text))
  <2>1. ApplyTo(d1, text) = ApplyTo(c1, text) /\ ApplyTo(t, text) = ApplyTo(r, text)
    BY DEF Alike
  <2>2. ApplyTo(c1, text) \in Seq(X)
    BY MadeIsText DEF InSequence
  <2>3. ApplyTo(d2, ApplyTo(c1, text)) = ApplyTo(c2, ApplyTo(c1, text))
    BY <2>2 DEF Alike
  <2>4. Len(text) = BaseLen(c1)
    BY <1>1 DEF Alike
  <2> QED
    BY <2>1, <2>3, <2>4 DEF InSequence
<1> QED
  BY <1>1 DEF InSequence, Alike

LEMMA InSequenceAtStart ==
  ASSUME NEW X
  PROVE  InSequence(X, <<>>, <<>>, <<>>)
<1>1. ASSUME NEW text \in Seq(X)
      PROVE  ApplyTo(<<>>, text) = ApplyTo(<<>>, ApplyTo(<<>>, text))
  BY MadeOfEmpty, EmptySeq
<1> QED
  BY <1>1, EmptyOperation, LengthsOfEmpty DEF InSequence

\* The first deletes, or the second inserts.
LEMMA InSequenceAlone ==
  ASSUME NEW X, NEW c1, NEW c2, NEW r, InSequence(X, c1, c2, r)
  PROVE  /\ \A n \in Nat : InSequence(X, Append(c1, DeleteComp(n)), c2, Append(r, DeleteComp(n)))
         /\ \A x \in Seq(X) : InSequence(X, c1, Append(c2, InsertComp(x)), Append(r, InsertComp(x)))
<1>1. /\ c1 \in OperationsOver(X) /\ c2 \in OperationsOver(X) /\ r \in OperationsOver(X)
      /\ OutLen(c1) = BaseLen(c2) /\ BaseLen(r) = BaseLen(c1) /\ OutLen(r) = OutLen(c2)
  BY DEF InSequence
<1>2. ASSUME NEW n \in Nat
      PROVE  InSequence(X, Append(c1, DeleteComp(n)), c2, Append(r, DeleteComp(n)))
  <2>1. ASSUME NEW s \in OperationsOver(X)
        PROVE  /\ BaseLen(Append(s, DeleteComp(n))) = BaseLen(s) + n
               /\ OutLen(Append(s, DeleteComp(n))) = OutLen(s)
               /\ Append(s, DeleteComp(n)) \in OperationsOver(X)
               /\ BaseLen(s) \in Nat
    BY CountedComponents, Longer, LengthsWithComponent, LengthsAreNat
  <2>2. ASSUME NEW text \in Seq(X), Len(text) = BaseLen(c1) + n
        PROVE  ApplyTo(Append(r, DeleteComp(n)), text) =
                 ApplyTo(c2, ApplyTo(Append(c1, DeleteComp(n)), text))
    <3> DEFINE a == Lead(text, BaseLen(c1))
    <3>1. SplitMade(X, c1, n, text)
      BY <1>1, <2>2, MadeOfSplit
    <3>2. SplitMade(X, r, n, text)
      <4>1. Len(text) = BaseLen(r) + n
        BY <1>1, <2>2
      <4> QED
        BY <1>1, <4>1, MadeOfSplit
    <3>3. /\ a \in Seq(X) /\ Len(a) = BaseLen(c1)
          /\ ApplyTo(Append(c1, DeleteComp(n)), text) = ApplyTo(c1, a)
      BY <3>1 DEF SplitMade
    <3>4. ApplyTo(Append(r, DeleteComp(n)), text) = ApplyTo(r, a)
      BY <1>1, <3>2 DEF SplitMade
    <3>5. ApplyTo(r, a) = ApplyTo(c2, ApplyTo(c1, a))
      BY <3>3 DEF InSequence
    <3> QED
      BY <3>3, <3>4, <3>5
  <2> QED
    BY <1>1, <2>1, <2>2 DEF InSequence
<1>3. ASSUME NEW x \in Seq(X)
      PROVE  InSequence(X, c1, Append(c2, InsertComp(x)), Append(r, InsertComp(x)))
  <2>1. ASSUME NEW s \in OperationsOver(X)
        PROVE  /\ BaseLen(Append(s, InsertComp(x))) = BaseLen(s)
               /\ OutLen(Append(s, InsertComp(x))) = OutLen(s) + Len(x)
               /\ Append(s, InsertComp(x)) \in OperationsOver(X)
    BY MadeComponents, Longer, LengthsWithComponent
  <2>2. ASSUME NEW text \in Seq(X), Len(text) = BaseLen(c1)
        PROVE  ApplyTo(Append(r, InsertComp(x)), text) =
                 ApplyTo(Append(c2, InsertComp(x)), ApplyTo(c1, text))
    <3> DEFINE m == ApplyTo(c1, text)
    <3>1. m \in Seq(X)
      BY <1>1, MadeIsText
    <3>2. ApplyTo(Append(r, InsertComp(x)), text) = ApplyTo(r, text) \o x
      BY <1>1, MadeWithInsert
    <3>4. ApplyTo(r, text) = ApplyTo(c2, m)
      BY <2>2 DEF InSequence
    <3> HIDE DEF m
    <3>3. ApplyTo(Append(c2, InsertComp(x)), m) = ApplyTo(c2, m) \o x
      BY <1>1, <3>1, MadeWithInsert
    <3> USE DEF m
    <3> QED
      BY <3>2, <3>3, <3>4
  <2> QED
    BY <1>1, <2>1, <2>2 DEF InSequence
<1> QED
  BY <1>2, <1>3

\* Both walk over n characters of the text between them.
LEMMA InSequenceWalk ==
  ASSUME NEW X, NEW c1, NEW c2, NEW r, InSequence(X, c1, c2, r), NEW n \in Nat
  PROVE  /\ InSequence(X, Append(c1, SkipComp(n)), Append(c2, SkipComp(n)), Append(r, SkipComp(n)))
         /\ InSequence(X, Append(c1, SkipComp(n)), Append(c2, DeleteComp(n)), Append(r, DeleteComp(n)))
         /\ \A x \in Seq(X) :
              Len(x) = n =>
                /\ InSequence(X, Append(c1, InsertComp(x)), Append(c2, SkipComp(n)),
                                 Append(r, InsertComp(x)))
                /\ InSequence(X, Append(c1, InsertComp(x)), Append(c2, DeleteComp(n)), r)
<1>1. /\ c1 \in OperationsOver(X) /\ c2 \in OperationsOver(X) /\ r \in OperationsOver(X)
      /\ OutLen(c1) = BaseLen(c2) /\ BaseLen(r) = BaseLen(c1) /\ OutLen(r) = OutLen(c2)
  BY DEF InSequence
<1>2. ASSUME NEW s \in OperationsOver(X)
      PROVE  /\ BaseLen(Append(s, SkipComp(n))) = BaseLen(s) + n
             /\ OutLen(Append(s, SkipComp(n))) = OutLen(s) + n
             /\ BaseLen(Append(s, DeleteComp(n))) = BaseLen(s) + n
             /\ OutLen(Append(s, DeleteComp(n))) = OutLen(s)
             /\ Append(s, SkipComp(n)) \in OperationsOver(X)
             /\ Append(s, DeleteComp(n)) \in OperationsOver(X)
             /\ BaseLen(s) \in Nat
  BY CountedComponents, Longer, LengthsWithComponent, LengthsAreNat
<1>3. /\ InSequence(X, Append(c1, SkipComp(n)), Append(c2, SkipComp(n)), Append(r, SkipComp(n)))
      /\ InSequence(X, Append(c1, SkipComp(n)), Append(c2, DeleteComp(n)), Append(r, DeleteComp(n)))
  <2>1. ASSUME NEW text \in Seq(X), Len(text) = BaseLen(c1) + n
        PROVE  /\ ApplyTo(Append(r, SkipComp(n)), text) =
                    ApplyTo(Append(c2, SkipComp(n)), ApplyTo(Append(c1, SkipComp(n)), text))
               /\ ApplyTo(Append(r, DeleteComp(n)), text) =
                    ApplyTo(Append(c2, DeleteComp(n)), ApplyTo(Append(c1, SkipComp(n)), text))
    <3> DEFINE a == Lead(text, BaseLen(c1))
               b == Rest(text, BaseLen(c1))
               m == ApplyTo(c1, a)
    <3>1. SplitMade(X, c1, n, text)
      BY <1>1, <2>1, MadeOfSplit
    <3>2. SplitMade(X, r, n, text)
      <4>1. Len(text) = BaseLen(r) + n
        BY <1>1, <2>1
      <4> QED
        BY <1>1, <4>1, MadeOfSplit
    <3>3. /\ a \in Seq(X) /\ b \in Seq(X) /\ Len(a) = BaseLen(c1) /\ Len(b) = n
          /\ ApplyTo(Append(c1, SkipComp(n)), text) = m \o b
          /\ m \in Seq(X) /\ Len(m) = OutLen(c1)
      BY <3>1 DEF SplitMade
    <3>4. /\ ApplyTo(Append(r, SkipComp(n)), text) = ApplyTo(r, a) \o b
          /\ ApplyTo(Append(r, DeleteComp(n)), text) = ApplyTo(r, a)
      BY <1>1, <3>2 DEF SplitMade
    <3>5. ApplyTo(r, a) = ApplyTo(c2, m)
      BY <3>3 DEF InSequence
    <3> HIDE DEF a, b, m
    <3>6. Len(m) = BaseLen(c2)
      BY <1>1, <3>3
    <3>7. BothMade(X, c2, n, m, b)
      BY <1>1, <3>3, <3>6, MadeAtEnd
    <3> QED
      BY <3>3, <3>4, <3>5, <3>7 DEF BothMade
  <2> DEFINE s1 == Append(c1, SkipComp(n))
             s2 == Append(c2, SkipComp(n))
             d2 == Append(c2, DeleteComp(n))
             sr == Append(r, SkipComp(n))
             dr == Append(r, DeleteComp(n))
  <2>2. s1 \in OperationsOver(X) /\ BaseLen(s1) = BaseLen(c1) + n /\ OutLen(s1) = OutLen(c1) + n
    BY <1>1, <1>2
  <2>3. s2 \in OperationsOver(X) /\ BaseLen(s2) = BaseLen(c2) + n /\ OutLen(s2) = OutLen(c2) + n
    BY <1>1, <1>2
  <2>4. d2 \in OperationsOver(X) /\ BaseLen(d2) = BaseLen(c2) + n /\ OutLen(d2) = OutLen(c2)
    BY <1>1, <1>2
  <2>5. sr \in OperationsOver(X) /\ BaseLen(sr) = BaseLen(r) + n /\ OutLen(sr) = OutLen(r) + n
    BY <1>1, <1>2
  <2>6. dr \in OperationsOver(X) /\ BaseLen(dr) = BaseLen(r) + n /\ OutLen(dr) = OutLen(r)
    BY <1>1, <1>2
  <2>7. \A text \in Seq(X) : Len(text) = BaseLen(s1) =>
          ApplyTo(sr, text) = ApplyTo(s2, ApplyTo(s1, text))
    BY <2>1, <2>2
  <2>8. \A text \in Seq(X) : Len(text) = BaseLen(s1) =>
          ApplyTo(dr, text) = ApplyTo(d2, ApplyTo(s1, text))
    BY <2>1, <2>2
  <2> HIDE DEF s1, s2, d2, sr, dr
  <2>9. InSequence(X, s1, s2, sr)
    BY <1>1, <2>2, <2>3, <2>5, <2>7 DEF InSequence
  <2>10. InSequence(X, s1, d2, dr)
    BY <1>1, <2>2, <2>4, <2>6, <2>8 DEF InSequence
  <2> QED
    BY <2>9, <2>10 DEF s1, s2, d2, sr, dr
<1>4. ASSUME NEW x \in Seq(X), Len(x) = n
      PROVE  /\ InSequence(X, Append(c1, InsertComp(x)), Append(c2, SkipComp(n)),
                              Append(r, InsertComp(x)))
             /\ InSequence(X, Append(c1, InsertComp(x)), Append(c2, DeleteComp(n)), r)
  <2>1. ASSUME NEW s \in OperationsOver(X)
        PROVE  /\ BaseLen(Append(s, InsertComp(x))) = BaseLen(s)
               /\ OutLen(Append(s, InsertComp(x))) = OutLen(s) + Len(x)
               /\ Append(s, InsertComp(x)) \in OperationsOver(X)
    BY MadeComponents, Longer, LengthsWithComponent
  <2>2. ASSUME NEW text \in Seq(X), Len(text) = BaseLen(c1)
        PROVE  /\ ApplyTo(Append(r, InsertComp(x)), text) =
                    ApplyTo(Append(c2, SkipComp(n)), ApplyTo(Append(c1, InsertComp(x)), text))
               /\ ApplyTo(r, text) =
                    ApplyTo(Append(c2, DeleteComp(n)), ApplyTo(Append(c1, InsertComp(x)), text))
    <3> DEFINE m == ApplyTo(c1, text)
    <3>1. m \in Seq(X) /\ Len(m) = BaseLen(c2)
      <4>1. BaseLen(c1) <= Len(text)
        BY <1>1, <1>2, <2>2
      <4> QED
        BY <1>1, <4>1, MadeIsText, MadeLength
    <3>2. ApplyTo(Append(c1, InsertComp(x)), text) = m \o x
      BY <1>1, MadeWithInsert
    <3>3. ApplyTo(Append(r, InsertComp(x)), text) = ApplyTo(r, text) \o x
      BY <1>1, MadeWithInsert
    <3>4. ApplyTo(r, text) = ApplyTo(c2, m)
      BY <2>2 DEF InSequence
    <3> HIDE DEF m
    <3>5. BothMade(X, c2, n, m, x)
      BY <1>1, <1>4, <3>1, MadeAtEnd
    <3> QED
      BY <3>2, <3>3, <3>4, <3>5 DEF BothMade
  <2> DEFINE i1 == Append(c1, InsertComp(x))
             s2 == Append(c2, SkipComp(n))
             d2 == Append(c2, DeleteComp(n))
             ir == Append(r, InsertComp(x))
  <2>3. i1 \in OperationsOver(X) /\ BaseLen(i1) = BaseLen(c1) /\ OutLen(i1) = OutLen(c1) + n
    BY <1>1, <1>4, <2>1
  <2>4. s2 \in OperationsOver(X) /\ BaseLen(s2) = BaseLen(c2) + n /\ OutLen(s2) = OutLen(c2) + n
    BY <1>1, <1>2
  <2>5. d2 \in OperationsOver(X) /\ BaseLen(d2) = BaseLen(c2) + n /\ OutLen(d2) = OutLen(c2)
    BY <1>1, <1>2
  <2>6. ir \in OperationsOver(X) /\ BaseLen(ir) = BaseLen(r) /\ OutLen(ir) = OutLen(r) + n
    BY <1>1, <1>4, <2>1
  <2>7. \A text \in Seq(X) : Len(text) = BaseLen(i1) =>
          ApplyTo(ir, text) = ApplyTo(s2, ApplyTo(i1, text))
    BY <2>2, <2>3
  <2>8. \A text \in Seq(X) : Len(text) = BaseLen(i1) =>
          ApplyTo(r, text) = ApplyTo(d2, ApplyTo(i1, text))
    BY <2>2, <2>3
  <2> HIDE DEF i1, s2, d2, ir
  <2>9. InSequence(X, i1, s2, ir)
    BY <1>1, <2>3, <2>4, <2>6, <2>7 DEF InSequence
  <2>10. InSequence(X, i1, d2, r)
    BY <1>1, <2>3, <2>5, <2>8 DEF InSequence
  <2> QED
    BY <2>9, <2>10 DEF i1, s2, d2, ir
<1> QED
  BY <1>3, <1>4
-----------------------------------------------------------------------------
(***************************************************************************)
(* The same with what the builders make of the results, which may merge a  *)
(* component into the last one or drop it.                                 *)
(***************************************************************************)
LEMMA MakesInsert ==
  ASSUME NEW X, NEW c1, NEW c2, NEW p1, NEW p2, Merged(X, c1, c2, p1, p2),
         NEW x \in Seq(X), NEW n, n = Len(x), NEW d1, Alike(X, d1, Append(c1, InsertComp(x)))
  PROVE  Merged(X, d1, c2, ot_insert(p1, x), ot_skip(p2, n))
<1>1. /\ c1 \in OperationsOver(X) /\ c2 \in OperationsOver(X)
      /\ p1 \in OperationsOver(X) /\ p2 \in OperationsOver(X) /\ n \in Nat
  BY DEF Merged
<1>2. Alike(X, c2, c2)
  BY <1>1, AlikeItself
<1>3. Alike(X, ot_insert(p1, x), Append(p1, InsertComp(x)))
  BY <1>1, BuildersAlike
<1>4. Alike(X, ot_skip(p2, n), Append(p2, SkipComp(n)))
  BY <1>1, BuildersAlike
<1>5. Merged(X, Append(c1, InsertComp(x)), c2, Append(p1, InsertComp(x)), Append(p2, SkipComp(n)))
  BY MergedInsert
<1> QED
  BY <1>2, <1>3, <1>4, <1>5, MergedAlike

LEMMA MakesWalk ==
  ASSUME NEW X, NEW c1, NEW c2, NEW p1, NEW p2, Merged(X, c1, c2, p1, p2), NEW n \in Nat,
         NEW d1, NEW d2
  PROVE  /\ Alike(X, d1, Append(c1, SkipComp(n))) /\ Alike(X, d2, Append(c2, SkipComp(n))) =>
              Merged(X, d1, d2, ot_skip(p1, n), ot_skip(p2, n))
         /\ Alike(X, d1, Append(c1, SkipComp(n))) /\ Alike(X, d2, Append(c2, DeleteComp(n))) =>
              Merged(X, d1, d2, p1, ot_delete(p2, n))
         /\ Alike(X, d1, Append(c1, DeleteComp(n))) /\ Alike(X, d2, Append(c2, SkipComp(n))) =>
              Merged(X, d1, d2, ot_delete(p1, n), p2)
         /\ Alike(X, d1, Append(c1, DeleteComp(n))) /\ Alike(X, d2, Append(c2, DeleteComp(n))) =>
              Merged(X, d1, d2, p1, p2)
<1>1. /\ p1 \in OperationsOver(X) /\ p2 \in OperationsOver(X)
  BY DEF Merged
<1>2. Alike(X, p1, p1) /\ Alike(X, p2, p2)
  BY <1>1, AlikeItself
<1>3. Alike(X, ot_skip(p1, n), Append(p1, SkipComp(n)))
  BY <1>1, BuildersAlike
<1>4. Alike(X, ot_skip(p2, n), Append(p2, SkipComp(n)))
  BY <1>1, BuildersAlike
<1>5. Alike(X, ot_delete(p1, n), Append(p1, DeleteComp(n)))
  BY <1>1, BuildersAlike
<1>6. Alike(X, ot_delete(p2, n), Append(p2, DeleteComp(n)))
  BY <1>1, BuildersAlike
<1>7. /\ Merged(X, Append(c1, SkipComp(n)), Append(c2, SkipComp(n)),
                   Append(p1, SkipComp(n)), Append(p2, SkipComp(n)))
      /\ Merged(X, Append(c1, SkipComp(n)), Append(c2, DeleteComp(n)),
                   p1, Append(p2, DeleteComp(n)))
      /\ Merged(X, Append(c1, DeleteComp(n)), Append(c2, DeleteComp(n)), p1, p2)
  BY MergedWalk
<1>8. Merged(X, Append(c1, DeleteComp(n)), Append(c2, SkipComp(n)), Append(p1, DeleteComp(n)), p2)
  <2>1. Merged(X, c2, c1, p2, p1)
    BY MergedSymmetric
  <2>2. Merged(X, Append(c2, SkipComp(n)), Append(c1, DeleteComp(n)), p2, Append(p1, DeleteComp(n)))
    BY <2>1, MergedWalk
  <2> QED
    BY <2>2, MergedSymmetric
<1>9. Alike(X, d1, Append(c1, SkipComp(n))) /\ Alike(X, d2, Append(c2, SkipComp(n))) =>
        Merged(X, d1, d2, ot_skip(p1, n), ot_skip(p2, n))
  BY <1>3, <1>4, <1>7, MergedAlike
<1>10. Alike(X, d1, Append(c1, SkipComp(n))) /\ Alike(X, d2, Append(c2, DeleteComp(n))) =>
         Merged(X, d1, d2, p1, ot_delete(p2, n))
  BY <1>2, <1>6, <1>7, MergedAlike
<1>11. Alike(X, d1, Append(c1, DeleteComp(n))) /\ Alike(X, d2, Append(c2, SkipComp(n))) =>
         Merged(X, d1, d2, ot_delete(p1, n), p2)
  BY <1>2, <1>5, <1>8, MergedAlike
<1>12. Alike(X, d1, Append(c1, DeleteComp(n))) /\ Alike(X, d2, Append(c2, DeleteComp(n))) =>
         Merged(X, d1, d2, p1, p2)
  BY <1>2, <1>7, MergedAlike
<1> QED
  BY <1>9, <1>10, <1>11, <1>12

LEMMA MakesDelete ==
  ASSUME NEW X, NEW c1, NEW c2, NEW r, InSequence(X, c1, c2, r), NEW n \in Nat,
         NEW d1, Alike(X, d1, Append(c1, DeleteComp(n)))
  PROVE  InSequence(X, d1, c2, ot_delete(r, n))
<1>1. c2 \in OperationsOver(X) /\ r \in OperationsOver(X)
  BY DEF InSequence
<1>2. Alike(X, c2, c2)
  BY <1>1, AlikeItself
<1>3. Alike(X, ot_delete(r, n), Append(r, DeleteComp(n)))
  BY <1>1, BuildersAlike
<1>4. InSequence(X, Append(c1, DeleteComp(n)), c2, Append(r, DeleteComp(n)))
  BY InSequenceAlone
<1> QED
  BY <1>2, <1>3, <1>4, InSequenceAlike

LEMMA MakesOwnInsert ==
  ASSUME NEW X, NEW c1, NEW c2, NEW r, InSequence(X, c1, c2, r), NEW x \in Seq(X),
         NEW d2, Alike(X, d2, Append(c2, InsertComp(x)))
  PROVE  InSequence(X, c1, d2, ot_insert(r, x))
<1>1. c1 \in OperationsOver(X) /\ r \in OperationsOver(X)
  BY DEF InSequence
<1>2. Alike(X, c1, c1)
  BY <1>1, AlikeItself
<1>3. Alike(X, ot_insert(r, x), Append(r, InsertComp(x)))
  BY <1>1, BuildersAlike
<1>4. InSequence(X, c1, Append(c2, InsertComp(x)), Append(r, InsertComp(x)))
  BY InSequenceAlone
<1> QED
  BY <1>2, <1>3, <1>4, InSequenceAlike

LEMMA MakesAlong ==
  ASSUME NEW X, NEW c1, NEW c2, NEW r, InSequence(X, c1, c2, r), NEW n \in Nat,
         NEW d1, NEW d2
  PROVE  /\ Alike(X, d1, Append(c1, SkipComp(n))) /\ Alike(X, d2, Append(c2, SkipComp(n))) =>
              InSequence(X, d1, d2, ot_skip(r, n))
         /\ Alike(X, d1, Append(c1, SkipComp(n))) /\ Alike(X, d2, Append(c2, DeleteComp(n))) =>
              InSequence(X, d1, d2, ot_delete(r, n))
         /\ \A x \in Seq(X) :
              Len(x) = n /\ Alike(X, d1, Append(c1, InsertComp(x))) =>
                /\ Alike(X, d2, Append(c2, SkipComp(n))) => InSequence(X, d1, d2, ot_insert(r, x))
                /\ Alike(X, d2, Append(c2, DeleteComp(n))) => InSequence(X, d1, d2, r)
<1>1. r \in OperationsOver(X)
  BY DEF InSequence
<1>2. Alike(X, r, r)
  BY <1>1, AlikeItself
<1>3. Alike(X, ot_skip(r, n), Append(r, SkipComp(n)))
  BY <1>1, BuildersAlike
<1>4. Alike(X, ot_delete(r, n), Append(r, DeleteComp(n)))
  BY <1>1, BuildersAlike
<1>5. /\ InSequence(X, Append(c1, SkipComp(n)), Append(c2, SkipComp(n)), Append(r, SkipComp(n)))
      /\ InSequence(X, Append(c1, SkipComp(n)), Append(c2, DeleteComp(n)), Append(r, DeleteComp(n)))
  BY InSequenceWalk
<1>6. Alike(X, d1, Append(c1, SkipComp(n))) /\ Alike(X, d2, Append(c2, SkipComp(n))) =>
        InSequence(X, d1, d2, ot_skip(r, n))
  BY <1>3, <1>5, InSequenceAlike
<1>7. Alike(X, d1, Append(c1, SkipComp(n))) /\ Alike(X, d2, Append(c2, DeleteComp(n))) =>
        InSequence(X, d1, d2, ot_delete(r, n))
  BY <1>4, <1>5, InSequenceAlike
<1>8. ASSUME NEW x \in Seq(X), Len(x) = n, Alike(X, d1, Append(c1, InsertComp(x)))
      PROVE  /\ Alike(X, d2, Append(c2, SkipComp(n))) => InSequence(X, d1, d2, ot_insert(r, x))
             /\ Alike(X, d2, Append(c2, DeleteComp(n))) => InSequence(X, d1, d2, r)
  <2>1. Alike(X, ot_insert(r, x), Append(r, InsertComp(x)))
    BY <1>1, BuildersAlike
  <2>2. /\ InSequence(X, Append(c1, InsertComp(x)), Append(c2, SkipComp(n)),
                         Append(r, InsertComp(x)))
        /\ InSequence(X, Append(c1, InsertComp(x)), Append(c2, DeleteComp(n)), r)
    BY <1>8, InSequenceWalk
  <2> QED
    BY <1>2, <1>8, <2>1, <2>2, InSequenceAlike
<1> QED
  BY <1>6, <1>7, <1>8

-----------------------------------------------------------------------------
(***************************************************************************)
(* How an iterator moves over n characters: it stays where it is, gets     *)
(* further in its component, or finishes it and stands at the beginning of *)
(* the next one or at the end.                                             *)
(***************************************************************************)
Ends(p, it, moved) ==
  /\ Finished(p, moved) = Finished(p, it) + 1
  /\ moved.next => moved.offset = 0

Stays(p, it, n, moved) ==
  /\ Finished(p, moved) = Finished(p, it)
  /\ moved.next /\ moved.pos = it.pos /\ moved.offset = it.offset + n

MovedOn(p, it, n, moved) ==
  /\ Placed(p, moved)
  /\ n = 0 => moved = it
  /\ n # 0 => /\ n < Left(p, it) => Stays(p, it, n, moved)
              /\ n = Left(p, it) => Ends(p, it, moved)

LEMMA Moves ==
  ASSUME NEW X, NEW p \in OperationsOver(X), NEW it, Placed(p, it), it.next,
         p[it.pos].type \notin Stubs, NEW n \in 0..Left(p, it)
  PROVE  MovedOn(p, it, n, ot_iter_skip(p, it, n))
<1> DEFINE size == ot_comp_size(p[it.pos])
           moved == ot_iter_skip(p, it, n)
           left == Left(p, it)
<1>1. Placed(p, moved)
  BY ConsumedMoves
<1>2. /\ it.pos \in 1..Len(p) /\ Len(p) \in Nat /\ it.offset \in Nat
      /\ Finished(p, it) = it.pos - 1 /\ size \in Nat /\ left \in Nat
      /\ it.offset + left = size
  BY ComponentAt
<1>3. it \in Iterators /\ n \in Nat
  BY <1>2 DEF Placed
<1>4. \/ n = 0 /\ moved = it
      \/ /\ n # 0 /\ it.offset + n < size
         /\ moved = [pos |-> it.pos, offset |-> it.offset + n, next |-> it.next]
      \/ /\ n # 0 /\ ~(it.offset + n < size) /\ it.pos < Len(p)
         /\ moved = [pos |-> it.pos + 1, offset |-> 0, next |-> it.next]
      \/ /\ n # 0 /\ ~(it.offset + n < size) /\ ~(it.pos < Len(p))
         /\ moved = [pos |-> it.pos, offset |-> it.offset, next |-> FALSE]
  BY <1>3, SkipCases
<1> HIDE DEF moved, size, left
<1>5. ASSUME n # 0, n < left PROVE Stays(p, it, n, moved)
  <2>1. it.offset + n < size
    BY <1>2, <1>3, <1>5
  <2>2. moved.next /\ moved.pos = it.pos /\ moved.offset = it.offset + n
    BY <1>4, <1>5, <2>1
  <2> QED
    BY <2>2 DEF Stays, Finished
<1>6. ASSUME n # 0, n = left PROVE Ends(p, it, moved)
  <2>1. ~(it.offset + n < size)
    BY <1>2, <1>3, <1>6
  <2>2. CASE it.pos < Len(p)
    <3>1. moved.next /\ moved.pos = it.pos + 1 /\ moved.offset = 0
      BY <1>4, <1>6, <2>1, <2>2
    <3> QED
      BY <1>2, <3>1 DEF Ends, Finished
  <2>3. CASE ~(it.pos < Len(p))
    <3>1. ~moved.next
      BY <1>4, <1>6, <2>1, <2>3
    <3> QED
      BY <1>2, <2>3, <3>1 DEF Ends, Finished
  <2> QED
    BY <2>2, <2>3
<1>7. n = 0 => moved = it
  BY <1>4
<1> QED
  BY <1>1, <1>5, <1>6, <1>7 DEF MovedOn, moved, left

LEMMA KindOf ==
  ASSUME NEW X, NEW p \in OperationsOver(X), NEW it, Placed(p, it)
  PROVE  /\ Kind(p, it) \in {"skip", "delete", "insert", "end"} \cup Stubs
         /\ Kind(p, it) = "end" <=> ~it.next
         /\ Kind(p, it) \notin Stubs /\ Kind(p, it) # "end" =>
              it.next /\ p[it.pos].type \notin Stubs
         /\ it.next => Kind(p, it) = p[it.pos].type
<1>1. CASE it.next
  <2>1. Kind(p, it) = p[it.pos].type
    BY <1>1 DEF Kind
  <2>2. p[it.pos].type \in {"skip", "delete", "insert"} \cup Stubs
    BY <1>1, ComponentAt, PieceCases
  <2>3. "end" \notin {"skip", "delete", "insert"} \cup Stubs
    BY DEF Stubs
  <2> QED
    BY <1>1, <2>1, <2>2, <2>3
<1>2. CASE ~it.next
  <2>1. Kind(p, it) = "end"
    BY <1>2 DEF Kind
  <2> QED
    BY <1>2, <2>1
<1> QED
  BY <1>1, <1>2

LEMMA PassesCount ==
  ASSUME NEW X, NEW p \in OperationsOver(X), NEW it, Placed(p, it),
         Kind(p, it) \in {"skip", "delete"}, NEW n \in 0..Left(p, it)
  PROVE  /\ Kind(p, it) = "skip" =>
              Alike(X, Consumed(p, ot_iter_skip(p, it, n)), Append(Consumed(p, it), SkipComp(n)))
         /\ Kind(p, it) = "delete" =>
              Alike(X, Consumed(p, ot_iter_skip(p, it, n)), Append(Consumed(p, it), DeleteComp(n)))
<1> DEFINE c == p[it.pos]
<1>1. it.next /\ c.type \notin Stubs /\ Kind(p, it) = c.type
  BY KindOf DEF Stubs
<1>2. Alike(X, Consumed(p, ot_iter_skip(p, it, n)), Append(Consumed(p, it), Part(c, it.offset, n)))
  BY <1>1, ConsumedMoves
<1>3. c \in ComponentsOver(X)
  BY <1>1, ComponentAt
<1> HIDE DEF c
<1>4. /\ c.type = "skip" => Part(c, it.offset, n) = SkipComp(n)
      /\ c.type = "delete" => Part(c, it.offset, n) = DeleteComp(n)
  BY <1>3, PieceCases
<1> QED
  BY <1>1, <1>2, <1>4

\* The next n characters of an insert.
NextOf(p, it, n) == SubSeq(LeftText(p, it), 1, n)

LEMMA PassesInsert ==
  ASSUME NEW X, NEW p \in OperationsOver(X), NEW it, Placed(p, it), Kind(p, it) = "insert",
         NEW n \in 0..Left(p, it)
  PROVE  /\ NextOf(p, it, n) \in Seq(X) /\ Len(NextOf(p, it, n)) = n
         /\ Alike(X, Consumed(p, ot_iter_skip(p, it, n)),
                     Append(Consumed(p, it), InsertComp(NextOf(p, it, n))))
         /\ Left(p, it) \in Nat /\ NextOf(p, it, Left(p, it)) = LeftText(p, it)
         /\ it.offset = 0 => p[it.pos].text = LeftText(p, it)
<1> DEFINE c == p[it.pos]
           t == c.text
           m == it.offset
           left == Left(p, it)
<1>1. it.next /\ c.type \notin Stubs /\ c.type = "insert"
  BY KindOf DEF Stubs
<1>2. Alike(X, Consumed(p, ot_iter_skip(p, it, n)), Append(Consumed(p, it), Part(c, m, n)))
  BY <1>1, ConsumedMoves
<1>3. c \in ComponentsOver(X) /\ m \in Nat /\ left \in Nat /\ m + left = ot_comp_size(c)
  BY <1>1, ComponentAt
<1>4. LeftText(p, it) = SubSeq(t, m + 1, Len(t))
  BY DEF LeftText
<1> HIDE DEF c
<1>5. t \in Seq(X) /\ ot_comp_size(c) = Len(t) /\ Part(c, m, n) = InsertComp(SubSeq(t, m + 1, m + n))
  BY <1>1, <1>3, PieceCases
<1> HIDE DEF t, m, left
<1>6. Len(t) \in Nat /\ m + left = Len(t) /\ n \in 0..left
  BY <1>3, <1>5 DEF left
<1> DEFINE r == SubSeq(t, m + 1, Len(t))
<1>7. r \in Seq(X) /\ Len(r) = left
  <2>1. /\ SubSeq(t, m + 1, Len(t)) \in Seq(X)
        /\ Len(SubSeq(t, m + 1, Len(t))) = IF m <= Len(t) THEN Len(t) - m ELSE 0
    BY <1>3, <1>5, <1>6, Between
  <2>2. m <= Len(t) /\ Len(t) - m = left
    BY <1>3, <1>6
  <2> QED
    BY <2>1, <2>2
<1>8. ASSUME NEW k \in 0..left
      PROVE  SubSeq(r, 1, k) = SubSeq(t, m + 1, m + k)
  <2> DEFINE u == SubSeq(r, 1, k)
             v == SubSeq(t, m + 1, m + k)
  <2>1. k \in Nat /\ m + k \in Nat /\ k <= Len(r) /\ m + k <= Len(t) /\ (m + k) - m = k
    BY <1>3, <1>6, <1>7
  <2>2. /\ SubSeq(r, 0 + 1, k) \in Seq(X)
        /\ Len(SubSeq(r, 0 + 1, k)) = IF 0 <= k THEN k - 0 ELSE 0
        /\ \A i \in 1..(k - 0) : SubSeq(r, 0 + 1, k)[i] = r[0 + i]
    <3> HIDE DEF r
    <3> QED
      BY <1>7, <2>1, Between
  <2>3. u \in Seq(X) /\ Len(u) = k /\ \A i \in 1..k : u[i] = r[i]
    <3> HIDE DEF r
    <3> QED
      BY <2>1, <2>2
  <2>4. /\ v \in Seq(X) /\ Len(v) = IF m <= m + k THEN (m + k) - m ELSE 0
        /\ \A i \in 1..((m + k) - m) : v[i] = t[m + i]
    BY <1>3, <1>5, <2>1, Between
  <2>5. Len(v) = k /\ \A i \in 1..k : v[i] = t[m + i]
    BY <1>3, <2>1, <2>4
  <2>6. \A i \in 1..(Len(t) - m) : r[i] = t[m + i]
    BY <1>3, <1>5, <1>6, Between
  <2>7. \A i \in 1..k : r[i] = t[m + i]
    <3>1. \A i \in 1..k : i \in 1..(Len(t) - m)
      BY <1>3, <1>6, <2>1
    <3> QED
      BY <2>6, <3>1
  <2> HIDE DEF u, v, r
  <2>8. \A i \in 1..Len(u) : u[i] = v[i]
    BY <2>3, <2>5, <2>7
  <2>9. u = v
    BY <2>3, <2>4, <2>5, <2>8, SeqEqual
  <2> QED
    BY <2>9 DEF u, v
<1>9. NextOf(p, it, n) = SubSeq(t, m + 1, m + n)
  BY <1>4, <1>6, <1>8 DEF NextOf
<1>10. NextOf(p, it, n) \in Seq(X) /\ Len(NextOf(p, it, n)) = n
  <2>1. n \in Nat /\ m + n \in Nat /\ m + n <= Len(t) /\ m <= m + n /\ (m + n) - m = n
    BY <1>3, <1>6
  <2>2. /\ SubSeq(t, m + 1, m + n) \in Seq(X)
        /\ Len(SubSeq(t, m + 1, m + n)) = IF m <= m + n THEN (m + n) - m ELSE 0
    BY <1>3, <1>5, <2>1, Between
  <2> QED
    BY <1>9, <2>1, <2>2
<1>11. NextOf(p, it, left) = LeftText(p, it)
  <2>1. SubSeq(r, 1, Len(r)) = r
    BY <1>7, SubSeqFull
  <2> QED
    BY <1>4, <1>7, <2>1 DEF NextOf
<1>12. m = 0 => t = LeftText(p, it)
  <2>1. SubSeq(t, 1, Len(t)) = t
    BY <1>5, SubSeqFull
  <2> QED
    BY <1>4, <2>1
<1> QED
  BY <1>2, <1>3, <1>5, <1>9, <1>10, <1>11, <1>12 DEF c, t, m, left
\* An operation spans what an iterator has behind it and what is left of the
\* current component.
LEMMA RestSpans ==
  ASSUME NEW X, NEW p \in OperationsOver(X), NEW it, Placed(p, it), it.next,
         NEW types, types \cap Stubs = {}, Kind(p, it) \in types
  PROVE  SizeIf(Consumed(p, it), types) + Left(p, it) <= SizeIf(p, types)
<1> DEFINE c == p[it.pos]
           k == it.pos - 1
           s == SubSeq(p, 1, k)
           m == it.offset
<1>1. c.type \in types /\ c.type \notin Stubs
  BY KindOf
<1>2. /\ it.pos \in 1..Len(p) /\ Len(p) \in Nat /\ c \in ComponentsOver(X) /\ m \in Nat
      /\ Left(p, it) \in Nat /\ m + Left(p, it) = ot_comp_size(c) /\ m <= ot_comp_size(c)
  BY <1>1, ComponentAt
<1>3. k \in 0..Len(p) /\ k + 1 \in 0..Len(p) /\ k \in Nat /\ k + 1 = it.pos
  BY <1>2
<1> HIDE DEF c, k, m
<1>4. s \in OperationsOver(X)
  BY <1>3, Prefix
<1>5. Consumed(p, it) = Append(s, Piece(c, m))
  BY DEF Consumed, c, k, m
<1>6. SubSeq(p, 1, k + 1) = Append(s, c)
  BY <1>2, <1>3, NextPrefix DEF c
<1>7. SizeIf(SubSeq(p, 1, k + 1), types) <= SizeIf(p, types)
  BY <1>3, PrefixGrows
<1>8. Piece(c, m) \in ComponentsOver(X)
  BY <1>2, PieceIsComponent
<1>9. Piece(c, m).type = c.type /\ ot_comp_size(Piece(c, m)) = m
  <2>1. CASE c.type \in {"skip", "delete"}
    BY <1>2, <2>1, PieceCases DEF SkipComp, DeleteComp, ot_comp_size
  <2>2. CASE c.type = "insert"
    <3>1. /\ c.text \in Seq(X) /\ ot_comp_size(c) = Len(c.text)
          /\ Piece(c, m) = InsertComp(SubSeq(c.text, 1, m))
      BY <1>2, <2>2, PieceCases
    <3>2. m <= Len(c.text)
      BY <1>2, <3>1
    <3>3. Len(SubSeq(c.text, 0 + 1, m)) = IF 0 <= m THEN m - 0 ELSE 0
      BY <1>2, <3>1, <3>2, Between
    <3>4. Len(SubSeq(c.text, 1, m)) = m
      BY <1>2, <3>3
    <3> DEFINE x == SubSeq(c.text, 1, m)
    <3>5. Piece(c, m) = InsertComp(x) /\ Len(x) = m
      BY <3>1, <3>4
    <3> HIDE DEF x
    <3>6. InsertComp(x).type = "insert" /\ InsertComp(x).text = x
      BY DEF InsertComp
    <3>7. ot_comp_size(InsertComp(x)) = Len(x)
      BY <3>6 DEF ot_comp_size
    <3> QED
      BY <2>2, <3>5, <3>6, <3>7
  <2> QED
    BY <1>1, <1>2, <2>1, <2>2, PieceCases
<1>10. /\ SizeIf(Append(s, c), types) = SizeIf(s, types) + Weight(c, types)
       /\ SizeIf(Append(s, Piece(c, m)), types) = SizeIf(s, types) + Weight(Piece(c, m), types)
  <2> HIDE DEF s
  <2> QED
    BY <1>2, <1>4, <1>8, SizeOfLonger
<1>11. Weight(c, types) = ot_comp_size(c) /\ Weight(Piece(c, m), types) = m
  BY <1>1, <1>9 DEF Weight
<1>12. SizeIf(s, types) \in Nat /\ SizeIf(p, types) \in Nat
  <2> HIDE DEF s
  <2> QED
    BY <1>4, SizeIsNat
<1> DEFINE a == SizeIf(s, types)
           b == SizeIf(p, types)
           d == ot_comp_size(c)
           left == Left(p, it)
<1>13. a + d <= b
  BY <1>6, <1>7, <1>10, <1>11
<1>14. SizeIf(Consumed(p, it), types) = a + m
  BY <1>5, <1>10, <1>11
<1>15. a \in Nat /\ b \in Nat /\ m \in Nat /\ left \in Nat /\ m + left = d
  BY <1>2, <1>12
<1> HIDE DEF a, b, d, left
<1>16. (a + m) + left <= b
  BY <1>13, <1>15
<1> QED
  BY <1>14, <1>16 DEF b, left

\* An operation that is consumed half way spans more than was consumed, or
\* cannot be passed.
LEMMA MoreToSpan ==
  ASSUME NEW X, NEW p \in OperationsOver(X), NEW it, Placed(p, it), Passable(p)
  PROVE  /\ Kind(p, it) \notin Stubs
         /\ Kind(p, it) \in {"skip", "delete"} => BaseLen(Consumed(p, it)) # BaseLen(p)
         /\ Kind(p, it) \in {"skip", "insert"} => OutLen(Consumed(p, it)) # OutLen(p)
<1>1. CASE it.next
  <2> DEFINE c == p[it.pos]
  <2>1. Kind(p, it) = c.type /\ CanPass(c)
    BY <1>1, KindOf, ComponentAt DEF Passable, CanPass
  <2>2. c.type \notin Stubs
    BY <2>1 DEF CanPass
  <2>3. Left(p, it) \in Nat /\ Left(p, it) # 0
    BY <1>1, <2>1, <2>2, ComponentAt
  <2>4. Consumed(p, it) \in OperationsOver(X)
    BY ConsumedIsOperation
  <2>5. /\ BaseLen(p) \in Nat /\ OutLen(p) \in Nat
        /\ BaseLen(Consumed(p, it)) \in Nat /\ OutLen(Consumed(p, it)) \in Nat
    BY <2>4, LengthsAreNat
  <2>6. {"skip", "delete"} \cap Stubs = {} /\ {"skip", "insert"} \cap Stubs = {}
    BY DEF Stubs
  <2>7. Kind(p, it) \in {"skip", "delete"} =>
          BaseLen(Consumed(p, it)) + Left(p, it) <= BaseLen(p)
    BY <1>1, <2>6, RestSpans DEF BaseLen
  <2>8. Kind(p, it) \in {"skip", "insert"} =>
          OutLen(Consumed(p, it)) + Left(p, it) <= OutLen(p)
    BY <1>1, <2>6, RestSpans DEF OutLen
  <2> QED
    BY <2>1, <2>2, <2>3, <2>5, <2>7, <2>8
<1>2. CASE ~it.next
  <2>1. Kind(p, it) = "end"
    BY <1>2, KindOf
  <2> QED
    BY <2>1 DEF Stubs
<1> QED
  BY <1>1, <1>2

\* An operation that is consumed can be passed, and was consumed as it is.
LEMMA AllPassed ==
  ASSUME NEW p, NEW it, Placed(p, it), ~it.next
  PROVE  Passable(p) /\ Consumed(p, it) = p
BY DEF Placed, Finished, Consumed, Passable, CanPass

-----------------------------------------------------------------------------
(***************************************************************************)
(* One turn of ot_xform: it meets an element and changes nothing, fails,   *)
(* moves one iterator over an insert, or both over the same characters.    *)
(***************************************************************************)
XformLocals == {"it1", "it2", "prime1", "prime2", "failed"}

SameIterators(s, t) == t.it1 = s.it1 /\ t.it2 = s.it2

Mismatch(k1, k2, over1, over2) == (k1 = "end" /\ k2 \in over2) \/ (k2 = "end" /\ k1 \in over1)

InsertsFirst(p, s, t) ==
  /\ Kind(p, s.it1) = "insert"
  /\ t.it1 = ot_iter_skip(p, s.it1, Left(p, s.it1)) /\ t.it2 = s.it2
  /\ t.prime1 = ot_insert(s.prime1, LeftText(p, s.it1))
  /\ t.prime2 = ot_skip(s.prime2, Left(p, s.it1))

InsertsSecond(q, s, t) ==
  /\ Kind(q, s.it2) = "insert"
  /\ t.it1 = s.it1 /\ t.it2 = ot_iter_skip(q, s.it2, Left(q, s.it2))
  /\ t.prime1 = ot_skip(s.prime1, Left(q, s.it2))
  /\ t.prime2 = ot_insert(s.prime2, LeftText(q, s.it2))

WalksOver(p, q, s, t, n) ==
  /\ Kind(p, s.it1) \in {"skip", "delete"} /\ Kind(q, s.it2) \in {"skip", "delete"}
  /\ t.it1 = ot_iter_skip(p, s.it1, n) /\ t.it2 = ot_iter_skip(q, s.it2, n)
  /\ t.prime1 = CASE Kind(p, s.it1) = "skip" /\ Kind(q, s.it2) = "skip" -> ot_skip(s.prime1, n)
                  [] Kind(p, s.it1) = "delete" /\ Kind(q, s.it2) = "skip" -> ot_delete(s.prime1, n)
                  [] Kind(q, s.it2) = "delete" -> s.prime1
  /\ t.prime2 = CASE Kind(p, s.it1) = "skip" /\ Kind(q, s.it2) = "skip" -> ot_skip(s.prime2, n)
                  [] Kind(p, s.it1) = "skip" /\ Kind(q, s.it2) = "delete" -> ot_delete(s.prime2, n)
                  [] Kind(p, s.it1) = "delete" -> s.prime2

TurnOfX(p, q, s, t) ==
  \/ t = s /\ (Kind(p, s.it1) \in Stubs \/ Kind(q, s.it2) \in Stubs)
  \/ /\ t.failed /\ SameIterators(s, t) /\ t.prime1 = s.prime1 /\ t.prime2 = s.prime2
     /\ Mismatch(Kind(p, s.it1), Kind(q, s.it2),
                 {"skip", "delete"} \cup Stubs, {"skip", "delete"} \cup Stubs)
  \/ ~t.failed /\ InsertsFirst(p, s, t)
  \/ ~t.failed /\ Kind(p, s.it1) # "insert" /\ InsertsSecond(q, s, t)
  \/ ~t.failed /\ WalksOver(p, q, s, t, Least(Left(p, s.it1), Left(q, s.it2)))

LEMMA XformTurns ==
  ASSUME NEW X, NEW p \in OperationsOver(X), NEW q \in OperationsOver(X),
         NEW s, DOMAIN s = XformLocals, Placed(p, s.it1), Placed(q, s.it2), XformRunning(s)
  PROVE  DOMAIN XformStep(p, q, s) = XformLocals /\ TurnOfX(p, q, s, XformStep(p, q, s))
<1> DEFINE k1 == Kind(p, s.it1)
           k2 == Kind(q, s.it2)
           kinds == <<k1, k2>>
           t == XformStep(p, q, s)
           T == {"skip", "delete", "insert", "end"}
           over == {"skip", "delete"} \cup Stubs
<1>1. k1 \in T \cup Stubs /\ k2 \in T \cup Stubs /\ T \cap Stubs = {}
  BY KindOf DEF Stubs
<1>2. ~(k1 = "end" /\ k2 = "end") /\ ~s.failed
  BY KindOf DEF XformRunning
<1>3. t = XformTurn(p, q, kinds, s) /\ kinds[1] = k1 /\ kinds[2] = k2
  BY DEF XformStep
<1>4. DOMAIN s = {"it1", "it2", "prime1", "prime2", "failed"}
  BY DEF XformLocals
<1> HIDE DEF k1, k2, t
<1>5. CASE MeetsStub(kinds)
  <2>1. t = s
    BY <1>1, <1>3, <1>5 DEF XformTurn, MeetsStub
  <2>2. k1 \in Stubs \/ k2 \in Stubs
    BY <1>3, <1>5 DEF MeetsStub
  <2> QED
    BY <2>1, <2>2 DEF TurnOfX, t, k1, k2
<1>6. CASE ~MeetsStub(kinds) /\ k1 = "insert"
  <2>1. k2 \notin Stubs
    BY <1>1, <1>3, <1>6 DEF MeetsStub
  <2>2. t = InsertFirst(p, s)
    BY <1>3, <1>6, <2>1 DEF XformTurn
  <2>3. /\ DOMAIN t = XformLocals /\ t.failed = s.failed
        /\ t.it1 = ot_iter_skip(p, s.it1, Left(p, s.it1)) /\ t.it2 = s.it2
        /\ t.prime1 = ot_insert(s.prime1, LeftText(p, s.it1))
        /\ t.prime2 = ot_skip(s.prime2, Left(p, s.it1))
    BY <1>4, <2>2 DEF InsertFirst, XformLocals
  <2>4. ~t.failed /\ InsertsFirst(p, s, t)
    BY <1>2, <1>6, <2>3 DEF InsertsFirst, k1
  <2> QED
    BY <2>3, <2>4 DEF TurnOfX, t
<1>7. CASE ~MeetsStub(kinds) /\ k1 # "insert" /\ k2 = "insert"
  <2>1. k1 \notin Stubs
    BY <1>1, <1>3, <1>7 DEF MeetsStub
  <2>2. t = InsertSecond(q, s)
    BY <1>3, <1>7, <2>1 DEF XformTurn
  <2>3. /\ DOMAIN t = XformLocals /\ t.failed = s.failed
        /\ t.it1 = s.it1 /\ t.it2 = ot_iter_skip(q, s.it2, Left(q, s.it2))
        /\ t.prime1 = ot_skip(s.prime1, Left(q, s.it2))
        /\ t.prime2 = ot_insert(s.prime2, LeftText(q, s.it2))
    BY <1>4, <2>2 DEF InsertSecond, XformLocals
  <2>4. ~t.failed /\ InsertsSecond(q, s, t)
    BY <1>2, <1>7, <2>3 DEF InsertsSecond, k2
  <2> QED
    BY <1>7, <2>3, <2>4 DEF TurnOfX, t, k1
<1>8. CASE k1 \in {"skip", "delete"} /\ k2 \in {"skip", "delete"}
  <2> DEFINE n == Common(p, q, s)
             r1 == CASE k1 = "skip" /\ k2 = "skip" -> ot_skip(s.prime1, n)
                     [] k1 = "delete" /\ k2 = "skip" -> ot_delete(s.prime1, n)
                     [] k2 = "delete" -> s.prime1
             r2 == CASE k1 = "skip" /\ k2 = "skip" -> ot_skip(s.prime2, n)
                     [] k1 = "skip" /\ k2 = "delete" -> ot_delete(s.prime2, n)
                     [] k1 = "delete" -> s.prime2
  <2>1. ~MeetsStub(kinds)
    BY <1>1, <1>3, <1>8 DEF MeetsStub
  <2>2. t = Over(p, q, kinds, s, n)
    BY <1>1, <1>3, <1>8, <2>1 DEF XformTurn
  <2>3. t = Walk(p, q, s, r1, r2, n)
    <3> HIDE DEF n
    <3> QED
      BY <1>8, <2>2 DEF Over
  <2> HIDE DEF n, r1, r2
  <2>4. /\ DOMAIN t = XformLocals /\ t.failed = s.failed
        /\ t.it1 = ot_iter_skip(p, s.it1, n) /\ t.it2 = ot_iter_skip(q, s.it2, n)
        /\ t.prime1 = r1 /\ t.prime2 = r2
    BY <1>4, <2>3 DEF Walk, XformLocals
  <2>5. ~t.failed /\ WalksOver(p, q, s, t, n)
    BY <1>2, <1>8, <2>4 DEF WalksOver, k1, k2, r1, r2
  <2> QED
    BY <2>4, <2>5 DEF TurnOfX, t, n, Common
<1>9. CASE Mismatch(k1, k2, over, over)
  <2>1. ~MeetsStub(kinds)
    BY <1>1, <1>3, <1>9 DEF MeetsStub, Mismatch
  <2>2. t = [s EXCEPT !.failed = TRUE]
    BY <1>1, <1>2, <1>3, <1>9, <2>1 DEF XformTurn, Mismatch
  <2>3. /\ DOMAIN t = XformLocals /\ t.failed /\ t.it1 = s.it1 /\ t.it2 = s.it2
        /\ t.prime1 = s.prime1 /\ t.prime2 = s.prime2
    BY <1>4, <2>2 DEF XformLocals
  <2> QED
    BY <1>9, <2>3 DEF TurnOfX, SameIterators, t, k1, k2
<1>10. \/ MeetsStub(kinds)
       \/ ~MeetsStub(kinds) /\ k1 = "insert"
       \/ ~MeetsStub(kinds) /\ k1 # "insert" /\ k2 = "insert"
       \/ k1 \in {"skip", "delete"} /\ k2 \in {"skip", "delete"}
       \/ Mismatch(k1, k2, over, over)
  BY <1>1, <1>2, <1>3 DEF MeetsStub, Mismatch
<1> QED
  BY <1>5, <1>6, <1>7, <1>8, <1>9, <1>10
\* Where an iterator has moved it stands at the beginning of a component,
\* unless it stayed in the one it was in.
LEMMA OffsetAfter ==
  ASSUME NEW X, NEW p \in OperationsOver(X), NEW it, Placed(p, it), it.next,
         NEW left, left = Left(p, it), NEW n \in 0..left, left \in Nat,
         NEW moved, MovedOn(p, it, n, moved)
  PROVE  /\ \/ Kind(p, moved) = "end"
            \/ moved.offset = 0
            \/ moved = it
            \/ Kind(p, moved) = Kind(p, it) /\ n < left
         /\ n # 0 => \/ Finished(p, moved) = Finished(p, it) + 1
                     \/ /\ Finished(p, moved) = Finished(p, it)
                        /\ moved.offset = it.offset + n /\ n < left
         /\ n = 0 => moved = it
<1>1. CASE n = 0
  BY <1>1 DEF MovedOn
<1>2. CASE n # 0 /\ n < left
  <2>1. Stays(p, it, n, moved)
    BY <1>2 DEF MovedOn
  <2> QED
    BY <1>2, <2>1 DEF Stays, Kind
<1>3. CASE n # 0 /\ n = left
  <2>1. Ends(p, it, moved)
    BY <1>3 DEF MovedOn
  <2> QED
    BY <1>3, <2>1 DEF Ends, Kind
<1> QED
  BY <1>1, <1>2, <1>3

LEMMA FinishedIsNat ==
  ASSUME NEW X, NEW p \in OperationsOver(X), NEW it, Placed(p, it)
  PROVE  Finished(p, it) \in Nat
<1>1. Len(p) \in Nat
  BY DEF OperationsOver
<1>2. it.next => it.pos \in 1..Len(p)
  BY DEF Placed
<1> QED
  BY <1>1, <1>2 DEF Finished

LEMMA LeftOf ==
  ASSUME NEW X, NEW p \in OperationsOver(X), NEW it, Placed(p, it),
         Kind(p, it) \notin Stubs, Kind(p, it) # "end"
  PROVE  /\ it.next /\ p[it.pos].type \notin Stubs /\ Left(p, it) \in Nat
         /\ Passable(p) => Left(p, it) # 0
<1>1. it.next /\ p[it.pos].type \notin Stubs
  BY KindOf
<1>2. /\ it.pos \in 1..Len(p) /\ Left(p, it) \in Nat
      /\ CanPass(p[it.pos]) => Left(p, it) # 0
  BY <1>1, ComponentAt
<1> QED
  BY <1>1, <1>2 DEF Passable, CanPass

-----------------------------------------------------------------------------
(***************************************************************************)
(* What holds before and after every turn of ot_xform.                     *)
(***************************************************************************)
BothPass(p, q) == Passable(p) /\ Passable(q)

XformInv(X, p, q, s) ==
  /\ DOMAIN s = XformLocals
  /\ Placed(p, s.it1) /\ Placed(q, s.it2)
  /\ Kind(p, s.it1) = "insert" => s.it1.offset = 0
  /\ Kind(q, s.it2) = "insert" => s.it2.offset = 0
  /\ Merged(X, Consumed(p, s.it1), Consumed(q, s.it2), s.prime1, s.prime2)
  /\ BothPass(p, q) => WellMade(s.prime1) /\ WellMade(s.prime2)
  /\ s.failed => ~BothPass(p, q) \/ BaseLen(p) # BaseLen(q)

XformAdvances(p, q, s, t) ==
  \/ t.failed
  \/ Finished(p, t.it1) + Finished(q, t.it2) > Finished(p, s.it1) + Finished(q, s.it2)

LEMMA XformInvAtStart ==
  ASSUME NEW X, NEW p \in OperationsOver(X), NEW q \in OperationsOver(X)
  PROVE  XformInv(X, p, q, XformStart(p, q))
<1> DEFINE s == XformStart(p, q)
<1>1. /\ DOMAIN s = XformLocals
      /\ s.it1 = ot_iter_next(p) /\ s.it2 = ot_iter_next(q)
      /\ s.prime1 = <<>> /\ s.prime2 = <<>> /\ ~s.failed
  BY DEF XformStart, XformLocals
<1> HIDE DEF s
<1>2. /\ Placed(p, ot_iter_next(p)) /\ Placed(q, ot_iter_next(q))
      /\ Alike(X, Consumed(p, ot_iter_next(p)), <<>>)
      /\ Alike(X, Consumed(q, ot_iter_next(q)), <<>>)
  BY ConsumedAtStart
<1>3. ot_iter_next(p).offset = 0 /\ ot_iter_next(q).offset = 0
  BY DEF ot_iter_next
<1>4. Merged(X, <<>>, <<>>, <<>>, <<>>)
  BY MergedAtStart
<1>5. Alike(X, <<>>, <<>>)
  BY EmptyOperation, AlikeItself
<1>6. Merged(X, Consumed(p, ot_iter_next(p)), Consumed(q, ot_iter_next(q)), <<>>, <<>>)
  BY <1>2, <1>4, <1>5, MergedAlike
<1> QED
  BY <1>1, <1>2, <1>3, <1>6, NothingIsWellMade DEF XformInv, s

LEMMA XformKeepsInv ==
  ASSUME NEW X, NEW p \in OperationsOver(X), NEW q \in OperationsOver(X),
         NEW s, XformInv(X, p, q, s), XformRunning(s)
  PROVE  /\ XformInv(X, p, q, XformStep(p, q, s))
         /\ BothPass(p, q) => XformAdvances(p, q, s, XformStep(p, q, s))
<1> DEFINE t == XformStep(p, q, s)
           k1 == Kind(p, s.it1)
           k2 == Kind(q, s.it2)
           left1 == Left(p, s.it1)
           left2 == Left(q, s.it2)
           c1 == Consumed(p, s.it1)
           c2 == Consumed(q, s.it2)
<1>1. /\ DOMAIN s = XformLocals /\ Placed(p, s.it1) /\ Placed(q, s.it2)
      /\ k1 = "insert" => s.it1.offset = 0
      /\ k2 = "insert" => s.it2.offset = 0
      /\ BothPass(p, q) => WellMade(s.prime1) /\ WellMade(s.prime2)
      /\ ~s.failed
  BY DEF XformInv, XformRunning
<1>2. /\ Merged(X, c1, c2, s.prime1, s.prime2)
      /\ s.prime1 \in OperationsOver(X) /\ s.prime2 \in OperationsOver(X)
  BY DEF XformInv, Merged
<1>3. DOMAIN t = XformLocals /\ TurnOfX(p, q, s, t)
  BY <1>1, XformTurns
<1>4. Finished(p, s.it1) \in Nat /\ Finished(q, s.it2) \in Nat
  BY <1>1, FinishedIsNat
<1> HIDE DEF t
<1>5. CASE t = s /\ (k1 \in Stubs \/ k2 \in Stubs)
  <2>1. ~BothPass(p, q)
    BY <1>1, <1>5, MoreToSpan DEF BothPass
  <2>2. XformInv(X, p, q, t)
    BY <1>5
  <2> QED
    BY <2>1, <2>2 DEF t
<1>6. CASE /\ t.failed /\ SameIterators(s, t) /\ t.prime1 = s.prime1 /\ t.prime2 = s.prime2
           /\ Mismatch(k1, k2, {"skip", "delete"} \cup Stubs, {"skip", "delete"} \cup Stubs)
  <2>1. ASSUME BothPass(p, q) PROVE BaseLen(p) # BaseLen(q)
    <3>1. BaseLen(c1) = BaseLen(c2)
      BY <1>2 DEF Merged
    <3>2. /\ k1 \notin Stubs /\ k2 \notin Stubs
          /\ k1 \in {"skip", "delete"} => BaseLen(c1) # BaseLen(p)
          /\ k2 \in {"skip", "delete"} => BaseLen(c2) # BaseLen(q)
      BY <1>1, <2>1, MoreToSpan DEF BothPass
    <3>3. (k1 = "end" => c1 = p) /\ (k2 = "end" => c2 = q)
      BY <1>1, KindOf, AllPassed
    <3> HIDE DEF k1, k2, c1, c2
    <3>4. \/ k1 = "end" /\ k2 \in {"skip", "delete"}
          \/ k2 = "end" /\ k1 \in {"skip", "delete"}
      BY <1>6, <3>2 DEF Mismatch
    <3> QED
      BY <3>1, <3>2, <3>3, <3>4
  <2>2. XformInv(X, p, q, t)
    BY <1>1, <1>2, <1>3, <1>6, <2>1 DEF XformInv, SameIterators
  <2> QED
    BY <1>6, <2>2 DEF XformAdvances, t
<1>7. CASE ~t.failed /\ InsertsFirst(p, s, t)
  <2> DEFINE x == LeftText(p, s.it1)
             d1 == Consumed(p, t.it1)
  <2>1. /\ k1 = "insert" /\ t.it1 = ot_iter_skip(p, s.it1, left1) /\ t.it2 = s.it2
        /\ t.prime1 = ot_insert(s.prime1, x) /\ t.prime2 = ot_skip(s.prime2, left1)
    BY <1>7 DEF InsertsFirst
  <2>2. /\ s.it1.next /\ p[s.it1.pos].type \notin Stubs /\ left1 \in Nat /\ left1 \in 0..left1
        /\ BothPass(p, q) => left1 # 0
    BY <1>1, <2>1, LeftOf DEF Stubs, BothPass
  <2>3. x \in Seq(X) /\ Len(x) = left1 /\ Alike(X, d1, Append(c1, InsertComp(x)))
    BY <1>1, <2>1, <2>2, PassesInsert
  <2>4. MovedOn(p, s.it1, left1, t.it1)
    BY <1>1, <2>1, <2>2, Moves
  <2>5. Placed(p, t.it1)
    BY <2>4 DEF MovedOn
  <2> HIDE DEF x, d1, c1, c2, left1
  <2>6. Merged(X, d1, c2, t.prime1, t.prime2)
    BY <1>2, <2>1, <2>3, MakesInsert
  <2>7. /\ \/ Kind(p, t.it1) = "end"
           \/ t.it1.offset = 0
           \/ t.it1 = s.it1
        /\ left1 # 0 => Finished(p, t.it1) = Finished(p, s.it1) + 1
    BY <1>1, <2>2, <2>4, OffsetAfter DEF left1
  <2>10. BothPass(p, q) => WellMade(t.prime1) /\ WellMade(t.prime2)
    BY <1>1, <1>2, <2>1, <2>2, <2>3, BuildersWellMade
  <2>8. XformInv(X, p, q, t)
    BY <1>1, <1>3, <1>7, <2>1, <2>5, <2>6, <2>7, <2>10 DEF XformInv, d1, c2
  <2>9. BothPass(p, q) => XformAdvances(p, q, s, t)
    BY <1>4, <2>1, <2>2, <2>7 DEF XformAdvances
  <2> QED
    BY <2>8, <2>9 DEF t
<1>8. CASE ~t.failed /\ InsertsSecond(q, s, t)
  <2> DEFINE x == LeftText(q, s.it2)
             d2 == Consumed(q, t.it2)
  <2>1. /\ k2 = "insert" /\ t.it2 = ot_iter_skip(q, s.it2, left2) /\ t.it1 = s.it1
        /\ t.prime1 = ot_skip(s.prime1, left2) /\ t.prime2 = ot_insert(s.prime2, x)
    BY <1>8 DEF InsertsSecond
  <2>2. /\ s.it2.next /\ q[s.it2.pos].type \notin Stubs /\ left2 \in Nat /\ left2 \in 0..left2
        /\ BothPass(p, q) => left2 # 0
    BY <1>1, <2>1, LeftOf DEF Stubs, BothPass
  <2>3. x \in Seq(X) /\ Len(x) = left2 /\ Alike(X, d2, Append(c2, InsertComp(x)))
    BY <1>1, <2>1, <2>2, PassesInsert
  <2>4. MovedOn(q, s.it2, left2, t.it2)
    BY <1>1, <2>1, <2>2, Moves
  <2>5. Placed(q, t.it2)
    BY <2>4 DEF MovedOn
  <2> HIDE DEF x, d2, c1, c2, left2
  <2>6. Merged(X, c1, d2, t.prime1, t.prime2)
    <3>1. Merged(X, c2, c1, s.prime2, s.prime1)
      BY <1>2, MergedSymmetric
    <3>2. Merged(X, d2, c1, t.prime2, t.prime1)
      BY <2>1, <2>3, <3>1, MakesInsert
    <3> QED
      BY <3>2, MergedSymmetric
  <2>7. /\ \/ Kind(q, t.it2) = "end"
           \/ t.it2.offset = 0
           \/ t.it2 = s.it2
        /\ left2 # 0 => Finished(q, t.it2) = Finished(q, s.it2) + 1
    BY <1>1, <2>2, <2>4, OffsetAfter DEF left2
  <2>10. BothPass(p, q) => WellMade(t.prime1) /\ WellMade(t.prime2)
    BY <1>1, <1>2, <2>1, <2>2, <2>3, BuildersWellMade
  <2>8. XformInv(X, p, q, t)
    BY <1>1, <1>3, <1>8, <2>1, <2>5, <2>6, <2>7, <2>10 DEF XformInv, d2, c1
  <2>9. BothPass(p, q) => XformAdvances(p, q, s, t)
    BY <1>4, <2>1, <2>2, <2>7 DEF XformAdvances
  <2> QED
    BY <2>8, <2>9 DEF t
<1>9. CASE ~t.failed /\ WalksOver(p, q, s, t, Least(left1, left2))
  <2> DEFINE n == Least(left1, left2)
             d1 == Consumed(p, t.it1)
             d2 == Consumed(q, t.it2)
  <2>1. /\ k1 \in {"skip", "delete"} /\ k2 \in {"skip", "delete"}
        /\ t.it1 = ot_iter_skip(p, s.it1, n) /\ t.it2 = ot_iter_skip(q, s.it2, n)
    BY <1>9 DEF WalksOver
  <2>2. /\ s.it1.next /\ p[s.it1.pos].type \notin Stubs /\ left1 \in Nat
        /\ s.it2.next /\ q[s.it2.pos].type \notin Stubs /\ left2 \in Nat
        /\ BothPass(p, q) => left1 # 0 /\ left2 # 0
    BY <1>1, <2>1, LeftOf DEF Stubs, BothPass
  <2>3. n \in Nat /\ n \in 0..left1 /\ n \in 0..left2 /\ (n = left1 \/ n = left2)
    <3> HIDE DEF left1, left2
    <3> QED
      BY <2>2 DEF Least
  <2>4. MovedOn(p, s.it1, n, t.it1) /\ MovedOn(q, s.it2, n, t.it2)
    <3> HIDE DEF n
    <3> QED
      BY <1>1, <2>1, <2>2, <2>3, Moves
  <2>5. Placed(p, t.it1) /\ Placed(q, t.it2)
    BY <2>4 DEF MovedOn
  <2>6. /\ k1 = "skip" => Alike(X, d1, Append(c1, SkipComp(n)))
        /\ k1 = "delete" => Alike(X, d1, Append(c1, DeleteComp(n)))
        /\ k2 = "skip" => Alike(X, d2, Append(c2, SkipComp(n)))
        /\ k2 = "delete" => Alike(X, d2, Append(c2, DeleteComp(n)))
    <3> HIDE DEF n
    <3> QED
      BY <1>1, <2>1, <2>3, PassesCount
  <2>7. /\ t.prime1 = CASE k1 = "skip" /\ k2 = "skip" -> ot_skip(s.prime1, n)
                        [] k1 = "delete" /\ k2 = "skip" -> ot_delete(s.prime1, n)
                        [] k2 = "delete" -> s.prime1
        /\ t.prime2 = CASE k1 = "skip" /\ k2 = "skip" -> ot_skip(s.prime2, n)
                        [] k1 = "skip" /\ k2 = "delete" -> ot_delete(s.prime2, n)
                        [] k1 = "delete" -> s.prime2
    BY <1>9 DEF WalksOver
  <2>8. /\ \/ Kind(p, t.it1) = "end"
           \/ t.it1.offset = 0
           \/ Kind(p, t.it1) = k1
        /\ n # 0 => \/ Finished(p, t.it1) = Finished(p, s.it1) + 1
                    \/ Finished(p, t.it1) = Finished(p, s.it1) /\ n < left1
    <3> HIDE DEF n
    <3> QED
      BY <1>1, <2>2, <2>3, <2>4, OffsetAfter
  <2>9. /\ \/ Kind(q, t.it2) = "end"
           \/ t.it2.offset = 0
           \/ Kind(q, t.it2) = k2
        /\ n # 0 => \/ Finished(q, t.it2) = Finished(q, s.it2) + 1
                    \/ Finished(q, t.it2) = Finished(q, s.it2) /\ n < left2
    <3> HIDE DEF n
    <3> QED
      BY <1>1, <2>2, <2>3, <2>4, OffsetAfter
  <2> HIDE DEF n, d1, d2, c1, c2, k1, k2, left1, left2
  <2>10. Merged(X, d1, d2, t.prime1, t.prime2)
    <3>1. CASE k1 = "skip" /\ k2 = "skip"
      <4>1. t.prime1 = ot_skip(s.prime1, n) /\ t.prime2 = ot_skip(s.prime2, n)
        BY <2>7, <3>1
      <4> QED
        BY <1>2, <2>3, <2>6, <3>1, <4>1, MakesWalk
    <3>2. CASE k1 = "skip" /\ k2 = "delete"
      <4>1. t.prime1 = s.prime1 /\ t.prime2 = ot_delete(s.prime2, n)
        BY <2>7, <3>2
      <4> QED
        BY <1>2, <2>3, <2>6, <3>2, <4>1, MakesWalk
    <3>3. CASE k1 = "delete" /\ k2 = "skip"
      <4>1. t.prime1 = ot_delete(s.prime1, n) /\ t.prime2 = s.prime2
        BY <2>7, <3>3
      <4> QED
        BY <1>2, <2>3, <2>6, <3>3, <4>1, MakesWalk
    <3>4. CASE k1 = "delete" /\ k2 = "delete"
      <4>1. t.prime1 = s.prime1 /\ t.prime2 = s.prime2
        BY <2>7, <3>4
      <4> QED
        BY <1>2, <2>3, <2>6, <3>4, <4>1, MakesWalk
    <3> QED
      BY <2>1, <3>1, <3>2, <3>3, <3>4
  <2>13. BothPass(p, q) => WellMade(t.prime1) /\ WellMade(t.prime2)
    <3>1. /\ t.prime1 = s.prime1 \/ t.prime1 = ot_skip(s.prime1, n) \/ t.prime1 = ot_delete(s.prime1, n)
          /\ t.prime2 = s.prime2 \/ t.prime2 = ot_skip(s.prime2, n) \/ t.prime2 = ot_delete(s.prime2, n)
      BY <2>1, <2>7
    <3> QED
      BY <1>1, <1>2, <2>3, <3>1, BuildersWellMade
  <2>11. XformInv(X, p, q, t)
    BY <1>3, <1>9, <2>1, <2>5, <2>8, <2>9, <2>10, <2>13 DEF XformInv, d1, d2
  <2>12. BothPass(p, q) => XformAdvances(p, q, s, t)
    <3>1. ASSUME BothPass(p, q) PROVE XformAdvances(p, q, s, t)
      <4>1. n # 0
        BY <2>2, <2>3, <3>1
      <4>2. n < left1 \/ n < left2 \/ (n = left1 /\ n = left2)
        BY <2>2, <2>3
      <4>3. ~(n < left1) \/ ~(n < left2)
        BY <2>2, <2>3
      <4> QED
        BY <1>4, <2>8, <2>9, <4>1, <4>3 DEF XformAdvances
    <3> QED
      BY <3>1
  <2> QED
    BY <2>11, <2>12 DEF t
<1> QED
  BY <1>3, <1>5, <1>6, <1>7, <1>8, <1>9 DEF TurnOfX
-----------------------------------------------------------------------------
(***************************************************************************)
(* One turn of ot_compose: it meets an element and changes nothing, fails, *)
(* passes a delete of op1, takes all or a piece of an insert of op2, or    *)
(* moves both over the same characters.                                    *)
(***************************************************************************)
ComposeLocals == {"it1", "it2", "composed", "failed"}

KeepsDelete(p, s, t) ==
  /\ Kind(p, s.it1) = "delete"
  /\ t.it1 = ot_iter_skip(p, s.it1, Left(p, s.it1)) /\ t.it2 = s.it2
  /\ t.composed = ot_delete(s.composed, Left(p, s.it1))

TakesInsert(p, q, s, t, n) ==
  /\ Kind(p, s.it1) \in {"end", "skip", "insert"} /\ Kind(q, s.it2) = "insert"
  /\ n \in 0..Left(q, s.it2)
  /\ Kind(p, s.it1) # "insert" => n = Left(q, s.it2)
  /\ Kind(p, s.it1) = "insert" => n = Least(Left(p, s.it1), Left(q, s.it2))
  /\ t.it1 = s.it1 /\ t.it2 = ot_iter_skip(q, s.it2, n)
  /\ t.composed = ot_insert(s.composed, NextOf(q, s.it2, n))

GoesAlong(p, q, s, t, n) ==
  /\ Kind(p, s.it1) \in {"skip", "insert"} /\ Kind(q, s.it2) \in {"skip", "delete"}
  /\ t.it1 = ot_iter_skip(p, s.it1, n) /\ t.it2 = ot_iter_skip(q, s.it2, n)
  /\ t.composed =
       CASE Kind(p, s.it1) = "skip" /\ Kind(q, s.it2) = "skip" -> ot_skip(s.composed, n)
         [] Kind(p, s.it1) = "skip" /\ Kind(q, s.it2) = "delete" -> ot_delete(s.composed, n)
         [] Kind(p, s.it1) = "insert" /\ Kind(q, s.it2) = "skip" ->
              ot_insert(s.composed, NextOf(p, s.it1, n))
         [] Kind(p, s.it1) = "insert" /\ Kind(q, s.it2) = "delete" -> s.composed

TurnOfC(p, q, s, t) ==
  \/ t = s /\ (Kind(p, s.it1) \in Stubs \/ Kind(q, s.it2) \in Stubs)
  \/ /\ t.failed /\ SameIterators(s, t) /\ t.composed = s.composed
     /\ Mismatch(Kind(p, s.it1), Kind(q, s.it2),
                 {"skip", "insert"} \cup Stubs, {"skip", "delete"} \cup Stubs)
  \/ ~t.failed /\ KeepsDelete(p, s, t)
  \/ ~t.failed /\ \E n : TakesInsert(p, q, s, t, n)
  \/ ~t.failed /\ GoesAlong(p, q, s, t, Least(Left(p, s.it1), Left(q, s.it2)))

LEMMA ComposeTurns ==
  ASSUME NEW X, NEW p \in OperationsOver(X), NEW q \in OperationsOver(X),
         NEW s, DOMAIN s = ComposeLocals, Placed(p, s.it1), Placed(q, s.it2), ComposeRunning(s),
         Kind(p, s.it1) = "delete" => s.it1.offset = 0,
         Kind(q, s.it2) = "insert" /\ s.it2.offset # 0 => Kind(p, s.it1) = "insert"
  PROVE  DOMAIN ComposeStep(p, q, s) = ComposeLocals /\ TurnOfC(p, q, s, ComposeStep(p, q, s))
<1> DEFINE k1 == Kind(p, s.it1)
           k2 == Kind(q, s.it2)
           kinds == <<k1, k2>>
           t == ComposeStep(p, q, s)
           T == {"skip", "delete", "insert", "end"}
<1>1. k1 \in T \cup Stubs /\ k2 \in T \cup Stubs /\ T \cap Stubs = {}
  BY KindOf DEF Stubs
<1>2. ~(k1 = "end" /\ k2 = "end") /\ ~s.failed
  BY KindOf DEF ComposeRunning
<1>3. t = ComposeTurn(p, q, kinds, s) /\ kinds[1] = k1 /\ kinds[2] = k2
  BY DEF ComposeStep
<1>4. DOMAIN s = {"it1", "it2", "composed", "failed"}
  BY DEF ComposeLocals
<1>5. /\ k1 = "delete" => s.it1.offset = 0
      /\ k2 = "insert" /\ s.it2.offset # 0 => k1 = "insert"
  OBVIOUS
<1> HIDE DEF k1, k2, t
<1>6. CASE ComposeMeetsStub(kinds)
  <2>1. t = s
    BY <1>1, <1>3, <1>6 DEF ComposeTurn, ComposeMeetsStub
  <2>2. k1 \in Stubs \/ k2 \in Stubs
    BY <1>3, <1>6 DEF ComposeMeetsStub
  <2> QED
    BY <1>4, <2>1, <2>2 DEF TurnOfC, t, k1, k2, ComposeLocals
<1>7. CASE ~ComposeMeetsStub(kinds) /\ k1 = "delete"
  <2>1. t = KeepDelete(p, s)
    BY <1>3, <1>7 DEF ComposeTurn
  <2>2. s.it1.next /\ p[s.it1.pos].type = "delete"
    BY <1>7, KindOf DEF k1
  <2>3. p[s.it1.pos].count = Left(p, s.it1)
    <3>1. /\ p[s.it1.pos] \in ComponentsOver(X)
          /\ Left(p, s.it1) \in Nat /\ s.it1.offset + Left(p, s.it1) = ot_comp_size(p[s.it1.pos])
      BY <2>2, ComponentAt DEF Stubs
    <3>2. ot_comp_size(p[s.it1.pos]) = p[s.it1.pos].count
      BY <2>2, <3>1, PieceCases
    <3>3. s.it1.offset = 0
      BY <1>5, <1>7
    <3> QED
      BY <3>1, <3>2, <3>3
  <2>4. t = Delete(p, s, Left(p, s.it1))
    BY <2>1, <2>3 DEF KeepDelete
  <2>5. /\ DOMAIN t = ComposeLocals /\ t.failed = s.failed
        /\ t.it1 = ot_iter_skip(p, s.it1, Left(p, s.it1)) /\ t.it2 = s.it2
        /\ t.composed = ot_delete(s.composed, Left(p, s.it1))
    BY <1>4, <2>4 DEF Delete, ComposeLocals
  <2>6. ~t.failed /\ KeepsDelete(p, s, t)
    BY <1>2, <1>7, <2>5 DEF KeepsDelete, k1
  <2> QED
    BY <2>5, <2>6 DEF TurnOfC, t
<1>8. CASE ~ComposeMeetsStub(kinds) /\ k1 # "delete" /\ k2 = "insert"
  <2> DEFINE left1 == Left(p, s.it1)
             left2 == Left(q, s.it2)
             n == IF k1 = "insert" THEN Least(left1, left2) ELSE left2
             text == NextText(p, q, k1, s)
  <2>1. k1 \in {"end", "skip", "insert"}
    BY <1>1, <1>2, <1>3, <1>8 DEF ComposeMeetsStub
  <2>2. t = InsertText(q, s, text)
    <3>1. t = TakeInsert(p, q, s)
      BY <1>1, <1>3, <1>8, <2>1 DEF ComposeTurn
    <3> QED
      BY <3>1 DEF TakeInsert, k1
  <2>3. left2 \in Nat
    BY <1>8, LeftOf DEF k2, Stubs
  <2>4. k1 = "insert" => left1 \in Nat
    BY LeftOf DEF k1, Stubs
  <2>5. n \in 0..left2
    <3> HIDE DEF left1, left2
    <3> QED
      BY <2>3, <2>4 DEF Least
  <2>6. /\ Len(NextOf(q, s.it2, n)) = n
        /\ NextOf(q, s.it2, left2) = LeftText(q, s.it2)
        /\ s.it2.offset = 0 => q[s.it2.pos].text = LeftText(q, s.it2)
    <3> HIDE DEF n
    <3> QED
      BY <1>8, <2>5, PassesInsert DEF k2
  <2>7. text = NextOf(q, s.it2, n)
    <3>1. CASE k1 = "end"
      <4>1. text = q[s.it2.pos].text /\ s.it2.offset = 0 /\ n = left2
        BY <1>5, <1>8, <3>1 DEF NextText
      <4> QED
        BY <2>6, <4>1
    <3>2. CASE k1 = "skip"
      <4>1. text = LeftText(q, s.it2) /\ n = left2
        BY <3>2 DEF NextText
      <4> QED
        BY <2>6, <4>1
    <3>3. CASE k1 = "insert"
      BY <3>3 DEF NextText, NextOf
    <3> QED
      BY <2>1, <3>1, <3>2, <3>3
  <2> HIDE DEF text
  <2>8. Len(text) = n
    BY <2>6, <2>7
  <2>9. /\ DOMAIN t = ComposeLocals /\ t.failed = s.failed
        /\ t.it1 = s.it1 /\ t.it2 = ot_iter_skip(q, s.it2, Len(text))
        /\ t.composed = ot_insert(s.composed, text)
    BY <1>4, <2>2 DEF InsertText, ComposeLocals
  <2>10. TakesInsert(p, q, s, t, n)
    <3>1. /\ k1 # "insert" => n = left2
          /\ k1 = "insert" => n = Least(left1, left2)
      OBVIOUS
    <3> HIDE DEF n
    <3> QED
      BY <1>8, <2>1, <2>5, <2>7, <2>8, <2>9, <3>1 DEF TakesInsert, k1, k2
  <2>11. ~t.failed /\ \E m : TakesInsert(p, q, s, t, m)
    <3> HIDE DEF n
    <3> QED
      BY <1>2, <2>9, <2>10
  <2> QED
    BY <2>9, <2>11 DEF TurnOfC, t
<1>9. CASE k1 \in {"skip", "insert"} /\ k2 \in {"skip", "delete"}
  <2> DEFINE n == Shared(p, q, s)
             r == CASE k1 = "skip" /\ k2 = "skip" -> ot_skip(s.composed, n)
                    [] k1 = "skip" /\ k2 = "delete" -> ot_delete(s.composed, n)
                    [] k1 = "insert" /\ k2 = "skip" -> ot_insert(s.composed, NextOf(p, s.it1, n))
                    [] k1 = "insert" /\ k2 = "delete" -> s.composed
  <2>1. ~ComposeMeetsStub(kinds)
    BY <1>1, <1>3, <1>9 DEF ComposeMeetsStub
  <2>2. t = Along(p, q, kinds, s, n)
    BY <1>1, <1>3, <1>9, <2>1 DEF ComposeTurn
  <2> HIDE DEF n, r
  <2>3. /\ DOMAIN t = ComposeLocals /\ t.failed = s.failed
        /\ t.it1 = ot_iter_skip(p, s.it1, n) /\ t.it2 = ot_iter_skip(q, s.it2, n)
    BY <1>4, <2>2 DEF Along, ComposeLocals
  <2>4. t.composed =
          CASE kinds = <<"skip", "skip">> -> ot_skip(s.composed, n)
            [] kinds = <<"skip", "delete">> -> ot_delete(s.composed, n)
            [] kinds = <<"insert", "skip">> -> ot_insert(s.composed, Kept(p, s, n))
            [] kinds = <<"insert", "delete">> -> s.composed
    BY <1>4, <2>2 DEF Along
  <2>5. Kept(p, s, n) = NextOf(p, s.it1, n)
    BY DEF Kept, NextOf
  <2>6. t.composed = r
    BY <1>9, <2>4, <2>5 DEF r
  <2>7. ~t.failed /\ GoesAlong(p, q, s, t, n)
    BY <1>2, <1>9, <2>3, <2>6 DEF GoesAlong, k1, k2, r
  <2> QED
    BY <2>3, <2>7 DEF TurnOfC, t, n, Shared
<1>10. CASE Mismatch(k1, k2, {"skip", "insert"} \cup Stubs, {"skip", "delete"} \cup Stubs)
            /\ ~ComposeMeetsStub(kinds)
  <2>1. t = [s EXCEPT !.failed = TRUE]
    BY <1>1, <1>2, <1>3, <1>10 DEF ComposeTurn, Mismatch
  <2>2. /\ DOMAIN t = ComposeLocals /\ t.failed /\ t.it1 = s.it1 /\ t.it2 = s.it2
        /\ t.composed = s.composed
    BY <1>4, <2>1 DEF ComposeLocals
  <2> QED
    BY <1>10, <2>2 DEF TurnOfC, SameIterators, t, k1, k2
<1>11. \/ ComposeMeetsStub(kinds)
       \/ ~ComposeMeetsStub(kinds) /\ k1 = "delete"
       \/ ~ComposeMeetsStub(kinds) /\ k1 # "delete" /\ k2 = "insert"
       \/ k1 \in {"skip", "insert"} /\ k2 \in {"skip", "delete"}
       \/ /\ Mismatch(k1, k2, {"skip", "insert"} \cup Stubs, {"skip", "delete"} \cup Stubs)
          /\ ~ComposeMeetsStub(kinds)
  BY <1>1, <1>2, <1>3 DEF ComposeMeetsStub, Mismatch
<1> QED
  BY <1>6, <1>7, <1>8, <1>9, <1>10, <1>11

-----------------------------------------------------------------------------
(***************************************************************************)
(* What holds before and after every turn of ot_compose.  An insert of the *)
(* second operation is left half way only over an insert of the first,     *)
(* which stays where it is until the rest is taken.                        *)
(***************************************************************************)
ComposeInv(X, p, q, s) ==
  /\ DOMAIN s = ComposeLocals
  /\ Placed(p, s.it1) /\ Placed(q, s.it2)
  /\ Kind(p, s.it1) = "delete" => s.it1.offset = 0
  /\ Kind(q, s.it2) = "insert" /\ s.it2.offset # 0 => Kind(p, s.it1) = "insert"
  /\ InSequence(X, Consumed(p, s.it1), Consumed(q, s.it2), s.composed)
  /\ BothPass(p, q) => WellMade(s.composed)
  /\ s.failed => ~BothPass(p, q) \/ OutLen(p) # BaseLen(q)

ComposeAdvances(p, q, s, t) ==
  \/ t.failed
  \/ Finished(p, t.it1) + Finished(q, t.it2) > Finished(p, s.it1) + Finished(q, s.it2)
  \/ /\ Finished(p, t.it1) + Finished(q, t.it2) = Finished(p, s.it1) + Finished(q, s.it2)
     /\ t.it2.offset > s.it2.offset

\* How much of the two operations is behind the iterators.
Behind(p, q, s) == Volume(Consumed(p, s.it1)) + Volume(Consumed(q, s.it2))

ComposeConsumes(p, q, s, t) ==
  t.failed \/ Behind(p, q, t) >= Behind(p, q, s) + 1

LEMMA ComposeInvAtStart ==
  ASSUME NEW X, NEW p \in OperationsOver(X), NEW q \in OperationsOver(X)
  PROVE  ComposeInv(X, p, q, ComposeStart(p, q))
<1> DEFINE s == ComposeStart(p, q)
<1>1. /\ DOMAIN s = ComposeLocals
      /\ s.it1 = ot_iter_next(p) /\ s.it2 = ot_iter_next(q)
      /\ s.composed = <<>> /\ ~s.failed
  BY DEF ComposeStart, ComposeLocals
<1> HIDE DEF s
<1>2. /\ Placed(p, ot_iter_next(p)) /\ Placed(q, ot_iter_next(q))
      /\ Alike(X, Consumed(p, ot_iter_next(p)), <<>>)
      /\ Alike(X, Consumed(q, ot_iter_next(q)), <<>>)
  BY ConsumedAtStart
<1>3. ot_iter_next(p).offset = 0 /\ ot_iter_next(q).offset = 0
  BY DEF ot_iter_next
<1>4. InSequence(X, <<>>, <<>>, <<>>)
  BY InSequenceAtStart
<1>5. Alike(X, <<>>, <<>>)
  BY EmptyOperation, AlikeItself
<1>6. InSequence(X, Consumed(p, ot_iter_next(p)), Consumed(q, ot_iter_next(q)), <<>>)
  BY <1>2, <1>4, <1>5, InSequenceAlike
<1>7. WellMade(<<>>)
  BY NothingIsWellMade
<1> QED
  BY <1>1, <1>2, <1>3, <1>6, <1>7 DEF ComposeInv, s

LEMMA ComposeKeepsInv ==
  ASSUME NEW X, NEW p \in OperationsOver(X), NEW q \in OperationsOver(X),
         NEW s, ComposeInv(X, p, q, s), ComposeRunning(s)
  PROVE  /\ ComposeInv(X, p, q, ComposeStep(p, q, s))
         /\ BothPass(p, q) => /\ ComposeAdvances(p, q, s, ComposeStep(p, q, s))
                              /\ ComposeConsumes(p, q, s, ComposeStep(p, q, s))
<1> DEFINE t == ComposeStep(p, q, s)
           k1 == Kind(p, s.it1)
           k2 == Kind(q, s.it2)
           left1 == Left(p, s.it1)
           left2 == Left(q, s.it2)
           c1 == Consumed(p, s.it1)
           c2 == Consumed(q, s.it2)
<1>1. /\ DOMAIN s = ComposeLocals /\ Placed(p, s.it1) /\ Placed(q, s.it2)
      /\ k1 = "delete" => s.it1.offset = 0
      /\ k2 = "insert" /\ s.it2.offset # 0 => k1 = "insert"
      /\ BothPass(p, q) => WellMade(s.composed)
      /\ ~s.failed
  BY DEF ComposeInv, ComposeRunning
<1>2. InSequence(X, c1, c2, s.composed) /\ s.composed \in OperationsOver(X)
  BY DEF ComposeInv, InSequence
<1>3. DOMAIN t = ComposeLocals /\ TurnOfC(p, q, s, t)
  BY <1>1, ComposeTurns
<1>4. /\ Finished(p, s.it1) \in Nat /\ Finished(q, s.it2) \in Nat
      /\ s.it1.offset \in Nat /\ s.it2.offset \in Nat
  BY <1>1, FinishedIsNat DEF Placed, Iterators
<1>10. c1 \in OperationsOver(X) /\ c2 \in OperationsOver(X)
  BY <1>2 DEF InSequence
<1>11. Volume(c1) \in Nat /\ Volume(c2) \in Nat
  <2> HIDE DEF c1, c2
  <2> QED
    BY <1>10, LengthsAreNat
<1> HIDE DEF t
<1>5. CASE t = s /\ (k1 \in Stubs \/ k2 \in Stubs)
  <2>1. ~BothPass(p, q)
    BY <1>1, <1>5, MoreToSpan DEF BothPass
  <2>2. ComposeInv(X, p, q, t)
    BY <1>5
  <2> QED
    BY <2>1, <2>2 DEF t
<1>6. CASE /\ t.failed /\ SameIterators(s, t) /\ t.composed = s.composed
           /\ Mismatch(k1, k2, {"skip", "insert"} \cup Stubs, {"skip", "delete"} \cup Stubs)
  <2>1. ASSUME BothPass(p, q) PROVE OutLen(p) # BaseLen(q)
    <3>1. OutLen(c1) = BaseLen(c2)
      BY <1>2 DEF InSequence
    <3>2. /\ k1 \notin Stubs /\ k2 \notin Stubs
          /\ k1 \in {"skip", "insert"} => OutLen(c1) # OutLen(p)
          /\ k2 \in {"skip", "delete"} => BaseLen(c2) # BaseLen(q)
      BY <1>1, <2>1, MoreToSpan DEF BothPass
    <3>3. (k1 = "end" => c1 = p) /\ (k2 = "end" => c2 = q)
      BY <1>1, KindOf, AllPassed
    <3> HIDE DEF k1, k2, c1, c2
    <3>4. \/ k1 = "end" /\ k2 \in {"skip", "delete"}
          \/ k2 = "end" /\ k1 \in {"skip", "insert"}
      BY <1>6, <3>2 DEF Mismatch
    <3> QED
      BY <3>1, <3>2, <3>3, <3>4
  <2>2. ComposeInv(X, p, q, t)
    BY <1>1, <1>2, <1>3, <1>6, <2>1 DEF ComposeInv, SameIterators
  <2> QED
    BY <1>6, <2>2 DEF ComposeAdvances, ComposeConsumes, t
<1>7. CASE ~t.failed /\ KeepsDelete(p, s, t)
  <2> DEFINE d1 == Consumed(p, t.it1)
  <2>1. /\ k1 = "delete" /\ t.it1 = ot_iter_skip(p, s.it1, left1) /\ t.it2 = s.it2
        /\ t.composed = ot_delete(s.composed, left1)
    BY <1>7 DEF KeepsDelete
  <2>2. /\ s.it1.next /\ p[s.it1.pos].type \notin Stubs /\ left1 \in Nat /\ left1 \in 0..left1
        /\ BothPass(p, q) => left1 # 0
    BY <1>1, <2>1, LeftOf DEF Stubs, BothPass
  <2>3. Alike(X, d1, Append(c1, DeleteComp(left1)))
    BY <1>1, <2>1, <2>2, PassesCount
  <2>4. MovedOn(p, s.it1, left1, t.it1)
    BY <1>1, <2>1, <2>2, Moves
  <2>5. Placed(p, t.it1)
    BY <2>4 DEF MovedOn
  <2> HIDE DEF d1, c1, c2, left1
  <2>6. InSequence(X, d1, c2, t.composed)
    BY <1>2, <2>1, <2>2, <2>3, MakesDelete
  <2>7. BothPass(p, q) => WellMade(t.composed)
    BY <1>1, <1>2, <2>1, <2>2, BuildersWellMade
  <2>8. /\ \/ Kind(p, t.it1) = "end"
           \/ t.it1.offset = 0
           \/ t.it1 = s.it1
        /\ left1 # 0 => Finished(p, t.it1) = Finished(p, s.it1) + 1
    BY <1>1, <2>2, <2>4, OffsetAfter DEF left1
  <2>9. ~(k2 = "insert" /\ s.it2.offset # 0)
    BY <1>1, <2>1
  <2>10. ComposeInv(X, p, q, t)
    BY <1>1, <1>3, <1>7, <2>1, <2>5, <2>6, <2>7, <2>8, <2>9 DEF ComposeInv, d1, c2
  <2>11. BothPass(p, q) => ComposeAdvances(p, q, s, t)
    BY <1>4, <2>1, <2>2, <2>8 DEF ComposeAdvances
  <2>12. Volume(d1) = Volume(c1) + left1
    <3>1. Volume(Append(c1, DeleteComp(left1))) = Volume(c1) + left1
      BY <1>10, <2>2, LengthsWithComponent
    <3> QED
      BY <2>3, <3>1 DEF Alike
  <2>13. BothPass(p, q) => ComposeConsumes(p, q, s, t)
    BY <1>11, <2>1, <2>2, <2>12 DEF ComposeConsumes, Behind, c1, c2, d1
  <2> QED
    BY <2>10, <2>11, <2>13 DEF t
<1>8. CASE ~t.failed /\ \E n : TakesInsert(p, q, s, t, n)
  <2>1. PICK n : TakesInsert(p, q, s, t, n)
    BY <1>8
  <2> DEFINE x == NextOf(q, s.it2, n)
             d2 == Consumed(q, t.it2)
  <2>2. /\ k1 \in {"end", "skip", "insert"} /\ k2 = "insert" /\ n \in 0..left2
        /\ k1 # "insert" => n = left2
        /\ k1 = "insert" => n = Least(left1, left2)
        /\ t.it1 = s.it1 /\ t.it2 = ot_iter_skip(q, s.it2, n)
        /\ t.composed = ot_insert(s.composed, x)
    BY <2>1 DEF TakesInsert
  <2>3. /\ s.it2.next /\ q[s.it2.pos].type \notin Stubs /\ left2 \in Nat
        /\ BothPass(p, q) => left2 # 0
    BY <1>1, <2>2, LeftOf DEF Stubs, BothPass
  <2>4. k1 = "insert" => left1 \in Nat /\ (BothPass(p, q) => left1 # 0)
    BY <1>1, LeftOf DEF Stubs, BothPass
  <2>5. x \in Seq(X) /\ Len(x) = n /\ Alike(X, d2, Append(c2, InsertComp(x)))
    BY <1>1, <2>2, PassesInsert
  <2>6. MovedOn(q, s.it2, n, t.it2)
    BY <1>1, <2>2, <2>3, Moves
  <2>7. Placed(q, t.it2)
    BY <2>6 DEF MovedOn
  <2>8. /\ \/ Kind(q, t.it2) = "end"
           \/ t.it2.offset = 0
           \/ t.it2 = s.it2
           \/ n < left2
        /\ n # 0 => \/ Finished(q, t.it2) = Finished(q, s.it2) + 1
                    \/ /\ Finished(q, t.it2) = Finished(q, s.it2)
                       /\ t.it2.offset = s.it2.offset + n
    BY <1>1, <2>2, <2>3, <2>6, OffsetAfter
  <2> HIDE DEF x, d2, c1, c2, left1, left2
  <2>9. InSequence(X, c1, d2, t.composed)
    BY <1>2, <2>2, <2>5, MakesOwnInsert
  <2>10. n \in Nat /\ (n < left2 => k1 = "insert") /\ (BothPass(p, q) => n # 0)
    BY <2>2, <2>3, <2>4 DEF Least
  <2>11. BothPass(p, q) => WellMade(t.composed)
    BY <1>1, <1>2, <2>2, <2>5, <2>10, BuildersWellMade
  <2>12. Kind(q, t.it2) = "insert" /\ t.it2.offset # 0 => k1 = "insert"
    BY <1>1, <2>8, <2>10
  <2>13. ComposeInv(X, p, q, t)
    BY <1>1, <1>3, <1>8, <2>2, <2>7, <2>9, <2>11, <2>12 DEF ComposeInv, d2, c1
  <2>14. BothPass(p, q) => ComposeAdvances(p, q, s, t)
    BY <1>4, <2>2, <2>8, <2>10 DEF ComposeAdvances
  <2>15. Volume(d2) = Volume(c2) + n
    <3>1. Volume(Append(c2, InsertComp(x))) = Volume(c2) + Len(x)
      BY <1>10, <2>5, LengthsWithComponent
    <3> QED
      BY <2>5, <3>1 DEF Alike
  <2>16. BothPass(p, q) => ComposeConsumes(p, q, s, t)
    BY <1>11, <2>2, <2>10, <2>15 DEF ComposeConsumes, Behind, c1, c2, d2
  <2> QED
    BY <2>13, <2>14, <2>16 DEF t
<1>9. CASE ~t.failed /\ GoesAlong(p, q, s, t, Least(left1, left2))
  <2> DEFINE n == Least(left1, left2)
             x == NextOf(p, s.it1, n)
             d1 == Consumed(p, t.it1)
             d2 == Consumed(q, t.it2)
  <2>1. /\ k1 \in {"skip", "insert"} /\ k2 \in {"skip", "delete"}
        /\ t.it1 = ot_iter_skip(p, s.it1, n) /\ t.it2 = ot_iter_skip(q, s.it2, n)
    BY <1>9 DEF GoesAlong
  <2>2. /\ s.it1.next /\ p[s.it1.pos].type \notin Stubs /\ left1 \in Nat
        /\ s.it2.next /\ q[s.it2.pos].type \notin Stubs /\ left2 \in Nat
        /\ BothPass(p, q) => left1 # 0 /\ left2 # 0
    BY <1>1, <2>1, LeftOf DEF Stubs, BothPass
  <2>3. n \in Nat /\ n \in 0..left1 /\ n \in 0..left2 /\ (n = left1 \/ n = left2)
    <3> HIDE DEF left1, left2
    <3> QED
      BY <2>2 DEF Least
  <2>4. MovedOn(p, s.it1, n, t.it1) /\ MovedOn(q, s.it2, n, t.it2)
    <3> HIDE DEF n
    <3> QED
      BY <1>1, <2>1, <2>2, <2>3, Moves
  <2>5. Placed(p, t.it1) /\ Placed(q, t.it2)
    BY <2>4 DEF MovedOn
  <2>6. /\ k1 = "skip" => Alike(X, d1, Append(c1, SkipComp(n)))
        /\ k2 = "skip" => Alike(X, d2, Append(c2, SkipComp(n)))
        /\ k2 = "delete" => Alike(X, d2, Append(c2, DeleteComp(n)))
    <3> HIDE DEF n
    <3> QED
      BY <1>1, <2>1, <2>3, PassesCount
  <2>7. k1 = "insert" => x \in Seq(X) /\ Len(x) = n /\ Alike(X, d1, Append(c1, InsertComp(x)))
    <3> HIDE DEF n
    <3> QED
      BY <1>1, <2>1, <2>3, PassesInsert
  <2>8. t.composed =
          CASE k1 = "skip" /\ k2 = "skip" -> ot_skip(s.composed, n)
            [] k1 = "skip" /\ k2 = "delete" -> ot_delete(s.composed, n)
            [] k1 = "insert" /\ k2 = "skip" -> ot_insert(s.composed, x)
            [] k1 = "insert" /\ k2 = "delete" -> s.composed
    BY <1>9 DEF GoesAlong
  <2>9. /\ \/ Kind(p, t.it1) = "end"
           \/ t.it1.offset = 0
           \/ Kind(p, t.it1) = k1
        /\ n # 0 => \/ Finished(p, t.it1) = Finished(p, s.it1) + 1
                    \/ Finished(p, t.it1) = Finished(p, s.it1) /\ n < left1
    <3> HIDE DEF n
    <3> QED
      BY <1>1, <2>2, <2>3, <2>4, OffsetAfter
  <2>10. /\ \/ Kind(q, t.it2) = "end"
            \/ t.it2.offset = 0
            \/ Kind(q, t.it2) = k2
         /\ n # 0 => \/ Finished(q, t.it2) = Finished(q, s.it2) + 1
                     \/ Finished(q, t.it2) = Finished(q, s.it2) /\ n < left2
    <3> HIDE DEF n
    <3> QED
      BY <1>1, <2>2, <2>3, <2>4, OffsetAfter
  <2> HIDE DEF n, x, d1, d2, c1, c2, k1, k2, left1, left2
  <2>11. BothPass(p, q) => n # 0
    BY <2>2, <2>3
  <2>12. InSequence(X, d1, d2, t.composed) /\ (BothPass(p, q) => WellMade(t.composed))
    <3>1. CASE k1 = "skip" /\ k2 = "skip"
      <4>1. t.composed = ot_skip(s.composed, n)
        BY <2>8, <3>1
      <4>2. InSequence(X, d1, d2, t.composed)
        BY <1>2, <2>3, <2>6, <3>1, <4>1, MakesAlong
      <4>3. BothPass(p, q) => WellMade(t.composed)
        BY <1>1, <1>2, <2>3, <4>1, BuildersWellMade
      <4> QED
        BY <4>2, <4>3
    <3>2. CASE k1 = "skip" /\ k2 = "delete"
      <4>1. t.composed = ot_delete(s.composed, n)
        BY <2>8, <3>2
      <4>2. InSequence(X, d1, d2, t.composed)
        BY <1>2, <2>3, <2>6, <3>2, <4>1, MakesAlong
      <4>3. BothPass(p, q) => WellMade(t.composed)
        BY <1>1, <1>2, <2>3, <4>1, BuildersWellMade
      <4> QED
        BY <4>2, <4>3
    <3>3. CASE k1 = "insert" /\ k2 = "skip"
      <4>1. t.composed = ot_insert(s.composed, x)
        BY <2>8, <3>3
      <4>2. InSequence(X, d1, d2, t.composed)
        BY <1>2, <2>3, <2>6, <2>7, <3>3, <4>1, MakesAlong
      <4>3. BothPass(p, q) => WellMade(t.composed)
        BY <1>1, <1>2, <2>7, <2>11, <3>3, <4>1, BuildersWellMade
      <4> QED
        BY <4>2, <4>3
    <3>4. CASE k1 = "insert" /\ k2 = "delete"
      <4>1. t.composed = s.composed
        BY <2>8, <3>4
      <4>2. InSequence(X, d1, d2, t.composed)
        BY <1>2, <2>3, <2>6, <2>7, <3>4, <4>1, MakesAlong
      <4> QED
        BY <1>1, <4>1, <4>2
    <3> QED
      BY <2>1, <3>1, <3>2, <3>3, <3>4
  <2>13. ComposeInv(X, p, q, t)
    BY <1>3, <1>9, <2>1, <2>5, <2>9, <2>10, <2>12 DEF ComposeInv, d1, d2
  <2>14. ASSUME BothPass(p, q) PROVE ComposeAdvances(p, q, s, t)
    <3>1. n # 0
      BY <2>11, <2>14
    <3>2. ~(n < left1) \/ ~(n < left2)
      BY <2>2, <2>3
    <3> QED
      BY <1>4, <2>9, <2>10, <3>1, <3>2 DEF ComposeAdvances
  <2>15. Volume(d1) = Volume(c1) + n /\ Volume(d2) = Volume(c2) + n
    <3>1. /\ Volume(Append(c1, SkipComp(n))) = Volume(c1) + n
          /\ k1 = "insert" => Volume(Append(c1, InsertComp(x))) = Volume(c1) + n
      BY <1>10, <2>3, <2>7, LengthsWithComponent
    <3>2. /\ Volume(Append(c2, SkipComp(n))) = Volume(c2) + n
          /\ Volume(Append(c2, DeleteComp(n))) = Volume(c2) + n
      BY <1>10, <2>3, LengthsWithComponent
    <3> QED
      BY <2>1, <2>6, <2>7, <3>1, <3>2 DEF Alike
  <2>16. BothPass(p, q) => ComposeConsumes(p, q, s, t)
    BY <1>11, <2>3, <2>11, <2>15 DEF ComposeConsumes, Behind, c1, c2, d1, d2
  <2> QED
    BY <2>13, <2>14, <2>16 DEF t
<1> QED
  BY <1>3, <1>5, <1>6, <1>7, <1>8, <1>9 DEF TurnOfC
-----------------------------------------------------------------------------
(***************************************************************************)
(* Whole calls.  The states of a loop, one after each turn, exist as a     *)
(* function on 0..n for every n; the invariant holds of all of them, and   *)
(* the call has ended by the last one when both operations can be passed.  *)
(***************************************************************************)
NextXform(p, q, s) == IF XformRunning(s) THEN XformStep(p, q, s) ELSE s

XformRun(p, q, n, run) ==
  run = [k \in 0..n |-> IF k = 0 THEN XformStart(p, q) ELSE NextXform(p, q, run[k - 1])]

LEMMA XformRunExists ==
  ASSUME NEW p, NEW q, NEW n \in Nat
  PROVE  \E run : XformRun(p, q, n, run)
<1> DEFINE T == {m \in Nat : \E run : XformRun(p, q, m, run)}
<1>1. 0 \in T
  <2> DEFINE run == [k \in 0..0 |-> XformStart(p, q)]
  <2>1. \A k \in 0..0 : k = 0
    OBVIOUS
  <2>2. XformRun(p, q, 0, run)
    BY <2>1 DEF XformRun
  <2> HIDE DEF run
  <2> QED
    BY <2>2
<1>2. ASSUME NEW m \in Nat, m \in T PROVE m + 1 \in T
  <2>1. PICK run : XformRun(p, q, m, run)
    BY <1>2
  <2> DEFINE longer == [k \in 0..(m + 1) |->
                          IF k = m + 1 THEN NextXform(p, q, run[m]) ELSE run[k]]
  <2>2. \A k \in 0..m :
          run[k] = IF k = 0 THEN XformStart(p, q) ELSE NextXform(p, q, run[k - 1])
    BY <2>1 DEF XformRun
  <2>3. \A k \in 0..(m + 1) :
          longer[k] = IF k = 0 THEN XformStart(p, q) ELSE NextXform(p, q, longer[k - 1])
    <3>1. ASSUME NEW k \in 0..(m + 1), k = m + 1
          PROVE  longer[k] = IF k = 0 THEN XformStart(p, q) ELSE NextXform(p, q, longer[k - 1])
      <4>1. longer[k] = NextXform(p, q, run[m]) /\ k # 0 /\ k - 1 = m
        BY <3>1
      <4>2. longer[m] = run[m]
        OBVIOUS
      <4> QED
        BY <4>1, <4>2
    <3>2. ASSUME NEW k \in 0..(m + 1), k # m + 1
          PROVE  longer[k] = IF k = 0 THEN XformStart(p, q) ELSE NextXform(p, q, longer[k - 1])
      <4>1. k \in 0..m /\ longer[k] = run[k]
        BY <3>2
      <4>2. k # 0 => longer[k - 1] = run[k - 1]
        BY <4>1
      <4> HIDE DEF longer
      <4> QED
        BY <2>2, <4>1, <4>2
    <3> QED
      BY <3>1, <3>2
  <2>4. XformRun(p, q, m + 1, longer)
    <3>1. longer = [k \in 0..(m + 1) |-> longer[k]]
      OBVIOUS
    <3> HIDE DEF longer
    <3> QED
      BY <2>3, <3>1 DEF XformRun
  <2> HIDE DEF longer
  <2> QED
    BY <2>4
<1>3. Nat \subseteq T
  <2> HIDE DEF T
  <2> QED
    BY <1>1, <1>2, SetInduction
<1> QED
  BY <1>3

LEMMA XformCompsIsRun ==
  ASSUME NEW p, NEW q, Len(p) + Len(q) \in Nat
  PROVE  \E run : XformRun(p, q, Len(p) + Len(q), run) /\ XformComps(p, q) = run[Len(p) + Len(q)]
<1> DEFINE N == Len(p) + Len(q)
           Is(run) == run = [k \in 0..N |->
                               IF k = 0 THEN XformStart(p, q)
                               ELSE LET s == run[k - 1]
                                    IN  IF XformRunning(s) THEN XformStep(p, q, s) ELSE s]
           chosen == CHOOSE run : Is(run)
<1>1. XformComps(p, q) = chosen[N]
  BY DEF XformComps
<1>2. \A run : Is(run) <=> XformRun(p, q, N, run)
  BY DEF XformRun, NextXform
<1> HIDE DEF Is
<1>3. \E run : Is(run)
  <2> HIDE DEF N
  <2>1. N \in Nat
    BY DEF N
  <2> QED
    BY <1>2, <2>1, XformRunExists
<1>4. Is(chosen)
  BY <1>3
<1> HIDE DEF chosen
<1> QED
  BY <1>1, <1>2, <1>4
NextCompose(p, q, s) == IF ComposeRunning(s) THEN ComposeStep(p, q, s) ELSE s

ComposeRun(p, q, n, run) ==
  run = [k \in 0..n |-> IF k = 0 THEN ComposeStart(p, q) ELSE NextCompose(p, q, run[k - 1])]

LEMMA ComposeRunExists ==
  ASSUME NEW p, NEW q, NEW n \in Nat
  PROVE  \E run : ComposeRun(p, q, n, run)
<1> DEFINE T == {m \in Nat : \E run : ComposeRun(p, q, m, run)}
<1>1. 0 \in T
  <2> DEFINE run == [k \in 0..0 |-> ComposeStart(p, q)]
  <2>1. \A k \in 0..0 : k = 0
    OBVIOUS
  <2>2. ComposeRun(p, q, 0, run)
    BY <2>1 DEF ComposeRun
  <2> HIDE DEF run
  <2> QED
    BY <2>2
<1>2. ASSUME NEW m \in Nat, m \in T PROVE m + 1 \in T
  <2>1. PICK run : ComposeRun(p, q, m, run)
    BY <1>2
  <2> DEFINE longer == [k \in 0..(m + 1) |->
                          IF k = m + 1 THEN NextCompose(p, q, run[m]) ELSE run[k]]
  <2>2. \A k \in 0..m :
          run[k] = IF k = 0 THEN ComposeStart(p, q) ELSE NextCompose(p, q, run[k - 1])
    BY <2>1 DEF ComposeRun
  <2>3. \A k \in 0..(m + 1) :
          longer[k] = IF k = 0 THEN ComposeStart(p, q) ELSE NextCompose(p, q, longer[k - 1])
    <3>1. ASSUME NEW k \in 0..(m + 1), k = m + 1
          PROVE  longer[k] = IF k = 0 THEN ComposeStart(p, q) ELSE NextCompose(p, q, longer[k - 1])
      <4>1. longer[k] = NextCompose(p, q, run[m]) /\ k # 0 /\ k - 1 = m
        BY <3>1
      <4>2. longer[m] = run[m]
        OBVIOUS
      <4> QED
        BY <4>1, <4>2
    <3>2. ASSUME NEW k \in 0..(m + 1), k # m + 1
          PROVE  longer[k] = IF k = 0 THEN ComposeStart(p, q) ELSE NextCompose(p, q, longer[k - 1])
      <4>1. k \in 0..m /\ longer[k] = run[k]
        BY <3>2
      <4>2. k # 0 => longer[k - 1] = run[k - 1]
        BY <4>1
      <4> HIDE DEF longer
      <4> QED
        BY <2>2, <4>1, <4>2
    <3> QED
      BY <3>1, <3>2
  <2>4. ComposeRun(p, q, m + 1, longer)
    <3>1. longer = [k \in 0..(m + 1) |-> longer[k]]
      OBVIOUS
    <3> HIDE DEF longer
    <3> QED
      BY <2>3, <3>1 DEF ComposeRun
  <2> HIDE DEF longer
  <2> QED
    BY <2>4
<1>3. Nat \subseteq T
  <2> HIDE DEF T
  <2> QED
    BY <1>1, <1>2, SetInduction
<1> QED
  BY <1>3

LEMMA ComposeCompsIsRun ==
  ASSUME NEW p, NEW q, Volume(p) + Volume(q) + 1 \in Nat
  PROVE  \E run : ComposeRun(p, q, Volume(p) + Volume(q) + 1, run) /\ ComposeComps(p, q) = run[Volume(p) + Volume(q) + 1]
<1> DEFINE N == Volume(p) + Volume(q) + 1
           Is(run) == run = [k \in 0..N |->
                               IF k = 0 THEN ComposeStart(p, q)
                               ELSE LET s == run[k - 1]
                                    IN  IF ComposeRunning(s) THEN ComposeStep(p, q, s) ELSE s]
           chosen == CHOOSE run : Is(run)
<1>1. ComposeComps(p, q) = chosen[N]
  BY DEF ComposeComps
<1>2. \A run : Is(run) <=> ComposeRun(p, q, N, run)
  BY DEF ComposeRun, NextCompose
<1> HIDE DEF Is
<1>3. \E run : Is(run)
  <2> HIDE DEF N
  <2>1. N \in Nat
    BY DEF N
  <2> QED
    BY <1>2, <2>1, ComposeRunExists
<1>4. Is(chosen)
  BY <1>3
<1> HIDE DEF chosen
<1> QED
  BY <1>1, <1>2, <1>4

-----------------------------------------------------------------------------
(***************************************************************************)
(* What a call leaves.  Of operations it can pass it always comes to an    *)
(* end, and it fails exactly when the lengths do not fit.                  *)
(***************************************************************************)
LEMMA XformCall ==
  ASSUME NEW X, NEW p \in OperationsOver(X), NEW q \in OperationsOver(X)
  PROVE  /\ XformInv(X, p, q, XformComps(p, q))
         /\ BothPass(p, q) => ~XformRunning(XformComps(p, q))
<1> DEFINE N == Len(p) + Len(q)
           Passed(s) == Finished(p, s.it1) + Finished(q, s.it2)
           Good(s, i) == /\ XformInv(X, p, q, s)
                         /\ BothPass(p, q) => ~XformRunning(s) \/ Passed(s) >= i
<1>1. Len(p) \in Nat /\ Len(q) \in Nat /\ N \in Nat
  BY DEF OperationsOver
<1>2. PICK run : XformRun(p, q, N, run) /\ XformComps(p, q) = run[N]
  BY <1>1, XformCompsIsRun
<1> HIDE DEF N
<1>3. /\ run[0] = XformStart(p, q)
      /\ \A i \in Nat : i + 1 <= N => run[i + 1] = NextXform(p, q, run[i])
  <2>1. \A k \in 0..N :
          run[k] = IF k = 0 THEN XformStart(p, q) ELSE NextXform(p, q, run[k - 1])
    BY <1>2 DEF XformRun
  <2>2. run[0] = XformStart(p, q)
    BY <1>1, <2>1
  <2>3. ASSUME NEW i \in Nat, i + 1 <= N PROVE run[i + 1] = NextXform(p, q, run[i])
    <3>1. i + 1 \in 0..N /\ i + 1 # 0 /\ (i + 1) - 1 = i
      BY <1>1, <2>3
    <3> QED
      BY <2>1, <3>1
  <2> QED
    BY <2>2, <2>3
<1>4. \A s : XformInv(X, p, q, s) => Finished(p, s.it1) \in Nat /\ Finished(q, s.it2) \in Nat
  BY FinishedIsNat DEF XformInv
<1> DEFINE T == {i \in Nat : i <= N => Good(run[i], i)}
<1>5. 0 \in T
  <2>1. XformInv(X, p, q, run[0])
    BY <1>3, XformInvAtStart
  <2>2. Passed(run[0]) >= 0
    BY <1>4, <2>1
  <2> QED
    BY <2>1, <2>2
<1>6. ASSUME NEW i \in Nat, i \in T PROVE i + 1 \in T
  <2> SUFFICES ASSUME i + 1 <= N PROVE Good(run[i + 1], i + 1)
    OBVIOUS
  <2> DEFINE s == run[i]
             t == run[i + 1]
  <2>1. Good(s, i)
    BY <1>1, <1>6
  <2>2. t = NextXform(p, q, s)
    BY <1>3
  <2> HIDE DEF s, t
  <2>3. CASE ~XformRunning(s)
    <3>1. t = s
      BY <2>2, <2>3 DEF NextXform
    <3> QED
      BY <2>1, <2>3, <3>1 DEF t
  <2>4. CASE XformRunning(s)
    <3>1. t = XformStep(p, q, s)
      BY <2>2, <2>4 DEF NextXform
    <3>2. XformInv(X, p, q, t) /\ (BothPass(p, q) => XformAdvances(p, q, s, t))
      BY <2>1, <2>4, <3>1, XformKeepsInv
    <3>3. /\ Finished(p, s.it1) \in Nat /\ Finished(q, s.it2) \in Nat
          /\ Finished(p, t.it1) \in Nat /\ Finished(q, t.it2) \in Nat
      BY <1>4, <2>1, <3>2
    <3>4. XformAdvances(p, q, s, t) => ~XformRunning(t) \/ Passed(t) > Passed(s)
      BY DEF XformAdvances, XformRunning
    <3>5. BothPass(p, q) => Passed(s) >= i
      BY <2>1, <2>4
    <3>6. BothPass(p, q) => ~XformRunning(t) \/ Passed(t) >= i + 1
      BY <3>2, <3>3, <3>4, <3>5
    <3> QED
      BY <3>2, <3>6 DEF t
  <2> QED
    BY <2>3, <2>4
<1>7. Nat \subseteq T
  <2> HIDE DEF T
  <2> QED
    BY <1>5, <1>6, SetInduction
<1> DEFINE r == XformComps(p, q)
<1>8. Good(r, N)
  BY <1>1, <1>2, <1>7
<1> HIDE DEF r, T
<1>9. BothPass(p, q) => ~XformRunning(r)
  <2> SUFFICES ASSUME BothPass(p, q), XformRunning(r) PROVE FALSE
    OBVIOUS
  <2>1. Placed(p, r.it1) /\ Placed(q, r.it2) /\ (r.it1.next \/ r.it2.next)
    BY <1>8 DEF XformInv, XformRunning
  <2>2. /\ Finished(p, r.it1) <= Len(p) /\ (r.it1.next => Finished(p, r.it1) <= Len(p) - 1)
        /\ Finished(q, r.it2) <= Len(q) /\ (r.it2.next => Finished(q, r.it2) <= Len(q) - 1)
    BY <1>1, <2>1 DEF Placed, Iterators, Finished
  <2>3. Finished(p, r.it1) \in Nat /\ Finished(q, r.it2) \in Nat
    BY <1>4, <1>8
  <2>4. Passed(r) >= N
    BY <1>8
  <2> QED
    BY <1>1, <2>1, <2>2, <2>3, <2>4 DEF N
<1> QED
  BY <1>8, <1>9 DEF r
\* An iterator has no more behind it than there is.
LEMMA BehindIsPart ==
  ASSUME NEW X, NEW p \in OperationsOver(X), Passable(p), NEW it, Placed(p, it)
  PROVE  Volume(Consumed(p, it)) \in Nat /\ Volume(Consumed(p, it)) <= Volume(p)
<1>1. Consumed(p, it) \in OperationsOver(X)
  BY ConsumedIsOperation
<1>2. Volume(Consumed(p, it)) \in Nat /\ Volume(p) \in Nat
  BY <1>1, LengthsAreNat
<1>3. CASE it.next
  <2>1. Kind(p, it) \notin Stubs
    BY MoreToSpan
  <2>2. Left(p, it) \in Nat /\ Kind(p, it) = p[it.pos].type /\ p[it.pos] \in ComponentsOver(X)
    BY <1>3, <2>1, ComponentAt DEF Kind
  <2> DEFINE c == p[it.pos]
  <2>3. c.type \in {"skip", "delete", "insert"} \cup Stubs
    <3> HIDE DEF c
    <3>1. c \in ComponentsOver(X)
      BY <2>2 DEF c
    <3> QED
      BY <3>1, PieceCases
  <2>4. Kind(p, it) \in {"skip", "insert", "delete"}
    BY <2>1, <2>2, <2>3
  <2>5. {"skip", "insert", "delete"} \cap Stubs = {}
    BY DEF Stubs
  <2>6. Volume(Consumed(p, it)) + Left(p, it) <= Volume(p)
    BY <1>3, <2>4, <2>5, RestSpans DEF Volume
  <2> QED
    BY <1>2, <2>2, <2>6
<1>4. CASE ~it.next
  BY <1>2, <1>4, AllPassed
<1> QED
  BY <1>3, <1>4

LEMMA ComposeCall ==
  ASSUME NEW X, NEW p \in OperationsOver(X), NEW q \in OperationsOver(X)
  PROVE  /\ ComposeInv(X, p, q, ComposeComps(p, q))
         /\ BothPass(p, q) => ~ComposeRunning(ComposeComps(p, q))
<1> DEFINE N == Volume(p) + Volume(q) + 1
           Good(s, i) == /\ ComposeInv(X, p, q, s)
                         /\ BothPass(p, q) => ~ComposeRunning(s) \/ Behind(p, q, s) >= i
<1>1. Volume(p) \in Nat /\ Volume(q) \in Nat
  BY LengthsAreNat
<1>2. N \in Nat
  BY <1>1
<1>3. PICK run : ComposeRun(p, q, N, run) /\ ComposeComps(p, q) = run[N]
  BY <1>2, ComposeCompsIsRun
<1> HIDE DEF N
<1>4. /\ run[0] = ComposeStart(p, q)
      /\ \A i \in Nat : i + 1 <= N => run[i + 1] = NextCompose(p, q, run[i])
  <2>1. \A k \in 0..N :
          run[k] = IF k = 0 THEN ComposeStart(p, q) ELSE NextCompose(p, q, run[k - 1])
    BY <1>3 DEF ComposeRun
  <2>2. run[0] = ComposeStart(p, q)
    BY <1>2, <2>1
  <2>3. ASSUME NEW i \in Nat, i + 1 <= N PROVE run[i + 1] = NextCompose(p, q, run[i])
    <3>1. i + 1 \in 0..N /\ i + 1 # 0 /\ (i + 1) - 1 = i
      BY <1>2, <2>3
    <3> QED
      BY <2>1, <3>1
  <2> QED
    BY <2>2, <2>3
<1>5. \A s : ComposeInv(X, p, q, s) => Behind(p, q, s) \in Nat
  <2> SUFFICES ASSUME NEW s, ComposeInv(X, p, q, s) PROVE Behind(p, q, s) \in Nat
    OBVIOUS
  <2>1. Consumed(p, s.it1) \in OperationsOver(X) /\ Consumed(q, s.it2) \in OperationsOver(X)
    BY DEF ComposeInv, InSequence
  <2>2. Volume(Consumed(p, s.it1)) \in Nat /\ Volume(Consumed(q, s.it2)) \in Nat
    BY <2>1, LengthsAreNat
  <2> QED
    BY <2>2 DEF Behind
<1> DEFINE T == {i \in Nat : i <= N => Good(run[i], i)}
<1>6. 0 \in T
  <2>1. ComposeInv(X, p, q, run[0])
    BY <1>4, ComposeInvAtStart
  <2>2. Behind(p, q, run[0]) >= 0
    BY <1>5, <2>1
  <2> QED
    BY <2>1, <2>2
<1>7. ASSUME NEW i \in Nat, i \in T PROVE i + 1 \in T
  <2> SUFFICES ASSUME i + 1 <= N PROVE Good(run[i + 1], i + 1)
    OBVIOUS
  <2> DEFINE s == run[i]
             t == run[i + 1]
  <2>1. Good(s, i)
    BY <1>2, <1>7
  <2>2. t = NextCompose(p, q, s)
    BY <1>4
  <2> HIDE DEF s, t
  <2>3. CASE ~ComposeRunning(s)
    <3>1. t = s
      BY <2>2, <2>3 DEF NextCompose
    <3> QED
      BY <2>1, <2>3, <3>1 DEF t
  <2>4. CASE ComposeRunning(s)
    <3>1. t = ComposeStep(p, q, s)
      BY <2>2, <2>4 DEF NextCompose
    <3>2. ComposeInv(X, p, q, t) /\ (BothPass(p, q) => ComposeConsumes(p, q, s, t))
      BY <2>1, <2>4, <3>1, ComposeKeepsInv
    <3>3. Behind(p, q, s) \in Nat /\ Behind(p, q, t) \in Nat
      BY <1>5, <2>1, <3>2
    <3>4. ComposeConsumes(p, q, s, t) => ~ComposeRunning(t) \/ Behind(p, q, t) >= Behind(p, q, s) + 1
      BY DEF ComposeConsumes, ComposeRunning
    <3>5. BothPass(p, q) => Behind(p, q, s) >= i
      BY <2>1, <2>4
    <3>6. BothPass(p, q) => ~ComposeRunning(t) \/ Behind(p, q, t) >= i + 1
      BY <3>2, <3>3, <3>4, <3>5
    <3> QED
      BY <3>2, <3>6 DEF t
  <2> QED
    BY <2>3, <2>4
<1>8. Nat \subseteq T
  <2> HIDE DEF T
  <2> QED
    BY <1>6, <1>7, SetInduction
<1> DEFINE r == ComposeComps(p, q)
<1>9. Good(r, N)
  BY <1>2, <1>3, <1>8
<1> HIDE DEF r, T
<1>10. BothPass(p, q) => ~ComposeRunning(r)
  <2> SUFFICES ASSUME BothPass(p, q), ComposeRunning(r) PROVE FALSE
    OBVIOUS
  <2>1. Placed(p, r.it1) /\ Placed(q, r.it2)
    BY <1>9 DEF ComposeInv
  <2>2. /\ Volume(Consumed(p, r.it1)) \in Nat /\ Volume(Consumed(p, r.it1)) <= Volume(p)
        /\ Volume(Consumed(q, r.it2)) \in Nat /\ Volume(Consumed(q, r.it2)) <= Volume(q)
    BY <2>1, BehindIsPart DEF BothPass
  <2>3. Behind(p, q, r) >= N
    BY <1>9
  <2> QED
    BY <1>1, <2>2, <2>3 DEF N, Behind
<1> QED
  BY <1>9, <1>10 DEF r

\* ot_xform of operations it can pass: it fails unless they span the same, and
\* what it makes does after one what the other did.
LEMMA XformResult ==
  ASSUME NEW X, NEW p \in OperationsOver(X), NEW q \in OperationsOver(X), BothPass(p, q),
         NEW s, s = XformComps(p, q)
  PROVE  /\ s.failed <=> BaseLen(p) # BaseLen(q)
         /\ ~s.failed => /\ Merged(X, p, q, s.prime1, s.prime2)
                         /\ BothPass(s.prime1, s.prime2)
         /\ WellMade(s.prime1) /\ WellMade(s.prime2)
<1>1. XformInv(X, p, q, s) /\ ~XformRunning(s)
  BY XformCall
<1>2. ASSUME ~s.failed PROVE Merged(X, p, q, s.prime1, s.prime2)
  <2>1. ~s.it1.next /\ ~s.it2.next
    BY <1>1, <1>2 DEF XformRunning
  <2>2. Consumed(p, s.it1) = p /\ Consumed(q, s.it2) = q
    BY <1>1, <2>1, AllPassed DEF XformInv
  <2> QED
    BY <1>1, <2>2 DEF XformInv
<1>3. WellMade(s.prime1) /\ WellMade(s.prime2) /\ (s.failed => BaseLen(p) # BaseLen(q))
  BY <1>1 DEF XformInv
<1>4. ~s.failed => BaseLen(p) = BaseLen(q)
  BY <1>2 DEF Merged
<1> QED
  BY <1>2, <1>3, <1>4 DEF WellMade, BothPass

\* ot_compose of operations it can pass: it fails unless the second spans what
\* the first makes, and what it makes does what one after the other does.
LEMMA ComposeResult ==
  ASSUME NEW X, NEW p \in OperationsOver(X), NEW q \in OperationsOver(X), BothPass(p, q),
         NEW s, s = ComposeComps(p, q)
  PROVE  /\ s.failed <=> OutLen(p) # BaseLen(q)
         /\ ~s.failed => InSequence(X, p, q, s.composed)
         /\ WellMade(s.composed)
<1>1. ComposeInv(X, p, q, s) /\ ~ComposeRunning(s)
  BY ComposeCall
<1>2. ASSUME ~s.failed PROVE InSequence(X, p, q, s.composed)
  <2>1. ~s.it1.next /\ ~s.it2.next
    BY <1>1, <1>2 DEF ComposeRunning
  <2>2. Consumed(p, s.it1) = p /\ Consumed(q, s.it2) = q
    BY <1>1, <2>1, AllPassed DEF ComposeInv
  <2> QED
    BY <1>1, <2>2 DEF ComposeInv
<1>3. WellMade(s.composed) /\ (s.failed => OutLen(p) # BaseLen(q))
  BY <1>1 DEF ComposeInv
<1>4. ~s.failed => OutLen(p) = BaseLen(q)
  BY <1>2 DEF InSequence
<1> QED
  BY <1>2, <1>3, <1>4
\* A call that returns without a failure has passed every component: none of
\* them is empty, and none is an element.
LEMMA XformEnds ==
  ASSUME NEW X, NEW p \in OperationsOver(X), NEW q \in OperationsOver(X),
         NEW s, s = XformComps(p, q), ~XformRunning(s), ~s.failed
  PROVE  BothPass(p, q)
<1>1. Placed(p, s.it1) /\ Placed(q, s.it2)
  BY XformCall DEF XformInv
<1>2. ~s.it1.next /\ ~s.it2.next
  BY DEF XformRunning
<1> QED
  BY <1>1, <1>2, AllPassed DEF BothPass

LEMMA ComposeEnds ==
  ASSUME NEW X, NEW p \in OperationsOver(X), NEW q \in OperationsOver(X),
         NEW s, s = ComposeComps(p, q), ~ComposeRunning(s), ~s.failed
  PROVE  BothPass(p, q)
<1>1. Placed(p, s.it1) /\ Placed(q, s.it2)
  BY ComposeCall DEF ComposeInv
<1>2. ~s.it1.next /\ ~s.it2.next
  BY DEF ComposeRunning
<1> QED
  BY <1>1, <1>2, AllPassed DEF BothPass
-----------------------------------------------------------------------------
(***************************************************************************)
(* Whole calls on plain operations, those that delete nothing.  Where the  *)
(* words of such an operation stand after another one, and where a         *)
(* position of the text goes, follow from the layouts alone: a transformed *)
(* operation has its gaps lifted, a composed one lifts twice.              *)
(***************************************************************************)
(***************************************************************************)
(* Where ot_xform leaves what the second of two plain operations inserts:  *)
(* prime2 inserts the same text, each character where the first operation  *)
(* lifts its gap to.                                                       *)
(***************************************************************************)
Lifted(c1, c2, r) ==
  /\ Layout(r).word = Layout(c2).word
  /\ \A j \in 1..Len(Layout(c2).gaps) : Layout(r).gaps[j] = Layout(c1).lift[Layout(c2).gaps[j]]

InsertsBefore(c, n) == \A j \in 1..Len(Layout(c).gaps) : Layout(c).gaps[j] < n

LEMMA LiftedAlike ==
  ASSUME NEW X, NEW c1, NEW c2, NEW r, NEW d1, NEW d2, NEW q, Lifted(c1, c2, r),
         Alike(X, d1, c1), Alike(X, d2, c2), Alike(X, q, r)
  PROVE  Lifted(d1, d2, q)
BY DEF Lifted, Alike

\* The parts of an operation's layout, one by one.
LEMMA LayoutOfOperation ==
  ASSUME NEW X, NEW p \in OperationsOver(X)
  PROVE  /\ Layout(p).word \in Seq(X) /\ Layout(p).gaps \in Seq(Nat) /\ Layout(p).lift \in [Nat -> Nat]
         /\ Len(Layout(p).word) \in Nat /\ Len(Layout(p).gaps) \in Nat
         /\ Layout(p).at = BaseLen(p) /\ Volume(p) = BaseLen(p) + Len(Layout(p).word)
         /\ Len(Layout(p).gaps) = Len(Layout(p).word)
         /\ \A j \in 1..Len(Layout(p).gaps) : Layout(p).gaps[j] \in Nat /\ Layout(p).gaps[j] <= BaseLen(p)
         /\ \A h \in Nat : /\ Layout(p).lift[h] \in Nat
                           /\ h <= Layout(p).lift[h] /\ Layout(p).lift[h] <= h + Len(Layout(p).word)
                           /\ BaseLen(p) <= h => Layout(p).lift[h] = h + Len(Layout(p).word)
<1> DEFINE w == Layout(p).word
           g == Layout(p).gaps
           l == Layout(p).lift
<1>1. w \in Seq(X) /\ g \in Seq(Nat) /\ l \in [Nat -> Nat]
  BY LayoutIsTyped, LayoutParts
<1>2. /\ Layout(p).at = BaseLen(p) /\ Volume(p) = BaseLen(p) + Len(w) /\ Len(g) = Len(w)
      /\ \A j \in 1..Len(g) : g[j] <= BaseLen(p)
      /\ \A h \in Nat : h <= l[h] /\ l[h] <= h + Len(w) /\ (BaseLen(p) <= h => l[h] = h + Len(w))
  BY LayoutBounds DEF LaidOut
<1> HIDE DEF w, g, l
<1>3. Len(w) \in Nat
  BY <1>1
<1>4. Len(g) \in Nat /\ \A j \in 1..Len(g) : g[j] \in Nat
  <2>1. g \in Seq(Nat)
    BY <1>1
  <2> QED
    BY <2>1
<1>5. \A h \in Nat : l[h] \in Nat
  BY <1>1
<1> QED
  BY <1>1, <1>2, <1>3, <1>4, <1>5 DEF w, g, l

LEMMA LayoutWithSkip ==
  ASSUME NEW X, NEW p \in OperationsOver(X), NEW n \in Nat
  PROVE  LET r == Append(p, SkipComp(n))
         IN  /\ r \in OperationsOver(X)
             /\ BaseLen(r) = BaseLen(p) + n
             /\ Layout(r).word = Layout(p).word /\ Layout(r).gaps = Layout(p).gaps
             /\ Layout(r).lift = Layout(p).lift
<1>1. /\ Layout(Append(p, SkipComp(n))) = Advanced(Layout(p), n)
      /\ BaseLen(Append(p, SkipComp(n))) = BaseLen(p) + n
  BY LayoutWith, LengthsWithComponent
<1> QED
  BY <1>1, CountedComponents, Longer DEF Advanced

LEMMA LayoutWithInsert ==
  ASSUME NEW X, NEW p \in OperationsOver(X), NEW x \in Seq(X)
  PROVE  LET r == Append(p, InsertComp(x))
         IN  /\ r \in OperationsOver(X)
             /\ BaseLen(r) = BaseLen(p)
             /\ Layout(r).word = Layout(p).word \o x
             /\ Len(Layout(r).gaps) = Len(Layout(p).gaps) + Len(x)
             /\ \A j \in 1..Len(Layout(r).gaps) :
                  \/ j \in 1..Len(Layout(p).gaps) /\ Layout(r).gaps[j] = Layout(p).gaps[j]
                  \/ j \notin 1..Len(Layout(p).gaps) /\ Layout(r).gaps[j] = BaseLen(p)
             /\ \A h \in Nat :
                  Layout(r).lift[h] = IF BaseLen(p) <= h THEN Layout(p).lift[h] + Len(x)
                                                         ELSE Layout(p).lift[h]
<1> DEFINE r == Append(p, InsertComp(x))
           s == Layout(p)
           b == BaseLen(p)
           g == s.gaps
           f == s.lift
           m == Len(x)
<1>1. Layout(r) = Widened(s, x) /\ BaseLen(r) = b /\ r \in OperationsOver(X)
  BY LayoutWith, LengthsWithComponent, MadeComponents, Longer
<1>2. s.at = b /\ Len(g) \in Nat /\ f \in [Nat -> Nat] /\ b \in Nat /\ m \in Nat
  <2>1. s.at = b /\ Len(g) \in Nat /\ f \in [Nat -> Nat]
    BY LayoutOfOperation
  <2>2. b \in Nat
    BY LengthsAreNat
  <2>3. m \in Nat
    OBVIOUS
  <2> QED
    BY <2>1, <2>2, <2>3
<1>3. Layout(r).word = s.word \o x /\ Layout(r).lift = Raised(f, b, m)
  <2>1. Layout(r).word = s.word \o x /\ Layout(r).lift = Raised(f, s.at, m)
    BY <1>1 DEF Widened
  <2>2. s.at = b
    BY <1>2
  <2> QED
    BY <2>1, <2>2
<1>4. \A h \in Nat : Raised(f, b, m)[h] = IF b <= h THEN f[h] + m ELSE f[h]
  <2> HIDE DEF f, b, m
  <2> QED
    BY <1>2, RaisedLift, ZenonT(60)
<1>5. /\ Len(Layout(r).gaps) = Len(g) + m
      /\ \A j \in 1..Len(g) : Layout(r).gaps[j] = g[j]
      /\ \A j \in 1..Len(Layout(r).gaps) : j > Len(g) => Layout(r).gaps[j] = b
  <2>1. LaidOut(s, b, Volume(p)) /\ s \in Layouts(X) /\ Volume(p) \in Nat
    BY LayoutBounds, LayoutIsTyped, LengthsAreNat
  <2>3. b \in Nat
    BY <1>2
  <2>2. /\ Len(Widened(s, x).gaps) = Len(g) + m
        /\ \A j \in 1..Len(g) : Widened(s, x).gaps[j] = g[j]
        /\ \A j \in 1..Len(Widened(s, x).gaps) : j > Len(g) => Widened(s, x).gaps[j] = b
    BY <2>1, <2>3, WidenedReach
  <2> QED
    BY <1>1, <2>2
<1> HIDE DEF r, s, b, g, f, m
<1>6. ASSUME NEW j \in 1..Len(Layout(r).gaps)
      PROVE  \/ j \in 1..Len(g) /\ Layout(r).gaps[j] = g[j]
             \/ j \notin 1..Len(g) /\ Layout(r).gaps[j] = b
  <2>1. j \in 1..Len(g) \/ (j \notin 1..Len(g) /\ j > Len(g))
    BY <1>2
  <2> QED
    BY <1>5, <2>1
<1> QED
  BY <1>1, <1>3, <1>4, <1>5, <1>6 DEF r, s, b, g, f, m

LEMMA WalkLifts ==
  ASSUME NEW X, NEW c1 \in OperationsOver(X), NEW c2 \in OperationsOver(X), NEW r \in OperationsOver(X),
         Lifted(c1, c2, r), NEW n \in Nat
  PROVE  Lifted(Append(c1, SkipComp(n)), Append(c2, SkipComp(n)), Append(r, SkipComp(n)))
<1> DEFINE d1 == Append(c1, SkipComp(n))
           d2 == Append(c2, SkipComp(n))
           t == Append(r, SkipComp(n))
<1>1. /\ Layout(d1).lift = Layout(c1).lift
      /\ Layout(d2).word = Layout(c2).word /\ Layout(d2).gaps = Layout(c2).gaps
      /\ Layout(t).word = Layout(r).word /\ Layout(t).gaps = Layout(r).gaps
  BY LayoutWithSkip
<1> HIDE DEF d1, d2, t
<1>2. Lifted(d1, d2, t)
  BY <1>1 DEF Lifted
<1> QED
  BY <1>2 DEF d1, d2, t

LEMMA FirstLifts ==
  ASSUME NEW X, NEW c1 \in OperationsOver(X), NEW c2 \in OperationsOver(X), NEW r \in OperationsOver(X),
         Lifted(c1, c2, r), InsertsBefore(c2, BaseLen(c1)), NEW x \in Seq(X), NEW n \in Nat
  PROVE  Lifted(Append(c1, InsertComp(x)), c2, Append(r, SkipComp(n)))
<1> DEFINE d1 == Append(c1, InsertComp(x))
           t == Append(r, SkipComp(n))
           b == BaseLen(c1)
<1>1. \A h \in Nat : Layout(d1).lift[h] = IF b <= h THEN Layout(c1).lift[h] + Len(x)
                                                   ELSE Layout(c1).lift[h]
  BY LayoutWithInsert
<1>2. Layout(t).word = Layout(r).word /\ Layout(t).gaps = Layout(r).gaps
  BY LayoutWithSkip
<1>3. b \in Nat /\ \A j \in 1..Len(Layout(c2).gaps) : Layout(c2).gaps[j] \in Nat
  BY LengthsAreNat, LayoutOfOperation
<1> HIDE DEF d1, t, b
<1>4. ASSUME NEW j \in 1..Len(Layout(c2).gaps)
      PROVE  Layout(t).gaps[j] = Layout(d1).lift[Layout(c2).gaps[j]]
  <2> DEFINE h == Layout(c2).gaps[j]
  <2>1. h \in Nat /\ h < b
    BY <1>3 DEF InsertsBefore, b
  <2>2. Layout(r).gaps[j] = Layout(c1).lift[h]
    BY DEF Lifted
  <2> HIDE DEF h
  <2>3. ~(b <= h)
    BY <1>3, <2>1
  <2>4. Layout(d1).lift[h] = Layout(c1).lift[h]
    BY <1>1, <2>1, <2>3
  <2> QED
    BY <1>2, <2>2, <2>4 DEF h
<1>5. Lifted(d1, c2, t)
  BY <1>2, <1>4 DEF Lifted
<1> QED
  BY <1>5 DEF d1, t

LEMMA SecondLifts ==
  ASSUME NEW X, NEW c1 \in OperationsOver(X), NEW c2 \in OperationsOver(X), NEW r \in OperationsOver(X),
         Lifted(c1, c2, r), BaseLen(c2) = BaseLen(c1), BaseLen(r) = Volume(c1), NEW y \in Seq(X)
  PROVE  Lifted(c1, Append(c2, InsertComp(y)), Append(r, InsertComp(y)))
<1> DEFINE d2 == Append(c2, InsertComp(y))
           t == Append(r, InsertComp(y))
           b == BaseLen(c2)
           g == Layout(c2).gaps
<1>1. /\ Layout(d2).word = Layout(c2).word \o y
      /\ Len(Layout(d2).gaps) = Len(g) + Len(y)
      /\ \A j \in 1..Len(Layout(d2).gaps) :
           \/ j \in 1..Len(g) /\ Layout(d2).gaps[j] = g[j]
           \/ j \notin 1..Len(g) /\ Layout(d2).gaps[j] = b
  BY LayoutWithInsert
<1>2. /\ Layout(t).word = Layout(r).word \o y
      /\ Len(Layout(t).gaps) = Len(Layout(r).gaps) + Len(y)
      /\ \A j \in 1..Len(Layout(t).gaps) :
           \/ j \in 1..Len(Layout(r).gaps) /\ Layout(t).gaps[j] = Layout(r).gaps[j]
           \/ j \notin 1..Len(Layout(r).gaps) /\ Layout(t).gaps[j] = BaseLen(r)
  BY LayoutWithInsert
<1>3. Len(Layout(r).gaps) = Len(g)
  BY LayoutOfOperation DEF Lifted
<1>4. Layout(c1).lift[b] = BaseLen(r)
  <2>1. b \in Nat /\ BaseLen(c1) <= b /\ Volume(c1) = b + Len(Layout(c1).word)
    BY LayoutOfOperation, LengthsAreNat
  <2>2. Layout(c1).lift[b] = b + Len(Layout(c1).word)
    BY <2>1, LayoutOfOperation
  <2> QED
    BY <2>1, <2>2
<1>5. \A j \in 1..Len(g) : Layout(r).gaps[j] = Layout(c1).lift[g[j]]
  BY DEF Lifted
<1>6. Layout(r).word = Layout(c2).word
  BY DEF Lifted
<1> HIDE DEF d2, t, b, g
<1>7. ASSUME NEW j \in 1..Len(Layout(d2).gaps)
      PROVE  Layout(t).gaps[j] = Layout(c1).lift[Layout(d2).gaps[j]]
  <2>1. j \in 1..Len(Layout(t).gaps)
    BY <1>1, <1>2, <1>3
  <2>2. CASE j \in 1..Len(g)
    BY <1>1, <1>2, <1>3, <1>5, <2>1, <2>2
  <2>3. CASE j \notin 1..Len(g)
    BY <1>1, <1>2, <1>3, <1>4, <2>1, <2>3
  <2> QED
    BY <2>2, <2>3
<1>8. Lifted(c1, d2, t)
  BY <1>1, <1>2, <1>6, <1>7 DEF Lifted
<1> QED
  BY <1>8 DEF d2, t

(***************************************************************************)
(* Where the composition of two plain operations lifts a gap to: where the *)
(* second lifts what the first lifts it to.                                *)
(***************************************************************************)
Chained(c1, c2, r) ==
  \A h \in Nat : Layout(r).lift[h] = Layout(c2).lift[Layout(c1).lift[h]]

LEMMA ChainedAlike ==
  ASSUME NEW X, NEW c1, NEW c2, NEW r, NEW d1, NEW d2, NEW q, Chained(c1, c2, r),
         Alike(X, d1, c1), Alike(X, d2, c2), Alike(X, q, r)
  PROVE  Chained(d1, d2, q)
BY DEF Chained, Alike

LEMMA AlongChains ==
  ASSUME NEW X, NEW c1 \in OperationsOver(X), NEW c2 \in OperationsOver(X), NEW r \in OperationsOver(X),
         Chained(c1, c2, r), NEW n \in Nat
  PROVE  Chained(Append(c1, SkipComp(n)), Append(c2, SkipComp(n)), Append(r, SkipComp(n)))
<1> DEFINE d1 == Append(c1, SkipComp(n))
           d2 == Append(c2, SkipComp(n))
           t == Append(r, SkipComp(n))
<1>1. /\ Layout(d1).lift = Layout(c1).lift /\ Layout(d2).lift = Layout(c2).lift
      /\ Layout(t).lift = Layout(r).lift
  BY LayoutWithSkip
<1> HIDE DEF d1, d2, t
<1>2. Chained(d1, d2, t)
  BY <1>1 DEF Chained
<1> QED
  BY <1>2 DEF d1, d2, t

LEMMA KeptChains ==
  ASSUME NEW X, NEW c1 \in OperationsOver(X), NEW c2 \in OperationsOver(X), NEW r \in OperationsOver(X),
         Chained(c1, c2, r), BaseLen(c2) = Volume(c1), BaseLen(r) = BaseLen(c1),
         NEW x \in Seq(X), NEW n \in Nat
  PROVE  Chained(Append(c1, InsertComp(x)), Append(c2, SkipComp(n)), Append(r, InsertComp(x)))
<1> DEFINE d1 == Append(c1, InsertComp(x))
           d2 == Append(c2, SkipComp(n))
           t == Append(r, InsertComp(x))
           b == BaseLen(c1)
           m == Len(x)
           a == Len(Layout(c1).word)
           e == Len(Layout(c2).word)
           f == Layout(c1).lift
           g == Layout(c2).lift
<1>1. \A h \in Nat : /\ Layout(d1).lift[h] = IF b <= h THEN f[h] + m ELSE f[h]
                     /\ Layout(t).lift[h] = IF b <= h THEN Layout(r).lift[h] + m ELSE Layout(r).lift[h]
  BY LayoutWithInsert
<1>2. Layout(d2).lift = g
  BY LayoutWithSkip
<1>3. /\ \A h \in Nat : f[h] \in Nat /\ (b <= h => f[h] = h + a)
      /\ a \in Nat /\ BaseLen(c2) = b + a
  BY LayoutOfOperation
<1>4. /\ \A h \in Nat : g[h] \in Nat /\ (BaseLen(c2) <= h => g[h] = h + e)
      /\ e \in Nat
  BY LayoutOfOperation
<1>5. b \in Nat /\ m \in Nat
  BY LengthsAreNat
<1>6. \A h \in Nat : Layout(r).lift[h] = g[f[h]]
  BY DEF Chained
<1> HIDE DEF d1, d2, t, b, m, a, e, f, g
<1>7. ASSUME NEW h \in Nat PROVE Layout(t).lift[h] = g[Layout(d1).lift[h]]
  <2>1. CASE b <= h
    <3> DEFINE k == f[h]
               l == k + m
    <3>1. k \in Nat /\ k = h + a /\ l \in Nat /\ BaseLen(c2) <= k /\ BaseLen(c2) <= l
      BY <1>3, <1>5, <2>1
    <3>2. Layout(d1).lift[h] = l /\ Layout(t).lift[h] = g[k] + m
      BY <1>1, <1>6, <2>1
    <3>4. l = k + m
      OBVIOUS
    <3> HIDE DEF k, l
    <3>3. g[k] = k + e /\ g[l] = l + e
      BY <1>4, <3>1
    <3>5. g[l] = g[k] + m
      BY <1>4, <1>5, <3>1, <3>3, <3>4
    <3> QED
      BY <3>2, <3>5
  <2>2. CASE ~(b <= h)
    BY <1>1, <1>6, <2>2
  <2> QED
    BY <2>1, <2>2
<1>8. Chained(d1, d2, t)
  BY <1>2, <1>7 DEF Chained
<1> QED
  BY <1>8 DEF d1, d2, t

LEMMA TakenChains ==
  ASSUME NEW X, NEW c1 \in OperationsOver(X), NEW c2 \in OperationsOver(X), NEW r \in OperationsOver(X),
         Chained(c1, c2, r), BaseLen(c2) = Volume(c1), BaseLen(r) = BaseLen(c1), NEW y \in Seq(X)
  PROVE  Chained(c1, Append(c2, InsertComp(y)), Append(r, InsertComp(y)))
<1> DEFINE d2 == Append(c2, InsertComp(y))
           t == Append(r, InsertComp(y))
           b == BaseLen(c1)
           m == Len(y)
           a == Len(Layout(c1).word)
           f == Layout(c1).lift
           g == Layout(c2).lift
<1>1. \A h \in Nat : /\ Layout(d2).lift[h] = IF BaseLen(c2) <= h THEN g[h] + m ELSE g[h]
                     /\ Layout(t).lift[h] = IF b <= h THEN Layout(r).lift[h] + m ELSE Layout(r).lift[h]
  BY LayoutWithInsert
<1>3. /\ \A h \in Nat : f[h] \in Nat /\ f[h] <= h + a /\ (b <= h => f[h] = h + a)
      /\ a \in Nat /\ BaseLen(c2) = b + a
  BY LayoutOfOperation
<1>5. b \in Nat
  BY LengthsAreNat
<1>6. \A h \in Nat : Layout(r).lift[h] = g[f[h]]
  BY DEF Chained
<1> HIDE DEF d2, t, b, m, a, f, g
<1>7. ASSUME NEW h \in Nat PROVE Layout(t).lift[h] = Layout(d2).lift[f[h]]
  <2> DEFINE k == f[h]
  <2>1. k \in Nat /\ (b <= h <=> BaseLen(c2) <= k)
    BY <1>3, <1>5
  <2>2. Layout(r).lift[h] = g[k]
    BY <1>6
  <2> HIDE DEF k
  <2>3. CASE b <= h
    BY <1>1, <2>1, <2>2, <2>3 DEF k
  <2>4. CASE ~(b <= h)
    BY <1>1, <2>1, <2>2, <2>4 DEF k
  <2> QED
    BY <2>3, <2>4
<1>8. Chained(c1, d2, t)
  BY <1>7 DEF Chained, f
<1> QED
  BY <1>8 DEF d2, t

\* An iterator over a plain operation, and one that has passed a component.
LEMMA PlainKindAt ==
  ASSUME NEW X, NEW p \in OperationsOver(X), Plain(p), NEW it, Placed(p, it)
  PROVE  Kind(p, it) \in {"skip", "insert", "end"}
<1>1. CASE it.next
  <2>1. Kind(p, it) = p[it.pos].type /\ it.pos \in 1..Len(p)
    BY <1>1, KindOf, ComponentAt
  <2> QED
    BY <2>1, PlainKinds
<1>2. CASE ~it.next
  BY <1>2, KindOf
<1> QED
  BY <1>1, <1>2

LEMMA KindAfter ==
  ASSUME NEW X, NEW p \in OperationsOver(X), IsNormal(p), NEW it, Placed(p, it), it.next,
         NEW moved, MovedOn(p, it, Left(p, it), moved), Left(p, it) # 0
  PROVE  Kind(p, moved) # Kind(p, it)
<1>1. /\ it.pos \in 1..Len(p) /\ Len(p) \in Nat /\ Finished(p, it) = it.pos - 1
      /\ Kind(p, it) = p[it.pos].type /\ Kind(p, it) # "end"
  BY ComponentAt, KindOf
<1>2. Placed(p, moved) /\ Finished(p, moved) = Finished(p, it) + 1
  BY DEF MovedOn, Ends
<1>3. CASE moved.next
  <2>1. /\ moved.pos \in 1..Len(p) /\ Finished(p, moved) = moved.pos - 1
        /\ Kind(p, moved) = p[moved.pos].type
    BY <1>2, <1>3, ComponentAt, KindOf
  <2>2. moved.pos = it.pos + 1 /\ it.pos \in 1..(Len(p) - 1)
    BY <1>1, <1>2, <2>1
  <2>3. p[it.pos].type # p[it.pos + 1].type
    BY <2>2 DEF IsNormal
  <2> QED
    BY <1>1, <2>1, <2>2, <2>3
<1>4. CASE ~moved.next
  <2>1. Kind(p, moved) = "end"
    BY <1>2, <1>4, KindOf
  <2> QED
    BY <1>1, <2>1
<1> QED
  BY <1>3, <1>4

\* What the loop of ot_xform keeps besides, when both operations are plain.
LaysAlong(p, q, s) ==
  /\ DeletesNothing(Consumed(p, s.it1)) /\ DeletesNothing(Consumed(q, s.it2))
  /\ DeletesNothing(s.prime1) /\ DeletesNothing(s.prime2)
  /\ Lifted(Consumed(p, s.it1), Consumed(q, s.it2), s.prime2)
  /\ Kind(p, s.it1) = "insert" => InsertsBefore(Consumed(q, s.it2), BaseLen(Consumed(p, s.it1)))

LEMMA LaysAlongAtStart ==
  ASSUME NEW X, NEW p \in OperationsOver(X), NEW q \in OperationsOver(X)
  PROVE  LaysAlong(p, q, XformStart(p, q))
<1> DEFINE c1 == Consumed(p, ot_iter_next(p))
           c2 == Consumed(q, ot_iter_next(q))
<1>1. Alike(X, c1, <<>>) /\ Alike(X, c2, <<>>)
  BY ConsumedAtStart
<1>2. DeletesNothing(<<>>) /\ Layout(<<>>).gaps = <<>>
  BY LengthsOfEmpty, LayoutOfEmpty DEF DeletesNothing, NoLayout
<1>3. Lifted(<<>>, <<>>, <<>>)
  BY <1>2 DEF Lifted
<1> HIDE DEF c1, c2
<1>4. DeletesNothing(c1) /\ DeletesNothing(c2)
  BY <1>1, <1>2, AlikeSymmetric, DeletesNothingAlike
<1>5. Lifted(c1, c2, <<>>)
  BY <1>1, <1>3, EmptyOperation, AlikeItself, LiftedAlike
<1>6. InsertsBefore(c2, BaseLen(c1))
  BY <1>1, <1>2 DEF InsertsBefore, Alike
<1> QED
  BY <1>2, <1>4, <1>5, <1>6 DEF LaysAlong, XformStart, c1, c2

LEMMA KeepsLayingAlong ==
  ASSUME NEW X, NEW p \in OperationsOver(X), NEW q \in OperationsOver(X), Plain(p), Plain(q),
         NEW s, XformInv(X, p, q, s), XformRunning(s), LaysAlong(p, q, s)
  PROVE  LaysAlong(p, q, XformStep(p, q, s))
<1> DEFINE t == XformStep(p, q, s)
           k1 == Kind(p, s.it1)
           k2 == Kind(q, s.it2)
           left1 == Left(p, s.it1)
           left2 == Left(q, s.it2)
           c1 == Consumed(p, s.it1)
           c2 == Consumed(q, s.it2)
<1>1. /\ DOMAIN s = XformLocals /\ Placed(p, s.it1) /\ Placed(q, s.it2)
      /\ k1 = "insert" => s.it1.offset = 0
      /\ k2 = "insert" => s.it2.offset = 0
  BY DEF XformInv
<1>2. /\ Merged(X, c1, c2, s.prime1, s.prime2)
      /\ c1 \in OperationsOver(X) /\ c2 \in OperationsOver(X) /\ BaseLen(c1) = BaseLen(c2)
      /\ s.prime1 \in OperationsOver(X) /\ s.prime2 \in OperationsOver(X)
      /\ BaseLen(s.prime2) = OutLen(c1)
  BY DEF XformInv, Merged
<1>3. /\ DeletesNothing(c1) /\ DeletesNothing(c2) /\ DeletesNothing(s.prime1)
      /\ DeletesNothing(s.prime2) /\ Lifted(c1, c2, s.prime2)
      /\ k1 = "insert" => InsertsBefore(c2, BaseLen(c1))
  BY DEF LaysAlong
<1>4. TurnOfX(p, q, s, t)
  BY <1>1, XformTurns
<1>5. /\ k1 \in {"skip", "insert", "end"} /\ k2 \in {"skip", "insert", "end"}
      /\ Passable(p) /\ Passable(q) /\ IsNormal(p)
  BY <1>1, PlainKindAt DEF Plain, WellMade
<1> HIDE DEF t
<1>6. CASE t = s
  BY <1>6 DEF t
<1>7. CASE t.failed /\ SameIterators(s, t) /\ t.prime1 = s.prime1 /\ t.prime2 = s.prime2
  <2>1. LaysAlong(p, q, t)
    BY <1>3, <1>7 DEF LaysAlong, SameIterators
  <2> QED
    BY <2>1 DEF t
<1>8. CASE ~t.failed /\ InsertsFirst(p, s, t)
  <2> DEFINE x == LeftText(p, s.it1)
             d1 == Consumed(p, t.it1)
  <2>1. /\ k1 = "insert" /\ t.it1 = ot_iter_skip(p, s.it1, left1) /\ t.it2 = s.it2
        /\ t.prime1 = ot_insert(s.prime1, x) /\ t.prime2 = ot_skip(s.prime2, left1)
    BY <1>8 DEF InsertsFirst
  <2>2. /\ s.it1.next /\ p[s.it1.pos].type \notin Stubs /\ left1 \in Nat /\ left1 \in 0..left1
        /\ left1 # 0
    BY <1>1, <1>5, <2>1, LeftOf DEF Stubs
  <2>3. x \in Seq(X) /\ Alike(X, d1, Append(c1, InsertComp(x)))
    BY <1>1, <2>1, <2>2, PassesInsert
  <2>4. Kind(p, t.it1) # "insert"
    <3>1. MovedOn(p, s.it1, left1, t.it1)
      BY <1>1, <2>1, <2>2, Moves
    <3> QED
      BY <1>1, <1>5, <2>1, <2>2, <3>1, KindAfter
  <2> HIDE DEF x, d1, c1, c2, left1
  <2>5. /\ Alike(X, t.prime1, Append(s.prime1, InsertComp(x)))
        /\ Alike(X, t.prime2, Append(s.prime2, SkipComp(left1)))
    BY <1>2, <2>1, <2>2, <2>3, BuildersAlike
  <2>6. DeletesNothing(d1) /\ DeletesNothing(t.prime1) /\ DeletesNothing(t.prime2)
    <3>1. /\ DeletesNothing(Append(c1, InsertComp(x))) /\ DeletesNothing(Append(s.prime1, InsertComp(x)))
          /\ DeletesNothing(Append(s.prime2, SkipComp(left1)))
      BY <1>2, <1>3, <2>2, <2>3, DeletesNothingMore
    <3> QED
      BY <2>3, <2>5, <3>1, AlikeSymmetric, DeletesNothingAlike
  <2>7. Lifted(d1, c2, t.prime2)
    <3>1. Lifted(Append(c1, InsertComp(x)), c2, Append(s.prime2, SkipComp(left1)))
      BY <1>2, <1>3, <2>1, <2>2, <2>3, FirstLifts
    <3> QED
      BY <1>2, <2>3, <2>5, <3>1, AlikeItself, LiftedAlike
  <2>8. LaysAlong(p, q, t)
    BY <1>3, <2>1, <2>4, <2>6, <2>7 DEF LaysAlong, d1, c2
  <2> QED
    BY <2>8 DEF t
<1>9. CASE ~t.failed /\ k1 # "insert" /\ InsertsSecond(q, s, t)
  <2> DEFINE x == LeftText(q, s.it2)
             d2 == Consumed(q, t.it2)
  <2>1. /\ k2 = "insert" /\ t.it2 = ot_iter_skip(q, s.it2, left2) /\ t.it1 = s.it1
        /\ t.prime1 = ot_skip(s.prime1, left2) /\ t.prime2 = ot_insert(s.prime2, x)
    BY <1>9 DEF InsertsSecond
  <2>2. /\ s.it2.next /\ q[s.it2.pos].type \notin Stubs /\ left2 \in Nat /\ left2 \in 0..left2
    BY <1>1, <2>1, LeftOf DEF Stubs
  <2>3. x \in Seq(X) /\ Alike(X, d2, Append(c2, InsertComp(x)))
    BY <1>1, <2>1, <2>2, PassesInsert
  <2> HIDE DEF x, d2, c1, c2, left2
  <2>5. /\ Alike(X, t.prime1, Append(s.prime1, SkipComp(left2)))
        /\ Alike(X, t.prime2, Append(s.prime2, InsertComp(x)))
    BY <1>2, <2>1, <2>2, <2>3, BuildersAlike
  <2>6. DeletesNothing(d2) /\ DeletesNothing(t.prime1) /\ DeletesNothing(t.prime2)
    <3>1. /\ DeletesNothing(Append(c2, InsertComp(x))) /\ DeletesNothing(Append(s.prime2, InsertComp(x)))
          /\ DeletesNothing(Append(s.prime1, SkipComp(left2)))
      BY <1>2, <1>3, <2>2, <2>3, DeletesNothingMore
    <3> QED
      BY <2>3, <2>5, <3>1, AlikeSymmetric, DeletesNothingAlike
  <2>7. Lifted(c1, d2, t.prime2)
    <3>1. BaseLen(s.prime2) = Volume(c1)
      BY <1>2, <1>3 DEF DeletesNothing
    <3>2. Lifted(c1, Append(c2, InsertComp(x)), Append(s.prime2, InsertComp(x)))
      BY <1>2, <1>3, <2>3, <3>1, SecondLifts
    <3> QED
      BY <1>2, <2>3, <2>5, <3>2, AlikeItself, LiftedAlike
  <2>8. LaysAlong(p, q, t)
    BY <1>3, <1>9, <2>1, <2>6, <2>7 DEF LaysAlong, d2, c1
  <2> QED
    BY <2>8 DEF t
<1>10. CASE ~t.failed /\ WalksOver(p, q, s, t, Least(left1, left2))
  <2> DEFINE n == Least(left1, left2)
             d1 == Consumed(p, t.it1)
             d2 == Consumed(q, t.it2)
  <2>1. /\ k1 = "skip" /\ k2 = "skip"
        /\ t.it1 = ot_iter_skip(p, s.it1, n) /\ t.it2 = ot_iter_skip(q, s.it2, n)
        /\ t.prime1 = ot_skip(s.prime1, n) /\ t.prime2 = ot_skip(s.prime2, n)
    <3>1. k1 = "skip" /\ k2 = "skip"
      BY <1>5, <1>10 DEF WalksOver
    <3> HIDE DEF n
    <3> QED
      BY <1>10, <3>1 DEF WalksOver, n
  <2>2. /\ s.it1.next /\ p[s.it1.pos].type \notin Stubs /\ left1 \in Nat
        /\ s.it2.next /\ q[s.it2.pos].type \notin Stubs /\ left2 \in Nat
        /\ left1 # 0 /\ left2 # 0
    BY <1>1, <1>5, <2>1, LeftOf DEF Stubs
  <2>3. n \in Nat /\ n # 0 /\ n \in 0..left1 /\ n \in 0..left2
    <3> HIDE DEF left1, left2
    <3> QED
      BY <2>2 DEF Least
  <2>4. Alike(X, d1, Append(c1, SkipComp(n))) /\ Alike(X, d2, Append(c2, SkipComp(n)))
    <3> HIDE DEF n
    <3> QED
      BY <1>1, <2>1, <2>3, PassesCount
  <2> HIDE DEF n, d1, d2, c1, c2, left1, left2
  <2>5. /\ Alike(X, t.prime1, Append(s.prime1, SkipComp(n)))
        /\ Alike(X, t.prime2, Append(s.prime2, SkipComp(n)))
    BY <1>2, <2>1, <2>3, BuildersAlike
  <2>6. DeletesNothing(d1) /\ DeletesNothing(d2) /\ DeletesNothing(t.prime1) /\ DeletesNothing(t.prime2)
    <3>1. /\ DeletesNothing(Append(c1, SkipComp(n))) /\ DeletesNothing(Append(c2, SkipComp(n)))
          /\ DeletesNothing(Append(s.prime1, SkipComp(n))) /\ DeletesNothing(Append(s.prime2, SkipComp(n)))
      BY <1>2, <1>3, <2>3, DeletesNothingMore
    <3> QED
      BY <2>4, <2>5, <3>1, AlikeSymmetric, DeletesNothingAlike
  <2>7. Lifted(d1, d2, t.prime2)
    <3>1. Lifted(Append(c1, SkipComp(n)), Append(c2, SkipComp(n)), Append(s.prime2, SkipComp(n)))
      BY <1>2, <1>3, <2>3, WalkLifts
    <3> QED
      BY <2>4, <2>5, <3>1, LiftedAlike
  <2>8. InsertsBefore(d2, BaseLen(d1))
    <3>1. /\ BaseLen(Append(c1, SkipComp(n))) = BaseLen(c1) + n
          /\ Layout(Append(c2, SkipComp(n))).gaps = Layout(c2).gaps
      BY <1>2, <2>3, LayoutWithSkip
    <3>2. BaseLen(d1) = BaseLen(c1) + n /\ Layout(d2).gaps = Layout(c2).gaps
      BY <2>4, <3>1 DEF Alike
    <3>3. /\ BaseLen(c2) \in Nat
          /\ \A j \in 1..Len(Layout(c2).gaps) : Layout(c2).gaps[j] \in Nat /\ Layout(c2).gaps[j] <= BaseLen(c2)
      BY <1>2, LengthsAreNat, LayoutOfOperation
    <3>4. ASSUME NEW j \in 1..Len(Layout(c2).gaps) PROVE Layout(c2).gaps[j] < BaseLen(c1) + n
      BY <1>2, <2>3, <3>3
    <3> QED
      BY <3>2, <3>4 DEF InsertsBefore
  <2>9. LaysAlong(p, q, t)
    BY <2>6, <2>7, <2>8 DEF LaysAlong, d1, d2
  <2> QED
    BY <2>9 DEF t
<1> QED
  BY <1>4, <1>6, <1>7, <1>8, <1>9, <1>10 DEF TurnOfX

LEMMA XformLaysAlong ==
  ASSUME NEW X, NEW p \in OperationsOver(X), NEW q \in OperationsOver(X), Plain(p), Plain(q)
  PROVE  LaysAlong(p, q, XformComps(p, q))
<1> DEFINE N == Len(p) + Len(q)
           Good(s) == XformInv(X, p, q, s) /\ LaysAlong(p, q, s)
<1>1. N \in Nat
  BY DEF OperationsOver
<1>2. PICK run : XformRun(p, q, N, run) /\ XformComps(p, q) = run[N]
  BY <1>1, XformCompsIsRun
<1> HIDE DEF N
<1> DEFINE T == {i \in Nat : i <= N => Good(run[i])}
<1>3. 0 \in T
  <2>1. run[0] = XformStart(p, q)
    BY <1>1, <1>2 DEF XformRun
  <2> QED
    BY <2>1, XformInvAtStart, LaysAlongAtStart
<1>4. ASSUME NEW i \in Nat, i \in T PROVE i + 1 \in T
  <2> SUFFICES ASSUME i + 1 <= N PROVE Good(run[i + 1])
    OBVIOUS
  <2> DEFINE s == run[i]
             t == run[i + 1]
  <2>1. Good(s)
    BY <1>1, <1>4
  <2>2. t = NextXform(p, q, s)
    <3>1. i + 1 \in 0..N /\ i + 1 # 0 /\ (i + 1) - 1 = i
      BY <1>1
    <3> QED
      BY <1>2, <3>1 DEF XformRun
  <2> HIDE DEF s, t
  <2>3. Good(t)
    <3>1. CASE XformRunning(s)
      <4>1. t = XformStep(p, q, s)
        BY <2>2, <3>1 DEF NextXform
      <4> QED
        BY <2>1, <3>1, <4>1, XformKeepsInv, KeepsLayingAlong
    <3>2. CASE ~XformRunning(s)
      BY <2>1, <2>2, <3>2 DEF NextXform
    <3> QED
      BY <3>1, <3>2
  <2> QED
    BY <2>3 DEF t
<1>5. Nat \subseteq T
  <2> HIDE DEF T
  <2> QED
    BY <1>3, <1>4, SetInduction
<1> QED
  BY <1>1, <1>2, <1>5

\* What ot_xform makes of plain operations is plain, and inserts what the
\* second inserts where the first lifts it to.
LEMMA XformOfPlain ==
  ASSUME NEW X, NEW p \in OperationsOver(X), NEW q \in OperationsOver(X), Plain(p), Plain(q),
         BaseLen(p) = BaseLen(q), NEW s, s = XformComps(p, q)
  PROVE  Plain(s.prime1) /\ Plain(s.prime2) /\ Lifted(p, q, s.prime2)
<1>1. BothPass(p, q)
  BY DEF Plain, WellMade, BothPass
<1>2. XformInv(X, p, q, s) /\ ~XformRunning(s) /\ LaysAlong(p, q, s)
  BY <1>1, XformCall, XformLaysAlong
<1>3. ~s.failed /\ WellMade(s.prime1) /\ WellMade(s.prime2)
  BY <1>1, XformResult
<1>4. ~s.it1.next /\ ~s.it2.next
  BY <1>2, <1>3 DEF XformRunning
<1>5. Consumed(p, s.it1) = p /\ Consumed(q, s.it2) = q
  BY <1>2, <1>4, AllPassed DEF XformInv
<1> QED
  BY <1>2, <1>3, <1>5 DEF LaysAlong, Plain

\* What the loop of ot_compose keeps besides, when both operations are plain.
LiftsAlong(p, q, s) ==
  /\ DeletesNothing(Consumed(p, s.it1)) /\ DeletesNothing(Consumed(q, s.it2))
  /\ DeletesNothing(s.composed)
  /\ Chained(Consumed(p, s.it1), Consumed(q, s.it2), s.composed)

LEMMA LiftsAlongAtStart ==
  ASSUME NEW X, NEW p \in OperationsOver(X), NEW q \in OperationsOver(X)
  PROVE  LiftsAlong(p, q, ComposeStart(p, q))
<1> DEFINE c1 == Consumed(p, ot_iter_next(p))
           c2 == Consumed(q, ot_iter_next(q))
<1>1. Alike(X, c1, <<>>) /\ Alike(X, c2, <<>>)
  BY ConsumedAtStart
<1>2. DeletesNothing(<<>>) /\ \A h \in Nat : Layout(<<>>).lift[h] = h
  BY LengthsOfEmpty, LayoutOfEmpty DEF DeletesNothing, NoLayout
<1>3. Chained(<<>>, <<>>, <<>>)
  BY <1>2 DEF Chained
<1> HIDE DEF c1, c2
<1>4. DeletesNothing(c1) /\ DeletesNothing(c2)
  BY <1>1, <1>2, AlikeSymmetric, DeletesNothingAlike
<1>5. Chained(c1, c2, <<>>)
  BY <1>1, <1>3, EmptyOperation, AlikeItself, ChainedAlike
<1> QED
  BY <1>2, <1>4, <1>5 DEF LiftsAlong, ComposeStart, c1, c2

LEMMA KeepsLiftingAlong ==
  ASSUME NEW X, NEW p \in OperationsOver(X), NEW q \in OperationsOver(X), Plain(p), Plain(q),
         NEW s, ComposeInv(X, p, q, s), ComposeRunning(s), LiftsAlong(p, q, s)
  PROVE  LiftsAlong(p, q, ComposeStep(p, q, s))
<1> DEFINE t == ComposeStep(p, q, s)
           k1 == Kind(p, s.it1)
           k2 == Kind(q, s.it2)
           left1 == Left(p, s.it1)
           left2 == Left(q, s.it2)
           c1 == Consumed(p, s.it1)
           c2 == Consumed(q, s.it2)
<1>1. /\ DOMAIN s = ComposeLocals /\ Placed(p, s.it1) /\ Placed(q, s.it2)
      /\ k1 = "delete" => s.it1.offset = 0
      /\ k2 = "insert" /\ s.it2.offset # 0 => k1 = "insert"
  BY DEF ComposeInv
<1>2. /\ c1 \in OperationsOver(X) /\ c2 \in OperationsOver(X) /\ s.composed \in OperationsOver(X)
      /\ OutLen(c1) = BaseLen(c2) /\ BaseLen(s.composed) = BaseLen(c1)
  BY DEF ComposeInv, InSequence
<1>3. /\ DeletesNothing(c1) /\ DeletesNothing(c2) /\ DeletesNothing(s.composed)
      /\ Chained(c1, c2, s.composed)
  BY DEF LiftsAlong
<1>4. BaseLen(c2) = Volume(c1)
  BY <1>2, <1>3 DEF DeletesNothing
<1>5. k1 \in {"skip", "insert", "end"} /\ k2 \in {"skip", "insert", "end"}
  BY <1>1, PlainKindAt
<1>6. TurnOfC(p, q, s, t)
  BY <1>1, ComposeTurns
<1> HIDE DEF t
<1>7. CASE t = s
  BY <1>7 DEF t
<1>8. CASE t.failed /\ SameIterators(s, t) /\ t.composed = s.composed
  <2>1. LiftsAlong(p, q, t)
    BY <1>3, <1>8 DEF LiftsAlong, SameIterators
  <2> QED
    BY <2>1 DEF t
<1>9. CASE KeepsDelete(p, s, t)
  BY <1>5, <1>9 DEF KeepsDelete
<1>10. CASE \E n : TakesInsert(p, q, s, t, n)
  <2>1. PICK n : TakesInsert(p, q, s, t, n)
    BY <1>10
  <2> DEFINE x == NextOf(q, s.it2, n)
             d2 == Consumed(q, t.it2)
  <2>2. /\ k2 = "insert" /\ n \in 0..left2
        /\ t.it1 = s.it1 /\ t.it2 = ot_iter_skip(q, s.it2, n)
        /\ t.composed = ot_insert(s.composed, x)
    BY <2>1 DEF TakesInsert
  <2>3. x \in Seq(X) /\ Alike(X, d2, Append(c2, InsertComp(x)))
    BY <1>1, <2>2, PassesInsert
  <2> HIDE DEF x, d2, c1, c2, left2
  <2>4. Alike(X, t.composed, Append(s.composed, InsertComp(x)))
    BY <1>2, <2>2, <2>3, BuildersAlike
  <2>5. DeletesNothing(d2) /\ DeletesNothing(t.composed)
    <3>1. DeletesNothing(Append(c2, InsertComp(x))) /\ DeletesNothing(Append(s.composed, InsertComp(x)))
      BY <1>2, <1>3, <2>3, DeletesNothingMore
    <3> QED
      BY <2>3, <2>4, <3>1, AlikeSymmetric, DeletesNothingAlike
  <2>6. Chained(c1, d2, t.composed)
    <3>1. Chained(c1, Append(c2, InsertComp(x)), Append(s.composed, InsertComp(x)))
      BY <1>2, <1>3, <1>4, <2>3, TakenChains
    <3> QED
      BY <1>2, <2>3, <2>4, <3>1, AlikeItself, ChainedAlike
  <2>7. LiftsAlong(p, q, t)
    BY <1>3, <2>2, <2>5, <2>6 DEF LiftsAlong, c1, d2
  <2> QED
    BY <2>7 DEF t
<1>11. CASE GoesAlong(p, q, s, t, Least(left1, left2))
  <2> DEFINE n == Least(left1, left2)
             x == NextOf(p, s.it1, n)
             d1 == Consumed(p, t.it1)
             d2 == Consumed(q, t.it2)
  <2>1. /\ k1 \in {"skip", "insert"} /\ k2 = "skip"
        /\ t.it1 = ot_iter_skip(p, s.it1, n) /\ t.it2 = ot_iter_skip(q, s.it2, n)
    <3>1. k1 \in {"skip", "insert"} /\ k2 = "skip"
      BY <1>5, <1>11 DEF GoesAlong
    <3> HIDE DEF n
    <3> QED
      BY <1>11, <3>1 DEF GoesAlong, n
  <2>2. /\ k1 = "skip" => t.composed = ot_skip(s.composed, n)
        /\ k1 = "insert" => t.composed = ot_insert(s.composed, x)
    <3>1. t.composed =
            CASE k1 = "skip" /\ k2 = "skip" -> ot_skip(s.composed, n)
              [] k1 = "skip" /\ k2 = "delete" -> ot_delete(s.composed, n)
              [] k1 = "insert" /\ k2 = "skip" -> ot_insert(s.composed, x)
              [] k1 = "insert" /\ k2 = "delete" -> s.composed
      BY <1>11 DEF GoesAlong
    <3> HIDE DEF n, x
    <3> QED
      BY <2>1, <3>1
  <2>3. /\ left1 \in Nat /\ left2 \in Nat
    BY <1>1, <2>1, LeftOf DEF Stubs
  <2>4. n \in Nat /\ n \in 0..left1 /\ n \in 0..left2
    <3> HIDE DEF left1, left2
    <3> QED
      BY <2>3 DEF Least
  <2>5. /\ k1 = "skip" => Alike(X, d1, Append(c1, SkipComp(n)))
        /\ Alike(X, d2, Append(c2, SkipComp(n)))
    <3> HIDE DEF n
    <3> QED
      BY <1>1, <2>1, <2>4, PassesCount
  <2>6. k1 = "insert" => x \in Seq(X) /\ Alike(X, d1, Append(c1, InsertComp(x)))
    <3> HIDE DEF n
    <3> QED
      BY <1>1, <2>1, <2>4, PassesInsert
  <2> HIDE DEF n, x, d1, d2, c1, c2, k1, k2, left1, left2
  <2>7. DeletesNothing(Append(c2, SkipComp(n)))
    BY <1>2, <1>3, <2>4, DeletesNothingMore
  <2>8. DeletesNothing(d2)
    BY <2>5, <2>7, AlikeSymmetric, DeletesNothingAlike
  <2>9. CASE k1 = "skip"
    <3>1. Alike(X, t.composed, Append(s.composed, SkipComp(n)))
      BY <1>2, <2>2, <2>4, <2>9, BuildersAlike
    <3>2. DeletesNothing(Append(c1, SkipComp(n))) /\ DeletesNothing(Append(s.composed, SkipComp(n)))
      BY <1>2, <1>3, <2>4, DeletesNothingMore
    <3>3. DeletesNothing(d1) /\ DeletesNothing(t.composed)
      BY <2>5, <2>9, <3>1, <3>2, AlikeSymmetric, DeletesNothingAlike
    <3>4. Chained(Append(c1, SkipComp(n)), Append(c2, SkipComp(n)), Append(s.composed, SkipComp(n)))
      BY <1>2, <1>3, <2>4, AlongChains
    <3>5. Chained(d1, d2, t.composed)
      BY <2>5, <2>9, <3>1, <3>4, ChainedAlike
    <3>6. LiftsAlong(p, q, t)
      BY <2>8, <3>3, <3>5 DEF LiftsAlong, d1, d2
    <3> QED
      BY <3>6 DEF t
  <2>10. CASE k1 = "insert"
    <3>1. Alike(X, t.composed, Append(s.composed, InsertComp(x)))
      BY <1>2, <2>2, <2>6, <2>10, BuildersAlike
    <3>2. DeletesNothing(Append(c1, InsertComp(x))) /\ DeletesNothing(Append(s.composed, InsertComp(x)))
      BY <1>2, <1>3, <2>6, <2>10, DeletesNothingMore
    <3>3. DeletesNothing(d1) /\ DeletesNothing(t.composed)
      BY <2>6, <2>10, <3>1, <3>2, AlikeSymmetric, DeletesNothingAlike
    <3>4. Chained(Append(c1, InsertComp(x)), Append(c2, SkipComp(n)), Append(s.composed, InsertComp(x)))
      BY <1>2, <1>3, <1>4, <2>4, <2>6, <2>10, KeptChains
    <3>5. Chained(d1, d2, t.composed)
      BY <2>5, <2>6, <2>10, <3>1, <3>4, ChainedAlike
    <3>6. LiftsAlong(p, q, t)
      BY <2>8, <3>3, <3>5 DEF LiftsAlong, d1, d2
    <3> QED
      BY <3>6 DEF t
  <2> QED
    BY <2>1, <2>9, <2>10
<1> QED
  BY <1>6, <1>7, <1>8, <1>9, <1>10, <1>11 DEF TurnOfC

LEMMA ComposeLiftsAlong ==
  ASSUME NEW X, NEW p \in OperationsOver(X), NEW q \in OperationsOver(X), Plain(p), Plain(q)
  PROVE  LiftsAlong(p, q, ComposeComps(p, q))
<1> DEFINE N == Volume(p) + Volume(q) + 1
           Good(s) == ComposeInv(X, p, q, s) /\ LiftsAlong(p, q, s)
<1>1. N \in Nat
  <2>1. Volume(p) \in Nat /\ Volume(q) \in Nat
    BY LengthsAreNat
  <2> QED
    BY <2>1
<1>2. PICK run : ComposeRun(p, q, N, run) /\ ComposeComps(p, q) = run[N]
  BY <1>1, ComposeCompsIsRun
<1> HIDE DEF N
<1> DEFINE T == {i \in Nat : i <= N => Good(run[i])}
<1>3. 0 \in T
  <2>1. run[0] = ComposeStart(p, q)
    BY <1>1, <1>2 DEF ComposeRun
  <2> QED
    BY <2>1, ComposeInvAtStart, LiftsAlongAtStart
<1>4. ASSUME NEW i \in Nat, i \in T PROVE i + 1 \in T
  <2> SUFFICES ASSUME i + 1 <= N PROVE Good(run[i + 1])
    OBVIOUS
  <2> DEFINE s == run[i]
             t == run[i + 1]
  <2>1. Good(s)
    BY <1>1, <1>4
  <2>2. t = NextCompose(p, q, s)
    <3>1. i + 1 \in 0..N /\ i + 1 # 0 /\ (i + 1) - 1 = i
      BY <1>1
    <3> QED
      BY <1>2, <3>1 DEF ComposeRun
  <2> HIDE DEF s, t
  <2>3. Good(t)
    <3>1. CASE ComposeRunning(s)
      <4>1. t = ComposeStep(p, q, s)
        BY <2>2, <3>1 DEF NextCompose
      <4> QED
        BY <2>1, <3>1, <4>1, ComposeKeepsInv, KeepsLiftingAlong
    <3>2. CASE ~ComposeRunning(s)
      BY <2>1, <2>2, <3>2 DEF NextCompose
    <3> QED
      BY <3>1, <3>2
  <2> QED
    BY <2>3 DEF t
<1>5. Nat \subseteq T
  <2> HIDE DEF T
  <2> QED
    BY <1>3, <1>4, SetInduction
<1> QED
  BY <1>1, <1>2, <1>5

\* What ot_compose makes of plain operations is plain, and lifts a position as
\* one after the other does.
LEMMA ComposeOfPlain ==
  ASSUME NEW X, NEW p \in OperationsOver(X), NEW q \in OperationsOver(X), Plain(p), Plain(q),
         OutLen(p) = BaseLen(q), NEW s, s = ComposeComps(p, q)
  PROVE  Plain(s.composed) /\ Chained(p, q, s.composed)
<1>1. BothPass(p, q)
  BY DEF Plain, WellMade, BothPass
<1>2. ComposeInv(X, p, q, s) /\ ~ComposeRunning(s) /\ LiftsAlong(p, q, s)
  BY <1>1, ComposeCall, ComposeLiftsAlong
<1>3. ~s.failed /\ WellMade(s.composed)
  BY <1>1, ComposeResult
<1>4. ~s.it1.next /\ ~s.it2.next
  BY <1>2, <1>3 DEF ComposeRunning
<1>5. Consumed(p, s.it1) = p /\ Consumed(q, s.it2) = q
  BY <1>2, <1>4, AllPassed DEF ComposeInv
<1> QED
  BY <1>2, <1>3, <1>5 DEF LiftsAlong, Plain
-----------------------------------------------------------------------------
(***************************************************************************)
(* The calls, on operations that they can pass: what comes back can be     *)
(* passed again.                                                           *)
(***************************************************************************)
CleanOver(X, op) == op.comps \in OperationsOver(X) /\ Passable(op.comps)

LEMMA XformOfClean ==
  ASSUME NEW X, NEW op1, CleanOver(X, op1), NEW op2, CleanOver(X, op2)
  PROVE  /\ BaseLen(op1.comps) # BaseLen(op2.comps) => ot_xform(op1, op2) = <<NULL, NULL>>
         /\ BaseLen(op1.comps) = BaseLen(op2.comps) =>
              \E p1, p2 :
                /\ ot_xform(op1, op2) = <<p1, p2>>
                /\ p1 # NULL /\ p2 # NULL
                /\ CleanOver(X, p1) /\ CleanOver(X, p2)
                /\ Merged(X, op1.comps, op2.comps, p1.comps, p2.comps)
<1> DEFINE s == XformComps(op1.comps, op2.comps)
           p1 == Op(op1.client_id, op2.hash, ZeroHash, s.prime1)
           p2 == Op(op2.client_id, op1.hash, ZeroHash, s.prime2)
<1>1. ot_xform(op1, op2) = IF s.failed THEN <<NULL, NULL>> ELSE <<p1, p2>>
  BY DEF ot_xform, Primes
<1>2. p1.comps = s.prime1 /\ p2.comps = s.prime2 /\ p1 # NULL /\ p2 # NULL
  BY DEF Op, NULL
<1>3. /\ op1.comps \in OperationsOver(X) /\ op2.comps \in OperationsOver(X)
      /\ BothPass(op1.comps, op2.comps)
  BY DEF CleanOver, BothPass
<1> HIDE DEF s, p1, p2
<1>4. /\ s.failed <=> BaseLen(op1.comps) # BaseLen(op2.comps)
      /\ ~s.failed => /\ Merged(X, op1.comps, op2.comps, s.prime1, s.prime2)
                      /\ BothPass(s.prime1, s.prime2)
  BY <1>3, XformResult DEF s
<1>5. ~s.failed => CleanOver(X, p1) /\ CleanOver(X, p2)
  BY <1>2, <1>4 DEF CleanOver, Merged, BothPass
<1>6. ~s.failed => Merged(X, op1.comps, op2.comps, p1.comps, p2.comps)
  BY <1>2, <1>4
<1> QED
  BY <1>1, <1>2, <1>4, <1>5, <1>6

LEMMA ComposeOfClean ==
  ASSUME NEW X, NEW op1, CleanOver(X, op1), NEW op2, CleanOver(X, op2)
  PROVE  /\ OutLen(op1.comps) # BaseLen(op2.comps) => ot_compose(op1, op2) = NULL
         /\ OutLen(op1.comps) = BaseLen(op2.comps) =>
              /\ ot_compose(op1, op2) # NULL
              /\ CleanOver(X, ot_compose(op1, op2))
              /\ InSequence(X, op1.comps, op2.comps, ot_compose(op1, op2).comps)
<1> DEFINE s == ComposeComps(op1.comps, op2.comps)
           r == Op(op1.client_id, op1.parent, ZeroHash, s.composed)
<1>1. ot_compose(op1, op2) = IF s.failed THEN NULL ELSE r
  BY DEF ot_compose, Composition
<1>2. r.comps = s.composed /\ r # NULL
  BY DEF Op, NULL
<1>3. /\ op1.comps \in OperationsOver(X) /\ op2.comps \in OperationsOver(X)
      /\ BothPass(op1.comps, op2.comps)
  BY DEF CleanOver, BothPass
<1> HIDE DEF s, r
<1>4. /\ s.failed <=> OutLen(op1.comps) # BaseLen(op2.comps)
      /\ ~s.failed => InSequence(X, op1.comps, op2.comps, s.composed)
      /\ WellMade(s.composed)
  BY <1>3, ComposeResult DEF s
<1>5. ~s.failed => CleanOver(X, r)
  BY <1>2, <1>4 DEF CleanOver, InSequence, WellMade
<1> QED
  BY <1>1, <1>2, <1>4, <1>5

-----------------------------------------------------------------------------
(***************************************************************************)
(* What the builders leave alone when they build it again: skips and       *)
(* deletes are of something, and no two neighbours are merged.  An insert  *)
(* may be of the empty text.                                               *)
(***************************************************************************)
Tidy(list) ==
  /\ \A k \in 1..Len(list) : /\ list[k].type # "formattingBoundary"
                             /\ list[k].type \in {"skip", "delete"} => ~IsEmpty(list[k])
  /\ \A k \in 1..(Len(list) - 1) :
       list[k].type = list[k + 1].type => list[k].type \in {"openElement", "closeElement"}

LEMMA TidyLonger ==
  ASSUME NEW X, NEW list \in OperationsOver(X), Tidy(list), NEW c \in ComponentsOver(X),
         c.type # "formattingBoundary", c.type \in {"skip", "delete"} => ~IsEmpty(c),
         \/ list = <<>>
         \/ Last(list).type # c.type
         \/ c.type \in {"openElement", "closeElement"}
  PROVE  Tidy(Append(list, c))
<1> DEFINE longer == Append(list, c)
           N == Len(list)
<1>1. /\ N \in Nat /\ Len(longer) = N + 1 /\ longer[N + 1] = c
      /\ \A k \in 1..N : longer[k] = list[k]
  BY Longer
<1> HIDE DEF longer
<1>2. \A k \in 1..(N + 1) : k \in 1..N \/ k = N + 1
  BY <1>1
<1>3. \A k \in 1..(N + 1) : /\ longer[k].type # "formattingBoundary"
                            /\ longer[k].type \in {"skip", "delete"} => ~IsEmpty(longer[k])
  BY <1>1, <1>2 DEF Tidy
<1>4. ASSUME NEW k \in 1..N, longer[k].type = longer[k + 1].type
      PROVE  longer[k].type \in {"openElement", "closeElement"}
  <2>1. CASE k = N
    <3>1. longer[k] = list[N] /\ longer[k + 1] = c
      BY <1>1, <2>1
    <3>2. list # <<>> /\ Last(list) = list[N]
      <4>1. Len(<<>>) = 0 /\ N # 0
        BY <1>1, <2>1
      <4> QED
        BY <4>1 DEF Last
    <3> QED
      BY <1>4, <3>1, <3>2
  <2>2. CASE k # N
    <3>1. k \in 1..(N - 1) /\ longer[k] = list[k] /\ longer[k + 1] = list[k + 1]
      BY <1>1, <2>2
    <3> QED
      BY <1>4, <3>1 DEF Tidy
  <2> QED
    BY <2>1, <2>2
<1> QED
  BY <1>1, <1>3, <1>4 DEF Tidy, longer

LEMMA TidyShorter ==
  ASSUME NEW X, NEW list \in OperationsOver(X), Tidy(list), list # <<>>
  PROVE  /\ Tidy(Front(list))
         /\ Front(list) # <<>> /\ Last(Front(list)).type = Last(list).type =>
              Last(list).type \in {"openElement", "closeElement"}
<1> DEFINE front == Front(list)
           N == Len(list)
<1>1. /\ front \in OperationsOver(X) /\ N \in Nat \ {0} /\ Len(front) = N - 1
      /\ Last(list) = list[N] /\ \A k \in 1..(N - 1) : front[k] = list[k]
  BY WithoutLast
<1> HIDE DEF front
<1>2. /\ \A k \in 1..(N - 1) : k \in 1..N
      /\ \A k \in 1..(N - 1 - 1) : k \in 1..(N - 1) /\ k + 1 \in 1..(N - 1)
  BY <1>1
<1>3. Tidy(front)
  BY <1>1, <1>2 DEF Tidy
<1>4. ASSUME front # <<>>, Last(front).type = Last(list).type
      PROVE  Last(list).type \in {"openElement", "closeElement"}
  <2>1. Len(front) # 0 /\ Last(front) = front[N - 1]
    <3>1. front \in Seq(ComponentsOver(X))
      BY <1>1 DEF OperationsOver
    <3>2. Len(front) # 0
      BY <1>4, <3>1, EmptySeq
    <3> QED
      BY <1>1, <3>2 DEF Last
  <2>2. N - 1 \in 1..(N - 1) /\ N - 1 + 1 = N
    BY <1>1, <2>1
  <2> QED
    BY <1>1, <1>4, <2>1, <2>2 DEF Tidy
<1> QED
  BY <1>3, <1>4 DEF front

LEMMA TidyBuilt ==
  ASSUME NEW X, NEW list \in OperationsOver(X), Tidy(list), NEW c \in Built(X),
         c.type \in {"skip", "delete"} => ~IsEmpty(c)
  PROVE  Tidy(AppendComp(list, c))
<1>1. \A d \in Built(X) : /\ d \in ComponentsOver(X)
                          /\ d.type \notin {"formattingBoundary", "openElement", "closeElement"}
  BY BuiltIsComponent DEF Built, SkipComp, DeleteComp, InsertComp
<1>2. CASE list # <<>> /\ Last(list).type = c.type
  <2> DEFINE front == Front(list)
             d == Last(list)
             m == Merge(d, c)
  <2>1. AppendComp(list, c) = Append(front, m)
    BY <1>2 DEF AppendComp
  <2>2. front \in OperationsOver(X) /\ d \in ComponentsOver(X) /\ d.type = c.type
    BY <1>2, WithoutLast
  <2>3. Tidy(front) /\ (front # <<>> => Last(front).type # c.type)
    BY <1>1, <1>2, TidyShorter
  <2> HIDE DEF front, d
  <2>4. m \in Built(X) /\ m.type = d.type /\ (~IsEmpty(c) => ~IsEmpty(m))
    BY <2>2, MergeAlike
  <2> HIDE DEF m
  <2>5. /\ m \in ComponentsOver(X) /\ m.type # "formattingBoundary"
        /\ m.type \in {"skip", "delete"} => ~IsEmpty(m)
    BY <1>1, <2>2, <2>4
  <2>6. front = <<>> \/ Last(front).type # m.type
    BY <2>2, <2>3, <2>4
  <2>7. Tidy(Append(front, m))
    BY <2>2, <2>3, <2>5, <2>6, TidyLonger
  <2> QED
    BY <2>1, <2>7
<1>3. CASE ~(list # <<>> /\ Last(list).type = c.type)
  <2>1. AppendComp(list, c) = Append(list, c)
    BY <1>3 DEF AppendComp
  <2>2. c \in ComponentsOver(X) /\ c.type # "formattingBoundary"
    BY <1>1
  <2>3. Tidy(Append(list, c))
    BY <1>3, <2>2, TidyLonger
  <2> QED
    BY <2>1, <2>3
<1> QED
  BY <1>2, <1>3

LEMMA TidyBuilders ==
  ASSUME NEW X, NEW list \in OperationsOver(X), Tidy(list)
  PROVE  /\ \A n \in Nat : Tidy(ot_skip(list, n)) /\ Tidy(ot_delete(list, n))
         /\ \A x \in Seq(X) : Tidy(ot_insert(list, x))
<1>1. /\ \A n \in Nat : /\ SkipComp(n) \in Built(X) /\ DeleteComp(n) \in Built(X)
                        /\ n # 0 => ~IsEmpty(SkipComp(n)) /\ ~IsEmpty(DeleteComp(n))
      /\ \A x \in Seq(X) : InsertComp(x) \in Built(X) /\ InsertComp(x).type = "insert"
  BY DEF Built, IsEmpty, SkipComp, DeleteComp, InsertComp, ot_comp_size
<1>2. \A c \in Built(X) :
        (c.type \in {"skip", "delete"} => ~IsEmpty(c)) => Tidy(AppendComp(list, c))
  BY TidyBuilt
<1> QED
  BY <1>1, <1>2 DEF ot_skip, ot_insert, ot_delete

(***************************************************************************)
(* One component built again.                                              *)
(***************************************************************************)
LEMMA RebuiltCases ==
  ASSUME NEW X, NEW c \in ComponentsOver(X), NEW list
  PROVE  \/ c.type = "skip" /\ c.count \in Nat /\ c = SkipComp(c.count)
              /\ Rebuilt(list, c) = ot_skip(list, c.count)
         \/ c.type = "delete" /\ c.count \in Nat /\ c = DeleteComp(c.count)
              /\ Rebuilt(list, c) = ot_delete(list, c.count)
         \/ c.type = "insert" /\ c.text \in Seq(X) /\ c = InsertComp(c.text)
              /\ Rebuilt(list, c) = ot_insert(list, c.text)
         \/ c.type \in {"openElement", "closeElement"} /\ Rebuilt(list, c) = Append(list, c)
         \/ c.type = "formattingBoundary" /\ Rebuilt(list, c) = list
<1>1. CASE c.type = "skip" /\ c = SkipComp(c.count) /\ c.count \in Nat
  BY <1>1 DEF Rebuilt
<1>2. CASE c.type = "delete" /\ c = DeleteComp(c.count) /\ c.count \in Nat
  BY <1>2 DEF Rebuilt
<1>3. CASE c.type = "insert" /\ c = InsertComp(c.text) /\ c.text \in Seq(X)
  BY <1>3 DEF Rebuilt
<1>4. CASE c.type = "openElement"
  <2>1. c \in [type : {"openElement"}, elem : X]
    BY <1>4 DEF ComponentsOver, CloseComp
  <2>2. c = OpenComp(c.elem)
    BY <2>1 DEF OpenComp
  <2> QED
    BY <1>4, <2>2 DEF Rebuilt, ot_open_element
<1>5. CASE c.type = "closeElement"
  <2>1. c = CloseComp
    BY <1>5 DEF ComponentsOver
  <2> QED
    BY <1>5, <2>1 DEF Rebuilt, ot_close_element
<1>6. CASE c.type = "formattingBoundary"
  BY <1>6 DEF Rebuilt
<1> QED
  BY <1>1, <1>2, <1>3, <1>4, <1>5, <1>6, BuiltComponent DEF Stubs

\* It does what the component does, and leaves nothing to merge.
LEMMA RebuiltAlike ==
  ASSUME NEW X, NEW c \in ComponentsOver(X), NEW list \in OperationsOver(X)
  PROVE  /\ Alike(X, Rebuilt(list, c), Append(list, c))
         /\ Tidy(list) => Tidy(Rebuilt(list, c))
<1>1. /\ \A n \in Nat : Alike(X, ot_skip(list, n), Append(list, SkipComp(n)))
      /\ \A n \in Nat : Alike(X, ot_delete(list, n), Append(list, DeleteComp(n)))
      /\ \A x \in Seq(X) : Alike(X, ot_insert(list, x), Append(list, InsertComp(x)))
  BY BuildersAlike
<1>2. ASSUME Tidy(list)
      PROVE  /\ \A n \in Nat : Tidy(ot_skip(list, n)) /\ Tidy(ot_delete(list, n))
             /\ \A x \in Seq(X) : Tidy(ot_insert(list, x))
  BY <1>2, TidyBuilders
<1>3. Append(list, c) \in OperationsOver(X)
  BY Longer
<1>4. Alike(X, Append(list, c), Append(list, c))
  BY <1>3, AlikeItself
<1>5. c.type = "formattingBoundary" => Alike(X, list, Append(list, c))
  BY NothingMore, AlikeSymmetric DEF Stubs
<1>6. Alike(X, Rebuilt(list, c), Append(list, c))
  BY <1>1, <1>4, <1>5, RebuiltCases, ZenonT(60)
<1>7. ASSUME Tidy(list) PROVE Tidy(Rebuilt(list, c))
  <2>1. c.type \in {"openElement", "closeElement"} => Tidy(Append(list, c))
    BY <1>7, TidyLonger
  <2> QED
    BY <1>2, <1>7, <2>1, RebuiltCases, ZenonT(60)
<1> QED
  BY <1>6, <1>7

\* What is tidy is built again as it is.
LEMMA RebuiltExactly ==
  ASSUME NEW X, NEW list \in OperationsOver(X), NEW c \in ComponentsOver(X),
         Tidy(Append(list, c))
  PROVE  Rebuilt(list, c) = Append(list, c)
<1> DEFINE longer == Append(list, c)
<1>1. /\ longer \in OperationsOver(X) /\ longer # <<>>
      /\ Front(longer) = list /\ Last(longer) = c
  <2>1. /\ longer \in OperationsOver(X) /\ Len(list) \in Nat /\ Len(longer) = Len(list) + 1
        /\ longer[Len(list) + 1] = c /\ \A k \in 1..Len(list) : longer[k] = list[k]
    BY Longer
  <2>2. longer # <<>>
    <3>1. Len(<<>>) = 0
      OBVIOUS
    <3> HIDE DEF longer
    <3> QED
      BY <2>1, <3>1
  <2>3. Front(longer) = list
    <3> list \in Seq(ComponentsOver(X))
      BY DEF OperationsOver
    <3> QED
      BY <2>1 DEF Front
  <2> HIDE DEF longer
  <2> QED
    BY <2>1, <2>2, <2>3 DEF Last
<1>2. list # <<>> /\ Last(list).type = c.type => c.type \in {"openElement", "closeElement"}
  <2> HIDE DEF longer
  <2>1. /\ Front(longer) # <<>> /\ Last(Front(longer)).type = Last(longer).type =>
             Last(longer).type \in {"openElement", "closeElement"}
    BY <1>1, TidyShorter DEF longer
  <2> QED
    BY <1>1, <2>1
<1>3. c.type # "formattingBoundary" /\ (c.type \in {"skip", "delete"} => ~IsEmpty(c))
  <2>1. Len(list) + 1 \in 1..Len(longer) /\ longer[Len(list) + 1] = c
    <3>1. Len(list) \in Nat /\ Len(longer) = Len(list) + 1 /\ longer[Len(list) + 1] = c
      BY Longer
    <3> HIDE DEF longer
    <3> QED
      BY <3>1
  <2> HIDE DEF longer
  <2>2. Tidy(longer)
    BY DEF longer
  <2> QED
    BY <2>1, <2>2 DEF Tidy
<1>4. c.type \in {"skip", "delete", "insert"} => AppendComp(list, c) = Append(list, c)
  BY <1>2 DEF AppendComp
<1>5. c.type \in {"skip", "delete"} => c.count # 0
  BY <1>3 DEF IsEmpty, ot_comp_size, Stubs
<1> QED
  BY <1>3, <1>4, <1>5, RebuiltCases DEF ot_skip, ot_insert, ot_delete

-----------------------------------------------------------------------------
(***************************************************************************)
(* A whole operation built again.                                          *)
(***************************************************************************)
LEMMA RebuiltFold ==
  ASSUME NEW X, NEW list \in OperationsOver(X)
  PROVE  \E f \in [0..Len(list) -> OperationsOver(X)] :
           /\ f[0] = <<>>
           /\ \A i \in 1..Len(list) : f[i] = Rebuilt(f[i - 1], list[i])
           /\ FoldLeft(Rebuilt, <<>>, list) = f[Len(list)]
<1> DEFINE N == Len(list)
           Y == OperationsOver(X)
           base == <<>>
           step == [i \in 1..N |-> [s \in Y |-> Rebuilt(s, list[i])]]
           Is(h) == h = [s \in SUBSET (1..N) |->
                           IF s = {} THEN base ELSE Rebuilt(h[s \ {Max(s)}], list[Max(s)])]
           iter == CHOOSE h : Is(h)
<1>1. N \in Nat /\ DOMAIN list = 1..N /\ \A i \in 1..N : list[i] \in ComponentsOver(X)
  BY DEF OperationsOver
<1>2. base \in Y
  BY EmptyOperation
<1>3. step \in [1..N -> [Y -> Y]]
  <2>1. \A i \in 1..N, s \in Y : Rebuilt(s, list[i]) \in Y
    BY <1>1, RebuiltAlike DEF Alike
  <2> HIDE DEF Y, N
  <2> QED
    BY <2>1
<1>4. FoldLeft(Rebuilt, <<>>, list) = iter[1..N]
  BY <1>1 DEF FoldLeft, MapThenFoldSet
<1> HIDE DEF N, Y, base
<1>5. PICK g \in [SUBSET (1..N) -> Y] : IsFold(g, N, base, step)
  <2> HIDE DEF step
  <2> QED
    BY <1>1, <1>2, <1>3, FoldExists
<1>6. Is(iter)
  <2>1. ASSUME NEW s \in SUBSET (1..N), s # {}
        PROVE  g[s] = Rebuilt(g[s \ {Max(s)}], list[Max(s)])
    <3>1. Max(s) \in 1..N
      BY <1>1, <2>1, MaxOf
    <3>2. g[s] = step[Max(s)][g[s \ {Max(s)}]] /\ g[s \ {Max(s)}] \in Y
      BY <1>5, <2>1 DEF IsFold
    <3> QED
      BY <3>1, <3>2
  <2>2. Is(g)
    BY <1>5, <2>1 DEF IsFold
  <2> HIDE DEF Is
  <2> QED
    BY <2>2
<1>7. /\ iter[{}] = base
      /\ \A s \in SUBSET (1..N) : s # {} =>
           iter[s] = Rebuilt(iter[s \ {Max(s)}], list[Max(s)])
  BY <1>6
<1> HIDE DEF iter, Is
<1>8. Steps(iter, N, Y, step)
  <2> SUFFICES ASSUME NEW i \in 1..N, iter[1..(i - 1)] \in Y
               PROVE  iter[1..i] = step[i][iter[1..(i - 1)]]
    BY DEF Steps
  <2>1. Max(1..i) = i /\ (1..i) \ {i} = 1..(i - 1) /\ 1..i # {} /\ 1..i \in SUBSET (1..N)
    BY <1>1, MaxOfPrefix
  <2>2. iter[1..i] = Rebuilt(iter[1..(i - 1)], list[i])
    BY <1>7, <2>1
  <2> QED
    BY <2>2
<1>9. PICK f \in [0..N -> Y] : IsFoldLeft(f, N, base, step) /\ f[N] = iter[1..N]
  <2>1. N \in Nat /\ base \in Y /\ iter[{}] = base
    BY <1>1, <1>2, <1>7
  <2>2. StepsIn(step, N, Y)
    BY <1>3 DEF StepsIn
  <2> HIDE DEF step
  <2>3. FoldsTo(N, Y, base, step, iter[1..N])
    BY <1>8, <2>1, <2>2, FoldResult
  <2> QED
    BY <2>3 DEF FoldsTo
<1>10. ASSUME NEW i \in 1..N PROVE f[i] = Rebuilt(f[i - 1], list[i])
  <2>1. f[i] = step[i][f[i - 1]] /\ f[i - 1] \in Y
    BY <1>1, <1>9 DEF IsFoldLeft
  <2> QED
    BY <2>1
<1> QED
  BY <1>4, <1>9, <1>10 DEF IsFoldLeft, N, Y, base

LEMMA CopyAlike ==
  ASSUME NEW X, NEW list \in OperationsOver(X)
  PROVE  /\ Alike(X, FoldLeft(Rebuilt, <<>>, list), list)
         /\ Tidy(FoldLeft(Rebuilt, <<>>, list))
<1> DEFINE N == Len(list)
           copy == FoldLeft(Rebuilt, <<>>, list)
<1>1. N \in Nat /\ \A k \in 1..N : list[k] \in ComponentsOver(X)
  BY DEF OperationsOver
<1>2. PICK f \in [0..N -> OperationsOver(X)] :
        /\ f[0] = <<>>
        /\ \A i \in 1..N : f[i] = Rebuilt(f[i - 1], list[i])
        /\ copy = f[N]
  BY RebuiltFold
<1> HIDE DEF copy
<1> DEFINE T == {k \in Nat : k <= N => Alike(X, f[k], SubSeq(list, 1, k)) /\ Tidy(f[k])}
<1>3. 0 \in T
  <2>1. SubSeq(list, 1, 0) = <<>> /\ Alike(X, <<>>, <<>>)
    BY WholePrefix, EmptyOperation, AlikeItself
  <2>2. Tidy(<<>>)
    BY DEF Tidy
  <2> QED
    BY <1>2, <2>1, <2>2
<1>4. ASSUME NEW k \in Nat, k \in T PROVE k + 1 \in T
  <2> SUFFICES ASSUME k + 1 <= N
               PROVE  Alike(X, f[k + 1], SubSeq(list, 1, k + 1)) /\ Tidy(f[k + 1])
    OBVIOUS
  <2>1. k + 1 \in 1..N /\ k + 1 - 1 = k /\ k < N /\ k \in 0..N
    BY <1>1
  <2>2. Alike(X, f[k], SubSeq(list, 1, k)) /\ Tidy(f[k])
    BY <1>4, <2>1
  <2> DEFINE c == list[k + 1]
             s == f[k]
             p == SubSeq(list, 1, k)
  <2>3. f[k + 1] = Rebuilt(s, c) /\ c \in ComponentsOver(X) /\ s \in OperationsOver(X)
    BY <1>1, <1>2, <2>1
  <2>4. SubSeq(list, 1, k + 1) = Append(p, c)
    BY <2>1, NextPrefix
  <2> HIDE DEF c, s, p, T
  <2>5. Alike(X, Rebuilt(s, c), Append(s, c)) /\ Tidy(Rebuilt(s, c))
    BY <2>2, <2>3, RebuiltAlike DEF s
  <2>6. Alike(X, Append(s, c), Append(p, c))
    BY <2>2, <2>3, AlikeLonger DEF s, p
  <2>7. Alike(X, Rebuilt(s, c), Append(p, c))
    BY <2>5, <2>6, AlikeTransitive
  <2> QED
    BY <2>3, <2>4, <2>5, <2>7
<1>5. Nat \subseteq T
  <2> HIDE DEF T
  <2> QED
    BY <1>3, <1>4, SetInduction
<1>6. Alike(X, f[N], SubSeq(list, 1, N)) /\ Tidy(f[N])
  BY <1>1, <1>5
<1>7. SubSeq(list, 1, N) = list
  BY WholePrefix
<1> QED
  BY <1>2, <1>6, <1>7 DEF copy

LEMMA TidyPrefix ==
  ASSUME NEW X, NEW list \in OperationsOver(X), Tidy(list), NEW k \in 0..Len(list)
  PROVE  Tidy(SubSeq(list, 1, k))
<1> DEFINE p == SubSeq(list, 1, k)
<1>1. Len(list) \in Nat
  BY DEF OperationsOver
<1>2. Len(p) = k /\ \A m \in 1..k : p[m] = list[m]
  BY Prefix
<1>3. /\ \A m \in 1..k : m \in 1..Len(list)
      /\ \A m \in 1..(k - 1) : m \in 1..(Len(list) - 1) /\ m \in 1..k /\ m + 1 \in 1..k
  BY <1>1
<1> HIDE DEF p
<1>4. Tidy(p)
  BY <1>2, <1>3 DEF Tidy
<1> QED
  BY <1>4 DEF p

LEMMA CopyOfTidy ==
  ASSUME NEW X, NEW list \in OperationsOver(X), Tidy(list)
  PROVE  FoldLeft(Rebuilt, <<>>, list) = list
<1> DEFINE N == Len(list)
           copy == FoldLeft(Rebuilt, <<>>, list)
<1>1. N \in Nat /\ \A k \in 1..N : list[k] \in ComponentsOver(X)
  BY DEF OperationsOver
<1>2. PICK f \in [0..N -> OperationsOver(X)] :
        /\ f[0] = <<>>
        /\ \A i \in 1..N : f[i] = Rebuilt(f[i - 1], list[i])
        /\ copy = f[N]
  BY RebuiltFold
<1> HIDE DEF copy
<1> DEFINE T == {k \in Nat : k <= N => f[k] = SubSeq(list, 1, k)}
<1>3. 0 \in T
  BY <1>2, WholePrefix
<1>4. ASSUME NEW k \in Nat, k \in T PROVE k + 1 \in T
  <2> SUFFICES ASSUME k + 1 <= N PROVE f[k + 1] = SubSeq(list, 1, k + 1)
    OBVIOUS
  <2>1. k + 1 \in 1..N /\ k + 1 - 1 = k /\ k < N /\ k \in 0..N /\ k + 1 \in 0..N
    BY <1>1
  <2> DEFINE c == list[k + 1]
             p == SubSeq(list, 1, k)
             q == SubSeq(list, 1, k + 1)
  <2>2. f[k] = p
    BY <1>4, <2>1
  <2>3. f[k + 1] = Rebuilt(f[k], c) /\ c \in ComponentsOver(X)
    BY <1>1, <1>2, <2>1
  <2>4. q = Append(p, c)
    BY <2>1, NextPrefix
  <2>5. Tidy(q) /\ p \in OperationsOver(X)
    BY <2>1, TidyPrefix, Prefix
  <2> HIDE DEF c, p, q, T
  <2>6. Rebuilt(p, c) = Append(p, c)
    BY <2>3, <2>4, <2>5, RebuiltExactly
  <2> QED
    BY <2>2, <2>3, <2>4, <2>6 DEF q
<1>5. Nat \subseteq T
  <2> HIDE DEF T
  <2> QED
    BY <1>3, <1>4, SetInduction
<1>6. f[N] = SubSeq(list, 1, N)
  BY <1>1, <1>5
<1> QED
  BY <1>2, <1>6, WholePrefix DEF copy

LEMMA OpIsNotNull == \A id, parent, hash, comps : Op(id, parent, hash, comps) # NULL
<1> SUFFICES ASSUME NEW id, NEW parent, NEW hash, NEW comps, Op(id, parent, hash, comps) = NULL
             PROVE  FALSE
  OBVIOUS
<1>1. DOMAIN Op(id, parent, hash, comps) = {"client_id", "parent", "hash", "comps"}
  BY DEF Op
<1>2. DOMAIN NULL = {"null"}
  BY DEF NULL
<1> QED
  BY <1>1, <1>2

LEMMA WellMadeIsTidy ==
  ASSUME NEW list, WellMade(list)
  PROVE  Tidy(list)
<1>1. \A k \in 1..Len(list) : list[k].type \notin Stubs /\ ~IsEmpty(list[k])
  BY DEF WellMade, Passable
<1>2. \A k \in 1..(Len(list) - 1) : list[k].type # list[k + 1].type
  BY DEF WellMade, IsNormal
<1> QED
  BY <1>1, <1>2 DEF Tidy, Stubs

LEMMA RebuiltWellMade ==
  ASSUME NEW X, NEW list \in OperationsOver(X), WellMade(list),
         NEW c \in ComponentsOver(X), c.type \notin Stubs, ~IsEmpty(c)
  PROVE  WellMade(Rebuilt(list, c))
<1>1. /\ \A n \in Nat : WellMade(ot_skip(list, n)) /\ WellMade(ot_delete(list, n))
      /\ \A x \in Seq(X) : Len(x) # 0 => WellMade(ot_insert(list, x))
  BY BuildersWellMade
<1>2. c.type = "insert" => Len(c.text) # 0
  BY DEF IsEmpty, ot_comp_size
<1> QED
  BY <1>1, <1>2, RebuiltCases DEF Stubs

LEMMA CopyOfPassable ==
  ASSUME NEW X, NEW list \in OperationsOver(X), Passable(list)
  PROVE  WellMade(FoldLeft(Rebuilt, <<>>, list))
<1> DEFINE N == Len(list)
           copy == FoldLeft(Rebuilt, <<>>, list)
<1>1. N \in Nat /\ \A k \in 1..N : list[k] \in ComponentsOver(X)
  BY DEF OperationsOver
<1>2. PICK f \in [0..N -> OperationsOver(X)] :
        /\ f[0] = <<>>
        /\ \A i \in 1..N : f[i] = Rebuilt(f[i - 1], list[i])
        /\ copy = f[N]
  BY RebuiltFold
<1> HIDE DEF copy
<1>3. \A k \in 1..N : list[k].type \notin Stubs /\ ~IsEmpty(list[k])
  BY DEF Passable
<1> HIDE DEF N
<1> DEFINE T == {k \in Nat : k <= N => WellMade(f[k])}
<1>4. 0 \in T
  BY <1>2, NothingIsWellMade
<1>5. ASSUME NEW k \in Nat, k \in T PROVE k + 1 \in T
  <2> SUFFICES ASSUME k + 1 <= N PROVE WellMade(f[k + 1])
    OBVIOUS
  <2>1. k + 1 \in 1..N /\ k + 1 - 1 = k /\ k <= N /\ k \in 0..N
    BY <1>1
  <2> DEFINE c == list[k + 1]
             s == f[k]
  <2>2. WellMade(s) /\ s \in OperationsOver(X)
    BY <1>2, <1>5, <2>1
  <2>3. f[k + 1] = Rebuilt(s, c)
    BY <1>2, <2>1
  <2>4. c \in ComponentsOver(X) /\ c.type \notin Stubs /\ ~IsEmpty(c)
    BY <1>1, <1>3, <2>1
  <2> HIDE DEF c, s
  <2> QED
    BY <2>2, <2>3, <2>4, RebuiltWellMade
<1>6. Nat \subseteq T
  <2> HIDE DEF T
  <2> QED
    BY <1>4, <1>5, SetInduction
<1> QED
  BY <1>1, <1>2, <1>6 DEF copy

\* ot_dup_op keeps what an operation does; an operation the loops can pass is
\* well made afterwards, and one that is well made is copied as it is.
LEMMA CopyOfClean ==
  ASSUME NEW X, NEW op, CleanOver(X, op)
  PROVE  /\ ot_dup_op(op) # NULL
         /\ CleanOver(X, ot_dup_op(op)) /\ WellMade(ot_dup_op(op).comps)
         /\ Alike(X, ot_dup_op(op).comps, op.comps)
         /\ WellMade(op.comps) => ot_dup_op(op).comps = op.comps
<1> DEFINE list == op.comps
           copied == FoldLeft(Rebuilt, <<>>, list)
           copy == ot_dup_op(op)
<1>1. copy # NULL /\ copy.comps = copied
  <2>1. copy = Op(op.client_id, op.parent, op.hash, copied)
    BY DEF ot_dup_op
  <2>2. copy.comps = copied
    BY <2>1 DEF Op
  <2> QED
    BY <2>1, <2>2, OpIsNotNull
<1>2. list \in OperationsOver(X) /\ Passable(list)
  BY DEF CleanOver
<1> HIDE DEF list, copy
<1>3. Alike(X, copied, list) /\ WellMade(copied)
  BY <1>2, CopyAlike, CopyOfPassable
<1>4. WellMade(list) => copied = list
  BY <1>2, WellMadeIsTidy, CopyOfTidy
<1> HIDE DEF copied
<1>5. CleanOver(X, copy)
  BY <1>1, <1>3 DEF CleanOver, Alike, WellMade
<1> QED
  BY <1>1, <1>3, <1>4, <1>5 DEF list, copy

-----------------------------------------------------------------------------
(***************************************************************************)
(* Part 3: documents.                                                      *)
(***************************************************************************)

LEMMA NoTextHashesToZero == \A text : HashOf(text) # ZeroHash
<1> SUFFICES ASSUME NEW text PROVE HashOf(text) # ZeroHash
  OBVIOUS
<1>1. Len(<<text>>) = 1 /\ Len(<<>>) = 0
  OBVIOUS
<1> QED
  BY <1>1 DEF HashOf, ZeroHash

\* Newest finds the newest position with a hash.
LEMMA NewestPosition ==
  ASSUME NEW N \in Nat, NEW s \in SUBSET (1..N), s # {}
  PROVE  Newest(s) \in s /\ \A j \in s : j <= Newest(s)
<1>1. Max(s) \in s /\ \A y \in s : Max(s) >= y
  BY MaxOf
<1>2. \A y \in s : y \in Nat
  OBVIOUS
<1>3. \E i \in s : \A j \in s : j <= i
  <2> DEFINE m == Max(s)
  <2>1. m \in s /\ \A y \in s : m >= y
    BY <1>1
  <2> HIDE DEF m
  <2>2. \A j \in s : j <= m
    BY <1>2, <2>1
  <2> QED
    BY <2>1, <2>2
<1> QED
  BY <1>3 DEF Newest

-----------------------------------------------------------------------------
\* The compositions of ot_doc_compose_after, operation by operation.
SinceRun(history, start, n, run) ==
  run = [k \in 0..n |-> IF k = 0 THEN ot_dup_op(history[start]) ELSE ComposeNext(run[k - 1], history[start + k])]

LEMMA SinceRunExists ==
  ASSUME NEW history, NEW start, NEW n \in Nat
  PROVE  \E run : SinceRun(history, start, n, run)
<1> DEFINE T == {m \in Nat : \E run : SinceRun(history, start, m, run)}
<1>1. 0 \in T
  <2> DEFINE run == [k \in 0..0 |-> ot_dup_op(history[start])]
  <2>1. \A k \in 0..0 : k = 0
    OBVIOUS
  <2>2. SinceRun(history, start, 0, run)
    BY <2>1 DEF SinceRun
  <2> HIDE DEF run
  <2> QED
    BY <2>2
<1>2. ASSUME NEW m \in Nat, m \in T PROVE m + 1 \in T
  <2>1. PICK run : SinceRun(history, start, m, run)
    BY <1>2
  <2> DEFINE longer == [k \in 0..(m + 1) |-> IF k = m + 1 THEN ComposeNext(run[m], history[start + (m + 1)]) ELSE run[k]]
             Right(k) == longer[k] = IF k = 0 THEN ot_dup_op(history[start]) ELSE ComposeNext(longer[k - 1], history[start + k])
  <2>2. \A k \in 0..m : run[k] = IF k = 0 THEN ot_dup_op(history[start]) ELSE ComposeNext(run[k - 1], history[start + k])
    BY <2>1 DEF SinceRun
  <2>3. Right(m + 1)
    <3>1. longer[m + 1] = ComposeNext(run[m], history[start + (m + 1)]) /\ m + 1 # 0 /\ (m + 1) - 1 = m /\ longer[m] = run[m]
      OBVIOUS
    <3> QED
      BY <3>1
  <2>4. \A k \in 0..m : Right(k)
    <3> SUFFICES ASSUME NEW k \in 0..m PROVE Right(k)
      OBVIOUS
    <3>1. longer[k] = run[k] /\ (k # 0 => longer[k - 1] = run[k - 1])
      OBVIOUS
    <3> HIDE DEF longer
    <3> QED
      BY <2>2, <3>1
  <2>5. \A k \in 0..(m + 1) : Right(k)
    <3>1. \A k \in 0..(m + 1) : k \in 0..m \/ k = m + 1
      OBVIOUS
    <3> HIDE DEF Right
    <3> QED
      BY <2>3, <2>4, <3>1
  <2>6. SinceRun(history, start, m + 1, longer)
    <3>1. longer = [k \in 0..(m + 1) |-> longer[k]]
      OBVIOUS
    <3> HIDE DEF longer
    <3> QED
      BY <2>5, <3>1 DEF SinceRun
  <2> HIDE DEF longer
  <2> QED
    BY <2>6
<1>3. Nat \subseteq T
  <2> HIDE DEF T
  <2> QED
    BY <1>1, <1>2, SetInduction
<1> QED
  BY <1>3

LEMMA SinceIsRun ==
  ASSUME NEW history, NEW start, Len(history) - start \in Nat
  PROVE  \E run : SinceRun(history, start, Len(history) - start, run) /\ ComposeFrom(history, start) = run[Len(history) - start]
<1> DEFINE N == Len(history) - start
           Is(run) == run = [k \in 0..N |-> IF k = 0 THEN ot_dup_op(history[start]) ELSE ComposeNext(run[k - 1], history[start + k])]
           chosen == CHOOSE run : Is(run)
<1>1. ComposeFrom(history, start) = chosen[N]
  BY DEF ComposeFrom
<1>2. \A run : Is(run) <=> SinceRun(history, start, N, run)
  BY DEF SinceRun
<1> HIDE DEF Is
<1>3. \E run : Is(run)
  <2>1. N \in Nat
    OBVIOUS
  <2> HIDE DEF N
  <2> QED
    BY <1>2, <2>1, SinceRunExists
<1>4. Is(chosen)
  BY <1>3
<1> HIDE DEF chosen
<1> QED
  BY <1>1, <1>2, <1>4

LEMMA SinceRunSteps ==
  ASSUME NEW history, NEW start, NEW n \in Nat, NEW run, SinceRun(history, start, n, run)
  PROVE  /\ run[0] = ot_dup_op(history[start])
         /\ \A k \in 1..n : run[k] = ComposeNext(run[k - 1], history[start + k])
<1>1. \A k \in 0..n : run[k] = IF k = 0 THEN ot_dup_op(history[start]) ELSE ComposeNext(run[k - 1], history[start + k])
  BY DEF SinceRun
<1>2. \A k \in 1..n : k \in 0..n /\ k # 0
  OBVIOUS
<1> QED
  BY <1>1, <1>2

\* The results of ot_decode_doc, operation by operation.
ReadRun(d, ops, n, run) ==
  run = [k \in 0..n |-> IF k = 0 THEN Refused(d, "none") ELSE DecodeNext(run[k - 1], ops[k])]

LEMMA ReadRunExists ==
  ASSUME NEW d, NEW ops, NEW n \in Nat
  PROVE  \E run : ReadRun(d, ops, n, run)
<1> DEFINE T == {m \in Nat : \E run : ReadRun(d, ops, m, run)}
<1>1. 0 \in T
  <2> DEFINE run == [k \in 0..0 |-> Refused(d, "none")]
  <2>1. \A k \in 0..0 : k = 0
    OBVIOUS
  <2>2. ReadRun(d, ops, 0, run)
    BY <2>1 DEF ReadRun
  <2> HIDE DEF run
  <2> QED
    BY <2>2
<1>2. ASSUME NEW m \in Nat, m \in T PROVE m + 1 \in T
  <2>1. PICK run : ReadRun(d, ops, m, run)
    BY <1>2
  <2> DEFINE longer == [k \in 0..(m + 1) |-> IF k = m + 1 THEN DecodeNext(run[m], ops[m + 1]) ELSE run[k]]
             Right(k) == longer[k] = IF k = 0 THEN Refused(d, "none") ELSE DecodeNext(longer[k - 1], ops[k])
  <2>2. \A k \in 0..m : run[k] = IF k = 0 THEN Refused(d, "none") ELSE DecodeNext(run[k - 1], ops[k])
    BY <2>1 DEF ReadRun
  <2>3. Right(m + 1)
    <3>1. longer[m + 1] = DecodeNext(run[m], ops[m + 1]) /\ m + 1 # 0 /\ (m + 1) - 1 = m /\ longer[m] = run[m]
      OBVIOUS
    <3> QED
      BY <3>1
  <2>4. \A k \in 0..m : Right(k)
    <3> SUFFICES ASSUME NEW k \in 0..m PROVE Right(k)
      OBVIOUS
    <3>1. longer[k] = run[k] /\ (k # 0 => longer[k - 1] = run[k - 1])
      OBVIOUS
    <3> HIDE DEF longer
    <3> QED
      BY <2>2, <3>1
  <2>5. \A k \in 0..(m + 1) : Right(k)
    <3>1. \A k \in 0..(m + 1) : k \in 0..m \/ k = m + 1
      OBVIOUS
    <3> HIDE DEF Right
    <3> QED
      BY <2>3, <2>4, <3>1
  <2>6. ReadRun(d, ops, m + 1, longer)
    <3>1. longer = [k \in 0..(m + 1) |-> longer[k]]
      OBVIOUS
    <3> HIDE DEF longer
    <3> QED
      BY <2>5, <3>1 DEF ReadRun
  <2> HIDE DEF longer
  <2> QED
    BY <2>6
<1>3. Nat \subseteq T
  <2> HIDE DEF T
  <2> QED
    BY <1>1, <1>2, SetInduction
<1> QED
  BY <1>3

LEMMA ReadIsRun ==
  ASSUME NEW d, NEW ops, Len(ops) \in Nat
  PROVE  \E run : ReadRun(d, ops, Len(ops), run) /\ ot_decode_doc(d, ops) = run[Len(ops)]
<1> DEFINE N == Len(ops)
           Is(run) == run = [k \in 0..N |-> IF k = 0 THEN Refused(d, "none") ELSE DecodeNext(run[k - 1], ops[k])]
           chosen == CHOOSE run : Is(run)
<1>1. ot_decode_doc(d, ops) = chosen[N]
  BY DEF ot_decode_doc
<1>2. \A run : Is(run) <=> ReadRun(d, ops, N, run)
  BY DEF ReadRun
<1> HIDE DEF Is
<1>3. \E run : Is(run)
  <2>1. N \in Nat
    OBVIOUS
  <2> HIDE DEF N
  <2> QED
    BY <1>2, <2>1, ReadRunExists
<1>4. Is(chosen)
  BY <1>3
<1> HIDE DEF chosen
<1> QED
  BY <1>1, <1>2, <1>4

LEMMA ReadRunSteps ==
  ASSUME NEW d, NEW ops, NEW n \in Nat, NEW run, ReadRun(d, ops, n, run)
  PROVE  /\ run[0] = Refused(d, "none")
         /\ \A k \in 1..n : run[k] = DecodeNext(run[k - 1], ops[k])
<1>1. \A k \in 0..n : run[k] = IF k = 0 THEN Refused(d, "none") ELSE DecodeNext(run[k - 1], ops[k])
  BY DEF ReadRun
<1>2. \A k \in 1..n : k \in 0..n /\ k # 0
  OBVIOUS
<1> QED
  BY <1>1, <1>2

LEMMA SinceLast ==
  ASSUME NEW history, Len(history) \in Nat
  PROVE  ComposeFrom(history, Len(history)) = ot_dup_op(history[Len(history)])
<1>1. Len(history) - Len(history) = 0
  OBVIOUS
<1> DEFINE start == Len(history)
<1>2. Len(history) - start \in Nat
  OBVIOUS
<1> HIDE DEF start
<1>3. PICK run : /\ SinceRun(history, start, Len(history) - start, run)
                 /\ ComposeFrom(history, start) = run[Len(history) - start]
  BY <1>2, SinceIsRun
<1>4. run[0] = ot_dup_op(history[start])
  BY <1>2, <1>3, SinceRunSteps, ZenonT(60)
<1> QED
  BY <1>1, <1>3, <1>4 DEF start

LEMMA SinceLonger ==
  ASSUME NEW S, NEW history \in Seq(S), NEW head \in S, NEW start \in 1..Len(history)
  PROVE  ComposeFrom(Append(history, head), start) =
           ComposeNext(ComposeFrom(history, start), head)
<1> DEFINE longer == Append(history, head)
           m == Len(history) - start
           n == Len(longer) - start
<1>1. /\ m \in Nat /\ n = m + 1 /\ n \in Nat /\ n \in 1..n /\ start + n = Len(history) + 1
      /\ longer[Len(history) + 1] = head
      /\ longer[start] = history[start]
      /\ \A k \in 1..m : k \in 1..n /\ longer[start + k] = history[start + k]
  OBVIOUS
<1>0. m \in Nat /\ n \in Nat
  OBVIOUS
<1> HIDE DEF longer, m, n
<1>2. PICK f : SinceRun(history, start, m, f) /\ ComposeFrom(history, start) = f[m]
  BY <1>1, SinceIsRun DEF m
<1>3. PICK g : SinceRun(longer, start, n, g) /\ ComposeFrom(longer, start) = g[n]
  BY <1>1, SinceIsRun DEF n
<1>4. f[0] = ot_dup_op(history[start]) /\ \A k \in 1..m : f[k] = ComposeNext(f[k - 1], history[start + k])
  BY <1>0, <1>2, SinceRunSteps
<1>5. g[0] = ot_dup_op(longer[start]) /\ \A k \in 1..n : g[k] = ComposeNext(g[k - 1], longer[start + k])
  BY <1>0, <1>3, SinceRunSteps
<1>6. InStep(f, g, m)
  BY <1>1, <1>4, <1>5 DEF InStep
<1>7. f[m] = g[m]
  BY <1>1, <1>4, <1>5, <1>6, SameSteps
<1>8. g[n] = ComposeNext(g[m], head)
  <2>1. n - 1 = m
    BY <1>1
  <2>2. g[n] = ComposeNext(g[n - 1], longer[start + n])
    BY <1>1, <1>5
  <2> QED
    BY <1>1, <2>1, <2>2
<1> QED
  BY <1>2, <1>3, <1>7, <1>8 DEF longer

LEMMA ReadNothing ==
  ASSUME NEW d
  PROVE  ot_decode_doc(d, <<>>) = Refused(d, "none")
<1> DEFINE ops == <<>>
<1>1. Len(ops) = 0
  OBVIOUS
<1> HIDE DEF ops
<1>2. PICK run : ReadRun(d, ops, Len(ops), run) /\ ot_decode_doc(d, ops) = run[Len(ops)]
  BY <1>1, ReadIsRun
<1>3. run[0] = Refused(d, "none")
  BY <1>1, <1>2, ReadRunSteps
<1> QED
  BY <1>1, <1>2, <1>3 DEF ops

LEMMA ReadLonger ==
  ASSUME NEW S, NEW d, NEW ops \in Seq(S), NEW op \in S
  PROVE  ot_decode_doc(d, Append(ops, op)) = DecodeNext(ot_decode_doc(d, ops), op)
<1> DEFINE longer == Append(ops, op)
           m == Len(ops)
           n == Len(longer)
<1>1. /\ m \in Nat /\ n = m + 1 /\ n \in Nat /\ n \in 1..n /\ n - 1 = m
      /\ longer[n] = op
      /\ \A k \in 1..m : k \in 1..n /\ longer[k] = ops[k]
  OBVIOUS
<1>0. m \in Nat /\ n \in Nat
  OBVIOUS
<1> HIDE DEF longer, m, n
<1>2. PICK f : ReadRun(d, ops, m, f) /\ ot_decode_doc(d, ops) = f[m]
  BY <1>1, ReadIsRun DEF m
<1>3. PICK g : ReadRun(d, longer, n, g) /\ ot_decode_doc(d, longer) = g[n]
  BY <1>1, ReadIsRun DEF n
<1>4. f[0] = Refused(d, "none") /\ \A k \in 1..m : f[k] = DecodeNext(f[k - 1], ops[k])
  BY <1>0, <1>2, ReadRunSteps
<1>5. g[0] = Refused(d, "none") /\ \A k \in 1..n : g[k] = DecodeNext(g[k - 1], longer[k])
  BY <1>0, <1>3, ReadRunSteps
<1>6. InStep(f, g, m)
  BY <1>1, <1>4, <1>5 DEF InStep
<1>7. f[m] = g[m]
  BY <1>1, <1>4, <1>5, <1>6, SameSteps
<1>8. g[n] = DecodeNext(g[m], op)
  BY <1>1, <1>5
<1> QED
  BY <1>2, <1>3, <1>7, <1>8 DEF longer

-----------------------------------------------------------------------------
(***************************************************************************)
(* The size of a document is that of its text.                             *)
(***************************************************************************)
LEMMA BytesOf ==
  ASSUME NEW X, NEW x \in Seq(X)
  PROVE  Bytes(x) \in Nat
<1> DEFINE wide == {i \in 1..Len(x) : x[i] \in Wide}
<1>1. Len(x) \in Nat
  OBVIOUS
<1>2. IsFiniteSet(1..Len(x))
  BY <1>1, FS_Interval
<1>3. wide \in SUBSET (1..Len(x))
  OBVIOUS
<1> HIDE DEF wide
<1>4. Cardinality(wide) \in Nat
  BY <1>2, <1>3, FS_Subset, FS_CardinalityType
<1>5. Bytes(x) = Len(x) + Cardinality(wide)
  BY DEF Bytes, wide
<1> QED
  BY <1>1, <1>4, <1>5

LEMMA MeasureOf ==
  ASSUME NEW X, NEW c \in ComponentsOver(X)
  PROVE  Measure(c) \in Int
<1>1. \/ c.type \in {"skip", "delete"} /\ c \in [type : {"skip", "delete"}, count : Nat]
      \/ c.type = "insert" /\ c \in [type : {"insert"}, text : Seq(X)]
      \/ c.type \in Stubs
  BY ComponentCases
<1>2. CASE c.type \in {"skip", "delete"} /\ c \in [type : {"skip", "delete"}, count : Nat]
  BY <1>2 DEF Measure
<1>3. CASE c.type = "insert" /\ c \in [type : {"insert"}, text : Seq(X)]
  <2>1. Bytes(c.text) \in Nat
    BY <1>3, BytesOf
  <2> QED
    BY <1>3, <2>1 DEF Measure
<1>4. CASE c.type \in Stubs
  BY <1>4 DEF Measure, Stubs
<1> QED
  BY <1>1, <1>2, <1>3, <1>4

LEMMA MeasureFold ==
  ASSUME NEW X, NEW comps \in OperationsOver(X)
  PROVE  \E f \in [0..Len(comps) -> Int] :
           /\ f[0] = 0
           /\ \A i \in 1..Len(comps) : f[i] = f[i - 1] + Measure(comps[i])
           /\ SumOf(comps, Measure) = f[Len(comps)]
<1> DEFINE N == Len(comps)
           w == [i \in 1..N |-> Measure(comps[i])]
           step == [i \in 1..N |-> [n \in Int |-> n + w[i]]]
           Is(h) == h = [s \in SUBSET (1..N) |->
                           IF s = {} THEN 0 ELSE h[s \ {Max(s)}] + Measure(comps[Max(s)])]
           iter == CHOOSE h : Is(h)
<1>1. N \in Nat /\ DOMAIN comps = 1..N
  BY DEF OperationsOver
<1>2. w \in [1..N -> Int]
  <2>1. ASSUME NEW i \in 1..N PROVE Measure(comps[i]) \in Int
    <3>1. comps[i] \in ComponentsOver(X)
      BY DEF OperationsOver
    <3> QED
      BY <3>1, MeasureOf
  <2> QED
    BY <2>1
<1> HIDE DEF N, w
<1>3. step \in [1..N -> [Int -> Int]]
  BY <1>2
<1>4. PICK g \in [SUBSET (1..N) -> Int] : IsFold(g, N, 0, step)
  <2> DEFINE Y == Int
  <2>1. 0 \in Y /\ step \in [1..N -> [Y -> Y]]
    BY <1>3
  <2> HIDE DEF step, Y
  <2>2. \E g \in [SUBSET (1..N) -> Y] : IsFold(g, N, 0, step)
    BY <1>1, <2>1, FoldExists
  <2> QED
    BY <2>2 DEF Y
<1>5. SumOf(comps, Measure) = iter[1..N]
  BY <1>1 DEF SumOf, FoldLeft, MapThenFoldSet
<1>6. Is(iter)
  <2>1. ASSUME NEW s \in SUBSET (1..N), s # {}
        PROVE  g[s] = g[s \ {Max(s)}] + Measure(comps[Max(s)])
    <3>1. Max(s) \in 1..N
      BY <1>1, <2>1, MaxOf
    <3>2. g[s] = step[Max(s)][g[s \ {Max(s)}]] /\ g[s \ {Max(s)}] \in Int
      BY <1>4, <2>1 DEF IsFold
    <3> QED
      BY <3>1, <3>2 DEF w
  <2>2. Is(g)
    BY <1>4, <2>1 DEF IsFold
  <2> HIDE DEF Is
  <2> QED
    BY <2>2
<1>7. /\ iter[{}] = 0
      /\ \A s \in SUBSET (1..N) : s # {} =>
           iter[s] = iter[s \ {Max(s)}] + Measure(comps[Max(s)])
  BY <1>6
<1> HIDE DEF iter, Is
<1>8. Steps(iter, N, Int, step)
  <2> SUFFICES ASSUME NEW i \in 1..N, iter[1..(i - 1)] \in Int
               PROVE  iter[1..i] = step[i][iter[1..(i - 1)]]
    BY DEF Steps
  <2>1. Max(1..i) = i /\ (1..i) \ {i} = 1..(i - 1) /\ 1..i # {} /\ 1..i \in SUBSET (1..N)
    BY <1>1, MaxOfPrefix
  <2>2. iter[1..i] = iter[1..(i - 1)] + Measure(comps[i])
    BY <1>7, <2>1
  <2> QED
    BY <2>2 DEF w
<1>9. PICK f \in [0..N -> Int] : IsFoldLeft(f, N, 0, step) /\ f[N] = iter[1..N]
  <2> DEFINE Y == Int
  <2>1. 0 \in Y /\ StepsIn(step, N, Y) /\ Steps(iter, N, Y, step)
    BY <1>3, <1>8 DEF StepsIn
  <2>2. N \in Nat /\ iter[{}] = 0
    BY <1>1, <1>7
  <2> HIDE DEF step, Y
  <2>3. FoldsTo(N, Y, 0, step, iter[1..N])
    BY <2>1, <2>2, FoldResult
  <2> QED
    BY <2>3 DEF FoldsTo, Y
<1>10. ASSUME NEW i \in 1..N PROVE f[i] = f[i - 1] + Measure(comps[i])
  <2>1. f[i] = step[i][f[i - 1]] /\ f[i - 1] \in Int
    BY <1>1, <1>9 DEF IsFoldLeft
  <2> QED
    BY <2>1 DEF w
<1> QED
  BY <1>5, <1>9, <1>10 DEF IsFoldLeft, N

LEMMA SumOfEmpty == SumOf(<<>>, Measure) = 0
<1> DEFINE none == <<>>
           X == {}
<1>1. none \in OperationsOver(X) /\ Len(none) = 0
  BY EmptyOperation
<1> HIDE DEF none, X
<1>2. PICK f \in [0..Len(none) -> Int] : f[0] = 0 /\ SumOf(none, Measure) = f[Len(none)]
  BY <1>1, MeasureFold
<1> QED
  BY <1>1, <1>2 DEF none

LEMMA SumOfLonger ==
  ASSUME NEW X, NEW comps \in OperationsOver(X), NEW c \in ComponentsOver(X)
  PROVE  /\ SumOf(comps, Measure) \in Int
         /\ SumOf(Append(comps, c), Measure) = SumOf(comps, Measure) + Measure(c)
<1> DEFINE longer == Append(comps, c)
           N == Len(comps)
<1>1. /\ longer \in OperationsOver(X) /\ N \in Nat /\ Len(longer) = N + 1
      /\ longer[N + 1] = c /\ \A i \in 1..N : longer[i] = comps[i]
  BY Longer
<1>2. PICK f \in [0..N -> Int] :
        /\ f[0] = 0
        /\ \A i \in 1..N : f[i] = f[i - 1] + Measure(comps[i])
        /\ SumOf(comps, Measure) = f[N]
  BY MeasureFold
<1> HIDE DEF longer
<1>3. PICK g \in [0..Len(longer) -> Int] :
        /\ g[0] = 0
        /\ \A i \in 1..Len(longer) : g[i] = g[i - 1] + Measure(longer[i])
        /\ SumOf(longer, Measure) = g[Len(longer)]
  BY <1>1, MeasureFold
<1>4. InStep(f, g, N)
  BY <1>1, <1>2, <1>3 DEF InStep
<1>5. f[N] = g[N]
  BY <1>1, <1>2, <1>3, <1>4, SameSteps
<1>6. N + 1 \in 1..Len(longer)
  BY <1>1
<1>7. g[N + 1] = g[N] + Measure(c)
  BY <1>1, <1>3, <1>6
<1>8. f[N] \in Int
  BY <1>1, <1>2
<1> QED
  BY <1>1, <1>2, <1>3, <1>5, <1>7, <1>8 DEF longer

\* A text has the bytes of its parts, and one or two for each character.
LEMMA BytesOfLonger ==
  ASSUME NEW X, NEW x \in Seq(X), NEW a \in X
  PROVE  Bytes(Append(x, a)) = Bytes(x) + IF a \in Wide THEN 2 ELSE 1
<1> DEFINE y == Append(x, a)
           N == Len(x)
           old == {i \in 1..N : x[i] \in Wide}
           new == {i \in 1..(N + 1) : y[i] \in Wide}
<1>1. N \in Nat /\ Len(y) = N + 1 /\ y[N + 1] = a /\ \A i \in 1..N : y[i] = x[i]
  OBVIOUS
<1>2. Bytes(x) = N + Cardinality(old) /\ Bytes(y) = (N + 1) + Cardinality(new)
  BY <1>1 DEF Bytes
<1>3. IsFiniteSet(old) /\ Cardinality(old) \in Nat
  <2>1. old \in SUBSET (1..N)
    OBVIOUS
  <2> HIDE DEF old, N
  <2>2. IsFiniteSet(1..N)
    BY <1>1, FS_Interval
  <2> QED
    BY <2>1, <2>2, FS_Subset, FS_CardinalityType
<1>4. N + 1 \notin old
  BY <1>1
<1> HIDE DEF y
<1>5. new = IF a \in Wide THEN old \cup {N + 1} ELSE old
  <2>1. \A i \in 1..(N + 1) : i \in 1..N \/ i = N + 1
    BY <1>1
  <2>2. \A i \in 1..N : i \in 1..(N + 1)
    BY <1>1
  <2>3. N + 1 \in 1..(N + 1)
    BY <1>1
  <2> HIDE DEF N
  <2> QED
    BY <1>1, <2>1, <2>2, <2>3
<1> HIDE DEF old, new, N
<1>6. Cardinality(old \cup {N + 1}) = Cardinality(old) + 1
  BY <1>3, <1>4, FS_AddElement
<1>7. CASE a \in Wide
  BY <1>1, <1>2, <1>3, <1>5, <1>6, <1>7 DEF y
<1>8. CASE a \notin Wide
  BY <1>1, <1>2, <1>3, <1>5, <1>8 DEF y
<1> QED
  BY <1>7, <1>8

LEMMA BytesOfEmpty == Bytes(<<>>) = 0
<1> DEFINE none == <<>>
<1>1. {i \in 1..Len(none) : none[i] \in Wide} = {} /\ Len(none) = 0
  OBVIOUS
<1> HIDE DEF none
<1>2. Bytes(none) = 0
  BY <1>1, FS_EmptySet DEF Bytes
<1> QED
  BY <1>2 DEF none

LEMMA BytesOfConcat ==
  ASSUME NEW X, NEW x \in Seq(X), NEW y \in Seq(X)
  PROVE  Bytes(x \o y) = Bytes(x) + Bytes(y) /\ Bytes(y) >= Len(y)
<1> DEFINE Adds(t) == Bytes(x \o t) = Bytes(x) + Bytes(t) /\ Bytes(t) >= Len(t)
           T == {t \in Seq(X) : Adds(t)}
<1>1. <<>> \in T
  <2>1. x \o <<>> = x /\ <<>> \in Seq(X) /\ Len(<<>>) = 0
    OBVIOUS
  <2>2. Bytes(x) \in Nat
    BY BytesOf
  <2> QED
    BY <2>1, <2>2, BytesOfEmpty
<1>2. ASSUME NEW t \in Seq(X), NEW a \in X, t \in T PROVE Append(t, a) \in T
  <2>1. Append(t, a) \in Seq(X) /\ x \o Append(t, a) = Append(x \o t, a) /\ x \o t \in Seq(X)
        /\ Len(Append(t, a)) = Len(t) + 1 /\ Len(t) \in Nat
    OBVIOUS
  <2> DEFINE w == IF a \in Wide THEN 2 ELSE 1
             ta == Append(t, a)
             xt == x \o t
  <2>2. Bytes(ta) = Bytes(t) + w /\ Bytes(Append(xt, a)) = Bytes(xt) + w
    BY <2>1, BytesOfLonger
  <2>3. Bytes(t) \in Nat /\ Bytes(x) \in Nat
    BY BytesOf
  <2>4. Bytes(xt) = Bytes(x) + Bytes(t) /\ Bytes(t) >= Len(t)
    BY <1>2
  <2>5. w \in {1, 2}
    OBVIOUS
  <2>6. x \o ta = Append(xt, a) /\ ta \in Seq(X) /\ Len(ta) = Len(t) + 1 /\ Len(t) \in Nat
    BY <2>1
  <2> HIDE DEF ta, xt, w
  <2>7. Bytes(x \o ta) = Bytes(x) + Bytes(ta) /\ Bytes(ta) >= Len(ta)
    BY <2>2, <2>3, <2>4, <2>5, <2>6
  <2> QED
    BY <2>6, <2>7 DEF ta
<1>3. Seq(X) \subseteq T
  <2> HIDE DEF T
  <2> QED
    BY <1>1, <1>2, SequenceInduction
<1> QED
  BY <1>3

\* The beginning of a text and what comes next.
LEMMA LongerBeginning ==
  ASSUME NEW X, NEW text \in Seq(X), NEW m \in Nat, NEW n \in Nat, m + n <= Len(text)
  PROVE  LET piece == SubSeq(text, m + 1, m + n)
         IN  /\ SubSeq(text, 1, m + n) = SubSeq(text, 1, m) \o piece
             /\ SubSeq(text, 1, m) \in Seq(X) /\ piece \in Seq(X) /\ Len(piece) = n
<1> DEFINE piece == SubSeq(text, m + 1, m + n)
           front == SubSeq(text, 1, m)
           whole == SubSeq(text, 1, m + n)
           k == m + n
<1>1. Len(text) \in Nat /\ k \in Nat /\ k <= Len(text) /\ m <= k /\ k - m = n /\ m <= Len(text)
      /\ 0 \in Nat
  OBVIOUS
<1>2. /\ SubSeq(text, 0 + 1, m) \in Seq(X) /\ Len(SubSeq(text, 0 + 1, m)) = IF 0 <= m THEN m - 0 ELSE 0
      /\ \A i \in 1..(m - 0) : SubSeq(text, 0 + 1, m)[i] = text[0 + i]
  BY <1>1, Between
<1>3. front \in Seq(X) /\ Len(front) = m /\ \A i \in 1..m : front[i] = text[i]
  BY <1>2
<1> HIDE DEF k
<1>4. /\ SubSeq(text, 0 + 1, k) \in Seq(X) /\ Len(SubSeq(text, 0 + 1, k)) = IF 0 <= k THEN k - 0 ELSE 0
      /\ \A i \in 1..(k - 0) : SubSeq(text, 0 + 1, k)[i] = text[0 + i]
  BY <1>1, Between
<1>5. whole \in Seq(X) /\ Len(whole) = k /\ \A i \in 1..k : whole[i] = text[i]
  BY <1>1, <1>4 DEF k
<1>6. /\ SubSeq(text, m + 1, k) \in Seq(X) /\ Len(SubSeq(text, m + 1, k)) = IF m <= k THEN k - m ELSE 0
      /\ \A i \in 1..(k - m) : SubSeq(text, m + 1, k)[i] = text[m + i]
  BY <1>1, Between
<1>7. piece \in Seq(X) /\ Len(piece) = n /\ \A i \in 1..n : piece[i] = text[m + i]
  BY <1>1, <1>6 DEF k
<1> HIDE DEF piece, front, whole
<1> DEFINE both == front \o piece
<1>8. /\ both \in Seq(X) /\ Len(both) = Len(front) + Len(piece)
      /\ \A i \in 1..(Len(front) + Len(piece)) :
           both[i] = IF i <= Len(front) THEN front[i] ELSE piece[i - Len(front)]
  BY <1>3, <1>7, ConcatProperties
<1> HIDE DEF both
<1>9. Len(both) = k /\ Len(whole) = k
  BY <1>3, <1>5, <1>7, <1>8 DEF k
<1>10. ASSUME NEW i \in 1..Len(whole) PROVE whole[i] = both[i]
  <2>1. i \in 1..k /\ i \in 1..(m + n)
    BY <1>9 DEF k
  <2>2. CASE i <= m
    <3>1. i \in 1..m
      BY <2>1, <2>2
    <3> QED
      BY <1>3, <1>5, <1>7, <1>8, <2>1, <2>2, <3>1
  <2>3. CASE ~(i <= m)
    <3>1. i - m \in 1..n /\ m + (i - m) = i
      BY <2>1, <2>3
    <3>2. both[i] = piece[i - m]
      BY <1>3, <1>7, <1>8, <2>1, <2>3
    <3>3. piece[i - m] = text[m + (i - m)]
      BY <1>7, <3>1
    <3>4. whole[i] = text[i]
      BY <1>5, <2>1
    <3> QED
      BY <3>1, <3>2, <3>3, <3>4
  <2> QED
    BY <2>2, <2>3
<1>11. whole = both
  BY <1>5, <1>8, <1>9, <1>10, SeqEqual
<1> QED
  BY <1>3, <1>7, <1>11 DEF both, whole, front, piece

\* What an operation makes has no more bytes than the text and what the operation
\* is counted for: a deleted character counts one byte and frees one or two.
LEMMA MadeBytes ==
  ASSUME NEW X, NEW text \in Seq(X), NEW comps \in OperationsOver(X),
         BaseLen(comps) <= Len(text)
  PROVE  Bytes(ApplyTo(comps, text)) <=
           Bytes(SubSeq(text, 1, BaseLen(comps))) + SumOf(comps, Measure)
<1> DEFINE Fits(s) == BaseLen(s) <= Len(text) =>
                        Bytes(ApplyTo(s, text)) <=
                          Bytes(SubSeq(text, 1, BaseLen(s))) + SumOf(s, Measure)
           T == {s \in OperationsOver(X) : Fits(s)}
<1>1. <<>> \in T
  <2> DEFINE none == <<>>
  <2>1. ApplyTo(none, text) = none /\ BaseLen(none) = 0 /\ none \in OperationsOver(X)
    BY MadeOfEmpty, LengthsOfEmpty, EmptyOperation
  <2>2. SubSeq(text, 1, 0) = none
    OBVIOUS
  <2>3. Bytes(none) = 0 /\ SumOf(none, Measure) = 0
    BY BytesOfEmpty, SumOfEmpty
  <2> HIDE DEF none
  <2>4. Fits(none)
    <3> DEFINE front == SubSeq(text, 1, BaseLen(none))
               sum == SumOf(none, Measure)
    <3>1. front = none /\ sum = 0
      BY <2>1, <2>2, <2>3
    <3> HIDE DEF front, sum
    <3>2. Bytes(ApplyTo(none, text)) <= Bytes(front) + sum
      BY <2>1, <2>3, <3>1
    <3> QED
      BY <3>2 DEF front, sum
  <2> HIDE DEF Fits
  <2>5. none \in T
    BY <2>1, <2>4
  <2> QED
    BY <2>5 DEF none
<1>2. ASSUME NEW s \in OperationsOver(X), Fits(s)
      PROVE  /\ \A n \in Nat : Fits(Append(s, SkipComp(n)))
             /\ \A n \in Nat : Fits(Append(s, DeleteComp(n)))
             /\ \A x \in Seq(X) : Fits(Append(s, InsertComp(x)))
             /\ \A c \in ComponentsOver(X) : c.type \in Stubs => Fits(Append(s, c))
  <2> DEFINE made == ApplyTo(s, text)
             front == SubSeq(text, 1, BaseLen(s))
             sum == SumOf(s, Measure)
  <2>1. BaseLen(s) \in Nat /\ Len(text) \in Nat /\ made \in Seq(X)
    BY LengthsAreNat, MadeIsText
  <2>2. /\ \A n \in Nat : SkipComp(n) \in ComponentsOver(X) /\ DeleteComp(n) \in ComponentsOver(X)
        /\ \A x \in Seq(X) : InsertComp(x) \in ComponentsOver(X)
    BY MadeComponents, EmptySeq
  <2>3. sum \in Int /\ Bytes(made) \in Nat
    <3>1. 0 \in Nat
      OBVIOUS
    <3> QED
      BY <2>1, <2>2, <3>1, SumOfLonger, BytesOf
  <2>4. BaseLen(s) <= Len(text) => Bytes(made) <= Bytes(front) + sum
    BY <1>2
  <2>5. ASSUME NEW n \in Nat, BaseLen(s) + n <= Len(text)
        PROVE  /\ BaseLen(s) <= Len(text)
               /\ SubSeq(text, BaseLen(s) + 1, BaseLen(s) + n) \in Seq(X)
               /\ Bytes(SubSeq(text, 1, BaseLen(s) + n)) =
                    Bytes(front) + Bytes(SubSeq(text, BaseLen(s) + 1, BaseLen(s) + n))
               /\ Bytes(SubSeq(text, BaseLen(s) + 1, BaseLen(s) + n)) >= n
               /\ Bytes(SubSeq(text, BaseLen(s) + 1, BaseLen(s) + n)) \in Nat
               /\ Bytes(front) \in Nat
    <3> DEFINE piece == SubSeq(text, BaseLen(s) + 1, BaseLen(s) + n)
               whole == SubSeq(text, 1, BaseLen(s) + n)
    <3>1. whole = front \o piece /\ front \in Seq(X) /\ piece \in Seq(X) /\ Len(piece) = n
      BY <2>1, <2>5, LongerBeginning, ZenonT(60)
    <3>2. BaseLen(s) <= Len(text)
      BY <2>1, <2>5
    <3> HIDE DEF piece, whole, front
    <3>3. /\ Bytes(front \o piece) = Bytes(front) + Bytes(piece) /\ Bytes(piece) >= Len(piece)
          /\ Bytes(piece) \in Nat /\ Bytes(front) \in Nat
      BY <3>1, BytesOf, BytesOfConcat
    <3> QED
      BY <3>1, <3>2, <3>3 DEF piece, whole
  <2>6. ASSUME NEW n \in Nat, BaseLen(Append(s, SkipComp(n))) <= Len(text)
        PROVE  Bytes(ApplyTo(Append(s, SkipComp(n)), text)) <=
                 Bytes(SubSeq(text, 1, BaseLen(Append(s, SkipComp(n)))))
                   + SumOf(Append(s, SkipComp(n)), Measure)
    <3> DEFINE piece == SubSeq(text, BaseLen(s) + 1, BaseLen(s) + n)
               c == SkipComp(n)
    <3>1. BaseLen(Append(s, c)) = BaseLen(s) + n
      BY LengthsWithComponent
    <3>2. ApplyTo(Append(s, c), text) = made \o piece
      BY <2>6, <3>1, MadeWithSkip
    <3>3. /\ BaseLen(s) <= Len(text) /\ piece \in Seq(X)
          /\ Bytes(SubSeq(text, 1, BaseLen(s) + n)) = Bytes(front) + Bytes(piece)
          /\ Bytes(piece) \in Nat /\ Bytes(front) \in Nat
      BY <2>5, <2>6, <3>1
    <3>4. Measure(c) = 0
      BY DEF Measure, SkipComp
    <3>5. SumOf(Append(s, c), Measure) = sum + Measure(c)
      BY <2>2, SumOfLonger
    <3> HIDE DEF made, piece, front, sum, c
    <3>6. Bytes(made \o piece) = Bytes(made) + Bytes(piece)
      BY <2>1, <3>3, BytesOfConcat
    <3>7. Bytes(ApplyTo(Append(s, c), text)) <=
            Bytes(SubSeq(text, 1, BaseLen(Append(s, c)))) + SumOf(Append(s, c), Measure)
      BY <2>3, <2>4, <3>1, <3>2, <3>3, <3>4, <3>5, <3>6
    <3> QED
      BY <3>7 DEF c
  <2>7. ASSUME NEW n \in Nat, BaseLen(Append(s, DeleteComp(n))) <= Len(text)
        PROVE  Bytes(ApplyTo(Append(s, DeleteComp(n)), text)) <=
                 Bytes(SubSeq(text, 1, BaseLen(Append(s, DeleteComp(n)))))
                   + SumOf(Append(s, DeleteComp(n)), Measure)
    <3> DEFINE piece == SubSeq(text, BaseLen(s) + 1, BaseLen(s) + n)
               c == DeleteComp(n)
    <3>1. BaseLen(Append(s, c)) = BaseLen(s) + n
      BY LengthsWithComponent
    <3>2. ApplyTo(Append(s, c), text) = made
      BY MadeWithDelete
    <3>3. /\ BaseLen(s) <= Len(text) /\ Bytes(piece) >= n
          /\ Bytes(SubSeq(text, 1, BaseLen(s) + n)) = Bytes(front) + Bytes(piece)
          /\ Bytes(piece) \in Nat /\ Bytes(front) \in Nat
      BY <2>5, <2>7, <3>1
    <3>4. Measure(c) = -n
      BY DEF Measure, DeleteComp
    <3>5. SumOf(Append(s, c), Measure) = sum + Measure(c)
      BY <2>2, SumOfLonger
    <3> HIDE DEF made, piece, front, sum, c
    <3>6. Bytes(ApplyTo(Append(s, c), text)) <=
            Bytes(SubSeq(text, 1, BaseLen(Append(s, c)))) + SumOf(Append(s, c), Measure)
      BY <2>3, <2>4, <3>1, <3>2, <3>3, <3>4, <3>5
    <3> QED
      BY <3>6 DEF c
  <2>8. ASSUME NEW x \in Seq(X), BaseLen(Append(s, InsertComp(x))) <= Len(text)
        PROVE  Bytes(ApplyTo(Append(s, InsertComp(x)), text)) <=
                 Bytes(SubSeq(text, 1, BaseLen(Append(s, InsertComp(x)))))
                   + SumOf(Append(s, InsertComp(x)), Measure)
    <3> DEFINE c == InsertComp(x)
    <3>1. BaseLen(Append(s, c)) = BaseLen(s)
      BY LengthsWithComponent
    <3>2. ApplyTo(Append(s, c), text) = made \o x
      BY MadeWithInsert
    <3>3. BaseLen(s) <= Len(text) /\ Bytes(front) \in Nat /\ Bytes(x) \in Nat
      <4>1. front \in Seq(X)
        <5>1. 0 \in Nat /\ BaseLen(s) + 0 <= Len(text)
          BY <2>1, <2>8, <3>1
        <5> QED
          BY <2>1, <5>1, LongerBeginning
      <4> HIDE DEF front
      <4> QED
        BY <2>8, <3>1, <4>1, BytesOf
    <3>4. Measure(c) = Bytes(x)
      BY DEF Measure, InsertComp
    <3>5. SumOf(Append(s, c), Measure) = sum + Measure(c)
      BY <2>2, SumOfLonger
    <3> HIDE DEF made, front, sum, c
    <3>6. Bytes(made \o x) = Bytes(made) + Bytes(x)
      BY <2>1, BytesOfConcat
    <3>7. Bytes(SubSeq(text, 1, BaseLen(Append(s, c)))) = Bytes(front)
      BY <3>1 DEF front
    <3>8. Bytes(ApplyTo(Append(s, c), text)) <=
            Bytes(SubSeq(text, 1, BaseLen(Append(s, c)))) + SumOf(Append(s, c), Measure)
      BY <2>3, <2>4, <3>2, <3>3, <3>4, <3>5, <3>6, <3>7
    <3> QED
      BY <3>8 DEF c
  <2>9. ASSUME NEW c \in ComponentsOver(X), c.type \in Stubs PROVE Fits(Append(s, c))
    <3>1. /\ BaseLen(Append(s, c)) = BaseLen(s)
          /\ ApplyTo(Append(s, c), text) = ApplyTo(s, text)
      BY <2>9, LengthsWithComponent, MadeOfLonger
    <3>2. Measure(c) = 0
      BY <2>9 DEF Measure, Stubs
    <3>3. SumOf(Append(s, c), Measure) = sum
      <4>1. SumOf(Append(s, c), Measure) = sum + Measure(c)
        BY SumOfLonger
      <4> HIDE DEF sum
      <4> QED
        BY <2>3, <3>2, <4>1
    <3> QED
      BY <1>2, <3>1, <3>3
  <2>10. /\ \A n \in Nat : Fits(Append(s, SkipComp(n)))
         /\ \A n \in Nat : Fits(Append(s, DeleteComp(n)))
    BY <2>6, <2>7
  <2>11. \A x \in Seq(X) : Fits(Append(s, InsertComp(x)))
    BY <2>8
  <2> HIDE DEF Fits
  <2> QED
    BY <2>9, <2>10, <2>11
<1> HIDE DEF Fits
<1>3. OneMore(X, T)
  <2>1. /\ \A n \in Nat : SkipComp(n) \in ComponentsOver(X) /\ DeleteComp(n) \in ComponentsOver(X)
        /\ \A x \in Seq(X) : InsertComp(x) \in ComponentsOver(X)
    BY MadeComponents, EmptySeq
  <2>2. \A s \in OperationsOver(X), c \in ComponentsOver(X) : Append(s, c) \in OperationsOver(X)
    BY Longer
  <2> QED
    BY <1>2, <2>1, <2>2 DEF OneMore
<1>4. OperationsOver(X) \subseteq T
  <2> HIDE DEF T
  <2> QED
    BY <1>1, <1>3, OperationInduction
<1> QED
  BY <1>4 DEF Fits

\* The size of the operations a composition can be.
LEMMA SizeOfText ==
  ASSUME NEW X
  PROVE  /\ ot_size(<<>>) = Bytes(<<>>) % UintRange
         /\ \A x \in Seq(X) : ot_size(Append(<<>>, InsertComp(x))) = Bytes(x) % UintRange
<1> DEFINE none == <<>>
<1>1. none \in OperationsOver(X) /\ SumOf(none, Measure) = 0 /\ Bytes(none) = 0
  BY EmptyOperation, SumOfEmpty, BytesOfEmpty
<1> HIDE DEF none
<1>2. ot_size(none) = Bytes(none) % UintRange
  BY <1>1 DEF ot_size
<1>3. ASSUME NEW x \in Seq(X)
      PROVE  ot_size(Append(none, InsertComp(x))) = Bytes(x) % UintRange
  <2> DEFINE c == InsertComp(x)
  <2>1. c \in ComponentsOver(X) /\ c.type = "insert" /\ c.text = x
    BY DEF ComponentsOver, InsertComp
  <2>2. Measure(c) = Bytes(x) /\ Bytes(x) \in Nat
    BY <2>1, BytesOf DEF Measure
  <2> HIDE DEF c
  <2>3. SumOf(Append(none, c), Measure) = SumOf(none, Measure) + Measure(c)
    BY <1>1, <2>1, SumOfLonger
  <2>4. SumOf(Append(none, c), Measure) = Bytes(x)
    BY <1>1, <2>2, <2>3
  <2> QED
    BY <2>4 DEF ot_size, c
<1> QED
  BY <1>2, <1>3 DEF none
-----------------------------------------------------------------------------
(***************************************************************************)
(* Documents of operations that ot_xform and ot_compose can pass.          *)
(***************************************************************************)
CleanDoc(X, d) ==
  /\ d.history \in Seq(ToSet(d.history))
  /\ d.history # <<>>
  /\ d.composed.hash = Last(d.history).hash
  /\ CleanOver(X, d.composed)
  /\ \A i \in 1..Len(d.history) : CleanOver(X, d.history[i])

\* What ot_doc_compose_after composes of operations that can be passed can be
\* passed: none of its calls of ot_compose is one that does not end.
LEMMA ComposeNextIsClean ==
  ASSUME NEW X, NEW x, x # NULL => CleanOver(X, x), NEW y, CleanOver(X, y),
         ComposeNext(x, y) # NULL
  PROVE  CleanOver(X, ComposeNext(x, y))
<1>1. x # NULL /\ ComposeNext(x, y) = ot_compose(x, y)
  BY DEF ComposeNext
<1> QED
  BY <1>1, ComposeOfClean

LEMMA SinceIsClean ==
  ASSUME NEW X, NEW d, CleanDoc(X, d), NEW after, after # d.composed.hash,
         ot_doc_compose_after(d, after) # NULL
  PROVE  CleanOver(X, ot_doc_compose_after(d, after))
<1> DEFINE h == d.history
           N == Len(h)
           start == Start(d, after)
           P == Positions(d, after)
<1>1. /\ h \in Seq(ToSet(h)) /\ N \in Nat /\ N # 0
      /\ \A i \in 1..N : CleanOver(X, h[i])
  <2>1. h \in Seq(ToSet(h)) /\ h # <<>>
    BY DEF CleanDoc
  <2>2. N \in Nat /\ N # 0
    <3> HIDE DEF h
    <3> QED
      BY <2>1
  <2> QED
    BY <2>1, <2>2 DEF CleanDoc
<1>2. h # <<>> /\ d.composed.hash = h[N].hash
  BY DEF CleanDoc, Last
<1>3. /\ ~(after # ZeroHash /\ P = {})
      /\ ot_doc_compose_after(d, after) = ComposeFrom(h, start)
  BY <1>2 DEF ot_doc_compose_after
<1>4. start \in 1..N
  <2>1. CASE after = ZeroHash
    <3>1. start = 1
      BY <2>1 DEF Start
    <3> QED
      BY <1>1, <3>1
  <2>2. CASE after # ZeroHash
    <3>1. P \in SUBSET (1..N) /\ P # {} /\ \A i \in P : h[i].hash = after
      BY <1>3, <2>2 DEF Positions
    <3>2. start = Newest(P) + 1
      BY <2>2 DEF Start
    <3> HIDE DEF P, start, N, h
    <3>3. Newest(P) \in P
      BY <1>1, <3>1, NewestPosition
    <3>4. Newest(P) # N /\ Newest(P) \in 1..N
      BY <1>2, <3>1, <3>3
    <3> QED
      BY <1>1, <3>2, <3>4
  <2> QED
    BY <2>1, <2>2
<1> HIDE DEF start, P
<1> DEFINE M == N - start
<1>5. M \in Nat
  BY <1>1, <1>4
<1>6. PICK run : SinceRun(h, start, M, run) /\ ComposeFrom(h, start) = run[M]
  BY <1>5, SinceIsRun
<1> HIDE DEF h, N, M
<1>7. run[0] = ot_dup_op(h[start]) /\ \A k \in 1..M : run[k] = ComposeNext(run[k - 1], h[start + k])
  BY <1>5, <1>6, SinceRunSteps
<1> DEFINE Fine(x) == x # NULL => CleanOver(X, x)
           T == {k \in Nat : k <= M => Fine(run[k])}
<1>8. 0 \in T
  <2>1. CleanOver(X, h[start])
    BY <1>1, <1>4
  <2>2. CleanOver(X, ot_dup_op(h[start]))
    BY <2>1, CopyOfClean
  <2> QED
    BY <1>7, <2>2
<1>9. ASSUME NEW k \in Nat, k \in T PROVE k + 1 \in T
  <2> SUFFICES ASSUME k + 1 <= M PROVE Fine(run[k + 1])
    OBVIOUS
  <2>1. /\ k + 1 \in 1..M /\ (k + 1) - 1 = k /\ k <= M
        /\ start + (k + 1) \in 1..N
    BY <1>1, <1>4, <1>5 DEF M
  <2>2. Fine(run[k])
    BY <1>9, <2>1
  <2>3. run[k + 1] = ComposeNext(run[k], h[start + (k + 1)])
    BY <1>7, <2>1
  <2>4. CleanOver(X, h[start + (k + 1)])
    BY <1>1, <2>1
  <2> DEFINE x == run[k]
             y == h[start + (k + 1)]
  <2>5. run[k + 1] = ComposeNext(x, y) /\ (x # NULL => CleanOver(X, x)) /\ CleanOver(X, y)
    BY <2>2, <2>3, <2>4
  <2> HIDE DEF x, y
  <2> QED
    BY <2>5, ComposeNextIsClean
<1>10. Nat \subseteq T
  <2> HIDE DEF T
  <2> QED
    BY <1>8, <1>9, SetInduction
<1>11. Fine(run[M])
  BY <1>5, <1>10
<1> QED
  BY <1>3, <1>6, <1>11
-----------------------------------------------------------------------------
(***************************************************************************)
(* A history whose operations hold the hash of the text they lead to, each *)
(* spanning the text before.  Composing what follows one of these texts,   *)
(* found by its hash, cannot fail and spans that text, also when the text  *)
(* has come back and another version with it is found.                     *)
(***************************************************************************)
TextIn(history, n) == IF n = 0 THEN <<>> ELSE history[n].hash[1]

Replays(X, history) ==
  \A n \in 1..Len(history) :
    /\ history[n] # NULL /\ CleanOver(X, history[n])
    /\ TextIn(history, n) \in Seq(X)
    /\ history[n].hash = HashOf(TextIn(history, n))
    /\ BaseLen(history[n].comps) = Len(TextIn(history, n - 1))
    /\ OutLen(history[n].comps) = Len(TextIn(history, n))
    /\ ApplyTo(history[n].comps, TextIn(history, n - 1)) = TextIn(history, n)

HashIn(history, n) == IF n = 0 THEN ZeroHash ELSE history[n].hash

Spans(X, op, from, to) ==
  op # NULL /\ CleanOver(X, op) /\ BaseLen(op.comps) = from /\ OutLen(op.comps) = to

LEMMA ComposeNextSpans ==
  ASSUME NEW X, NEW x, NEW y, NEW a, NEW b, NEW c, Spans(X, x, a, b), Spans(X, y, b, c)
  PROVE  Spans(X, ComposeNext(x, y), a, c)
<1>1. x # NULL /\ CleanOver(X, x) /\ CleanOver(X, y) /\ OutLen(x.comps) = BaseLen(y.comps)
  BY DEF Spans
<1>2. ComposeNext(x, y) = ot_compose(x, y)
  BY <1>1 DEF ComposeNext
<1>3. /\ ot_compose(x, y) # NULL
      /\ CleanOver(X, ot_compose(x, y))
      /\ InSequence(X, x.comps, y.comps, ot_compose(x, y).comps)
  BY <1>1, ComposeOfClean
<1> QED
  BY <1>2, <1>3 DEF InSequence, Spans

LEMMA CopySpans ==
  ASSUME NEW X, NEW op, NEW a, NEW b, Spans(X, op, a, b)
  PROVE  Spans(X, ot_dup_op(op), a, b)
<1>1. CleanOver(X, op)
  BY DEF Spans
<1>2. /\ ot_dup_op(op) # NULL /\ CleanOver(X, ot_dup_op(op))
      /\ Alike(X, ot_dup_op(op).comps, op.comps)
  BY <1>1, CopyOfClean
<1> QED
  BY <1>2 DEF Spans, Alike

\* Where it starts: behind the newest version with the text that was asked for.
LEMMA SinceStarts ==
  ASSUME NEW X, NEW d, CleanDoc(X, d), Replays(X, d.history),
         NEW n \in 0..Len(d.history), HashIn(d.history, n) # d.composed.hash,
         NEW start, start = Start(d, HashIn(d.history, n))
  PROVE  /\ start \in 1..Len(d.history) /\ n <= start - 1
         /\ TextIn(d.history, start - 1) = TextIn(d.history, n)
         /\ ot_doc_compose_after(d, HashIn(d.history, n)) = ComposeFrom(d.history, start)
<1> DEFINE h == d.history
           N == Len(h)
           after == HashIn(h, n)
           P == Positions(d, after)
<1>1. h \in Seq(ToSet(h)) /\ N \in Nat /\ N # 0 /\ h # <<>> /\ d.composed.hash = h[N].hash
  <2>1. h \in Seq(ToSet(h)) /\ h # <<>> /\ d.composed.hash = Last(h).hash
    BY DEF CleanDoc
  <2>2. N \in Nat /\ N # 0
    <3> HIDE DEF h
    <3> QED
      BY <2>1
  <2> QED
    BY <2>1, <2>2 DEF Last
<1>2. \A i \in 1..N : h[i].hash = HashOf(TextIn(h, i))
  BY DEF Replays
<1>3. CASE n = 0
  <2>1. after = ZeroHash
    BY <1>3 DEF HashIn
  <2>2. start = 1 /\ ot_doc_compose_after(d, after) = ComposeFrom(h, start)
    BY <1>1, <2>1 DEF Start, ot_doc_compose_after
  <2>3. start \in 1..N /\ start - 1 = n
    BY <1>1, <1>3, <2>2
  <2> QED
    BY <1>3, <2>2, <2>3
<1>4. CASE n # 0
  <2> HIDE DEF N
  <2>1. n \in 1..N
    BY <1>1, <1>4 DEF N
  <2>2. after = h[n].hash /\ after = HashOf(TextIn(h, n))
    BY <1>2, <1>4, <2>1 DEF HashIn
  <2>3. after # ZeroHash
    BY <2>2, NoTextHashesToZero
  <2>4. P \in SUBSET (1..N) /\ n \in P /\ \A i \in P : h[i].hash = after
    BY <2>1, <2>2 DEF Positions, N
  <2>5. start = Newest(P) + 1 /\ ot_doc_compose_after(d, after) = ComposeFrom(h, start)
    BY <1>1, <2>3, <2>4 DEF Start, ot_doc_compose_after
  <2> DEFINE p == Newest(P)
  <2>6. p \in P /\ n <= p
    <3> HIDE DEF P, p
    <3>1. P # {}
      BY <2>4
    <3> QED
      BY <1>1, <2>4, <3>1, NewestPosition DEF p
  <2> HIDE DEF p, P, after
  <2>7. p \in 1..N /\ h[p].hash = after /\ p # N
    BY <1>1, <2>4, <2>6 DEF after
  <2>8. HashOf(TextIn(h, p)) = HashOf(TextIn(h, n))
    BY <1>2, <2>2, <2>7
  <2>9. TextIn(h, p) = TextIn(h, n)
    BY <2>8 DEF HashOf
  <2>10. start = p + 1
    BY <2>5 DEF p
  <2>11. start \in 1..N /\ start - 1 = p
    BY <1>1, <2>7, <2>10
  <2> QED
    BY <2>5, <2>6, <2>9, <2>11 DEF after, N
<1> QED
  BY <1>3, <1>4

LEMMA SinceSpans ==
  ASSUME NEW X, NEW d, CleanDoc(X, d), Replays(X, d.history),
         NEW n \in 0..Len(d.history), HashIn(d.history, n) # d.composed.hash
  PROVE  Spans(X, ot_doc_compose_after(d, HashIn(d.history, n)),
               Len(TextIn(d.history, n)), Len(TextIn(d.history, Len(d.history))))
<1> DEFINE h == d.history
           N == Len(h)
           after == HashIn(h, n)
           start == Start(d, after)
           L(i) == Len(TextIn(h, i))
<1>1. h \in Seq(ToSet(h)) /\ N \in Nat /\ N # 0 /\ h # <<>> /\ d.composed.hash = h[N].hash
  <2>1. h \in Seq(ToSet(h)) /\ h # <<>> /\ d.composed.hash = Last(h).hash
    BY DEF CleanDoc
  <2>2. N \in Nat /\ N # 0
    <3> HIDE DEF h
    <3> QED
      BY <2>1
  <2> QED
    BY <2>1, <2>2 DEF Last
<1>2. \A i \in 1..N : Spans(X, h[i], L(i - 1), L(i)) /\ h[i].hash = HashOf(TextIn(h, i))
  <2>1. \A i \in 1..N : /\ h[i] # NULL /\ CleanOver(X, h[i]) /\ h[i].hash = HashOf(TextIn(h, i))
                        /\ BaseLen(h[i].comps) = L(i - 1) /\ OutLen(h[i].comps) = L(i)
    BY DEF Replays
  <2> HIDE DEF L
  <2> QED
    BY <2>1 DEF Spans
<1>3. /\ start \in 1..N /\ L(start - 1) = L(n)
      /\ ot_doc_compose_after(d, after) = ComposeFrom(h, start)
  BY SinceStarts
<1> HIDE DEF start, after
<1> DEFINE M == N - start
<1>4. M \in Nat
  BY <1>1, <1>3
<1>5. PICK run : SinceRun(h, start, M, run) /\ ComposeFrom(h, start) = run[M]
  BY <1>4, SinceIsRun
<1> HIDE DEF h, N, M, L
<1>6. run[0] = ot_dup_op(h[start]) /\ \A k \in 1..M : run[k] = ComposeNext(run[k - 1], h[start + k])
  BY <1>4, <1>5, SinceRunSteps
<1> DEFINE T == {k \in Nat : k <= M => Spans(X, run[k], L(start - 1), L(start + k))}
<1>7. 0 \in T
  <2>1. start + 0 = start
    BY <1>3
  <2>2. Spans(X, h[start], L(start - 1), L(start))
    BY <1>2, <1>3
  <2>3. Spans(X, ot_dup_op(h[start]), L(start - 1), L(start))
    BY <2>2, CopySpans
  <2> QED
    BY <1>6, <2>1, <2>3
<1>8. ASSUME NEW k \in Nat, k \in T PROVE k + 1 \in T
  <2> SUFFICES ASSUME k + 1 <= M PROVE Spans(X, run[k + 1], L(start - 1), L(start + (k + 1)))
    OBVIOUS
  <2>1. /\ k + 1 \in 1..M /\ (k + 1) - 1 = k /\ k <= M
        /\ start + (k + 1) \in 1..N /\ (start + (k + 1)) - 1 = start + k
    BY <1>1, <1>3, <1>4 DEF M
  <2>2. Spans(X, run[k], L(start - 1), L(start + k))
    BY <1>8, <2>1
  <2>3. Spans(X, h[start + (k + 1)], L(start + k), L(start + (k + 1)))
    BY <1>2, <2>1
  <2>4. run[k + 1] = ComposeNext(run[k], h[start + (k + 1)])
    BY <1>6, <2>1
  <2> QED
    BY <2>2, <2>3, <2>4, ComposeNextSpans
<1>9. Nat \subseteq T
  <2> HIDE DEF T
  <2> QED
    BY <1>7, <1>8, SetInduction
<1>10. Spans(X, run[M], L(start - 1), L(start + M))
  BY <1>4, <1>9
<1>11. start + M = N
  BY <1>1, <1>3 DEF M
<1> QED
  BY <1>3, <1>5, <1>10, <1>11 DEF h, N, L, after
=============================================================================
