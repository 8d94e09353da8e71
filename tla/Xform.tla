------------------------------- MODULE Xform -------------------------------
(***************************************************************************)
(* ot_xform (xform.c): given two operations on the same text, the two      *)
(* operations that each do, after the other one, what the first did.       *)
(*                                                                         *)
(* One turn of the loop is XformStep, on a record of the loop's locals;    *)
(* XformComps runs it to the end and Loops takes it step by step.          *)
(***************************************************************************)
EXTENDS Ops

XformStart(op1, op2) ==
  [it1 |-> ot_iter_next(op1), it2 |-> ot_iter_next(op2),
   prime1 |-> <<>>, prime2 |-> <<>>, failed |-> FALSE]

XformRunning(s) == ~s.failed /\ (s.it1.next \/ s.it2.next)

(***************************************************************************)
(* The insert of one operation is inserted by its prime and skipped by the *)
(* other prime, whatever the other operation does there.  It is always     *)
(* taken whole; Aligned in Loops has its offset at 0 there.                *)
(***************************************************************************)
InsertFirst(op1, s) ==
  [s EXCEPT !.prime1 = ot_insert(@, LeftText(op1, s.it1)),
            !.prime2 = ot_skip(@, Left(op1, s.it1)),
            !.it1 = ot_iter_skip(op1, @, Left(op1, s.it1))]

InsertSecond(op2, s) ==
  [s EXCEPT !.prime1 = ot_skip(@, Left(op2, s.it2)),
            !.prime2 = ot_insert(@, LeftText(op2, s.it2)),
            !.it2 = ot_iter_skip(op2, @, Left(op2, s.it2))]

(***************************************************************************)
(* Otherwise both walk over the same characters of the common text, as     *)
(* many as the shorter of what is left of the two components.              *)
(***************************************************************************)
\* Mutant: the second component is not looked at.
CommonOfFirst(op1, op2, s) == Left(op1, s.it1)

Common(op1, op2, s) == Least(Left(op1, s.it1), Left(op2, s.it2))

Walk(op1, op2, s, prime1, prime2, n) ==
  [s EXCEPT !.it1 = ot_iter_skip(op1, @, n), !.it2 = ot_iter_skip(op2, @, n),
            !.prime1 = prime1, !.prime2 = prime2]

\* Mutant: a delete over a skip is lost.
OverLosesDelete(op1, op2, kinds, s, n) ==
  IF "skip" \in {kinds[1], kinds[2]}
    THEN Walk(op1, op2, s, ot_skip(s.prime1, n), ot_skip(s.prime2, n), n)
    ELSE Walk(op1, op2, s, s.prime1, s.prime2, n)

Over(op1, op2, kinds, s, n) ==
  CASE kinds = <<"skip", "skip">> ->
         Walk(op1, op2, s, ot_skip(s.prime1, n), ot_skip(s.prime2, n), n)
    [] kinds = <<"skip", "delete">> ->
         Walk(op1, op2, s, s.prime1, ot_delete(s.prime2, n), n)
    [] kinds = <<"delete", "skip">> ->
         Walk(op1, op2, s, ot_delete(s.prime1, n), s.prime2, n)
    [] kinds = <<"delete", "delete">> ->
         Walk(op1, op2, s, s.prime1, s.prime2, n)

(***************************************************************************)
(* One turn of the loop.  When both insert at the same place the insert of *)
(* op1 goes first; the operation that ends early may only meet inserts.    *)
(* A turn that meets an element before either operation has ended changes  *)
(* nothing, and one that meets a component of size zero moves no iterator, *)
(* since a skip of zero leaves it alone: the loop does not end.            *)
(***************************************************************************)
MeetsStub(kinds) ==
  "end" \notin {kinds[1], kinds[2]} /\ {kinds[1], kinds[2]} \cap Stubs # {}

XformTurn(op1, op2, kinds, s) ==
  CASE MeetsStub(kinds) -> s
    [] kinds[1] = "insert" /\ kinds[2] \notin Stubs -> InsertFirst(op1, s)
    [] kinds[1] \notin Stubs \cup {"insert"} /\ kinds[2] = "insert" -> InsertSecond(op2, s)
    [] {kinds[1], kinds[2]} \subseteq {"skip", "delete"} ->
         Over(op1, op2, kinds, s, Common(op1, op2, s))
    [] OTHER -> [s EXCEPT !.failed = TRUE]

XformStep(op1, op2, s) ==
  XformTurn(op1, op2, <<Kind(op1, s.it1), Kind(op2, s.it2)>>, s)

(***************************************************************************)
(* The whole loop.  Every turn finishes a component, fails, or is the      *)
(* first of endless turns that move neither iterator, so Len(op1) +        *)
(* Len(op2) turns are enough (Loops checks it).                            *)
(***************************************************************************)
XformComps(op1, op2) ==
  LET turns == Len(op1) + Len(op2)
      run[k \in 0..turns] ==
        IF k = 0 THEN XformStart(op1, op2)
        ELSE LET s == run[k - 1]
             IN  IF XformRunning(s) THEN XformStep(op1, op2, s) ELSE s
  IN  run[turns]

(***************************************************************************)
(* ot_xform itself, on operations: the pair (op1_prime, op2_prime), both   *)
(* NULL when the operations do not span the same text.  A prime keeps its  *)
(* author, has the hash of the other operation as its parent, and no hash. *)
(***************************************************************************)
Primes(op1, op2, s) ==
  IF s.failed THEN <<NULL, NULL>>
  ELSE <<Op(op1.client_id, op2.hash, ZeroHash, s.prime1),
         Op(op2.client_id, op1.hash, ZeroHash, s.prime2)>>

ot_xform(op1, op2) == Primes(op1, op2, XformComps(op1.comps, op2.comps))
=============================================================================
